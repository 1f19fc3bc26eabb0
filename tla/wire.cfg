\* Every lane of the wire stack, one direction, octet by octet.
SPECIFICATION Spec
CONSTANTS
  MIN_MAX_FRAME_SIZE = 90
  MAX_MAX_FRAME_SIZE = 1000
  HUFFMAN_TABLE <- Codes
  STATIC_TABLE <- Entries
  IntegerCap = 1048576
  MAX_CLOSE_REASON_LEN = 2
  MaxFragments = 200
  Setups <- MCSetups
  HeaderLists <- Lists
  TableSizes <- MCTableSizes
  Frames <- MCFrames
  ForeignFrames <- MCForeignFrames
  Capsules <- MCCapsules
  ForeignCapsules <- MCForeignCapsules
INVARIANTS
  TypeOK
  FramesDelivered
  HeadersDelivered
  TablesAgree
  SettingsDelivered
  CapsulesDelivered
CHECK_DEADLOCK FALSE
