SPECIFICATION FairSpec
CONSTANTS
  MaxValue = 5
  MaxStreamsLimit = 4
  RecordMax = 6
  Absent = Absent
  Requests <- MCRequests
  ServerSettings <- MCSettings
  ClientSettings <- MCSettings
  Plans <- MCPlans
  Tasks = {1, 2, 3, 4}
  Ids = {0, 1, 2, 3, 4, 6}
  Capacity = 1
  Window = 2
  SlowSocket = FALSE
  Credit = 1
INVARIANTS
  TypeOK
  BooksAgree
  Replenished
  CapsulesIntact
  PeersAgree
  CloseDelivered
PROPERTIES
  CommandsAnswered
  NotStarved
CHECK_DEADLOCK FALSE
