SPECIFICATION FairSpec
CONSTANTS
  MaxValue = 5
  MaxStreamsLimit = 4
  RecordMax = 6
  Absent = Absent
  Requests <- MCRequests
  ServerSettings <- MCSettings
  ClientSettings <- MCSettings
  Plans <- MCSendPlans
  Tasks = {1, 2, 3, 4}
  Ids = {0, 1, 2, 3, 4, 6}
  Capacity = 1
  Window = 2
  SlowSocket = TRUE
  Credit = 1
INVARIANTS
  CapsulesIntact
CHECK_DEADLOCK FALSE
