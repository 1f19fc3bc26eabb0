SPECIFICATION FairSpec
CONSTANTS
  MaxValue = 2
  MaxStreamsLimit = 2
  RecordMax = 5
  Absent = Absent
  ServerSettings <- MCServerSettings
  ClientSettings <- MCClientSettings
  Inits <- MCInits
  Ids = {0, 1, 2, 3, 4}
  Plans <- MCPlans
  Sizes = {0, 1}
  Growth = {1}
  Extras <- MCExtras
  ResetFresh = FALSE
  SendEmpty = FALSE
  MaxWire = 3
  MaxEvents = 3
  Credit = 1
  Header = {0, 1}
INVARIANTS
  TypeOK
  NoSessionError
  CreditAgreement
  StreamAgreement
  OpenedFirst
PROPERTIES
  ImplementsPipe
  EndsSeen
  StopAnswered
CHECK_DEADLOCK FALSE
