SPECIFICATION MonitoredSpec
CONSTANTS
  Absent = Absent
  Role = "server"
  MaxStreamId = 3
  MaxWindow = 3
  DefaultWindow = 2
  ConnectionWindow = 2
  LocalWindow = 2
  MaxConcurrent = 2
  ConnectProtocol = FALSE
  BufferCapacity = 2
  ClosedCapacity = 1
  MaxFragment = 0
  LengthCap = 2
  RemoteStreamLimit = 2
  Kinds = {"GET"}
  Lengths <- ZeroOrTwo
  Malformed = FALSE
  Trailers = FALSE
  WindowSettings = {2}
  StreamLimits = {2}
  ConnectSettings = {FALSE}
  Blocks <- MCBlocks
  PeerSettings <- MCPeerSettings
  Fragments = {}
  Requests = {}
  Responses = {"200"}
  AppSizes = {}
  PeerSizes = {0, 1, 2}
  Pads = {0}
  Credits = {1}
  Increments = {}
  Codes = {"CANCEL"}
  BadFrames = {"PRIORITY"}
  Goaways = {"sent"}
  Pings = {}
  MaxPendingSettings = 0
INVARIANTS
  WindowAccounting
  TableConsistent
  LifecycleReported
PROPERTIES
  NoStreamAfterGoaway
VIEW View
