SPECIFICATION MonitoredSpec
CONSTANTS
  Absent = Absent
  Role = "client"
  MaxStreamId = 3
  MaxWindow = 3
  DefaultWindow = 2
  ConnectionWindow = 2
  LocalWindow = 1
  MaxConcurrent = 2
  ConnectProtocol = FALSE
  BufferCapacity = 2
  ClosedCapacity = 2
  MaxFragment = 0
  LengthCap = 0
  RemoteStreamLimit = 2
  Kinds = {"200"}
  Lengths <- NoLengths
  Malformed = FALSE
  Trailers = TRUE
  WindowSettings = {2}
  StreamLimits = {2}
  ConnectSettings = {FALSE}
  Blocks <- MCBlocks
  PeerSettings <- MCPeerSettings
  Fragments = {}
  Requests = {"GET", "CONNECT"}
  Responses = {}
  AppSizes = {1}
  PeerSizes = {1}
  Pads = {0}
  Credits = {}
  Increments = {}
  Codes = {"CANCEL"}
  BadFrames = {"PRIORITY"}
  Goaways = {"received"}
  Pings = {}
  MaxPendingSettings = 0
PROPERTIES
  NoRequestAfterGoaway
VIEW View
