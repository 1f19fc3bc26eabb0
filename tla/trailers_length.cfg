SPECIFICATION MonitoredSpec
CONSTANTS
  Absent = Absent
  Role = "server"
  MaxStreamId = 3
  MaxWindow = 3
  DefaultWindow = 2
  ConnectionWindow = 2
  LocalWindow = 1
  MaxConcurrent = 2
  ConnectProtocol = FALSE
  BufferCapacity = 2
  ClosedCapacity = 2
  MaxFragment = 0
  LengthCap = 2
  RemoteStreamLimit = 2
  Kinds = {"GET"}
  Lengths <- ZeroOrTwo
  Malformed = FALSE
  Trailers = TRUE
  WindowSettings = {2}
  StreamLimits = {2}
  ConnectSettings = {FALSE}
  Blocks <- MCBlocks
  PeerSettings <- MCPeerSettings
  Fragments = {}
  Requests = {}
  Responses = {}
  AppSizes = {}
  PeerSizes = {1}
  Pads = {0}
  Credits = {}
  Increments = {}
  Codes = {"CANCEL"}
  BadFrames = {}
  Goaways = {}
  Pings = {}
  MaxPendingSettings = 0
PROPERTIES
  ContentLengthHolds
VIEW View
