SPECIFICATION MonitoredSpec
CONSTANTS
  Absent = Absent
  Role = "client"
  MaxStreamId = 1
  MaxWindow = 3
  DefaultWindow = 2
  ConnectionWindow = 3
  LocalWindow = 1
  MaxConcurrent = 2
  ConnectProtocol = FALSE
  BufferCapacity = 2
  ClosedCapacity = 2
  MaxFragment = 1
  LengthCap = 2
  RemoteStreamLimit = 2
  Kinds = {"1xx", "200", "204"}
  Lengths <- ZeroOrTwo
  Malformed = FALSE
  Trailers = FALSE
  WindowSettings = {2}
  StreamLimits = {2}
  ConnectSettings = {FALSE, TRUE}
  Blocks <- MCBlocks
  PeerSettings <- MCPeerSettings
  Fragments = {1}
  Requests = {"GET", "HEAD", "CONNECT", "EXTENDED CONNECT"}
  Responses = {}
  AppSizes = {1}
  PeerSizes = {0, 1}
  Pads = {0}
  Credits = {}
  Increments = {}
  Codes = {"CANCEL"}
  BadFrames = {"PRIORITY"}
  Goaways = {}
  Pings = {FALSE, TRUE}
  MaxPendingSettings = 1
INVARIANTS
  LiveStreams
PROPERTIES
  ContentLengthHolds
VIEW View
