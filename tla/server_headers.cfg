SPECIFICATION MonitoredSpec
CONSTANTS
  Absent = Absent
  Role = "server"
  MaxStreamId = 5
  MaxWindow = 3
  DefaultWindow = 2
  ConnectionWindow = 2
  LocalWindow = 1
  MaxConcurrent = 1
  ConnectProtocol = FALSE
  BufferCapacity = 2
  ClosedCapacity = 3
  MaxFragment = 2
  LengthCap = 0
  RemoteStreamLimit = 2
  Kinds = {"GET", "CONNECT"}
  Lengths <- NoLengths
  Malformed = TRUE
  Trailers = TRUE
  WindowSettings = {2}
  StreamLimits = {2}
  ConnectSettings = {FALSE}
  Blocks <- MCBlocks
  PeerSettings <- MCPeerSettings
  Fragments = {1}
  Requests = {}
  Responses = {"1xx", "200"}
  AppSizes = {}
  PeerSizes = {}
  Pads = {0}
  Credits = {}
  Increments = {}
  Codes = {"CANCEL"}
  BadFrames = {}
  Goaways = {"sent", "received"}
  Pings = {}
  MaxPendingSettings = 0
INVARIANTS
  ConcurrencyBound
  GoawayCoversStreams
PROPERTIES
  TunnelCarriesData
  NothingAfterFinish
VIEW View
