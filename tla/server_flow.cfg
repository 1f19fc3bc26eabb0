SPECIFICATION MonitoredSpec
CONSTANTS
  Absent = Absent
  Role = "server"
  MaxStreamId = 3
  MaxWindow = 3
  DefaultWindow = 2
  ConnectionWindow = 2
  LocalWindow = 1
  MaxConcurrent = 2
  ConnectProtocol = FALSE
  BufferCapacity = 2
  ClosedCapacity = 2
  MaxFragment = 0
  LengthCap = 0
  RemoteStreamLimit = 2
  Kinds = {"GET"}
  Lengths <- NoLengths
  Malformed = FALSE
  Trailers = FALSE
  WindowSettings = {0, 2}
  StreamLimits = {2}
  ConnectSettings = {FALSE}
  Blocks <- MCBlocks
  PeerSettings <- MCPeerSettings
  Fragments = {}
  Requests = {}
  Responses = {"200"}
  AppSizes = {0, 1, 2}
  PeerSizes = {}
  Pads = {0}
  Credits = {}
  Increments = {1, 2}
  Codes = {"CANCEL"}
  BadFrames = {}
  Goaways = {}
  Pings = {}
  MaxPendingSettings = 0
INVARIANTS
  TypeOK
  QueuedDataSendable
  NoStalledData
  WindowsInRange
  StateMatchesWire
  SettingsComeFirst
PROPERTIES
  NoFramesAfterEnd
VIEW View
