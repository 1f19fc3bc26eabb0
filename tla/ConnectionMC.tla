---------------------------- MODULE ConnectionMC ----------------------------
(***************************************************************************)
(* Values for model checking one endpoint.  The runs share this module and *)
(* differ in what their configuration lets the application and peer do.    *)
(***************************************************************************)
EXTENDS ConnectionMonitor

CONSTANTS
  Kinds,       \* :method or :status of the peer's well-formed header blocks
  Lengths,     \* their content-length
  Malformed,   \* whether the peer also sends invalid blocks
  Trailers,    \* whether the peer also sends trailers
  WindowSettings, StreamLimits, ConnectSettings

MCBlocks ==
  [pseudo : {TRUE}, valid : {TRUE}, kind : Kinds, length : Lengths]
  \cup [pseudo : {FALSE}, valid : {TRUE}, kind : IF Trailers THEN {"GET"} ELSE {},
        length : {NoLength}]
  \cup [pseudo : {TRUE}, valid : {FALSE}, kind : IF Malformed THEN {"GET"} ELSE {},
        length : {NoLength}]

MCPeerSettings ==
  [initial_window_size     : WindowSettings,
   max_concurrent_streams  : StreamLimits,
   enable_connect_protocol : ConnectSettings]

NoLengths == {NoLength}
ZeroOrTwo == {NoLength, 0, 2}

(* No operation reads what the last step wrote or reported, so states that *)
(* differ in nothing else have the same future.                            *)
View == <<state, handshake, remote_settings, windows, table, identifiers, header_block,
          failed, ended, finished, seen, owed>>
=============================================================================
