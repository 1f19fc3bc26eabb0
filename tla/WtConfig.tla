----------------------------- MODULE WtConfig ------------------------------
(***************************************************************************)
(* How the limits of a WebTransport session are agreed on: WtConfig of     *)
(* src/src/webtransport.rs, the WebTransport-Init header field of          *)
(* src/src/webtransport/init.rs, and the answer of WtServerRequest::accept *)
(* in src/crates/tokio-http2/src/webtransport.rs.                          *)
(***************************************************************************)
EXTENDS Integers, Sequences

CONSTANTS
  Absent         \* an optional value that is not there

(* WtConfig::peer_default: a limit that is not announced is zero.          *)
PeerDefault ==
  [max_data |-> 0, bidi_local |-> 0, bidi_remote |-> 0, uni |-> 0,
   max_streams |-> [b \in BOOLEAN |-> 0]]

(* overlay_settings: settings is a record with the fields of a             *)
(* configuration, each of which may be absent.                             *)
OverlaySettings(config, settings) ==
  LET Or(v, old) == IF v = Absent THEN old ELSE v
  IN  [max_data    |-> Or(settings.max_data, config.max_data),
       bidi_local  |-> Or(settings.bidi_local, config.bidi_local),
       bidi_remote |-> Or(settings.bidi_remote, config.bidi_remote),
       uni         |-> Or(settings.uni, config.uni),
       max_streams |-> [b \in BOOLEAN |-> Or(settings.max_streams[b], config.max_streams[b])]]

(* apply_advertised_settings: what the caller had configured is replaced.  *)
ApplyAdvertisedSettings(settings) == OverlaySettings(PeerDefault, settings)

(* Variant of ApplyInitAsPeer: the header field replaces the settings.     *)
ApplyInitOverSettings(config, init) ==
  LET Or(v, old) == IF v = Absent THEN old ELSE v
  IN  [config EXCEPT !.uni         = Or(init.u, @),
                     !.bidi_local  = Or(init.bl, @),
                     !.bidi_remote = Or(init.br, @)]

(* apply_init_as_peer: the larger of the settings and the header field.    *)
ApplyInitAsPeer(config, init) ==
  LET Merge(v, old) == IF v # Absent /\ v > old THEN v ELSE old
  IN  [config EXCEPT !.uni         = Merge(init.u, @),
                     !.bidi_local  = Merge(init.bl, @),
                     !.bidi_remote = Merge(init.br, @)]

(* WtInit::parse and extract_nonneg_integer.  The value of the header      *)
(* field is the sequence of its dictionary members, a member a key and     *)
(* an integer, or Absent for a value of another type; text that is not a   *)
(* dictionary is the value Absent.  Every member of a known key must be a  *)
(* non-negative integer; the last one of a key counts.                     *)
InitKeys == {"u", "bl", "br"}

InitRefused(members) ==
  \/ members = Absent
  \/ \E i \in DOMAIN members :
       members[i].key \in InitKeys /\ (members[i].value = Absent \/ members[i].value < 0)

InitValue(members, key) ==
  IF \E i \in DOMAIN members : members[i].key = key
  THEN LET last == CHOOSE i \in DOMAIN members :
                     /\ members[i].key = key
                     /\ \A j \in DOMAIN members : members[j].key = key => j <= i
       IN  members[last].value
  ELSE Absent

ParseInit(members) == [k \in InitKeys |-> InitValue(members, k)]

-----------------------------------------------------------------------------
(* What accept answers, in the order of its checks.  A request says        *)
(* whether TLS 1.3 is in use, whether :scheme is https, whether Origin is  *)
(* there and is the allowed one, the init header field (<< >> when there   *)
(* is none), and the protocols the client lists; the server application    *)
(* passes whether it restricts the origin, and the protocol it selects.    *)
AcceptAnswer(request, checks_origin, selected) ==
  CASE ~request.tls13 \/ ~request.https                  -> "PROTOCOL_ERROR"
    [] checks_origin /\ request.origin = "other"         -> "403"
    [] InitRefused(request.init)                         -> "400"
    [] selected # Absent /\ selected \notin request.protocols -> "no response"
    [] OTHER                                             -> "200"

(* The two configurations accept gives to WtSession::server.               *)
ServerConfig(server_settings) == ApplyAdvertisedSettings(server_settings)
ServerPeerConfig(client_settings, init) ==
  ApplyInitAsPeer(OverlaySettings(PeerDefault, client_settings), ParseInit(init))

(* The configurations the client application is told to use by the         *)
(* comments on WtConfig: its own announcements, SETTINGS or header field,  *)
(* whichever is larger, and the announcements of the server.               *)
ClientConfig(client_settings, init) ==
  LET settings == ApplyAdvertisedSettings(client_settings)
      header   == ParseInit(init)
      Larger(a, b) == IF a # Absent /\ a > b THEN a ELSE b
  IN  [settings EXCEPT !.uni         = Larger(header["u"], @),
                       !.bidi_local  = Larger(header["bl"], @),
                       !.bidi_remote = Larger(header["br"], @)]
ClientPeerConfig(server_settings) == OverlaySettings(PeerDefault, server_settings)
=============================================================================
