------------------------------ MODULE Settings ------------------------------
(***************************************************************************)
(* SETTINGS parameters and the limits they are made from: src/settings.rs  *)
(* and src/limits.rs.  An Option is a sequence of at most one element, a   *)
(* boolean 0 or 1, as on the wire.                                         *)
(***************************************************************************)
EXTENDS Octets, SequencesExt

CONSTANTS MIN_MAX_FRAME_SIZE,  \* 16384 in the code; scaled down in a run
          MAX_MAX_FRAME_SIZE   \* 16777215 in the code

ASSUME FrameSizeRange == /\ MIN_MAX_FRAME_SIZE \in Nat \ {0}
                         /\ MAX_MAX_FRAME_SIZE \in Nat
                         /\ MIN_MAX_FRAME_SIZE <= MAX_MAX_FRAME_SIZE

(***************************************************************************)
(* Setting: the identifiers of the parameters.                             *)
(***************************************************************************)
SettingId ==
  [ HeaderTableSize |-> 1, EnablePush |-> 2, MaxConcurrentStreams |-> 3,
    InitialWindowSize |-> 4, MaxFrameSize |-> 5, MaxHeaderListSize |-> 6,
    EnableConnectProtocol |-> 8, NoRfc7540Priorities |-> 9,
    WtInitialMaxData |-> 11105, WtInitialMaxStreamDataUni |-> 11106,
    WtInitialMaxStreamDataBidiLocal |-> 11107, WtInitialMaxStreamsUni |-> 11108,
    WtInitialMaxStreamsBidi |-> 11109, WtInitialMaxStreamDataBidiRemote |-> 11110,
    WtEnabled |-> 11111 ]

Booleans == {"EnablePush", "EnableConnectProtocol", "NoRfc7540Priorities", "WtEnabled"}
WtInitial == {"WtInitialMaxData", "WtInitialMaxStreamDataUni",
              "WtInitialMaxStreamDataBidiLocal", "WtInitialMaxStreamsUni",
              "WtInitialMaxStreamsBidi", "WtInitialMaxStreamDataBidiRemote"}

\* Setting::from_wire refuses a value, and the connection error it becomes.
FromWireError(id, v) ==
  LET named == {n \in DOMAIN SettingId : SettingId[n] = id} IN
  CASE named \subseteq Booleans /\ named # {} /\ U32Of(v) > 1 -> "PROTOCOL_ERROR"
    [] "InitialWindowSize" \in named /\ v[1] >= 128 -> "FLOW_CONTROL_ERROR"
    [] "MaxFrameSize" \in named
         /\ U32Of(v) \notin MIN_MAX_FRAME_SIZE .. MAX_MAX_FRAME_SIZE -> "PROTOCOL_ERROR"
    [] OTHER -> "none"

FromWire(id, v) ==
  LET named == {n \in DOMAIN SettingId : SettingId[n] = id}
  IN  [ name |-> IF named = {} THEN "Unknown" ELSE CHOOSE n \in named : TRUE,
        id |-> id, value |-> U32Of(v) ]

AsWire(s) == U16(s.id) \o U32(s.value)

(***************************************************************************)
(* Settings: a function from the parameters to their optional values; what *)
(* is a boolean is 0 or 1, as on the wire.                                 *)
(***************************************************************************)
DefaultSettings ==
  [n \in DOMAIN SettingId |->
     CASE n = "HeaderTableSize" -> << 4096 >>
       [] n = "InitialWindowSize" -> << 65535 >>
       [] n = "MaxFrameSize" -> << MIN_MAX_FRAME_SIZE >>
       [] n \in Booleans -> << 0 >>
       [] OTHER -> << >>]

\* Limits carry every parameter of SETTINGS but ENABLE_PUSH.
FromLimits(l) == [n \in DOMAIN SettingId |-> IF n = "EnablePush" THEN << 0 >> ELSE l[n]]

\* LimitsBuilder::build: WebTransport needs extended CONNECT, and its initial
\* values need the announcement of its support.
CanBuild(l) ==
  LET wt == \E n \in WtInitial : l[n] # << >> IN
  /\ l["WtEnabled"] = << 1 >> \/ wt => l["EnableConnectProtocol"] = << 1 >>
  /\ wt => l["WtEnabled"] = << 1 >>

Apply(settings, s) ==
  IF s.name = "Unknown" THEN settings ELSE [settings EXCEPT ![s.name] = << s.value >>]

\* The order in which to_settings_list lists the parameters.
ListOrder == << "HeaderTableSize", "EnablePush", "MaxConcurrentStreams",
                "InitialWindowSize", "MaxFrameSize", "MaxHeaderListSize",
                "EnableConnectProtocol", "NoRfc7540Priorities", "WtInitialMaxData",
                "WtInitialMaxStreamDataUni", "WtInitialMaxStreamDataBidiLocal",
                "WtInitialMaxStreamsUni", "WtInitialMaxStreamsBidi",
                "WtInitialMaxStreamDataBidiRemote", "WtEnabled" >>

\* Variant: a parameter of value zero passes for one that is unset.
ListedNonZero(settings, n) ==
  settings[n] # << >> /\ (n = "EnablePush" \/ settings[n] # << 0 >>)

\* What is unset, and every boolean but ENABLE_PUSH that is false, is left out.
Listed(settings, n) ==
  IF n \in Booleans \ {"EnablePush"} THEN settings[n] = << 1 >> ELSE settings[n] # << >>

ToSettingsList(settings) ==
  LET names == SelectSeq(ListOrder, LAMBDA n : Listed(settings, n))
  IN  [i \in 1 .. Len(names) |->
         [name |-> names[i], id |-> SettingId[names[i]], value |-> settings[names[i]][1]]]

\* send_settings: a server does not mention ENABLE_PUSH.
AnnouncedSettings(role, settings) ==
  SelectSeq(ToSettingsList(settings), LAMBDA s : role = "client" \/ s.name # "EnablePush")
=============================================================================
