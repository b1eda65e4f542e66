-------------------------------- MODULE FakeRc --------------------------------
(***************************************************************************)
(* The stand-in robot controller of fake_rc/src/main.rs: which driver      *)
(* station it serves, the OpMode life cycle, the crash of an OpMode, the   *)
(* camera stream and the robot configurations.  One iteration of its loop  *)
(* reads at most one datagram, then sees to a crash, then to telemetry.    *)
(*                                                                         *)
(* It keeps no memory of the commands it has handled: a retransmitted or   *)
(* duplicated command is handled again.  The 100 ms and 1 s telemetry      *)
(* timers are abstracted: either packet may be due in any iteration.       *)
(***************************************************************************)
EXTENDS FrameSource, FiniteSets

CONSTANTS
  None,
  Stations,               \* addresses of driver stations
  OpModes, StopOpMode, CrashOpMode,
  Keys, Xmls,             \* a configuration's (location, name); device XMLs
  FactoryConfigs,         \* the configurations it starts with, key -> id
  NoConfig, FactoryXml,
  DsTimeout, PhantomTicks, CrashDelay,
  MaxFrameNum,            \* bound: i32::MAX, where frame numbers wrap
  MaxResourceId,          \* bound: configurations created
  RcStamps,               \* readings of the clock of its commands
  Inputs                  \* the datagrams that reach it

ASSUME RcAssumption ==
  /\ {StopOpMode, CrashOpMode} \subseteq OpModes
  /\ None \notin Stations \cup Nat /\ None # NoConfig
  /\ {DsTimeout, PhantomTicks, CrashDelay, MaxFrameNum} \subseteq Nat
  /\ MaxResourceId \in Nat \ {0} /\ DOMAIN FactoryConfigs \subseteq Keys

(* Of the commands that name an OpMode or a configuration, and of gamepads. *)
ASSUME RcInputAssumption ==
  \A p \in Inputs :
    /\ p.kind = "command" /\ p.name \in {"INIT", "RUN"} => p.extra \in OpModes
    /\ p.kind = "command" /\ p.name = "SAVE" => p.key \in Keys \cup {None}
    /\ p.kind = "gamepad" => p.x \in BOOLEAN /\ p.y \in BOOLEAN

VARIABLES
  rcPc,
  ds, dsAge,              \* the station served; when it was last heard
  phantom,                \* ticks left of FAKE_RC_BUSY
  state, opmode, runAge,  \* robot state, OpMode name, run_started
  configs, active, pendingActivation, saved, nextId,
  rcWebcam, frameNum,
  alliance, start, prevX, prevY,
  rcSent                  \* what the last step sent

dsVars     == <<ds, dsAge, phantom>>
opVars     == <<state, opmode, runAge>>
configVars == <<configs, active, pendingActivation, saved, nextId>>
camVars    == <<rcWebcam, frameNum>>
padVars    == <<alliance, start, prevX, prevY>>
rcVars     == <<rcPc, dsVars, opVars, configVars, camVars, padVars, rcSent>>

-----------------------------------------------------------------------------
(* send_to, send (to the station served, if any) and send_command. *)
RcTo(addr, packet) == [to |-> addr, packet |-> packet]
ToDs(packets) ==
  IF ds = None THEN <<>> ELSE [i \in DOMAIN packets |-> RcTo(ds, packets[i])]
Notify(name, extra, t) ==
  [kind |-> "notify", name |-> name, stamp |-> t, extra |-> extra]
RcAck(c) == [kind |-> "ack", name |-> c.name, stamp |-> c.stamp]

(* set_webcam_available: the station is told of a change only. *)
(* Seeded fault: told only when nothing changed. *)
StreamNewsStale(on, t) ==
  IF rcWebcam # on THEN <<>>
  ELSE <<[kind |-> "stream", name |-> "STREAM_CHANGE", stamp |-> t,
          available |-> on]>>
StreamNews(on, t) ==
  IF rcWebcam = on THEN <<>>
  ELSE <<[kind |-> "stream", name |-> "STREAM_CHANGE", stamp |-> t,
          available |-> on]>>

(* Frame numbers wrap like the i32 they are. *)
(* Seeded fault: they grow on. *)
NextFrameNumOn == frameNum + 1
NextFrameNum == IF frameNum = MaxFrameNum THEN -MaxFrameNum - 1 ELSE frameNum + 1

(* Asked once the datagram has been heard. *)
HeldAgainst(from) ==
  phantom > 0 \/ (ds # None /\ ds # from /\ dsAge' < DsTimeout)

-----------------------------------------------------------------------------
(* Reading a datagram.  The station served is heard from whatever it sends. *)
(* Seeded fault: any station's datagrams keep the served one alive.         *)
HearAnyone(from) ==
  /\ rcPc = "recv" /\ rcPc' = "crash"
  /\ dsAge' = 0
  /\ UNCHANGED phantom
Hear(from) ==
  /\ rcPc = "recv" /\ rcPc' = "crash"
  /\ dsAge' = IF ds = from THEN 0 ELSE dsAge
  /\ UNCHANGED phantom

HearNothing ==
  /\ rcPc = "recv" /\ rcPc' = "crash" /\ rcSent' = <<>>
  /\ UNCHANGED <<dsVars, opVars, configVars, camVars, padVars>>

RefuseStation(from, p) ==
  /\ p.kind = "discovery" /\ Hear(from) /\ HeldAgainst(from)
  /\ rcSent' = <<RcTo(from, [kind |-> "discovery", busy |-> TRUE])>>
  /\ UNCHANGED <<ds, opVars, configVars, camVars, padVars>>

(* A newly served station was not the station heard above: its arrival does *)
(* not date dsAge.                                                          *)
ServeStation(from, p) ==
  /\ p.kind = "discovery" /\ Hear(from) /\ ~HeldAgainst(from)
  /\ ds' = from
  /\ rcSent' = <<RcTo(from, [kind |-> "discovery", busy |-> FALSE])>>
  /\ UNCHANGED <<opVars, configVars, camVars, padVars>>

EchoHeartbeat(from, p) ==
  /\ p.kind = "heartbeat" /\ ds = from /\ Hear(from)
  /\ rcSent' = <<RcTo(from, [kind |-> "heartbeat", state |-> state])>>
  /\ UNCHANGED <<ds, opVars, configVars, camVars, padVars>>

IgnoreInput(from, p) ==
  /\ \/ p.kind \in {"heartbeat", "command", "ack"} /\ ds # from
     \/ p.kind = "ack"
     \/ p.kind \in {"keepalive", "telemetry", "garbage"}
     \/ p.kind = "gamepad" /\ p.user # 1
  /\ Hear(from) /\ rcSent' = <<>>
  /\ UNCHANGED <<ds, opVars, configVars, camVars, padVars>>

(* Gamepad 1, whoever sends it: presses count while an OpMode is in INIT. *)
OnGamepad(from, p) ==
  /\ p.kind = "gamepad" /\ p.user = 1 /\ Hear(from)
  /\ alliance' = IF state = "Init" /\ p.x /\ ~prevX
                 THEN (IF alliance = "RED" THEN "BLUE" ELSE "RED") ELSE alliance
  /\ start' = IF state = "Init" /\ p.y /\ ~prevY
              THEN (IF start = "LEFT" THEN "RIGHT" ELSE "LEFT") ELSE start
  /\ prevX' = p.x /\ prevY' = p.y
  /\ rcSent' = <<>>
  /\ UNCHANGED <<ds, opVars, configVars, camVars>>

-----------------------------------------------------------------------------
(* handle_command: acknowledge, then act. *)
Handle(from, c, names) ==
  /\ c.kind = "command" /\ c.name \in names /\ ds = from /\ Hear(from)
  /\ UNCHANGED <<ds, padVars>>
Answer(c, packets) == rcSent' = ToDs(<<RcAck(c)>> \o packets)

OnStop(from, c, t) ==
  /\ Handle(from, c, {"INIT"}) /\ c.extra = StopOpMode
  /\ state' = "Stopped" /\ opmode' = "" /\ runAge' = None
  /\ rcWebcam' = FALSE
  /\ Answer(c, StreamNews(FALSE, t) \o <<Notify("NOTIFY_INIT", c.extra, t)>>)
  /\ UNCHANGED <<configVars, frameNum>>

OnInit(from, c, t) ==
  /\ Handle(from, c, {"INIT"}) /\ c.extra # StopOpMode
  /\ state' = "Init" /\ opmode' = c.extra /\ runAge' = None
  /\ rcWebcam' = TRUE
  /\ Answer(c, StreamNews(TRUE, t) \o <<Notify("NOTIFY_INIT", c.extra, t)>>)
  /\ UNCHANGED <<configVars, frameNum>>

(* Seeded fault: the time of the start is not noted. *)
OnRunUndated(from, c, t) ==
  /\ Handle(from, c, {"RUN"})
  /\ state' = "Running" /\ opmode' = c.extra /\ UNCHANGED runAge
  /\ Answer(c, <<Notify("NOTIFY_RUN", c.extra, t)>>)
  /\ UNCHANGED <<configVars, camVars>>

OnRun(from, c, t) ==
  /\ Handle(from, c, {"RUN"})
  /\ state' = "Running" /\ opmode' = c.extra /\ runAge' = 0
  /\ Answer(c, <<Notify("NOTIFY_RUN", c.extra, t)>>)
  /\ UNCHANGED <<configVars, camVars>>

OnRestart(from, c, t) ==
  /\ Handle(from, c, {"RESTART"})
  /\ state' = "NotStarted" /\ opmode' = "" /\ UNCHANGED runAge
  /\ rcWebcam' = FALSE
  /\ pendingActivation' = None
  /\ IF pendingActivation = None
     THEN UNCHANGED active /\ Answer(c, StreamNews(FALSE, t))
     ELSE /\ active' = pendingActivation
          /\ Answer(c, StreamNews(FALSE, t)
                         \o <<Notify("NOTIFY_ACTIVE", pendingActivation, t)>>)
  /\ UNCHANGED <<configs, saved, nextId, frameNum>>

OnRequestFrame(from, c, t) ==
  /\ Handle(from, c, {"REQUEST_FRAME"})
  /\ IF rcWebcam
     THEN Answer(c, WebcamFrame(frameNum, t)) /\ frameNum' = NextFrameNum
     ELSE Answer(c, <<>>) /\ UNCHANGED frameNum
  /\ UNCHANGED <<opVars, configVars, rcWebcam>>

(* The requests that only read: what is asked for is sent back. *)
Response(c, t) ==
  CASE c.name = "REQUEST_ACTIVE"  -> <<Notify("NOTIFY_ACTIVE", active, t)>>
    [] c.name = "REQUEST_CONFIGS" -> <<Notify("CONFIGS", configs, t)>>
    [] c.name = "REQUEST_OPMODES" -> <<Notify("OPMODES", OpModes, t)>>
    [] c.name = "REQUEST_CONFIG" ->
         <<Notify("CONFIG", IF c.key \in DOMAIN saved THEN saved[c.key]
                            ELSE FactoryXml, t)>>
    [] c.name \in {"REQUEST_DEVICES", "SCAN"} -> <<Notify(c.name, "", t)>>
    [] OTHER -> <<>>

OnRead(from, c, t) ==
  /\ Handle(from, c, {"REQUEST_ACTIVE", "REQUEST_CONFIGS", "REQUEST_OPMODES",
                      "REQUEST_CONFIG", "REQUEST_DEVICES", "SCAN", "unknown"})
  /\ Answer(c, Response(c, t))
  /\ UNCHANGED <<opVars, configVars, camVars>>

(* Configurations.  A payload that does not parse is acknowledged and       *)
(* changes nothing; its key is None.                                        *)
Meta(key, id) == [key |-> key, id |-> id]
With(f, k, v) == [x \in DOMAIN f \cup {k} |-> IF x = k THEN v ELSE f[x]]
Without(f, k) == [x \in DOMAIN f \ {k} |-> f[x]]

OnActivate(from, c) ==
  /\ Handle(from, c, {"ACTIVATE"})
  /\ pendingActivation' = IF c.key = None THEN pendingActivation
                          ELSE Meta(c.key, c.id)
  /\ Answer(c, <<>>)
  /\ UNCHANGED <<opVars, configs, active, saved, nextId, camVars>>

OnSave(from, c, t) ==
  /\ Handle(from, c, {"SAVE"}) /\ c.key # None
  /\ c.id = 0 => nextId < MaxResourceId
  /\ nextId' = IF c.id = 0 THEN nextId + 1 ELSE nextId
  /\ LET meta == Meta(c.key, IF c.id = 0 THEN nextId + 1 ELSE c.id)
     IN  /\ configs' = With(configs, c.key, meta.id)
         /\ active' = meta
         /\ Answer(c, <<Notify("NOTIFY_ACTIVE", meta, t)>>)
  /\ saved' = With(saved, c.key, c.xml)
  /\ UNCHANGED <<opVars, pendingActivation, camVars>>

OnDelete(from, c) ==
  /\ Handle(from, c, {"DELETE"}) /\ c.key # None
  /\ configs' = Without(configs, c.key)
  /\ Answer(c, <<>>)
  /\ UNCHANGED <<opVars, active, pendingActivation, saved, nextId, camVars>>

OnBadConfig(from, c) ==
  /\ Handle(from, c, {"SAVE", "DELETE"}) /\ c.key = None
  /\ Answer(c, <<>>)
  /\ UNCHANGED <<opVars, configVars, camVars>>

Handling(from, p, t) ==
  \/ RefuseStation(from, p) \/ ServeStation(from, p)
  \/ EchoHeartbeat(from, p) \/ IgnoreInput(from, p) \/ OnGamepad(from, p)
  \/ OnStop(from, p, t) \/ OnInit(from, p, t) \/ OnRun(from, p, t)
  \/ OnRestart(from, p, t) \/ OnRequestFrame(from, p, t) \/ OnRead(from, p, t)
  \/ OnActivate(from, p) \/ OnSave(from, p, t) \/ OnDelete(from, p)
  \/ OnBadConfig(from, p)

-----------------------------------------------------------------------------
(* crash_tick and the telemetry. *)
(* Seeded fault: only an OpMode that shows the camera crashes. *)
CrashingOnCamera ==
  /\ opmode = CrashOpMode /\ state = "Running" /\ rcWebcam
  /\ runAge \in Nat /\ runAge >= CrashDelay
Crashing == opmode = CrashOpMode /\ state = "Running" /\ runAge \in Nat
              /\ runAge >= CrashDelay

Crash(t) ==
  /\ rcPc = "crash" /\ Crashing /\ rcPc' = "telemetry"
  /\ state' = "Stopped" /\ opmode' = "" /\ runAge' = None
  /\ rcWebcam' = FALSE
  /\ rcSent' = ToDs(<<Notify("STACKTRACE", "", t)>> \o StreamNews(FALSE, t)
                      \o <<Notify("NOTIFY_INIT", StopOpMode, t)>>)
  /\ UNCHANGED <<dsVars, configVars, frameNum, padVars>>

NoCrash ==
  /\ rcPc = "crash" /\ ~Crashing /\ rcPc' = "telemetry" /\ rcSent' = <<>>
  /\ UNCHANGED <<dsVars, opVars, configVars, camVars, padVars>>

TelemetryTick ==
  /\ rcPc = "telemetry" /\ rcPc' = "recv"
  /\ rcSent' \in {<<>>, ToDs(<<[kind |-> "telemetry", state |-> state]>>)}
  /\ UNCHANGED <<dsVars, opVars, configVars, camVars, padVars>>

RcTick ==
  /\ dsAge' = IF dsAge < DsTimeout THEN dsAge + 1 ELSE dsAge
  /\ phantom' = IF phantom > 0 THEN phantom - 1 ELSE 0
  /\ runAge' = IF runAge \in 0..(CrashDelay - 1) THEN runAge + 1 ELSE runAge
  /\ rcSent' = <<>>
  /\ UNCHANGED <<rcPc, ds, state, opmode, configVars, camVars, padVars>>

RcInit ==
  /\ rcPc = "recv" /\ ds = None /\ dsAge = 0 /\ phantom \in {0, PhantomTicks}
  /\ state = "NotStarted" /\ opmode = "" /\ runAge = None
  /\ configs = FactoryConfigs /\ active = NoConfig
  /\ pendingActivation = None /\ saved = [k \in {} |-> None] /\ nextId = 1
  /\ rcWebcam = FALSE /\ frameNum = 0
  /\ alliance = "RED" /\ start = "LEFT" /\ prevX = FALSE /\ prevY = FALSE
  /\ rcSent = <<>>

RcRead == HearNothing
  \/ \E from \in Stations, p \in Inputs, t \in RcStamps : Handling(from, p, t)

RcLoop == RcRead \/ (\E t \in RcStamps : Crash(t)) \/ NoCrash \/ TelemetryTick

RcNext == RcLoop \/ RcTick

RcSpec == RcInit /\ [][RcNext]_rcVars
RcFairSpec == RcSpec /\ WF_rcVars(RcLoop) /\ WF_rcVars(RcTick)
-----------------------------------------------------------------------------
RcTypeOK ==
  /\ rcPc \in {"recv", "crash", "telemetry"}
  /\ ds \in Stations \cup {None} /\ dsAge \in 0..DsTimeout
  /\ phantom \in 0..PhantomTicks
  /\ state \in {"NotStarted", "Init", "Running", "Stopped"}
  /\ opmode \in OpModes \cup {""} /\ runAge \in 0..CrashDelay \cup {None}
  /\ DOMAIN configs \subseteq Keys /\ DOMAIN saved \subseteq Keys
  /\ nextId \in 0..MaxResourceId
  /\ rcWebcam \in BOOLEAN /\ frameNum \in -(MaxFrameNum + 1)..MaxFrameNum
  /\ alliance \in {"RED", "BLUE"} /\ start \in {"LEFT", "RIGHT"}
  /\ prevX \in BOOLEAN /\ prevY \in BOOLEAN

(* However an OpMode ends (stopped, crashed, robot restarted) nothing of it  *)
(* is left: no name and no camera stream; and while one runs the time it was *)
(* started is known, without which its crash could never come.               *)
OpModeTornDown ==
  /\ state \in {"NotStarted", "Stopped"} => ~rcWebcam /\ opmode = ""
  /\ state = "Running" => runAge # None

(* The station served is told of every change of the camera stream and of    *)
(* the active configuration, whichever command or crash brought it about.    *)
SentToDs(p) == \E i \in DOMAIN rcSent' : rcSent'[i].to = ds /\ p = rcSent'[i].packet
ChangesAnnounced ==
  [][/\ rcWebcam' # rcWebcam =>
          \E t \in RcStamps : SentToDs([kind |-> "stream", name |-> "STREAM_CHANGE",
                                        stamp |-> t, available |-> rcWebcam'])
     /\ active' # active =>
          \E t \in RcStamps : SentToDs(Notify("NOTIFY_ACTIVE", active', t))]_rcVars

(* A station is turned away again and again only because another one is      *)
(* served and heard again and again: one that went silent is displaced.      *)
Refused(s) == \E i \in DOMAIN rcSent : rcSent[i] = RcTo(s, [kind |-> "discovery", busy |-> TRUE])
ServedIsRead == \E p \in Inputs, t \in RcStamps : Handling(ds', p, t)
NobodyIsLockedOut ==
  \A s \in Stations : []<>Refused(s) => []<><<ServedIsRead>>_rcVars

(* An OpMode that crashes is taken down, unless it is started over and over. *)
CrashComes ==
  []<>(~(state = "Running" /\ opmode = CrashOpMode) \/ runAge = 0)
=============================================================================
