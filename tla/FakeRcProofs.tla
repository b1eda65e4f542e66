----------------------------- MODULE FakeRcProofs -----------------------------
(***************************************************************************)
(* The stand-in controller, for any stations, OpModes, configurations,     *)
(* delays and datagrams: an OpMode that ends leaves nothing behind, and    *)
(* the station served hears of every change.                               *)
(*                                                                         *)
(* The argument: until a station is served nothing was ever started, so    *)
(* whatever is torn down has a station to be told; and the camera is on    *)
(* only in an OpMode, so every end of one is a change to be told of.       *)
(***************************************************************************)
EXTENDS FakeRc, TLAPS

NothingUnserved == ds = None => state = "NotStarted"

RcInv == RcTypeOK /\ OpModeTornDown /\ NothingUnserved

-----------------------------------------------------------------------------
LEMMA RcConstants ==
  /\ DsTimeout \in Nat /\ PhantomTicks \in Nat /\ CrashDelay \in Nat
  /\ MaxFrameNum \in Nat /\ MaxResourceId \in Nat /\ MaxResourceId >= 1
  /\ None \notin Stations /\ None \notin Nat /\ DOMAIN FactoryConfigs \subseteq Keys
  BY RcAssumption

(* The parts of the type invariant that arithmetic is done on.              *)
LEMMA RcNumbers ==
  ASSUME RcTypeOK
  PROVE  /\ dsAge \in 0..DsTimeout /\ phantom \in 0..PhantomTicks
         /\ runAge \in 0..CrashDelay \/ runAge = None
         /\ nextId \in 0..MaxResourceId /\ frameNum \in -(MaxFrameNum + 1)..MaxFrameNum
  BY DEF RcTypeOK

LEMMA RcNumbersMove ==
  ASSUME RcTypeOK
  PROVE  /\ RcTick => /\ dsAge' \in 0..DsTimeout /\ phantom' \in 0..PhantomTicks
                      /\ runAge' \in 0..CrashDelay \cup {None}
                      /\ runAge # None => runAge' # None
         /\ NextFrameNum \in -(MaxFrameNum + 1)..MaxFrameNum
         /\ 0 \in 0..CrashDelay \cup {None} /\ 0 # None
<1>1. RcTick => dsAge' \in 0..DsTimeout /\ phantom' \in 0..PhantomTicks
  BY RcConstants, RcNumbers DEF RcTick
<1>2. RcTick => /\ runAge' \in 0..CrashDelay \cup {None}
                /\ runAge # None => runAge' # None
  <2> SUFFICES ASSUME RcTick PROVE /\ runAge' \in 0..CrashDelay \cup {None}
                                   /\ runAge # None => runAge' # None
    OBVIOUS
  <2>1. CASE runAge \in 0..(CrashDelay - 1)
    <3>1. runAge' = runAge + 1
      BY <2>1 DEF RcTick
    <3> QED
      BY <2>1, <3>1, RcConstants
  <2>2. CASE runAge \notin 0..(CrashDelay - 1)
    <3>1. runAge' = runAge
      BY <2>2 DEF RcTick
    <3> QED
      BY <3>1, RcNumbers
  <2> QED
    BY <2>1, <2>2
<1>3. NextFrameNum \in -(MaxFrameNum + 1)..MaxFrameNum
  BY RcConstants, RcNumbers DEF NextFrameNum
<1> QED
  BY <1>1, <1>2, <1>3, RcConstants

LEMMA RcBegins == RcInit => RcInv
<1> SUFFICES ASSUME RcInit PROVE RcInv
  OBVIOUS
<1>1. /\ dsAge \in 0..DsTimeout /\ phantom \in 0..PhantomTicks
      /\ nextId \in 0..MaxResourceId /\ frameNum \in -(MaxFrameNum + 1)..MaxFrameNum
  <2>1. /\ dsAge = 0 /\ nextId = 1 /\ frameNum = 0
        /\ phantom = 0 \/ phantom = PhantomTicks
    BY DEF RcInit
  <2> QED
    BY <2>1, RcConstants
<1>2. DOMAIN configs \subseteq Keys /\ DOMAIN saved \subseteq Keys
  BY RcConstants DEF RcInit
<1> QED
  BY <1>1, <1>2 DEF RcInit, RcInv, RcTypeOK, OpModeTornDown, NothingUnserved

(* The steps that leave the OpMode and the configurations alone.            *)
LEMMA HearKeepsTypes ==
  ASSUME RcTypeOK, NEW from \in Stations, Hear(from)
  PROVE  rcPc' = "crash" /\ dsAge' \in 0..DsTimeout /\ UNCHANGED phantom
  BY RcConstants, RcNumbers DEF Hear

LEMMA LinkKeeps ==
  ASSUME RcInv, NEW from \in Stations, NEW p \in Inputs,
         \/ RefuseStation(from, p) \/ ServeStation(from, p)
         \/ EchoHeartbeat(from, p) \/ IgnoreInput(from, p)
  PROVE  RcInv'
<1>1. Hear(from) /\ (UNCHANGED ds \/ ds' = from)
        /\ UNCHANGED <<opVars, configVars, camVars, padVars>>
  BY DEF RefuseStation, ServeStation, EchoHeartbeat, IgnoreInput
<1>2. rcPc' = "crash" /\ dsAge' \in 0..DsTimeout /\ UNCHANGED phantom
  BY <1>1, HearKeepsTypes DEF RcInv
<1>3. from # None
  BY RcConstants
<1> QED
  BY <1>1, <1>2, <1>3
     DEF RcInv, RcTypeOK, OpModeTornDown, NothingUnserved, opVars, configVars,
         camVars, padVars

LEMMA GamepadKeeps ==
  ASSUME RcInv, NEW from \in Stations, NEW p \in Inputs, OnGamepad(from, p)
  PROVE  RcInv'
<1>1. rcPc' = "crash" /\ dsAge' \in 0..DsTimeout /\ UNCHANGED phantom
  BY HearKeepsTypes DEF RcInv, OnGamepad
<1>2. /\ alliance' \in {"RED", "BLUE"} /\ start' \in {"LEFT", "RIGHT"}
      /\ prevX' \in BOOLEAN /\ prevY' \in BOOLEAN
  BY RcInputAssumption DEF OnGamepad, RcInv, RcTypeOK
<1> QED
  BY <1>1, <1>2
     DEF OnGamepad, RcInv, RcTypeOK, OpModeTornDown, NothingUnserved, opVars,
         configVars, camVars

-----------------------------------------------------------------------------
(* Only a station that is served is obeyed.                                 *)
LEMMA HandleFacts ==
  ASSUME RcTypeOK, NEW from \in Stations, NEW c, NEW names, Handle(from, c, names)
  PROVE  /\ c.kind = "command" /\ c.name \in names
         /\ ds \in Stations /\ ds # None /\ UNCHANGED ds
         /\ rcPc' = "crash" /\ dsAge' \in 0..DsTimeout /\ UNCHANGED phantom
         /\ UNCHANGED padVars
  BY HearKeepsTypes, RcConstants DEF Handle

LEMMA OpModeKeeps ==
  ASSUME RcInv, NEW from \in Stations, NEW p \in Inputs, NEW t \in RcStamps,
         \/ OnStop(from, p, t) \/ OnInit(from, p, t) \/ OnRun(from, p, t)
         \/ OnRestart(from, p, t)
  PROVE  RcInv'
<1> USE DEF RcInv, RcTypeOK, OpModeTornDown, NothingUnserved, configVars, padVars
<1>1. CASE OnStop(from, p, t)
  BY <1>1, HandleFacts DEF OnStop
<1>2. CASE OnInit(from, p, t)
  <2>1. p.kind = "command" /\ p.name = "INIT"
    BY <1>2, HandleFacts DEF OnInit
  <2>2. opmode' \in OpModes
    BY <1>2, <2>1, RcInputAssumption DEF OnInit
  <2> QED
    BY <1>2, <2>2, HandleFacts DEF OnInit
<1>3. CASE OnRun(from, p, t)
  <2>1. p.kind = "command" /\ p.name = "RUN"
    BY <1>3, HandleFacts DEF OnRun
  <2>2. opmode' \in OpModes
    BY <1>3, <2>1, RcInputAssumption DEF OnRun
  <2>3. runAge' \in 0..CrashDelay \cup {None} /\ runAge' # None
    BY <1>3, RcNumbersMove DEF OnRun
  <2> QED
    BY <1>3, <2>2, <2>3, HandleFacts DEF OnRun, camVars
<1>4. CASE OnRestart(from, p, t)
  BY <1>4, HandleFacts DEF OnRestart
<1> QED
  BY <1>1, <1>2, <1>3, <1>4

LEMMA RequestsKeep ==
  ASSUME RcInv, NEW from \in Stations, NEW p \in Inputs, NEW t \in RcStamps,
         OnRequestFrame(from, p, t) \/ OnRead(from, p, t)
  PROVE  RcInv'
<1> USE DEF RcInv, RcTypeOK, OpModeTornDown, NothingUnserved, opVars, configVars, padVars
<1>1. CASE OnRequestFrame(from, p, t)
  <2>1. frameNum' \in -(MaxFrameNum + 1)..MaxFrameNum
    BY <1>1, RcNumbersMove DEF OnRequestFrame
  <2> QED
    BY <1>1, <2>1, HandleFacts DEF OnRequestFrame
<1>2. CASE OnRead(from, p, t)
  BY <1>2, HandleFacts DEF OnRead, camVars
<1> QED
  BY <1>1, <1>2

LEMMA ConfigsKeep ==
  ASSUME RcInv, NEW from \in Stations, NEW p \in Inputs, NEW t \in RcStamps,
         \/ OnActivate(from, p) \/ OnSave(from, p, t) \/ OnDelete(from, p)
         \/ OnBadConfig(from, p)
  PROVE  RcInv'
<1>a. OnSave(from, p, t) => nextId' \in 0..MaxResourceId
  BY RcConstants, RcNumbers DEF RcInv, OnSave
<1> USE DEF RcInv, RcTypeOK, OpModeTornDown, NothingUnserved, opVars, camVars, padVars
<1>1. CASE OnActivate(from, p)
  BY <1>1, HandleFacts DEF OnActivate
<1>2. CASE OnSave(from, p, t)
  <2>1. p.kind = "command" /\ p.name = "SAVE"
    BY <1>2, HandleFacts DEF OnSave
  <2>2. p.key \in Keys
    BY <1>2, <2>1, RcInputAssumption DEF OnSave
  <2>3. DOMAIN configs' \subseteq Keys /\ DOMAIN saved' \subseteq Keys
    BY <1>2, <2>2 DEF OnSave, With
  <2>4. nextId' \in 0..MaxResourceId
    BY <1>2, <1>a
  <2> QED
    BY <1>2, <2>3, <2>4, HandleFacts DEF OnSave
<1>3. CASE OnDelete(from, p)
  <2>1. DOMAIN configs' \subseteq Keys
    BY <1>3 DEF OnDelete, Without
  <2> QED
    BY <1>3, <2>1, HandleFacts DEF OnDelete
<1>4. CASE OnBadConfig(from, p)
  BY <1>4, HandleFacts DEF OnBadConfig, configVars
<1> QED
  BY <1>1, <1>2, <1>3, <1>4

-----------------------------------------------------------------------------
LEMMA LoopKeeps ==
  ASSUME RcInv,
         \/ HearNothing \/ NoCrash \/ TelemetryTick \/ RcTick
         \/ \E t \in RcStamps : Crash(t)
  PROVE  RcInv'
<1> USE DEF RcInv, RcTypeOK, OpModeTornDown, NothingUnserved, dsVars, opVars,
            configVars, camVars, padVars
<1>1. CASE HearNothing
  BY <1>1 DEF HearNothing
<1>2. CASE NoCrash
  BY <1>2 DEF NoCrash
<1>3. CASE TelemetryTick
  BY <1>3 DEF TelemetryTick
<1>4. CASE RcTick
  <2>1. dsAge' \in 0..DsTimeout /\ phantom' \in 0..PhantomTicks
    BY <1>4, RcNumbersMove
  <2>2. runAge' \in 0..CrashDelay \cup {None} /\ (runAge # None => runAge' # None)
    BY <1>4, RcNumbersMove
  <2> QED
    BY <1>4, <2>1, <2>2 DEF RcTick
<1>5. CASE \E t \in RcStamps : Crash(t)
  BY <1>5 DEF Crash, Crashing
<1> QED
  BY <1>1, <1>2, <1>3, <1>4, <1>5

LEMMA RcSteps ==
  ASSUME RcInv, [RcNext]_rcVars
  PROVE  RcInv'
<1>1. ASSUME NEW from \in Stations, NEW p \in Inputs, NEW t \in RcStamps,
             Handling(from, p, t)
      PROVE  RcInv'
  BY <1>1, LinkKeeps, GamepadKeeps, OpModeKeeps, RequestsKeep, ConfigsKeep DEF Handling
<1>2. CASE UNCHANGED rcVars
  BY <1>2 DEF rcVars, dsVars, opVars, configVars, camVars, padVars, RcInv, RcTypeOK,
              OpModeTornDown, NothingUnserved
<1> QED
  BY <1>1, <1>2, LoopKeeps DEF RcNext, RcLoop, RcRead

LEMMA RcInvariant == RcSpec => []RcInv
<1>1. RcInv /\ [RcNext]_rcVars => RcInv'
  BY RcSteps
<1> QED
  BY RcBegins, <1>1, PTL DEF RcSpec

(* The controller's state keeps its types, whatever is sent to it.          *)
THEOREM RcTypeCorrect == RcSpec => []RcTypeOK
<1>1. RcInv => RcTypeOK
  BY DEF RcInv
<1> QED
  BY RcInvariant, <1>1, PTL

(* Stopped, crashed or restarted, an OpMode leaves neither a name nor a     *)
(* camera stream; and one that runs has a start from which its crash counts. *)
THEOREM OpModesAreTornDown == RcSpec => []OpModeTornDown
<1>1. RcInv => OpModeTornDown
  BY DEF RcInv
<1> QED
  BY RcInvariant, <1>1, PTL

-----------------------------------------------------------------------------
(* What a sequence of packets holds reaches the station served.             *)
Holds(packets, p) == \E i \in DOMAIN packets : packets[i] = p

LEMMA HoldsEither ==
  ASSUME NEW S, NEW q \in Seq(S), NEW r \in Seq(S), NEW p, Holds(q, p) \/ Holds(r, p)
  PROVE  q \o r \in Seq(S) /\ Holds(q \o r, p)
<1>1. CASE Holds(q, p)
  <2>1. PICK i \in DOMAIN q : q[i] = p
    BY <1>1 DEF Holds
  <2>2. i \in DOMAIN (q \o r) /\ (q \o r)[i] = p
    BY <2>1
  <2> QED
    BY <2>2 DEF Holds
<1>2. CASE Holds(r, p)
  <2>1. PICK i \in DOMAIN r : r[i] = p
    BY <1>2 DEF Holds
  <2>2. Len(q) + i \in DOMAIN (q \o r) /\ (q \o r)[Len(q) + i] = p
    BY <2>1
  <2> QED
    BY <2>2 DEF Holds
<1> QED
  BY <1>1, <1>2

LEMMA HeldIsSent ==
  ASSUME ds # None, NEW packets, NEW p, Holds(packets, p), rcSent' = ToDs(packets)
  PROVE  SentToDs(p)
<1>1. PICK i \in DOMAIN packets : packets[i] = p
  BY DEF Holds
<1>2. i \in DOMAIN rcSent' /\ rcSent'[i] = RcTo(ds, p)
  BY <1>1 DEF ToDs
<1> QED
  BY <1>2 DEF SentToDs, RcTo

(* An answer holds the change of the stream, then the notice that follows.  *)
Change(on, t) ==
  [kind |-> "stream", name |-> "STREAM_CHANGE", stamp |-> t, available |-> on]

LEMMA NewsFacts ==
  ASSUME NEW on, NEW t
  PROVE  /\ StreamNews(on, t) = <<>> \/ StreamNews(on, t) = <<Change(on, t)>>
         /\ rcWebcam # on => Holds(StreamNews(on, t), Change(on, t))
<1>1. CASE rcWebcam = on
  BY <1>1 DEF StreamNews
<1>2. CASE rcWebcam # on
  <2>1. StreamNews(on, t) = <<Change(on, t)>>
    BY <1>2 DEF StreamNews, Change
  <2> QED
    BY <2>1 DEF Holds
<1> QED
  BY <1>1, <1>2

LEMMA NewsIsHeld ==
  ASSUME NEW on, NEW t, NEW a, NEW b
  PROVE  LET news == StreamNews(on, t)
         IN  /\ rcWebcam # on =>
                  /\ Holds(<<a>> \o news, Change(on, t))
                  /\ Holds(<<a>> \o (news \o <<b>>), Change(on, t))
                  /\ Holds(<<a>> \o news \o <<b>>, Change(on, t))
             /\ Holds(<<a>> \o (news \o <<b>>), b)
<1> DEFINE news == StreamNews(on, t)
           c == Change(on, t)
           S == {a, b, c}
<1>1. <<a>> \in Seq(S) /\ <<b>> \in Seq(S) /\ news \in Seq(S)
  <2>1. news = <<>> \/ news = <<c>>
    BY NewsFacts
  <2>2. a \in S /\ b \in S /\ c \in S
    OBVIOUS
  <2> HIDE DEF news, c, S
  <2>3. <<a>> \in Seq(S) /\ <<b>> \in Seq(S)
    BY <2>2
  <2>4. CASE news = <<>>
    BY <2>3, <2>4
  <2>5. CASE news = <<c>>
    BY <2>2, <2>3, <2>5
  <2> QED
    BY <2>1, <2>4, <2>5
<1>2. Holds(<<b>>, b)
  BY DEF Holds
<1>3. rcWebcam # on => Holds(news, Change(on, t))
  BY NewsFacts
<1> HIDE DEF news, S
<1>4. news \o <<b>> \in Seq(S) /\ Holds(news \o <<b>>, b)
  BY <1>1, <1>2, HoldsEither
<1>5. Holds(<<a>> \o (news \o <<b>>), b)
  BY <1>1, <1>4, HoldsEither
<1>6. ASSUME rcWebcam # on
      PROVE  /\ Holds(<<a>> \o news, Change(on, t))
             /\ Holds(<<a>> \o (news \o <<b>>), Change(on, t))
             /\ Holds(<<a>> \o news \o <<b>>, Change(on, t))
  <2>1. <<a>> \o news \in Seq(S) /\ Holds(<<a>> \o news, Change(on, t))
    BY <1>1, <1>3, <1>6, HoldsEither
  <2>2. Holds(news \o <<b>>, Change(on, t))
    BY <1>1, <1>3, <1>6, HoldsEither
  <2>3. Holds(<<a>> \o (news \o <<b>>), Change(on, t))
    BY <1>1, <1>4, <2>2, HoldsEither
  <2>4. Holds(<<a>> \o news \o <<b>>, Change(on, t))
    BY <1>1, <2>1, HoldsEither
  <2> QED
    BY <2>1, <2>3, <2>4
<1> QED
  BY <1>5, <1>6 DEF news

-----------------------------------------------------------------------------
(* A change as ChangesAnnounced has it, for one step.                       *)
Told ==
  /\ rcWebcam' # rcWebcam => \E t \in RcStamps : SentToDs(Change(rcWebcam', t))
  /\ active' # active => \E t \in RcStamps : SentToDs(Notify("NOTIFY_ACTIVE", active', t))

LEMMA OpModeIsTold ==
  ASSUME RcInv, NEW from \in Stations, NEW p \in Inputs, NEW t \in RcStamps,
         OnStop(from, p, t) \/ OnInit(from, p, t)
  PROVE  Told
<1>1. ds # None
  BY HandleFacts DEF OnStop, OnInit, RcInv
<1>2. active' = active
  BY DEF OnStop, OnInit, configVars
<1>3. PICK on \in BOOLEAN :
        /\ rcWebcam' = on
        /\ rcSent' = ToDs(<<RcAck(p)>> \o (StreamNews(on, t)
                                             \o <<Notify("NOTIFY_INIT", p.extra, t)>>))
  BY DEF OnStop, OnInit, Answer
<1>4. rcWebcam' # rcWebcam => SentToDs(Change(rcWebcam', t))
  BY <1>1, <1>3, NewsIsHeld, HeldIsSent
<1> QED
  BY <1>2, <1>4 DEF Told

LEMMA RestartIsTold ==
  ASSUME RcInv, NEW from \in Stations, NEW p \in Inputs, NEW t \in RcStamps,
         OnRestart(from, p, t)
  PROVE  Told
<1>1. ds # None
  BY HandleFacts DEF OnRestart, RcInv
<1>2. CASE pendingActivation = None
  <2>1. /\ active' = active /\ rcWebcam' = FALSE
        /\ rcSent' = ToDs(<<RcAck(p)>> \o StreamNews(FALSE, t))
    BY <1>2 DEF OnRestart, Answer
  <2>2. rcWebcam' # rcWebcam => SentToDs(Change(rcWebcam', t))
    BY <1>1, <2>1, NewsIsHeld, HeldIsSent
  <2> QED
    BY <2>1, <2>2 DEF Told
<1>3. CASE pendingActivation # None
  <2>1. /\ active' = pendingActivation /\ rcWebcam' = FALSE
        /\ rcSent' = ToDs(<<RcAck(p)>> \o (StreamNews(FALSE, t)
                              \o <<Notify("NOTIFY_ACTIVE", pendingActivation, t)>>))
    BY <1>3 DEF OnRestart, Answer
  <2>2. rcWebcam' # rcWebcam => SentToDs(Change(rcWebcam', t))
    BY <1>1, <2>1, NewsIsHeld, HeldIsSent
  <2>3. SentToDs(Notify("NOTIFY_ACTIVE", active', t))
    BY <1>1, <2>1, NewsIsHeld, HeldIsSent
  <2> QED
    BY <2>2, <2>3 DEF Told
<1> QED
  BY <1>2, <1>3

LEMMA SaveIsTold ==
  ASSUME RcInv, NEW from \in Stations, NEW p \in Inputs, NEW t \in RcStamps,
         OnSave(from, p, t)
  PROVE  Told
<1>1. ds # None /\ rcWebcam' = rcWebcam
  BY HandleFacts DEF OnSave, RcInv, camVars
<1>2. rcSent' = ToDs(<<RcAck(p)>> \o <<Notify("NOTIFY_ACTIVE", active', t)>>)
  BY DEF OnSave, Answer
<1> DEFINE a == RcAck(p)
           b == Notify("NOTIFY_ACTIVE", active', t)
<1>3. <<a>> \in Seq({a, b}) /\ <<b>> \in Seq({a, b}) /\ Holds(<<b>>, b)
  BY DEF Holds
<1>4. Holds(<<a>> \o <<b>>, b)
  <2> HIDE DEF a, b
  <2> QED
    BY <1>3, HoldsEither
<1>5. SentToDs(b)
  BY <1>1, <1>2, <1>4, HeldIsSent
<1> QED
  BY <1>1, <1>5 DEF Told

(* A crash has a station to be told: one was served when the OpMode started. *)
LEMMA CrashIsTold ==
  ASSUME RcInv, NEW t \in RcStamps, Crash(t)
  PROVE  Told
<1>1. ds # None
  BY DEF Crash, Crashing, RcInv, NothingUnserved
<1>2. active' = active /\ rcWebcam' = FALSE
  BY DEF Crash, configVars
<1>3. rcSent' = ToDs(<<Notify("STACKTRACE", "", t)>> \o StreamNews(FALSE, t)
                       \o <<Notify("NOTIFY_INIT", StopOpMode, t)>>)
  BY DEF Crash
<1>4. rcWebcam' # rcWebcam => SentToDs(Change(rcWebcam', t))
  BY <1>1, <1>2, <1>3, NewsIsHeld, HeldIsSent
<1> QED
  BY <1>2, <1>4 DEF Told

LEMMA QuietSteps ==
  ASSUME UNCHANGED <<rcWebcam, active>>
  PROVE  Told
  BY DEF Told

LEMMA HandlingIsTold ==
  ASSUME RcInv, NEW from \in Stations, NEW p \in Inputs, NEW t \in RcStamps,
         Handling(from, p, t)
  PROVE  Told
<1>1. CASE \/ RefuseStation(from, p) \/ ServeStation(from, p)
           \/ EchoHeartbeat(from, p) \/ IgnoreInput(from, p) \/ OnGamepad(from, p)
  BY <1>1, QuietSteps DEF RefuseStation, ServeStation, EchoHeartbeat, IgnoreInput,
                          OnGamepad, configVars, camVars
<1>2. CASE \/ OnRun(from, p, t) \/ OnRequestFrame(from, p, t) \/ OnRead(from, p, t)
           \/ OnActivate(from, p) \/ OnDelete(from, p) \/ OnBadConfig(from, p)
  BY <1>2, QuietSteps DEF OnRun, OnRequestFrame, OnRead, OnActivate, OnDelete,
                          OnBadConfig, configVars, camVars
<1> QED
  BY <1>1, <1>2, OpModeIsTold, RestartIsTold, SaveIsTold DEF Handling

LEMMA StepIsTold ==
  ASSUME RcInv, [RcNext]_rcVars
  PROVE  [Told]_rcVars
<1>1. CASE HearNothing \/ NoCrash \/ TelemetryTick \/ RcTick
  BY <1>1, QuietSteps DEF HearNothing, NoCrash, TelemetryTick, RcTick, configVars,
                          camVars
<1> QED
  BY <1>1, HandlingIsTold, CrashIsTold DEF RcNext, RcLoop, RcRead

(* Whichever command or crash changes the camera stream or the active       *)
(* configuration, the station served is sent the change in the same step.   *)
THEOREM EveryChangeIsAnnounced == RcSpec => ChangesAnnounced
<1>1. RcInv /\ [RcNext]_rcVars => [Told]_rcVars
  BY StepIsTold
<1> QED
  BY RcInvariant, <1>1, PTL DEF RcSpec, ChangesAnnounced, Told, Change
=============================================================================
