---------------------------- MODULE RobocolClient ----------------------------
(***************************************************************************)
(* The DS side of the protocol: the worker thread of client.rs, the        *)
(* application that calls it, and a network that may hand it any datagram  *)
(* from any address at any time (so loss, duplication, delay, reordering   *)
(* and forged or foreign packets are all behaviours of this module).       *)
(*                                                                         *)
(* The worker's loop is cut at the points where another actor or the clock *)
(* can interfere: the control queue is drained one message at a time, then *)
(* at most one datagram is handled, then the link timeout, the heartbeat,  *)
(* the camera and the retransmissions are seen to.  pc names the next of   *)
(* these steps.  Time is counted in ticks; an Instant is the age, in       *)
(* ticks, of what it dates, kept only up to the limit it is compared with. *)
(*                                                                         *)
(* `sent` and `events` are what the last step put on the socket and on the *)
(* event channel.  Sequence numbers of packets are left out: the client    *)
(* writes them and never reads one.                                        *)
(***************************************************************************)
EXTENDS VecOps, FrameAssembly

CONSTANTS
  None,                    \* Option::None
  Addrs,                   \* the addresses datagrams can come from
  PeerAddrs,               \* ClientConfig.peer_addrs, a sequence of addresses
  RobotStates,
  Names, Extras,           \* names and payloads of commands
  Stamps,                  \* readings of the clock of now_nanos()
  Calls,                   \* the control messages the application sends
  Datagrams,               \* the packets the network delivers
  MaxCtrl,                 \* bound: control messages waiting
  HeartbeatInterval, DisconnectTimeout, CommandRetryInterval,
  CommandMaxAttempts, WebcamMinFrameInterval, WebcamStallTimeout,
  MaxPendingCommands, MaxSeen

Ack(name, stamp) == [kind |-> "ack", name |-> name, stamp |-> stamp]

(* The packets of Packet::parse, by what the client tells apart.  "garbage" *)
(* is what it fails to parse.                                               *)
Packet ==
  [kind : {"garbage", "gamepad", "keepalive"}]
    \cup [kind : {"discovery"}, busy : BOOLEAN]
    \cup [kind : {"heartbeat", "telemetry"}, state : RobotStates]
    \cup [kind : {"ack"}, name : Names, stamp : Stamps]
    \cup [kind : {"notify"}, name : Names, stamp : Stamps, extra : Extras]
    \cup [kind : {"stream"}, name : Names, stamp : Stamps, available : BOOLEAN]
    \cup [kind : {"begin"}, name : Names, stamp : Stamps, num : Int,
          length : Int]
    \cup [kind : {"chunk"}, name : Names, stamp : Stamps, num : Int,
          index : Int, bytes : Seq(Byte)]

Control ==
  [op : {"connect", "disconnect", "gamepad", "shutdown"}]
    \cup [op : {"command"}, name : Names, extra : Extras]

ASSUME ClientAssumption ==
  /\ PeerAddrs \in Seq(Addrs)
  /\ None \notin Addrs \cup RobotStates \cup Nat
  /\ {"ACTIVATE", "RESTART", "REQUEST_FRAME", "REQUEST_ACTIVE",
      "REQUEST_CONFIGS", "REQUEST_OPMODES"} \subseteq Names
  /\ "" \in Extras
  /\ {"Connected", "Disconnected"} \cap Names = {}   \* events, not commands
  /\ Stamps # {}
  /\ Calls \subseteq Control
  /\ Datagrams \subseteq Packet

ASSUME LimitAssumption ==
  /\ MaxCtrl \in Nat
  /\ HeartbeatInterval \in Nat /\ DisconnectTimeout \in Nat
  /\ CommandRetryInterval \in Nat /\ CommandMaxAttempts \in Nat
  /\ WebcamMinFrameInterval \in Nat /\ WebcamStallTimeout \in Nat
  /\ MaxPendingCommands \in Nat \ {0} /\ MaxSeen \in Nat \ {0}

VARIABLES
  pc,                 \* the worker's next step, "stopped" once it returned
  ctrl,               \* the control channel
  receiving,          \* whether the application still holds the receiver
  peer, discovering, robotState,
  rxAge,              \* last_rx
  beatAge,            \* last_beat
  pending,            \* commands not yet acknowledged
  seen,               \* the last commands surfaced
  webcamAvailable, webcamPending, frames,
  requestAge,         \* last_webcam_request
  sent, events,
  appPeer             \* what an application that follows the events believes

linkVars   == <<peer, discovering, robotState, rxAge, beatAge>>
queueVars  == <<pending, seen>>
webcamVars == <<webcamAvailable, webcamPending, frames, requestAge>>
vars == <<pc, ctrl, receiving, linkVars, queueVars, webcamVars,
          sent, events, appPeer>>

-----------------------------------------------------------------------------
(* Options and ages. *)

Option(S) == S \cup {None}
(* Seeded fault: an age that grows one tick too far. *)
CapLate(age, limit) == IF age \in 0..limit THEN age + 1 ELSE age
Cap(age, limit) == IF age \in 0..(limit - 1) THEN age + 1 ELSE age
Elapsed(age, limit) == age \notin 0..(limit - 1)    \* is_none_or(.. >= limit)
RequestLimit == IF WebcamMinFrameInterval > WebcamStallTimeout
                THEN WebcamMinFrameInterval ELSE WebcamStallTimeout

(* The event channel.  A checked send to a receiver that is gone ends the   *)
(* worker; the report of an overflow is the one send nobody checks.         *)
Connected(p) == [event |-> "Connected", peer |-> p]
Disconnected == [event |-> "Disconnected"]
Dropped(name) == [event |-> "CommandDropped", name |-> name]
Surfaced(event, value) == [event |-> event, value |-> value]
ProtocolError == [event |-> "ProtocolError"]

Told(evs) ==
  IF \E i \in DOMAIN evs : evs[i].event = "Connected"
  THEN evs[CHOOSE i \in DOMAIN evs : evs[i].event = "Connected"].peer
  ELSE IF \E i \in DOMAIN evs : evs[i].event = "Disconnected"
  THEN None ELSE appPeer

Tell(evs, checked, next) ==
  IF receiving
  THEN events' = evs /\ appPeer' = Told(evs) /\ pc' = next
  ELSE /\ events' = <<>> /\ UNCHANGED appPeer
       /\ pc' = IF checked THEN "stopped" ELSE next

Quietly(next) == Tell(<<>>, FALSE, next)

(* The socket: sends are best effort, their errors ignored. *)
To(addr, packet) == [to |-> addr, packet |-> packet]

(* queue_command, for a sequence of commands.  The worker stamps a command  *)
(* with the clock when it queues it; the oldest ones make room for it.      *)
Command(name, extra, stamp) ==
  [name |-> name, extra |-> extra, stamp |-> stamp,
   sentAge |-> None, attempts |-> 0]

(* Seeded faults: no limit; the newest command first. *)
PushUnbounded(q, cmds) == q \o cmds
PushFront(q, cmds) == Newest(cmds \o q, MaxPendingCommands)
Push(q, cmds) == Newest(q \o cmds, MaxPendingCommands)

Overflow(q, cmds) ==
  LET out == Oldest(q \o cmds, MaxPendingCommands)
  IN  [i \in DOMAIN out |-> Dropped(out[i].name)]

PendingCommand ==
  [name : Names, extra : Extras, stamp : Stamps,
   sentAge : Option(0..CommandRetryInterval), attempts : 0..CommandMaxAttempts]

(* send_webcam_request and request_webcam_frame_paced, on queue q. *)
FrameRequest(t) == <<Command("REQUEST_FRAME", "", t)>>
RequestDue == Elapsed(requestAge, WebcamMinFrameInterval)

(* Seeded faults: the request's time is not noted; requests are not paced.   *)
RequestUndated(q, t) ==
  pending' = Push(q, FrameRequest(t)) /\ UNCHANGED <<requestAge, webcamPending>>
RequestAtOnce(q, t) ==
  pending' = Push(q, FrameRequest(t)) /\ requestAge' = 0 /\ UNCHANGED webcamPending

RequestFramePaced(q, t) ==
  IF RequestDue
  THEN /\ pending' = Push(q, FrameRequest(t))
       /\ requestAge' = 0
       /\ UNCHANGED webcamPending
  ELSE /\ pending' = q
       /\ webcamPending' = TRUE
       /\ UNCHANGED requestAge

PacedOverflow(q, t) == IF RequestDue THEN Overflow(q, FrameRequest(t)) ELSE <<>>

(* drop_peer.  Seeded faults: the commands, or the frames, are kept.        *)
DropPeerKeepsQueue ==
  /\ peer' = None /\ robotState' = None
  /\ pending' = pending /\ seen' = <<>>
  /\ frames' = NoFrames /\ webcamAvailable' = FALSE /\ webcamPending' = FALSE
  /\ UNCHANGED requestAge
DropPeerKeepsFrames ==
  /\ peer' = None /\ robotState' = None
  /\ pending' = <<>> /\ seen' = <<>>
  /\ webcamAvailable' = FALSE /\ webcamPending' = FALSE
  /\ UNCHANGED <<requestAge, frames>>

DropPeer ==
  /\ peer' = None /\ robotState' = None
  /\ pending' = <<>> /\ seen' = <<>>
  /\ frames' = NoFrames /\ webcamAvailable' = FALSE /\ webcamPending' = FALSE
  /\ UNCHANGED requestAge
-----------------------------------------------------------------------------
(* The application: the calls of RobocolClient, its drop, and the drop of   *)
(* the event receiver.  A call never blocks and reports nothing.            *)
Call(c) ==
  /\ pc # "stopped" /\ ~Contains(ctrl, [op |-> "shutdown"])
  /\ Len(ctrl) < MaxCtrl
  /\ ctrl' = Append(ctrl, c)
  /\ sent' = <<>> /\ events' = <<>>
  /\ UNCHANGED <<pc, receiving, linkVars, queueVars, webcamVars, appPeer>>

Shutdown == Call([op |-> "shutdown"])

DropReceiver ==
  /\ receiving /\ pc # "stopped"
  /\ receiving' = FALSE
  /\ sent' = <<>> /\ events' = <<>>
  /\ UNCHANGED <<pc, ctrl, linkVars, queueVars, webcamVars, appPeer>>

-----------------------------------------------------------------------------
(* Draining the control channel. *)

Take(op) ==
  /\ pc = "ctrl" /\ ctrl # <<>> /\ Head(ctrl).op = op
  /\ ctrl' = Tail(ctrl)
  /\ UNCHANGED receiving

(* Seeded fault: the shutdown is drained like any other message. *)
TakeShutdownOn ==
  /\ Take("shutdown")
  /\ sent' = <<>> /\ Quietly("ctrl")
  /\ UNCHANGED <<linkVars, queueVars, webcamVars>>

TakeShutdown ==
  /\ Take("shutdown")
  /\ pc' = "stopped" /\ sent' = <<>> /\ events' = <<>>
  /\ UNCHANGED <<linkVars, queueVars, webcamVars, appPeer>>

TakeCommand(t) ==
  /\ Take("command")
  /\ LET new == <<Command(Head(ctrl).name, Head(ctrl).extra, t)>>
     IN  pending' = Push(pending, new) /\ Tell(Overflow(pending, new), FALSE, "ctrl")
  /\ sent' = <<>>
  /\ UNCHANGED <<linkVars, seen, webcamVars>>

TakeGamepad ==
  /\ Take("gamepad")
  /\ sent' = IF peer = None THEN <<>> ELSE <<To(peer, [kind |-> "gamepad"])>>
  /\ Quietly("ctrl")
  /\ UNCHANGED <<linkVars, queueVars, webcamVars>>

TakeConnect ==
  /\ Take("connect")
  /\ discovering' = TRUE /\ beatAge' = None
  /\ sent' = <<>> /\ Quietly("ctrl")
  /\ UNCHANGED <<peer, robotState, rxAge, queueVars, webcamVars>>

TakeDisconnect ==
  /\ Take("disconnect")
  /\ discovering' = FALSE
  /\ sent' = <<>>
  /\ IF peer # None
     THEN DropPeer /\ Tell(<<Disconnected>>, TRUE, "ctrl")
     ELSE Quietly("ctrl") /\ UNCHANGED <<peer, robotState, queueVars, webcamVars>>
  /\ UNCHANGED <<rxAge, beatAge>>

Drained ==
  /\ pc = "ctrl" /\ ctrl = <<>>
  /\ sent' = <<>> /\ Quietly("recv")
  /\ UNCHANGED <<ctrl, receiving, linkVars, queueVars, webcamVars>>

-----------------------------------------------------------------------------
(* One read of the socket: nothing within the read timeout, an error, or a  *)
(* datagram.                                                                *)

Reading == pc = "recv" /\ UNCHANGED <<ctrl, receiving>>

ReadNothing ==
  /\ Reading
  /\ sent' = <<>> /\ Quietly("expire")
  /\ UNCHANGED <<linkVars, queueVars, webcamVars>>

ReadError ==
  /\ Reading
  /\ sent' = <<>> /\ Tell(<<ProtocolError>>, TRUE, "expire")
  /\ UNCHANGED <<linkVars, queueVars, webcamVars>>

(* Seeded fault: no filter on the sender. *)
ForeignNever(from) == FALSE
Foreign(from) == peer # None /\ peer # from
Deaf == peer = None /\ ~discovering
Latching == peer = None
(* Seeded fault: a busy reply taken for an invitation. *)
IsBusyNever(packet) == FALSE
IsBusy(packet) == packet.kind = "discovery" /\ packet.busy

ReadForeign(from) ==
  /\ Reading /\ Foreign(from)
  /\ sent' = <<>> /\ Tell(<<ProtocolError>>, TRUE, "expire")
  /\ UNCHANGED <<linkVars, queueVars, webcamVars>>

ReadWhilePaused ==
  /\ Reading /\ Deaf
  /\ sent' = <<>> /\ Quietly("expire")
  /\ UNCHANGED <<linkVars, queueVars, webcamVars>>

(* What passes the two filters refreshes the link before it is parsed. *)
Heard(from) == Reading /\ ~Foreign(from) /\ ~Deaf /\ rxAge' = 0

ReadGarbage(from, packet) ==
  /\ Heard(from) /\ packet.kind = "garbage"
  /\ sent' = <<>> /\ Tell(<<ProtocolError>>, TRUE, "expire")
  /\ UNCHANGED <<peer, discovering, robotState, beatAge, queueVars, webcamVars>>

ReadBusy(from, packet) ==
  /\ Heard(from) /\ Latching /\ IsBusy(packet)
  /\ discovering' = FALSE
  /\ sent' = <<>> /\ Tell(<<Surfaced("PeerBusy", from)>>, TRUE, "expire")
  /\ UNCHANGED <<peer, robotState, beatAge, queueVars, webcamVars>>

(* Any other packet is from the peer, or makes its sender the peer. *)
Parsed(from, packet) ==
  /\ Heard(from) /\ packet.kind # "garbage"
  /\ ~(Latching /\ IsBusy(packet))

LatchUntold(from, packet) ==
  /\ Parsed(from, packet) /\ Latching /\ ~receiving
  /\ peer' = from /\ Tell(<<Connected(from)>>, TRUE, "expire")
  /\ sent' = <<>>
  /\ UNCHANGED <<discovering, robotState, beatAge, queueVars, webcamVars>>

Accept(from, packet) ==
  /\ Parsed(from, packet) /\ (Latching => receiving)
  /\ peer' = from
  /\ UNCHANGED <<discovering, beatAge>>

Greeting(t) ==
  IF Latching
  THEN <<Command("REQUEST_ACTIVE", "", t), Command("REQUEST_CONFIGS", "", t),
         Command("REQUEST_OPMODES", "", t)>>
  ELSE <<>>
Greeted(t) == Push(pending, Greeting(t))
LatchEvents(from, t) ==
  IF Latching THEN <<Connected(from)>> \o Overflow(pending, Greeting(t)) ELSE <<>>

AcceptIdle(from, packet, t) ==
  /\ Accept(from, packet)
  /\ packet.kind \in {"discovery", "gamepad", "keepalive"}
  /\ pending' = Greeted(t)
  /\ sent' = <<>> /\ Tell(LatchEvents(from, t), FALSE, "expire")
  /\ UNCHANGED <<robotState, seen, webcamVars>>

(* update_robot_state: only a change is news. *)
StateNews(state) ==
  IF robotState = state THEN <<>> ELSE <<Surfaced("RobotState", state)>>

AcceptHeartbeat(from, packet, t) ==
  /\ Accept(from, packet) /\ packet.kind = "heartbeat"
  /\ robotState' = packet.state
  /\ pending' = Greeted(t)
  /\ sent' = <<>>
  /\ Tell(LatchEvents(from, t) \o StateNews(packet.state),
          StateNews(packet.state) # <<>>, "expire")
  /\ UNCHANGED <<seen, webcamVars>>

AcceptTelemetry(from, packet, t) ==
  /\ Accept(from, packet) /\ packet.kind = "telemetry"
  /\ robotState' = packet.state
  /\ pending' = Greeted(t)
  /\ sent' = <<>>
  /\ Tell(LatchEvents(from, t) \o StateNews(packet.state)
            \o <<Surfaced("Telemetry", packet.state)>>, TRUE, "expire")
  /\ UNCHANGED <<seen, webcamVars>>

(* An acknowledgement settles every pending command of its name and stamp;  *)
(* one of an activation also asks for the restart that applies it.          *)
(* Seeded fault: the stamp is not compared. *)
SettledByName(q, ack) == Retain(q, {i \in DOMAIN q : q[i].name # ack.name})
Settled(q, ack) ==
  Retain(q, {i \in DOMAIN q : q[i].name # ack.name \/ q[i].stamp # ack.stamp})

AfterAck(ack, t) ==
  IF ack.name = "ACTIVATE" THEN <<Command("RESTART", "", t)>> ELSE <<>>

AcceptAck(from, packet, t) ==
  /\ Accept(from, packet) /\ packet.kind = "ack"
  /\ LET q == Settled(Greeted(t), packet)
     IN  /\ pending' = Push(q, AfterAck(packet, t))
         /\ Tell(LatchEvents(from, t) \o Overflow(q, AfterAck(packet, t)),
                 FALSE, "expire")
  /\ sent' = <<>>
  /\ UNCHANGED <<robotState, seen, webcamVars>>

(* Every other command is acknowledged first, then surfaced unless it is    *)
(* among the last MaxSeen ones.  Frames are acknowledged but not remembered. *)
AcceptCommand(from, packet, kinds) ==
  /\ Accept(from, packet) /\ packet.kind \in kinds
  /\ sent' = <<To(from, Ack(packet.name, packet.stamp))>>
  /\ UNCHANGED robotState

Key(packet) == <<packet.name, packet.stamp>>
Remember(packet) ==
  /\ ~Contains(seen, Key(packet))
  /\ seen' = Newest(Append(seen, Key(packet)), MaxSeen)

AcceptDuplicate(from, packet, t) ==
  /\ AcceptCommand(from, packet, {"notify", "stream"})
  /\ Contains(seen, Key(packet))
  /\ pending' = Greeted(t)
  /\ Tell(LatchEvents(from, t), FALSE, "expire")
  /\ UNCHANGED <<seen, webcamVars>>

AcceptNotify(from, packet, t) ==
  /\ AcceptCommand(from, packet, {"notify"})
  /\ Remember(packet)
  /\ pending' = Greeted(t)
  /\ Tell(LatchEvents(from, t) \o <<Surfaced(packet.name, packet.extra)>>,
          TRUE, "expire")
  /\ UNCHANGED webcamVars

(* handle_stream_change. *)
AcceptStreamOn(from, packet, t) ==
  /\ AcceptCommand(from, packet, {"stream"}) /\ packet.available
  /\ Remember(packet)
  /\ webcamAvailable' = TRUE
  /\ RequestFramePaced(Greeted(t), t)
  /\ Tell(LatchEvents(from, t) \o PacedOverflow(Greeted(t), t)
            \o <<Surfaced("WebcamAvailable", TRUE)>>, TRUE, "expire")
  /\ UNCHANGED frames

AcceptStreamOff(from, packet, t) ==
  /\ AcceptCommand(from, packet, {"stream"}) /\ ~packet.available
  /\ Remember(packet)
  /\ webcamAvailable' = FALSE
  /\ webcamPending' = FALSE
  /\ frames' = NoFrames
  /\ pending' = Greeted(t)
  /\ Tell(LatchEvents(from, t) \o <<Surfaced("WebcamAvailable", FALSE)>>,
          TRUE, "expire")
  /\ UNCHANGED requestAge

AcceptFrameBegin(from, packet, t) ==
  /\ AcceptCommand(from, packet, {"begin"})
  /\ frames' = BeginFrame(frames, packet.num, packet.length)
  /\ pending' = Greeted(t)
  /\ Tell(LatchEvents(from, t), FALSE, "expire")
  /\ UNCHANGED <<seen, webcamAvailable, webcamPending, requestAge>>

AcceptFrameChunk(from, packet, t) ==
  /\ AcceptCommand(from, packet, {"chunk"})
  /\ frames' = AddChunk(frames, packet)
  /\ ~Completes(frames, packet)
  /\ pending' = Greeted(t)
  /\ Tell(LatchEvents(from, t), FALSE, "expire")
  /\ UNCHANGED <<seen, webcamAvailable, webcamPending, requestAge>>

(* The chunk that completes a frame; no frame is under assembly without a   *)
(* peer, so this is never the packet that makes one.                        *)
AcceptLastChunk(from, packet, t) ==
  /\ AcceptCommand(from, packet, {"chunk"})
  /\ Completes(frames, packet)
  /\ frames' = AddChunk(frames, packet)
  /\ IF webcamAvailable
     THEN RequestFramePaced(pending, t)
     ELSE UNCHANGED <<pending, webcamPending, requestAge>>
  /\ Tell((IF webcamAvailable THEN PacedOverflow(pending, t) ELSE <<>>)
            \o <<Surfaced("WebcamFrame", Written(frames, packet).data)>>,
          TRUE, "expire")
  /\ UNCHANGED <<seen, webcamAvailable>>

Read(from, packet, t) ==
  \/ ReadForeign(from)
  \/ ReadGarbage(from, packet) \/ ReadBusy(from, packet)
  \/ LatchUntold(from, packet)
  \/ AcceptIdle(from, packet, t)
  \/ AcceptHeartbeat(from, packet, t) \/ AcceptTelemetry(from, packet, t)
  \/ AcceptAck(from, packet, t)
  \/ AcceptDuplicate(from, packet, t) \/ AcceptNotify(from, packet, t)
  \/ AcceptStreamOn(from, packet, t) \/ AcceptStreamOff(from, packet, t)
  \/ AcceptFrameBegin(from, packet, t)
  \/ AcceptFrameChunk(from, packet, t) \/ AcceptLastChunk(from, packet, t)

-----------------------------------------------------------------------------
(* The rest of the loop. *)

(* Seeded fault: only a controller that reported its state can go silent.   *)
OverdueIfReported ==
  peer # None /\ robotState # None /\ rxAge > DisconnectTimeout
Overdue == peer # None /\ rxAge > DisconnectTimeout

Expire ==
  /\ pc = "expire" /\ Overdue
  /\ DropPeer
  /\ sent' = <<>> /\ Tell(<<Disconnected>>, TRUE, "beat")
  /\ UNCHANGED <<ctrl, receiving, discovering, rxAge, beatAge>>

NotExpired ==
  /\ pc = "expire" /\ ~Overdue
  /\ sent' = <<>> /\ Quietly("beat")
  /\ UNCHANGED <<ctrl, receiving, linkVars, queueVars, webcamVars>>

(* tick: a heartbeat to the peer, or a discovery to every candidate.        *)
(* Seeded faults: discovery goes on when paused; discovery is not repeated. *)
BeatsWhilePaused ==
  IF peer # None THEN <<To(peer, [kind |-> "heartbeat"])>>
  ELSE [i \in DOMAIN PeerAddrs |-> To(PeerAddrs[i], [kind |-> "discovery"])]
BeatsToPeer == IF peer # None THEN <<To(peer, [kind |-> "heartbeat"])>> ELSE <<>>

Beats ==
  IF peer # None THEN <<To(peer, [kind |-> "heartbeat"])>>
  ELSE IF discovering
  THEN [i \in DOMAIN PeerAddrs |-> To(PeerAddrs[i], [kind |-> "discovery"])]
  ELSE <<>>

Beat ==
  /\ pc = "beat" /\ Elapsed(beatAge, HeartbeatInterval)
  /\ beatAge' = 0
  /\ sent' = Beats /\ Quietly("webcam")
  /\ UNCHANGED <<ctrl, receiving, peer, discovering, robotState, rxAge,
                 queueVars, webcamVars>>

NoBeat ==
  /\ pc = "beat" /\ ~Elapsed(beatAge, HeartbeatInterval)
  /\ sent' = <<>> /\ Quietly("webcam")
  /\ UNCHANGED <<ctrl, receiving, linkVars, queueVars, webcamVars>>

WebcamOwed == webcamPending /\ RequestDue
(* Seeded fault: a stall is only seen while a frame is under assembly. *)
WebcamStalledMidFrame ==
  /\ ~WebcamOwed
  /\ webcamAvailable /\ ~webcamPending /\ frames # NoFrames
  /\ requestAge # None /\ requestAge >= WebcamStallTimeout
WebcamStalled ==
  /\ ~WebcamOwed
  /\ webcamAvailable /\ ~webcamPending
  /\ requestAge # None /\ requestAge >= WebcamStallTimeout

RequestOwedFrame(t) ==
  /\ pc = "webcam" /\ WebcamOwed
  /\ webcamPending' = FALSE /\ requestAge' = 0
  /\ pending' = Push(pending, FrameRequest(t))
  /\ sent' = <<>>
  /\ Tell(Overflow(pending, FrameRequest(t)), FALSE, "retransmit")
  /\ UNCHANGED <<ctrl, receiving, linkVars, seen, webcamAvailable, frames>>

RecoverStall(t) ==
  /\ pc = "webcam" /\ WebcamStalled
  /\ frames' = NoFrames
  /\ RequestFramePaced(pending, t)
  /\ sent' = <<>> /\ Tell(PacedOverflow(pending, t), FALSE, "retransmit")
  /\ UNCHANGED <<ctrl, receiving, linkVars, seen, webcamAvailable>>

WebcamIdle ==
  /\ pc = "webcam" /\ ~WebcamOwed /\ ~WebcamStalled
  /\ sent' = <<>> /\ Quietly("retransmit")
  /\ UNCHANGED <<ctrl, receiving, linkVars, queueVars, webcamVars>>

(* retransmit_pending: a command not waiting for its retry interval is sent *)
(* again, or given up once it has had its attempts.                         *)
Waiting(p)   == p.sentAge \in 0..(CommandRetryInterval - 1)
Exhausted(p) == ~Waiting(p) /\ p.attempts >= CommandMaxAttempts
(* Seeded fault: attempts are not counted. *)
AttemptedUncounted(p) == IF Waiting(p) THEN p ELSE [p EXCEPT !.sentAge = 0]
Attempted(p) == IF Waiting(p) THEN p
                ELSE [p EXCEPT !.attempts = @ + 1, !.sentAge = 0]

Due    == {i \in DOMAIN pending : ~Waiting(pending[i]) /\ ~Exhausted(pending[i])}
GiveUp == {i \in DOMAIN pending : Exhausted(pending[i])}

Retransmit ==
  /\ pc = "retransmit" /\ peer # None
  /\ LET kept   == Retain(pending, DOMAIN pending \ GiveUp)
         resent == Retain(pending, Due)
         failed == Retain(pending, GiveUp)
     IN  /\ pending' = [i \in DOMAIN kept |-> Attempted(kept[i])]
         /\ sent' = [i \in DOMAIN resent |->
                       To(peer, [kind  |-> "command",
                                 name  |-> resent[i].name,
                                 stamp |-> resent[i].stamp,
                                 extra |-> resent[i].extra])]
         /\ Tell([i \in DOMAIN failed |-> Dropped(failed[i].name)],
                 GiveUp # {}, "ctrl")
  /\ UNCHANGED <<ctrl, receiving, linkVars, seen, webcamVars>>

NothingToRetransmit ==
  /\ pc = "retransmit" /\ peer = None
  /\ sent' = <<>> /\ Quietly("ctrl")
  /\ UNCHANGED <<ctrl, receiving, linkVars, queueVars, webcamVars>>

-----------------------------------------------------------------------------
(* Time passes between any two steps. *)
Tick ==
  /\ pc # "stopped"
  /\ rxAge' = Cap(rxAge, DisconnectTimeout + 1)
  /\ beatAge' = Cap(beatAge, HeartbeatInterval)
  /\ requestAge' = Cap(requestAge, RequestLimit)
  /\ pending' = [i \in DOMAIN pending |->
       [pending[i] EXCEPT !.sentAge = Cap(@, CommandRetryInterval)]]
  /\ sent' = <<>> /\ events' = <<>>
  /\ UNCHANGED <<pc, ctrl, receiving, peer, discovering, robotState, seen,
                 webcamAvailable, webcamPending, frames, appPeer>>

Init ==
  /\ pc = "ctrl" /\ ctrl = <<>> /\ receiving = TRUE
  /\ peer = None /\ discovering = TRUE /\ robotState = None
  /\ rxAge = 0 /\ beatAge = None
  /\ pending = <<>> /\ seen = <<>>
  /\ webcamAvailable = FALSE /\ webcamPending = FALSE
  /\ frames = NoFrames /\ requestAge = None
  /\ sent = <<>> /\ events = <<>> /\ appPeer = None

App == (\E c \in Calls : Call(c)) \/ Shutdown \/ DropReceiver

Drain ==
  \/ TakeShutdown \/ TakeGamepad \/ TakeConnect \/ TakeDisconnect \/ Drained
  \/ \E t \in Stamps : TakeCommand(t)

Receive ==
  \/ ReadNothing \/ ReadError \/ ReadWhilePaused
  \/ \E from \in Addrs, packet \in Datagrams, t \in Stamps : Read(from, packet, t)

Upkeep ==
  \/ Expire \/ NotExpired \/ Beat \/ NoBeat \/ WebcamIdle
  \/ \E t \in Stamps : RequestOwedFrame(t) \/ RecoverStall(t)
  \/ Retransmit \/ NothingToRetransmit

Worker == Drain \/ Receive \/ Upkeep

Next == App \/ Worker \/ Tick

Spec == Init /\ [][Next]_vars

(* The worker's thread is scheduled, time passes, and the application does  *)
(* not slip a message into the channel each time the worker is about to     *)
(* find it empty (one that did would keep it from the socket for ever).     *)
(* Nothing is assumed of the network.                                       *)
FairSpec == Spec /\ WF_vars(Worker) /\ WF_vars(Tick) /\ SF_vars(Drained)
-----------------------------------------------------------------------------
ControlTypeOK ==
  /\ pc \in {"ctrl", "recv", "expire", "beat", "webcam", "retransmit", "stopped"}
  /\ ctrl \in Seq(Control)
  /\ receiving \in BOOLEAN
  /\ appPeer \in Option(Addrs)
LinkTypeOK ==
  /\ peer \in Option(Addrs) /\ discovering \in BOOLEAN
  /\ robotState \in Option(RobotStates)
  /\ rxAge \in 0..(DisconnectTimeout + 1)
  /\ beatAge \in Option(0..HeartbeatInterval)
QueueTypeOK ==
  /\ pending \in Seq(PendingCommand)
  /\ seen \in Seq(Names \X Stamps)
WebcamTypeOK ==
  /\ webcamAvailable \in BOOLEAN /\ webcamPending \in BOOLEAN
  /\ DOMAIN frames \subseteq Int /\ IsFiniteSet(DOMAIN frames)
  /\ frames \in [DOMAIN frames -> PartialFrame]
  /\ requestAge \in Option(0..RequestLimit)
TypeOK == ControlTypeOK /\ LinkTypeOK /\ QueueTypeOK /\ WebcamTypeOK

(* A peer is only ever held while discovery is on, so a session that times  *)
(* out is followed by a search; and a client that is paused, by disconnect()*)
(* or by a busy controller, puts nothing on the network.                    *)
QuietWhenPaused == ~discovering => peer = None /\ sent = <<>>

(* Nothing of a session outlives it: without a peer there is no robot state,*)
(* no duplicate filter, no camera, no half-assembled frame, and no command  *)
(* that an earlier peer was already sent.                                   *)
FreshSession ==
  peer = None =>
    /\ robotState = None /\ seen = <<>>
    /\ ~webcamAvailable /\ frames = NoFrames
    /\ \A i \in DOMAIN pending : pending[i].attempts = 0

(* A frame is owed only while the camera is on, and while it is on the time *)
(* of the last request is known: the stall recovery can always fire.        *)
WebcamArmed ==
  /\ webcamPending => webcamAvailable
  /\ webcamAvailable => requestAge # None

(* What a peer can make the client hold is bounded. *)
BoundedMemory ==
  /\ Len(pending) <= MaxPendingCommands
  /\ Len(seen) <= MaxSeen
  /\ Cardinality(DOMAIN frames) <= MaxConcurrentFrames

(* Commands are first transmitted in the order they were queued: one that   *)
(* was sent never waits behind one that was not.                            *)
FirstSentInOrder ==
  \A i, j \in DOMAIN pending :
    i < j /\ pending[j].attempts > 0 => pending[i].attempts > 0

(* A frame under assembly always lacks a chunk (or has none at all): what is *)
(* complete has been handed over, and no chunk is counted that is not there. *)
NoCompleteFrameWaits ==
  \A n \in DOMAIN frames :
    LET chunks == 0..(ChunkCount(Len(frames[n].data)) - 1)
    IN  /\ frames[n].received \subseteq chunks
        /\ chunks # {} => frames[n].received # chunks

(* The session the application was told of is the session there is. *)
ViewIsPeer == receiving /\ pc # "stopped" => appPeer = peer

(* The client implements the session its application is promised. *)
Closed == pc = "stopped" \/ ~receiving
Session ==
  INSTANCE DsSession WITH
    link <- IF Closed THEN "closed"
            ELSE IF peer # None THEN "connected"
            ELSE IF discovering THEN "searching" ELSE "paused",
    peer <- IF Closed THEN None ELSE peer,
    view <- IF Closed THEN None ELSE appPeer

SessionSpec == Session!Spec

(* No command is lost in silence: one that leaves the queue was reported    *)
(* dropped, or went with its session, or all that left in that step answer  *)
(* to the one acknowledgement that was read.                                *)
Identity(p) == <<p.name, p.stamp>>
Lost(i) ==
  /\ \A j \in DOMAIN pending' : Identity(pending'[j]) # Identity(pending[i])
  /\ ~Contains(events', Dropped(pending[i].name))
SessionEnds == peer # None /\ peer' = None /\ Contains(events', Disconnected)
LossIsReported ==
  [][receiving /\ pc' # "stopped" =>
       \A i, j \in DOMAIN pending :
         Lost(i) /\ Lost(j) =>
           \/ SessionEnds
           \/ pc = "recv" /\ Identity(pending[i]) = Identity(pending[j])]_vars

(* However a frame comes to be requested (a frame completed, the stream came *)
(* on, a request was owed, the camera stalled), requests keep their distance; *)
(* only what the application itself sends is not paced.                       *)
RequestsPaced ==
  [][pc # "ctrl" /\ (\E i \in DOMAIN pending' :
                        /\ pending'[i].name = "REQUEST_FRAME" /\ pending'[i].attempts = 0
                        /\ \A j \in DOMAIN pending : pending[j] # pending'[i])
       => RequestDue]_vars

-----------------------------------------------------------------------------
(* Liveness, of FairSpec. *)

Stopped == pc = "stopped"

(* A peer that has gone silent does not hold the session for ever. *)
SilenceEndsSession == []<>(peer = None \/ rxAge = 0 \/ Stopped)

(* Unless it is paused the client beats for ever: discovery or heartbeat. *)
KeepsBeating ==
  []<>(\/ ~discovering \/ Stopped
       \/ \E i \in DOMAIN sent : sent[i].packet.kind \in {"discovery", "heartbeat"})

(* A command queued for a peer is acknowledged, reported dropped, or goes   *)
(* with the session: it is not retransmitted for ever.                      *)
CommandsSettle ==
  \A c \in Names \X Stamps :
    LET queued == \E i \in DOMAIN pending : Identity(pending[i]) = c
    IN  queued /\ peer # None ~>
          \/ ~queued \/ peer = None \/ Stopped \/ ~receiving
          \/ Contains(events, Dropped(c[1]))

(* While the camera is on, frames are asked for again and again, whatever   *)
(* requests, frames or chunks were lost.                                    *)
CameraKeepsAsking == []<>(~webcamAvailable \/ requestAge = 0 \/ Stopped)

(* Dropping the client ends the worker. *)
ShutdownEnds == Contains(ctrl, [op |-> "shutdown"]) ~> Stopped
=============================================================================
