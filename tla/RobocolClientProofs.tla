------------------------ MODULE RobocolClientProofs ------------------------
(***************************************************************************)
(* The worker of client.rs, for every set of addresses, names, payloads,   *)
(* datagrams and calls, and every value of its limits and intervals: its   *)
(* types, its safety invariants, that it implements DsSession, the order   *)
(* and the pace of what it sends, and that it loses nothing unreported.    *)
(*                                                                         *)
(* The inductive invariant is ClientInv.  Its parts are carried over a     *)
(* step by one lemma each: QueueStep, FramesStep, FlagsStep, FreshStep,    *)
(* LinkStep, QuietStep, ControlStep and ViewStep.                          *)
(*                                                                         *)
(* The argument for the order: commands join the queue at its end and      *)
(* leave it anywhere, which keeps what is left in order; and one round of  *)
(* retransmissions tries every command that was never tried.  The latter   *)
(* holds because a command not yet attempted has no time of sending to     *)
(* wait for.  For the pace this matters once more: the clock, which makes  *)
(* older what was sent, never turns an unsent request into a new one.      *)
(***************************************************************************)
EXTENDS RobocolClient, FrameAssemblyProofs, TLAPS

(* The events that say nothing of the session.                              *)
Value == Extras \cup BOOLEAN \cup RobotStates \cup Addrs \cup Seq(Byte \cup {Blank})
EventName ==
  Names \cup {"PeerBusy", "RobotState", "Telemetry", "WebcamAvailable", "WebcamFrame"}
News ==
  [event : {"CommandDropped"}, name : Names]
    \cup [event : {"ProtocolError"}] \cup [event : EventName, value : Value]

LEMMA Words ==
  /\ "ACTIVATE" \in Names /\ "RESTART" \in Names /\ "REQUEST_FRAME" \in Names
  /\ "REQUEST_ACTIVE" \in Names /\ "REQUEST_CONFIGS" \in Names
  /\ "REQUEST_OPMODES" \in Names /\ "" \in Extras
  BY ClientAssumption

LEMMA NoneIsNo == None \notin Addrs /\ None \notin RobotStates /\ None \notin Nat
  BY ClientAssumption

-----------------------------------------------------------------------------
(* What an application makes of the events of a step.                        *)
LEMMA NewsIsSilent ==
  ASSUME NEW e \in News
  PROVE  e.event # "Connected" /\ e.event # "Disconnected"
  BY ClientAssumption DEF News, EventName

LEMMA ToldNews ==
  ASSUME NEW evs \in Seq(News) PROVE Told(evs) = appPeer
<1>1. \A i \in DOMAIN evs : evs[i] \in News
  OBVIOUS
<1> QED BY <1>1, NewsIsSilent DEF Told

LEMMA ToldConnected ==
  ASSUME NEW p, NEW evs \in Seq(News \cup {Connected(p)}),
         NEW k \in DOMAIN evs, evs[k] = Connected(p)
  PROVE  Told(evs) = p
<1>1. evs[k].event = "Connected" /\ Connected(p).peer = p
  BY DEF Connected
<1>2. ASSUME NEW i \in DOMAIN evs, evs[i].event = "Connected"
      PROVE  evs[i].peer = p
  <2>1. evs[i] \in News \cup {Connected(p)}
    OBVIOUS
  <2>2. evs[i] \notin News
    BY <1>2, NewsIsSilent
  <2> QED BY <1>1, <2>1, <2>2
<1> DEFINE i == CHOOSE j \in DOMAIN evs : evs[j].event = "Connected"
<1>3. i \in DOMAIN evs /\ evs[i].event = "Connected"
  BY <1>1
<1>4. Told(evs) = evs[i].peer
  BY <1>1 DEF Told
<1> HIDE DEF i
<1> QED BY <1>2, <1>3, <1>4

LEMMA ToldDisconnected == Told(<<Disconnected>>) = None
<1> DEFINE evs == <<Disconnected>>
<1>1. DOMAIN evs = {1} /\ evs[1] = Disconnected
  OBVIOUS
<1> HIDE DEF evs
<1> QED BY <1>1 DEF Told, Disconnected, evs

-----------------------------------------------------------------------------
(* The queue operations of the client keep their types and limits.           *)
LEMMA OneInSeq == ASSUME NEW S, NEW x \in S PROVE <<x>> \in Seq(S)
  OBVIOUS

LEMMA ThreeInSeq ==
  ASSUME NEW S, NEW x \in S, NEW y \in S, NEW z \in S PROVE <<x, y, z>> \in Seq(S)
  OBVIOUS

LEMMA NoneInSeq == ASSUME NEW S PROVE <<>> \in Seq(S)
  OBVIOUS

LEMMA CommandType ==
  ASSUME NEW name \in Names, NEW extra \in Extras, NEW t \in Stamps
  PROVE  Command(name, extra, t) \in PendingCommand
  BY LimitAssumption DEF Command, PendingCommand, Option

LEMMA PushType ==
  ASSUME NEW q \in Seq(PendingCommand), NEW cmds \in Seq(PendingCommand)
  PROVE  /\ Push(q, cmds) \in Seq(PendingCommand)
         /\ Len(Push(q, cmds)) <= MaxPendingCommands
         /\ Overflow(q, cmds) \in Seq(News)
<1>1. q \o cmds \in Seq(PendingCommand) /\ MaxPendingCommands \in Nat
  BY LimitAssumption
<1> DEFINE s == q \o cmds
           out == Oldest(s, MaxPendingCommands)
<1>2. out \in Seq(PendingCommand)
  <2>1. Excess(s, MaxPendingCommands) \in 0..Len(s)
    BY <1>1 DEF Excess
  <2> HIDE DEF s
  <2>2. SubSeq(s, 1, Excess(s, MaxPendingCommands)) \in Seq(PendingCommand)
    BY <1>1, <2>1 DEF s
  <2> QED BY <2>2 DEF Oldest
<1> HIDE DEF s
<1>3. Overflow(q, cmds) = [i \in DOMAIN out |-> Dropped(out[i].name)]
  BY DEF Overflow, s
<1> HIDE DEF out
<1>4. ASSUME NEW i \in DOMAIN out PROVE Dropped(out[i].name) \in News
  <2>1. out[i] \in PendingCommand
    BY <1>2
  <2>2. out[i].name \in Names
    BY <2>1 DEF PendingCommand
  <2> QED BY <2>2 DEF Dropped, News
<1>5. DOMAIN out = 1..Len(out) /\ Len(out) \in Nat
  BY <1>2
<1>6. Overflow(q, cmds) \in Seq(News)
  BY <1>3, <1>4, <1>5
<1>7. /\ Newest(s, MaxPendingCommands) \in Seq(PendingCommand)
      /\ Len(Newest(s, MaxPendingCommands)) <= MaxPendingCommands
  BY <1>1, NewestType DEF s
<1> QED BY <1>6, <1>7 DEF Push, s

LEMMA FrameRequestType ==
  ASSUME NEW t \in Stamps PROVE FrameRequest(t) \in Seq(PendingCommand)
<1>1. Command("REQUEST_FRAME", "", t) \in PendingCommand
  BY CommandType, Words
<1> QED BY <1>1, OneInSeq DEF FrameRequest

LEMMA GreetingType ==
  ASSUME NEW t \in Stamps PROVE Greeting(t) \in Seq(PendingCommand)
<1>1. /\ Command("REQUEST_ACTIVE", "", t) \in PendingCommand
      /\ Command("REQUEST_CONFIGS", "", t) \in PendingCommand
      /\ Command("REQUEST_OPMODES", "", t) \in PendingCommand
  BY CommandType, Words
<1> QED BY <1>1, ThreeInSeq, NoneInSeq DEF Greeting

LEMMA GreetedType ==
  ASSUME QueueTypeOK, NEW t \in Stamps
  PROVE  /\ Greeted(t) \in Seq(PendingCommand)
         /\ Len(Greeted(t)) <= MaxPendingCommands
         /\ Overflow(pending, Greeting(t)) \in Seq(News)
  BY PushType, GreetingType DEF Greeted, QueueTypeOK

LEMMA SettledType ==
  ASSUME NEW q \in Seq(PendingCommand), NEW ack
  PROVE  Settled(q, ack) \in Seq(PendingCommand) /\ Len(Settled(q, ack)) <= Len(q)
<1> DEFINE K == {i \in DOMAIN q : q[i].name # ack.name \/ q[i].stamp # ack.stamp}
<1>1. K \in SUBSET DOMAIN q
  OBVIOUS
<1> HIDE DEF K
<1> QED BY <1>1, RetainType DEF Settled, K

LEMMA AfterAckType ==
  ASSUME NEW ack, NEW t \in Stamps
  PROVE  AfterAck(ack, t) \in Seq(PendingCommand)
<1>1. Command("RESTART", "", t) \in PendingCommand
  BY CommandType, Words
<1> QED BY <1>1, OneInSeq, NoneInSeq DEF AfterAck

LEMMA CapType ==
  ASSUME NEW limit \in Nat, NEW age \in Option(0..limit)
  PROVE  Cap(age, limit) \in Option(0..limit) /\ (age # None => Cap(age, limit) # None)
  BY NoneIsNo DEF Cap, Option

LEMMA AttemptedType ==
  ASSUME NEW p \in PendingCommand, ~Exhausted(p)
  PROVE  Attempted(p) \in PendingCommand
<1>1. /\ p.attempts \in 0..CommandMaxAttempts
      /\ p = [name |-> p.name, extra |-> p.extra, stamp |-> p.stamp,
              sentAge |-> p.sentAge, attempts |-> p.attempts]
  BY DEF PendingCommand
<1>2. CASE ~Waiting(p)
  <2>1. p.attempts + 1 \in 0..CommandMaxAttempts
    BY <1>1, <1>2, LimitAssumption DEF Exhausted
  <2>2. 0 \in Option(0..CommandRetryInterval)
    BY LimitAssumption DEF Option
  <2> QED BY <1>2, <2>1, <2>2 DEF Attempted, PendingCommand
<1> QED BY <1>2 DEF Attempted

LEMMA AgedType ==
  ASSUME NEW p \in PendingCommand
  PROVE  [p EXCEPT !.sentAge = Cap(@, CommandRetryInterval)] \in PendingCommand
<1>1. Cap(p.sentAge, CommandRetryInterval) \in Option(0..CommandRetryInterval)
  BY CapType, LimitAssumption DEF PendingCommand
<1> QED BY <1>1 DEF PendingCommand

LEMMA PacedType ==
  ASSUME NEW q \in Seq(PendingCommand), Len(q) <= MaxPendingCommands,
         NEW t \in Stamps, requestAge \in Option(0..RequestLimit),
         webcamPending \in BOOLEAN, RequestFramePaced(q, t)
  PROVE  /\ pending' \in Seq(PendingCommand) /\ Len(pending') <= MaxPendingCommands
         /\ requestAge' \in Option(0..RequestLimit) /\ requestAge' # None
         /\ webcamPending' \in BOOLEAN
         /\ PacedOverflow(q, t) \in Seq(News)
<1>1. RequestLimit \in Nat
  BY LimitAssumption DEF RequestLimit
<1>2. CASE RequestDue
  BY <1>1, <1>2, PushType, FrameRequestType, NoneIsNo
     DEF RequestFramePaced, PacedOverflow, Option
<1>3. CASE ~RequestDue
  <2>1. requestAge # None
    BY <1>3, NoneIsNo, LimitAssumption DEF RequestDue, Elapsed
  <2> QED BY <1>3, <2>1, NoneInSeq DEF RequestFramePaced, PacedOverflow
<1> QED BY <1>2, <1>3

LEMMA PacketFields ==
  ASSUME NEW packet \in Datagrams
  PROVE  /\ packet.kind \in {"heartbeat", "telemetry"} => packet.state \in RobotStates
         /\ packet.kind \in {"ack", "notify", "stream", "begin", "chunk"} =>
              packet.name \in Names /\ packet.stamp \in Stamps
         /\ packet.kind = "notify" => packet.extra \in Extras
         /\ packet.kind = "begin" => packet.num \in Int /\ packet.length \in Int
         /\ packet.kind = "chunk" => IsChunk(packet)
<1>1. packet \in Packet
  BY ClientAssumption
<1> QED BY <1>1 DEF Packet, IsChunk

LEMMA CallFields ==
  ASSUME NEW c \in Control, c.op = "command"
  PROVE  c.name \in Names /\ c.extra \in Extras
  BY DEF Control

-----------------------------------------------------------------------------
(* The queues keep their type and their limits.                             *)
QueueOK ==
  QueueTypeOK /\ Len(pending) <= MaxPendingCommands /\ Len(seen) <= MaxSeen

LEMMA EmptyQueues ==
  ASSUME pending' = <<>>, seen' = <<>> PROVE QueueOK'
  BY NoneInSeq, LimitAssumption DEF QueueOK, QueueTypeOK

LEMMA QueueDrain ==
  ASSUME TypeOK, QueueOK, Drain PROVE QueueOK'
<1>1. CASE TakeShutdown \/ TakeGamepad \/ TakeConnect \/ Drained
  BY <1>1 DEF TakeShutdown, TakeGamepad, TakeConnect, Drained, queueVars,
              QueueOK, QueueTypeOK
<1>2. CASE TakeDisconnect
  <2>1. (pending' = <<>> /\ seen' = <<>>) \/ (pending' = pending /\ seen' = seen)
    BY <1>2 DEF TakeDisconnect, DropPeer, queueVars
  <2> QED BY <2>1, EmptyQueues DEF QueueOK, QueueTypeOK
<1>3. ASSUME NEW t \in Stamps, TakeCommand(t) PROVE QueueOK'
  <2> DEFINE c == Command(Head(ctrl).name, Head(ctrl).extra, t)
  <2>1. Head(ctrl) \in Control /\ Head(ctrl).op = "command"
    BY <1>3 DEF TakeCommand, Take, TypeOK, ControlTypeOK
  <2>2. c \in PendingCommand
    BY <2>1, CallFields, CommandType
  <2>3. pending' = Push(pending, <<c>>) /\ seen' = seen
    BY <1>3 DEF TakeCommand
  <2> HIDE DEF c
  <2> QED BY <2>2, <2>3, OneInSeq, PushType DEF QueueOK, QueueTypeOK
<1> QED BY <1>1, <1>2, <1>3 DEF Drain

LEMMA RememberType ==
  ASSUME QueueOK, NEW packet \in Datagrams, Remember(packet),
         packet.kind \in {"notify", "stream"}
  PROVE  seen' \in Seq(Names \X Stamps) /\ Len(seen') <= MaxSeen
<1> DEFINE k == Key(packet)
<1>1. k \in Names \X Stamps
  BY PacketFields DEF Key
<1> HIDE DEF k
<1>2. Append(seen, k) \in Seq(Names \X Stamps)
  BY <1>1 DEF QueueOK, QueueTypeOK
<1> QED BY <1>2, NewestType, LimitAssumption DEF Remember, k

LEMMA QueueRead ==
  ASSUME TypeOK, QueueOK, NEW from \in Addrs, NEW packet \in Datagrams,
         NEW t \in Stamps, Read(from, packet, t)
  PROVE  QueueOK'
<1>0. /\ Greeted(t) \in Seq(PendingCommand) /\ Len(Greeted(t)) <= MaxPendingCommands
      /\ pending \in Seq(PendingCommand) /\ seen \in Seq(Names \X Stamps)
      /\ Len(pending) <= MaxPendingCommands /\ Len(seen) <= MaxSeen
  BY GreetedType DEF QueueOK, QueueTypeOK
<1>00. requestAge \in Option(0..RequestLimit) /\ webcamPending \in BOOLEAN
  BY DEF TypeOK, WebcamTypeOK
<1>1. CASE \/ ReadForeign(from) \/ ReadGarbage(from, packet)
           \/ ReadBusy(from, packet) \/ LatchUntold(from, packet)
  BY <1>1 DEF ReadForeign, ReadGarbage, ReadBusy, LatchUntold, queueVars,
              QueueOK, QueueTypeOK
<1>2. CASE \/ AcceptIdle(from, packet, t) \/ AcceptHeartbeat(from, packet, t)
           \/ AcceptTelemetry(from, packet, t) \/ AcceptDuplicate(from, packet, t)
           \/ AcceptFrameBegin(from, packet, t) \/ AcceptFrameChunk(from, packet, t)
  <2>1. pending' = Greeted(t) /\ seen' = seen
    BY <1>2 DEF AcceptIdle, AcceptHeartbeat, AcceptTelemetry, AcceptDuplicate,
                AcceptFrameBegin, AcceptFrameChunk
  <2> QED BY <1>0, <2>1 DEF QueueOK, QueueTypeOK
<1>3. CASE AcceptAck(from, packet, t)
  <2> DEFINE q == Settled(Greeted(t), packet)
  <2>1. pending' = Push(q, AfterAck(packet, t)) /\ seen' = seen
    BY <1>3 DEF AcceptAck
  <2>2. q \in Seq(PendingCommand) /\ AfterAck(packet, t) \in Seq(PendingCommand)
    BY <1>0, SettledType, AfterAckType
  <2> HIDE DEF q
  <2> QED BY <1>0, <2>1, <2>2, PushType DEF QueueOK, QueueTypeOK
<1>4. CASE AcceptNotify(from, packet, t) \/ AcceptStreamOff(from, packet, t)
  <2>1. pending' = Greeted(t) /\ Remember(packet) /\ packet.kind \in {"notify", "stream"}
    BY <1>4 DEF AcceptNotify, AcceptStreamOff, AcceptCommand
  <2> QED BY <1>0, <2>1, RememberType DEF QueueOK, QueueTypeOK
<1>5. CASE AcceptStreamOn(from, packet, t)
  <2>1. /\ RequestFramePaced(Greeted(t), t) /\ Remember(packet)
        /\ packet.kind = "stream"
    BY <1>5 DEF AcceptStreamOn, AcceptCommand
  <2>2. pending' \in Seq(PendingCommand) /\ Len(pending') <= MaxPendingCommands
    BY <1>0, <1>00, <2>1, PacedType
  <2> QED BY <2>1, <2>2, RememberType DEF QueueOK, QueueTypeOK
<1>6. CASE AcceptLastChunk(from, packet, t)
  <2>1. /\ RequestFramePaced(pending, t) \/ pending' = pending
        /\ seen' = seen
    BY <1>6 DEF AcceptLastChunk
  <2>2. pending' \in Seq(PendingCommand) /\ Len(pending') <= MaxPendingCommands
    BY <1>0, <1>00, <2>1, PacedType
  <2> QED BY <1>0, <2>1, <2>2 DEF QueueOK, QueueTypeOK
<1> QED BY <1>1, <1>2, <1>3, <1>4, <1>5, <1>6 DEF Read

LEMMA QueueRetransmit ==
  ASSUME QueueOK, Retransmit PROVE QueueOK'
<1> DEFINE K == DOMAIN pending \ GiveUp
           kept == Retain(pending, K)
<1>1. /\ pending \in Seq(PendingCommand) /\ K \in SUBSET DOMAIN pending
      /\ Len(pending) <= MaxPendingCommands
  BY DEF QueueOK, QueueTypeOK
<1>2. /\ pending' = [i \in DOMAIN kept |-> Attempted(kept[i])]
      /\ seen' = seen
  BY DEF Retransmit
<1> HIDE DEF K
<1>3. kept \in Seq(PendingCommand) /\ Len(kept) <= Len(pending)
  BY <1>1, RetainType
<1>4. ASSUME NEW k \in DOMAIN kept PROVE Attempted(kept[k]) \in PendingCommand
  <2>1. PICK i \in K : kept[k] = pending[i]
    BY <1>1, RetainFrom
  <2>2. pending[i] \in PendingCommand /\ ~Exhausted(pending[i])
    BY <1>1, <2>1 DEF K, GiveUp
  <2> QED BY <2>1, <2>2, AttemptedType
<1> HIDE DEF kept
<1>5. DOMAIN kept = 1..Len(kept) /\ Len(kept) \in Nat
  BY <1>3
<1>6. pending' \in Seq(PendingCommand) /\ Len(pending') = Len(kept)
  BY <1>2, <1>4, <1>5
<1>7. Len(pending) \in Nat /\ Len(pending') <= MaxPendingCommands
  BY <1>1, <1>3, <1>5, <1>6, LimitAssumption
<1> QED BY <1>2, <1>6, <1>7 DEF QueueOK, QueueTypeOK

LEMMA QueueTick ==
  ASSUME QueueOK, Tick PROVE QueueOK'
<1> DEFINE Aged(p) == [p EXCEPT !.sentAge = Cap(@, CommandRetryInterval)]
<1>1. pending \in Seq(PendingCommand) /\ Len(pending) <= MaxPendingCommands
  BY DEF QueueOK, QueueTypeOK
<1>2. pending' = [i \in DOMAIN pending |-> Aged(pending[i])] /\ seen' = seen
  BY DEF Tick
<1>3. ASSUME NEW i \in DOMAIN pending PROVE Aged(pending[i]) \in PendingCommand
  BY <1>1, AgedType
<1> HIDE DEF Aged
<1>4. DOMAIN pending = 1..Len(pending) /\ Len(pending) \in Nat
  BY <1>1
<1>5. pending' \in Seq(PendingCommand) /\ Len(pending') = Len(pending)
  BY <1>2, <1>3, <1>4
<1> QED BY <1>1, <1>2, <1>5 DEF QueueOK, QueueTypeOK

LEMMA QueueStep ==
  ASSUME TypeOK, QueueOK, [Next]_vars PROVE QueueOK'
<1>0. requestAge \in Option(0..RequestLimit) /\ webcamPending \in BOOLEAN
  BY DEF TypeOK, WebcamTypeOK
<1>1. CASE App
  BY <1>1 DEF App, Call, Shutdown, DropReceiver, queueVars, QueueOK, QueueTypeOK
<1>2. CASE Drain
  BY <1>2, QueueDrain
<1>3. CASE ReadNothing \/ ReadError \/ ReadWhilePaused
  BY <1>3 DEF ReadNothing, ReadError, ReadWhilePaused, queueVars, QueueOK, QueueTypeOK
<1>4. ASSUME NEW from \in Addrs, NEW packet \in Datagrams, NEW t \in Stamps,
             Read(from, packet, t)
      PROVE  QueueOK'
  BY <1>4, QueueRead
<1>5. CASE NotExpired \/ Beat \/ NoBeat \/ WebcamIdle \/ NothingToRetransmit
  BY <1>5 DEF NotExpired, Beat, NoBeat, WebcamIdle, NothingToRetransmit,
              queueVars, QueueOK, QueueTypeOK
<1>6. CASE Expire
  BY <1>6, EmptyQueues DEF Expire, DropPeer
<1>7. ASSUME NEW t \in Stamps, RequestOwedFrame(t) PROVE QueueOK'
  <2>1. pending' = Push(pending, FrameRequest(t)) /\ seen' = seen
    BY <1>7 DEF RequestOwedFrame
  <2> QED BY <2>1, PushType, FrameRequestType DEF QueueOK, QueueTypeOK
<1>8. ASSUME NEW t \in Stamps, RecoverStall(t) PROVE QueueOK'
  <2>1. RequestFramePaced(pending, t) /\ seen' = seen
    BY <1>8 DEF RecoverStall
  <2> QED BY <1>0, <2>1, PacedType DEF QueueOK, QueueTypeOK
<1>9. CASE Retransmit
  BY <1>9, QueueRetransmit
<1>10. CASE Tick
  BY <1>10, QueueTick
<1>11. CASE UNCHANGED vars
  BY <1>11 DEF vars, queueVars, QueueOK, QueueTypeOK
<1> QED BY <1>1, <1>2, <1>3, <1>4, <1>5, <1>6, <1>7, <1>8, <1>9, <1>10, <1>11
        DEF Next, Worker, Receive, Upkeep

-----------------------------------------------------------------------------
(* The frames under assembly keep their type and number, and none is        *)
(* complete.                                                                *)
FramesOK == FramesBounded(frames) /\ FramesTyped(frames) /\ NoneComplete(frames)

LEMMA FramesKept == ASSUME FramesOK, frames' = frames PROVE FramesOK'
  BY DEF FramesOK, FramesBounded, FramesTyped, NoneComplete

LEMMA FramesForgotten == ASSUME frames' = NoFrames PROVE FramesOK'
<1>1. FramesBounded(frames') /\ FramesTyped(frames') /\ NoneComplete(frames')
  BY NoFramesOK
<1> QED BY <1>1 DEF FramesOK, FramesBounded, FramesTyped, NoneComplete

LEMMA FramesRead ==
  ASSUME FramesOK, NEW from \in Addrs, NEW packet \in Datagrams,
         NEW t \in Stamps, Read(from, packet, t)
  PROVE  FramesOK'
<1>1. CASE frames' = frames
  BY <1>1, FramesKept
<1>2. CASE AcceptStreamOff(from, packet, t)
  BY <1>2, FramesForgotten DEF AcceptStreamOff
<1>3. CASE AcceptFrameBegin(from, packet, t)
  <2>1. /\ frames' = BeginFrame(frames, packet.num, packet.length)
        /\ packet.num \in Int /\ packet.length \in Int
    BY <1>3, PacketFields DEF AcceptFrameBegin, AcceptCommand
  <2>2. FramesBounded(frames') /\ FramesTyped(frames') /\ NoneComplete(frames')
    BY <2>1, BeginFrameOK DEF FramesOK
  <2> QED BY <2>2 DEF FramesOK, FramesBounded, FramesTyped, NoneComplete
<1>4. CASE AcceptFrameChunk(from, packet, t) \/ AcceptLastChunk(from, packet, t)
  <2>1. frames' = AddChunk(frames, packet) /\ IsChunk(packet)
    BY <1>4, PacketFields DEF AcceptFrameChunk, AcceptLastChunk, AcceptCommand
  <2>2. FramesBounded(frames') /\ FramesTyped(frames') /\ NoneComplete(frames')
    BY <2>1, AddChunkOK DEF FramesOK
  <2> QED BY <2>2 DEF FramesOK, FramesBounded, FramesTyped, NoneComplete
<1> QED BY <1>1, <1>2, <1>3, <1>4
        DEF Read, ReadForeign, ReadGarbage, ReadBusy, LatchUntold, AcceptIdle,
            AcceptHeartbeat, AcceptTelemetry, AcceptAck, AcceptDuplicate,
            AcceptNotify, AcceptStreamOn, webcamVars

LEMMA FramesStep ==
  ASSUME FramesOK, [Next]_vars PROVE FramesOK'
<1>1. CASE frames' = frames
  BY <1>1, FramesKept
<1>2. CASE frames' = NoFrames
  BY <1>2, FramesForgotten
<1>3. ASSUME NEW from \in Addrs, NEW packet \in Datagrams, NEW t \in Stamps,
             Read(from, packet, t)
      PROVE  FramesOK'
  BY <1>3, FramesRead
<1>4. CASE App
  BY <1>1, <1>4 DEF App, Call, Shutdown, DropReceiver, webcamVars
<1>5. CASE Drain
  BY <1>1, <1>2, <1>5 DEF Drain, TakeShutdown, TakeCommand, TakeGamepad,
     TakeConnect, TakeDisconnect, Drained, DropPeer, webcamVars
<1>6. CASE Receive
  BY <1>1, <1>3, <1>6 DEF Receive, ReadNothing, ReadError, ReadWhilePaused, webcamVars
<1>7. CASE Upkeep
  BY <1>1, <1>2, <1>7 DEF Upkeep, Expire, NotExpired, Beat, NoBeat, WebcamIdle,
     RequestOwedFrame, RecoverStall, Retransmit, NothingToRetransmit, DropPeer,
     webcamVars
<1>8. CASE Tick
  BY <1>1, <1>8 DEF Tick
<1>9. CASE UNCHANGED vars
  BY <1>1, <1>9 DEF vars, webcamVars
<1> QED BY <1>4, <1>5, <1>6, <1>7, <1>8, <1>9 DEF Next, Worker

-----------------------------------------------------------------------------
(* The camera's flags and the time of its last request.                     *)
WebcamFlagsOK ==
  /\ webcamAvailable \in BOOLEAN /\ webcamPending \in BOOLEAN
  /\ requestAge \in Option(0..RequestLimit)
  /\ WebcamArmed

LEMMA PacedTimes ==
  ASSUME NEW q, NEW t, requestAge \in Option(0..RequestLimit),
         RequestFramePaced(q, t)
  PROVE  /\ requestAge' \in Option(0..RequestLimit) /\ requestAge' # None
         /\ webcamPending' \in {webcamPending, TRUE}
<1>1. RequestLimit \in Nat
  BY LimitAssumption DEF RequestLimit
<1>2. CASE RequestDue
  BY <1>1, <1>2, NoneIsNo DEF RequestFramePaced, Option
<1>3. CASE ~RequestDue
  <2>1. requestAge # None
    BY <1>3, NoneIsNo, LimitAssumption DEF RequestDue, Elapsed
  <2> QED BY <1>3, <2>1 DEF RequestFramePaced
<1> QED BY <1>2, <1>3

LEMMA FlagsKept ==
  ASSUME WebcamFlagsOK, webcamAvailable' = webcamAvailable,
         webcamPending' = webcamPending, requestAge' = requestAge
  PROVE  WebcamFlagsOK'
  BY DEF WebcamFlagsOK, WebcamArmed

LEMMA FlagsOff ==
  ASSUME WebcamFlagsOK, webcamAvailable' = FALSE, webcamPending' = FALSE,
         requestAge' = requestAge
  PROVE  WebcamFlagsOK'
  BY DEF WebcamFlagsOK, WebcamArmed

LEMMA FlagsOn ==
  ASSUME WebcamFlagsOK, webcamAvailable' = TRUE, NEW q, NEW t, RequestFramePaced(q, t)
  PROVE  WebcamFlagsOK'
  BY PacedTimes DEF WebcamFlagsOK, WebcamArmed

LEMMA FlagsStep ==
  ASSUME WebcamFlagsOK, [Next]_vars PROVE WebcamFlagsOK'
<1> DEFINE Kept == /\ webcamAvailable' = webcamAvailable
                   /\ webcamPending' = webcamPending /\ requestAge' = requestAge
           Off == webcamAvailable' = FALSE /\ webcamPending' = FALSE
                  /\ requestAge' = requestAge
<1>0. Kept \/ Off => WebcamFlagsOK'
  BY FlagsKept, FlagsOff
<1>1. CASE App
  BY <1>0, <1>1 DEF App, Call, Shutdown, DropReceiver, webcamVars
<1>2. CASE Drain
  BY <1>0, <1>2 DEF Drain, TakeShutdown, TakeCommand, TakeGamepad,
     TakeConnect, TakeDisconnect, Drained, DropPeer, webcamVars
<1>3. CASE ReadNothing \/ ReadError \/ ReadWhilePaused
  BY <1>0, <1>3 DEF ReadNothing, ReadError, ReadWhilePaused, webcamVars
<1>4. ASSUME NEW from \in Addrs, NEW packet \in Datagrams, NEW t \in Stamps,
             Read(from, packet, t)
      PROVE  WebcamFlagsOK'
  <2>1. CASE AcceptStreamOn(from, packet, t)
    BY <2>1, FlagsOn DEF AcceptStreamOn
  <2>2. CASE AcceptStreamOff(from, packet, t)
    BY <1>0, <2>2 DEF AcceptStreamOff
  <2>3. CASE AcceptLastChunk(from, packet, t)
    <3>1. CASE webcamAvailable
      BY <2>3, <3>1, FlagsOn DEF AcceptLastChunk
    <3>2. CASE ~webcamAvailable
      BY <1>0, <2>3, <3>2 DEF AcceptLastChunk
    <3> QED BY <3>1, <3>2
  <2> QED BY <1>0, <1>4, <2>1, <2>2, <2>3
          DEF Read, ReadForeign, ReadGarbage, ReadBusy, LatchUntold, AcceptIdle,
              AcceptHeartbeat, AcceptTelemetry, AcceptAck, AcceptDuplicate,
              AcceptNotify, AcceptFrameBegin, AcceptFrameChunk, webcamVars
<1>5. CASE Expire \/ NotExpired \/ Beat \/ NoBeat \/ WebcamIdle
           \/ Retransmit \/ NothingToRetransmit
  BY <1>0, <1>5 DEF Expire, NotExpired, Beat, NoBeat, WebcamIdle, Retransmit,
     NothingToRetransmit, DropPeer, webcamVars
<1>6. ASSUME NEW t \in Stamps, RequestOwedFrame(t) PROVE WebcamFlagsOK'
  <2>1. webcamPending' = FALSE /\ requestAge' = 0 /\ webcamAvailable' = webcamAvailable
    BY <1>6 DEF RequestOwedFrame
  <2>2. 0 \in 0..RequestLimit /\ 0 # None
    BY LimitAssumption, NoneIsNo DEF RequestLimit
  <2> QED BY <2>1, <2>2 DEF WebcamFlagsOK, WebcamArmed, Option
<1>7. ASSUME NEW t \in Stamps, RecoverStall(t) PROVE WebcamFlagsOK'
  <2>1. webcamAvailable' = TRUE /\ RequestFramePaced(pending, t)
    BY <1>7 DEF RecoverStall, WebcamStalled, WebcamFlagsOK
  <2> QED BY <2>1, FlagsOn
<1>8. CASE Tick
  <2>1. /\ webcamAvailable' = webcamAvailable /\ webcamPending' = webcamPending
        /\ requestAge' = Cap(requestAge, RequestLimit)
    BY <1>8 DEF Tick
  <2>2. RequestLimit \in Nat
    BY LimitAssumption DEF RequestLimit
  <2> QED BY <2>1, <2>2, CapType DEF WebcamFlagsOK, WebcamArmed
<1>9. CASE UNCHANGED vars
  BY <1>0, <1>9 DEF vars, webcamVars
<1> QED BY <1>1, <1>2, <1>3, <1>4, <1>5, <1>6, <1>7, <1>8, <1>9
        DEF Next, Worker, Receive, Upkeep

-----------------------------------------------------------------------------
(* What is left when a session is over.                                     *)
LEMMA FreshCommand ==
  ASSUME QueueOK, FreshSession, peer = None, NEW c \in PendingCommand, c.attempts = 0
  PROVE  LET q == Push(pending, <<c>>)
         IN  \A i \in DOMAIN q : q[i].attempts = 0
<1> DEFINE s == pending \o <<c>>
<1>1. pending \in Seq(PendingCommand) /\ <<c>> \in Seq(PendingCommand)
  BY OneInSeq DEF QueueOK, QueueTypeOK
<1>2. s \in Seq(PendingCommand)
  BY <1>1
<1>3. ASSUME NEW i \in DOMAIN s PROVE s[i].attempts = 0
  <2>1. \A j \in DOMAIN pending : pending[j].attempts = 0
    BY DEF FreshSession
  <2>2. CASE i \in DOMAIN pending
    <3>1. s[i] = pending[i]
      BY <1>1, <2>2
    <3> QED BY <2>1, <2>2, <3>1
  <2>3. CASE i \notin DOMAIN pending
    <3>1. s[i] = c
      BY <1>1, <2>3
    <3> QED BY <3>1
  <2> QED BY <2>2, <2>3
<1> HIDE DEF s
<1>4. /\ MaxPendingCommands \in Nat
      /\ \A i \in DOMAIN Newest(s, MaxPendingCommands) :
           i + Excess(s, MaxPendingCommands) \in DOMAIN s
           /\ Newest(s, MaxPendingCommands)[i] = s[i + Excess(s, MaxPendingCommands)]
  BY <1>2, LimitAssumption, NewestType
<1>5. Push(pending, <<c>>) = Newest(s, MaxPendingCommands)
  BY DEF Push, s
<1> QED BY <1>3, <1>4, <1>5

LEMMA Untouched ==
  ASSUME FreshSession, peer' = peer, robotState' = robotState, seen' = seen,
         webcamAvailable' = webcamAvailable, frames' = frames, pending' = pending
  PROVE  FreshSession'
  BY DEF FreshSession

LEMMA FreshPeer == ASSUME peer' # None PROVE FreshSession'
  BY DEF FreshSession

LEMMA FreshDrop == ASSUME DropPeer PROVE FreshSession'
  BY DEF FreshSession, DropPeer

LEMMA FreshStep ==
  ASSUME TypeOK, QueueOK, WebcamArmed, FreshSession, [Next]_vars
  PROVE  FreshSession'
<1> USE Untouched
<1>1. CASE App
  BY <1>1 DEF App, Call, Shutdown, DropReceiver, linkVars, queueVars, webcamVars
<1>2. CASE TakeShutdown \/ TakeGamepad \/ TakeConnect \/ Drained
  BY <1>2 DEF TakeShutdown, TakeGamepad, TakeConnect, Drained,
              linkVars, queueVars, webcamVars
<1>3. CASE TakeDisconnect
  BY <1>3, FreshDrop DEF TakeDisconnect, queueVars, webcamVars
<1>4. ASSUME NEW t \in Stamps, TakeCommand(t) PROVE FreshSession'
  <2> DEFINE c == Command(Head(ctrl).name, Head(ctrl).extra, t)
  <2>1. Head(ctrl) \in Control /\ Head(ctrl).op = "command"
    BY <1>4 DEF TakeCommand, Take, TypeOK, ControlTypeOK
  <2>2. c \in PendingCommand /\ c.attempts = 0
    BY <2>1, CallFields, CommandType DEF Command
  <2>3. /\ pending' = Push(pending, <<c>>) /\ seen' = seen
        /\ peer' = peer /\ robotState' = robotState
        /\ webcamAvailable' = webcamAvailable /\ frames' = frames
    BY <1>4 DEF TakeCommand, linkVars, webcamVars
  <2> HIDE DEF c
  <2>4. peer = None => \A i \in DOMAIN pending' : pending'[i].attempts = 0
    BY <2>2, <2>3, FreshCommand
  <2> QED BY <2>3, <2>4 DEF FreshSession
<1>5. CASE ReadNothing \/ ReadError \/ ReadWhilePaused
  BY <1>5 DEF ReadNothing, ReadError, ReadWhilePaused, linkVars, queueVars, webcamVars
<1>6. ASSUME NEW from \in Addrs, NEW packet \in Datagrams, NEW t \in Stamps,
             Read(from, packet, t)
      PROVE  FreshSession'
  <2>1. CASE ReadForeign(from) \/ ReadGarbage(from, packet) \/ ReadBusy(from, packet)
    BY <2>1 DEF ReadForeign, ReadGarbage, ReadBusy, linkVars, queueVars, webcamVars
  <2>2. CASE LatchUntold(from, packet) \/ Accept(from, packet)
    BY <2>2, FreshPeer, NoneIsNo DEF LatchUntold, Accept
  <2> QED BY <1>6, <2>1, <2>2
          DEF Read, AcceptIdle, AcceptHeartbeat, AcceptTelemetry, AcceptAck,
              AcceptCommand, AcceptDuplicate, AcceptNotify, AcceptStreamOn,
              AcceptStreamOff, AcceptFrameBegin, AcceptFrameChunk, AcceptLastChunk
<1>7. CASE NotExpired \/ Beat \/ NoBeat \/ WebcamIdle \/ NothingToRetransmit
  BY <1>7 DEF NotExpired, Beat, NoBeat, WebcamIdle, NothingToRetransmit,
              linkVars, queueVars, webcamVars
<1>8. CASE Expire
  BY <1>8, FreshDrop DEF Expire
<1>9. ASSUME NEW t \in Stamps, RequestOwedFrame(t) \/ RecoverStall(t)
      PROVE  FreshSession'
  <2>1. webcamAvailable /\ peer' = peer
    BY <1>9 DEF RequestOwedFrame, RecoverStall, WebcamOwed, WebcamStalled,
                WebcamArmed, linkVars
  <2> QED BY <2>1, FreshPeer DEF FreshSession
<1>10. CASE Retransmit
  BY <1>10, FreshPeer DEF Retransmit, linkVars
<1>11. CASE Tick
  <2>1. /\ peer' = peer /\ robotState' = robotState /\ seen' = seen
        /\ webcamAvailable' = webcamAvailable /\ frames' = frames
        /\ pending' = [i \in DOMAIN pending |->
             [pending[i] EXCEPT !.sentAge = Cap(@, CommandRetryInterval)]]
    BY <1>11 DEF Tick
  <2>2. DOMAIN pending' = DOMAIN pending
    BY <2>1
  <2>3. ASSUME NEW i \in DOMAIN pending
        PROVE  pending'[i].attempts = pending[i].attempts
    <3>1. pending[i] \in PendingCommand
      BY DEF QueueOK, QueueTypeOK
    <3> QED BY <2>1, <3>1 DEF PendingCommand
  <2> QED BY <2>1, <2>2, <2>3 DEF FreshSession
<1>12. CASE UNCHANGED vars
  BY <1>12 DEF vars, linkVars, queueVars, webcamVars
<1> QED BY <1>1, <1>2, <1>3, <1>4, <1>5, <1>6, <1>7, <1>8, <1>9, <1>10, <1>11, <1>12
        DEF Next, Worker, Drain, Receive, Upkeep

-----------------------------------------------------------------------------
(* The worker's place, its channel and the ages of its link.                *)
Places == {"ctrl", "recv", "expire", "beat", "webcam", "retransmit", "stopped"}

LEMMA ControlStep ==
  ASSUME ControlTypeOK, [Next]_vars
  PROVE  ctrl' \in Seq(Control) /\ receiving' \in BOOLEAN
<1>0. ctrl \in Seq(Control) /\ receiving \in BOOLEAN
  BY DEF ControlTypeOK
<1>1. ASSUME NEW c \in Control, Call(c)
      PROVE  ctrl' \in Seq(Control) /\ receiving' \in BOOLEAN
  BY <1>0, <1>1 DEF Call
<1>2. CASE App
  <2>1. [op |-> "shutdown"] \in Control
    BY DEF Control
  <2> QED BY <1>0, <1>1, <1>2, <2>1, ClientAssumption DEF App, Shutdown, DropReceiver
<1>3. CASE Drain
  <2>1. ((ctrl # <<>> /\ ctrl' = Tail(ctrl)) \/ ctrl' = ctrl) /\ receiving' = receiving
    BY <1>3 DEF Drain, TakeShutdown, TakeCommand, TakeGamepad, TakeConnect,
                TakeDisconnect, Drained, Take
  <2> QED BY <1>0, <2>1
<1>4. CASE Receive
  <2>1. ASSUME NEW from \in Addrs, NEW packet \in Datagrams, NEW t \in Stamps,
               Read(from, packet, t)
        PROVE  Reading
    <3>1. ReadForeign(from) \/ Heard(from) => Reading
      BY DEF ReadForeign, Heard
    <3> QED BY <2>1, <3>1
            DEF Read, ReadGarbage, ReadBusy, LatchUntold, AcceptIdle,
                AcceptHeartbeat, AcceptTelemetry, AcceptAck, AcceptDuplicate,
                AcceptNotify, AcceptStreamOn, AcceptStreamOff, AcceptFrameBegin,
                AcceptFrameChunk, AcceptLastChunk, AcceptCommand, Accept, Parsed
  <2>2. Reading
    BY <1>4, <2>1 DEF Receive, ReadNothing, ReadError, ReadWhilePaused
  <2> QED BY <1>0, <2>2 DEF Reading
<1>5. CASE Upkeep
  BY <1>0, <1>5 DEF Upkeep, Expire, NotExpired, Beat, NoBeat, WebcamIdle,
     RequestOwedFrame, RecoverStall, Retransmit, NothingToRetransmit
<1>6. CASE Tick
  BY <1>0, <1>6 DEF Tick
<1>7. CASE UNCHANGED vars
  BY <1>0, <1>7 DEF vars
<1> QED BY <1>2, <1>3, <1>4, <1>5, <1>6, <1>7 DEF Next, Worker

LEMMA LinkStep ==
  ASSUME LinkTypeOK, [Next]_vars PROVE LinkTypeOK'
<1>0. /\ peer \in Option(Addrs) /\ discovering \in BOOLEAN
      /\ robotState \in Option(RobotStates)
      /\ rxAge \in 0..(DisconnectTimeout + 1)
      /\ beatAge \in Option(0..HeartbeatInterval)
  BY DEF LinkTypeOK
<1>00. 0 \in 0..(DisconnectTimeout + 1) /\ 0 \in Option(0..HeartbeatInterval)
       /\ \A S : None \in Option(S) /\ S \subseteq Option(S)
  BY LimitAssumption DEF Option
<1> USE <1>0, <1>00 DEF LinkTypeOK
<1>1. CASE App
  BY <1>1 DEF App, Call, Shutdown, DropReceiver, linkVars
<1>2. CASE Drain
  BY <1>2 DEF Drain, TakeShutdown, TakeCommand, TakeGamepad, TakeConnect,
              TakeDisconnect, Drained, DropPeer, linkVars
<1>3. CASE ReadNothing \/ ReadError \/ ReadWhilePaused
  BY <1>3 DEF ReadNothing, ReadError, ReadWhilePaused, linkVars
<1>4. ASSUME NEW from \in Addrs, NEW packet \in Datagrams, NEW t \in Stamps,
             Read(from, packet, t)
      PROVE  LinkTypeOK'
  <2>1. CASE ReadForeign(from) \/ ReadGarbage(from, packet) \/ ReadBusy(from, packet)
             \/ LatchUntold(from, packet)
    BY <2>1 DEF ReadForeign, ReadGarbage, ReadBusy, LatchUntold, Parsed, Heard, linkVars
  <2>2. ASSUME Accept(from, packet), robotState' \in Option(RobotStates)
        PROVE  LinkTypeOK'
    BY <2>2 DEF Accept, Parsed, Heard
  <2>3. CASE AcceptHeartbeat(from, packet, t) \/ AcceptTelemetry(from, packet, t)
    BY <2>2, <2>3, PacketFields DEF AcceptHeartbeat, AcceptTelemetry
  <2> QED BY <1>4, <2>1, <2>2, <2>3
          DEF Read, AcceptIdle, AcceptAck, AcceptCommand, AcceptDuplicate,
              AcceptNotify, AcceptStreamOn, AcceptStreamOff, AcceptFrameBegin,
              AcceptFrameChunk, AcceptLastChunk
<1>5. CASE Upkeep
  BY <1>5 DEF Upkeep, Expire, NotExpired, Beat, NoBeat, WebcamIdle,
     RequestOwedFrame, RecoverStall, Retransmit, NothingToRetransmit, DropPeer,
     linkVars
<1>6. CASE Tick
  <2>1. /\ peer' = peer /\ discovering' = discovering /\ robotState' = robotState
        /\ rxAge' = Cap(rxAge, DisconnectTimeout + 1)
        /\ beatAge' = Cap(beatAge, HeartbeatInterval)
    BY <1>6 DEF Tick
  <2>2. Cap(rxAge, DisconnectTimeout + 1) \in 0..(DisconnectTimeout + 1)
    BY LimitAssumption DEF Cap
  <2> QED BY <2>1, <2>2, CapType, LimitAssumption
<1>7. CASE UNCHANGED vars
  BY <1>7 DEF vars, linkVars
<1> QED BY <1>1, <1>2, <1>3, <1>4, <1>5, <1>6, <1>7
        DEF Next, Worker, Receive

LEMMA QuietStep ==
  ASSUME QuietWhenPaused, [Next]_vars PROVE QuietWhenPaused'
<1> USE DEF QuietWhenPaused
<1>1. CASE App
  BY <1>1 DEF App, Call, Shutdown, DropReceiver, linkVars
<1>2. CASE Drain
  BY <1>2 DEF Drain, TakeShutdown, TakeCommand, TakeGamepad, TakeConnect,
              TakeDisconnect, Drained, DropPeer, linkVars
<1>3. CASE ReadNothing \/ ReadError \/ ReadWhilePaused
  BY <1>3 DEF ReadNothing, ReadError, ReadWhilePaused, linkVars
<1>4. ASSUME NEW from \in Addrs, NEW packet \in Datagrams, NEW t \in Stamps,
             Read(from, packet, t)
      PROVE  QuietWhenPaused'
  <2>1. CASE ReadForeign(from) \/ ReadGarbage(from, packet) \/ ReadBusy(from, packet)
    BY <2>1 DEF ReadForeign, ReadGarbage, ReadBusy, Latching, linkVars
  <2>2. CASE LatchUntold(from, packet) \/ Accept(from, packet)
    <3>1. discovering /\ discovering' = discovering
      BY <2>2 DEF LatchUntold, Accept, Parsed, Heard, Deaf
    <3> QED BY <3>1
  <2> QED BY <1>4, <2>1, <2>2
          DEF Read, AcceptIdle, AcceptHeartbeat, AcceptTelemetry, AcceptAck,
              AcceptCommand, AcceptDuplicate, AcceptNotify, AcceptStreamOn,
              AcceptStreamOff, AcceptFrameBegin, AcceptFrameChunk, AcceptLastChunk
<1>5. CASE Expire \/ NotExpired \/ NoBeat \/ WebcamIdle \/ NothingToRetransmit
  BY <1>5 DEF Expire, NotExpired, NoBeat, WebcamIdle, NothingToRetransmit,
              DropPeer, linkVars
<1>6. CASE Beat
  BY <1>6 DEF Beat, Beats
<1>7. ASSUME NEW t \in Stamps, RequestOwedFrame(t) \/ RecoverStall(t)
      PROVE  QuietWhenPaused'
  BY <1>7 DEF RequestOwedFrame, RecoverStall, linkVars
<1>8. CASE Retransmit
  <2>1. peer # None /\ discovering' = discovering
    BY <1>8 DEF Retransmit, linkVars
  <2> QED BY <2>1
<1>9. CASE Tick
  BY <1>9 DEF Tick
<1>10. CASE UNCHANGED vars
  BY <1>10 DEF vars, linkVars
<1> QED BY <1>1, <1>2, <1>3, <1>4, <1>5, <1>6, <1>7, <1>8, <1>9, <1>10
        DEF Next, Worker, Receive, Upkeep

-----------------------------------------------------------------------------
(* The application is told of every change of the session.                  *)
Viewed == pc' \in Places /\ appPeer' \in Option(Addrs) /\ ViewIsPeer'

LEMMA TellsNews ==
  ASSUME NEW evs \in Seq(News), NEW checked \in BOOLEAN, NEW next \in Places,
         Tell(evs, checked, next)
  PROVE  appPeer' = appPeer /\ pc' \in Places
  BY ToldNews DEF Tell, Places

LEMMA TellsNothing ==
  ASSUME NEW next \in Places, Quietly(next)
  PROVE  appPeer' = appPeer /\ pc' \in Places
  BY TellsNews, NoneInSeq DEF Quietly

LEMMA SurfacedIsNews ==
  ASSUME NEW name \in EventName, NEW value \in Value
  PROVE  <<Surfaced(name, value)>> \in Seq(News)
<1>1. Surfaced(name, value) \in News
  BY DEF Surfaced, News
<1> QED BY <1>1, OneInSeq

LEMMA ErrorIsNews == <<ProtocolError>> \in Seq(News)
<1>1. ProtocolError \in News
  BY DEF ProtocolError, News
<1> QED BY <1>1, OneInSeq

(* What a packet that is accepted tells: the connection it makes, then news. *)
LEMMA LatchTells ==
  ASSUME QueueOK, NEW from \in Addrs, NEW t \in Stamps, NEW news \in Seq(News),
         NEW checked \in BOOLEAN, receiving \in BOOLEAN,
         \/ Tell(LatchEvents(from, t) \o news, checked, "expire")
         \/ Tell(LatchEvents(from, t), checked, "expire")
  PROVE  /\ pc' \in Places
         /\ appPeer' \in {appPeer, from}
         /\ receiving => appPeer' = IF peer = None THEN from ELSE appPeer
<1> DEFINE over == Overflow(pending, Greeting(t))
           T == News \cup {Connected(from)}
           e == LatchEvents(from, t)
<1>1. over \in Seq(News)
  BY GreetingType, PushType DEF QueueOK, QueueTypeOK
<1>2. CASE peer = None
  <2>1. e = <<Connected(from)>> \o over
    BY <1>2 DEF LatchEvents, Latching
  <2> HIDE DEF over, e
  <2>2. <<Connected(from)>> \in Seq(T) /\ over \in Seq(T) /\ news \in Seq(T)
    BY <1>1
  <2>3. e \in Seq(T) /\ 1 \in DOMAIN e /\ e[1] = Connected(from)
    BY <2>1, <2>2
  <2>4. e \o news \in Seq(T) /\ 1 \in DOMAIN (e \o news)
        /\ (e \o news)[1] = Connected(from)
    BY <2>2, <2>3
  <2>5. Told(e) = from /\ Told(e \o news) = from
    BY <2>3, <2>4, ToldConnected
  <2> QED BY <1>2, <2>5 DEF Tell, Places, e
<1>3. CASE peer # None
  <2>1. e = <<>>
    BY <1>3 DEF LatchEvents, Latching
  <2> HIDE DEF e
  <2>2. e \in Seq(News) /\ e \o news \in Seq(News)
    BY <2>1
  <2>3. appPeer' = appPeer /\ pc' \in Places
    BY <2>2, TellsNews DEF Places, e
  <2> QED BY <1>3, <2>3
<1> QED BY <1>2, <1>3

LEMMA LatchEventsType ==
  ASSUME QueueOK, NEW from, NEW t \in Stamps
  PROVE  LatchEvents(from, t) \in Seq(News \cup {Connected(from)})
<1> DEFINE over == Overflow(pending, Greeting(t))
           T == News \cup {Connected(from)}
<1>1. over \in Seq(News)
  BY GreetingType, PushType DEF QueueOK, QueueTypeOK
<1> HIDE DEF over
<1>2. <<Connected(from)>> \in Seq(T) /\ over \in Seq(T) /\ <<>> \in Seq(T)
  BY <1>1
<1>3. <<Connected(from)>> \o over \in Seq(T)
  BY <1>2
<1> QED BY <1>2, <1>3 DEF LatchEvents, over

LEMMA ConcatAssociates ==
  ASSUME NEW T, NEW a \in Seq(News \cup T), NEW b \in Seq(News), NEW c \in Seq(News)
  PROVE  (a \o b) \o c = a \o (b \o c)
<1> DEFINE S == News \cup T
<1>1. a \in Seq(S) /\ b \in Seq(S) /\ c \in Seq(S)
  OBVIOUS
<1> HIDE DEF S
<1> QED BY <1>1

LEMMA Steady ==
  ASSUME TypeOK, ViewIsPeer, appPeer' = appPeer, peer' = peer, pc' \in Places,
         receiving' => receiving, pc' = pc \/ pc # "stopped"
  PROVE  Viewed
  BY DEF Viewed, ViewIsPeer, TypeOK, ControlTypeOK, LinkTypeOK

LEMMA AcceptedIsViewed ==
  ASSUME TypeOK, ViewIsPeer, QueueOK, NEW from \in Addrs,
         NEW packet \in Datagrams, NEW t \in Stamps, Accept(from, packet),
         NEW news \in Seq(News), NEW checked \in BOOLEAN,
         \/ Tell(LatchEvents(from, t) \o news, checked, "expire")
         \/ Tell(LatchEvents(from, t), checked, "expire")
  PROVE  Viewed
<1>1. /\ pc = "recv" /\ receiving' = receiving /\ peer' = from
      /\ peer # None => peer = from
  BY DEF Accept, Parsed, Heard, Reading, Foreign
<1>2. receiving \in BOOLEAN /\ appPeer \in Option(Addrs)
  BY DEF TypeOK, ControlTypeOK
<1>3. /\ pc' \in Places /\ appPeer' \in {appPeer, from}
      /\ receiving => appPeer' = IF peer = None THEN from ELSE appPeer
  BY <1>2, LatchTells
<1> QED BY <1>1, <1>2, <1>3 DEF Viewed, ViewIsPeer, Option

LEMMA ViewRead ==
  ASSUME TypeOK, ViewIsPeer, QueueOK, FramesOK, FreshSession,
         NEW from \in Addrs, NEW packet \in Datagrams, NEW t \in Stamps,
         Read(from, packet, t)
  PROVE  Viewed
<1>0. QueueTypeOK /\ pending \in Seq(PendingCommand)
  BY DEF QueueOK, QueueTypeOK
<1>00. "expire" \in Places /\ TRUE \in BOOLEAN /\ FALSE \in BOOLEAN
  BY DEF Places
<1>1. CASE ReadForeign(from)
  <2>1. Tell(<<ProtocolError>>, TRUE, "expire") /\ Reading /\ peer' = peer
    BY <1>1 DEF ReadForeign, linkVars
  <2> QED BY <1>00, <2>1, ErrorIsNews, TellsNews, Steady DEF Reading
<1>2. CASE ReadGarbage(from, packet)
  <2>1. Tell(<<ProtocolError>>, TRUE, "expire") /\ Reading /\ peer' = peer
    BY <1>2 DEF ReadGarbage, Heard
  <2> QED BY <1>00, <2>1, ErrorIsNews, TellsNews, Steady DEF Reading
<1>3. CASE ReadBusy(from, packet)
  <2>1. /\ Tell(<<Surfaced("PeerBusy", from)>>, TRUE, "expire")
        /\ Reading /\ peer' = peer
    BY <1>3 DEF ReadBusy, Heard
  <2>2. <<Surfaced("PeerBusy", from)>> \in Seq(News)
    BY SurfacedIsNews DEF EventName, Value
  <2> QED BY <1>00, <2>1, <2>2, TellsNews, Steady DEF Reading
<1>4. CASE LatchUntold(from, packet)
  <2>1. /\ pc' = "stopped" /\ appPeer' = appPeer
    BY <1>4 DEF LatchUntold, Tell
  <2> QED BY <2>1 DEF Viewed, ViewIsPeer, Places, TypeOK, ControlTypeOK
<1>5. CASE \/ AcceptIdle(from, packet, t) \/ AcceptDuplicate(from, packet, t)
           \/ AcceptFrameBegin(from, packet, t) \/ AcceptFrameChunk(from, packet, t)
  <2>1. Accept(from, packet) /\ Tell(LatchEvents(from, t), FALSE, "expire")
    BY <1>5 DEF AcceptIdle, AcceptDuplicate, AcceptFrameBegin, AcceptFrameChunk,
                AcceptCommand
  <2> QED BY <1>00, <2>1, NoneInSeq, AcceptedIsViewed
<1>6. CASE AcceptHeartbeat(from, packet, t)
  <2>1. packet.state \in RobotStates /\ Accept(from, packet)
    BY <1>6, PacketFields DEF AcceptHeartbeat
  <2>2. StateNews(packet.state) \in Seq(News)
    BY <2>1, SurfacedIsNews, NoneInSeq DEF StateNews, EventName, Value
  <2>3. /\ (StateNews(packet.state) # <<>>) \in BOOLEAN
        /\ Tell(LatchEvents(from, t) \o StateNews(packet.state),
                StateNews(packet.state) # <<>>, "expire")
    BY <1>6 DEF AcceptHeartbeat
  <2> QED BY <2>1, <2>2, <2>3, AcceptedIsViewed
<1>7. CASE AcceptTelemetry(from, packet, t)
  <2> DEFINE heard == <<Surfaced("Telemetry", packet.state)>>
             change == StateNews(packet.state)
  <2>1. packet.state \in RobotStates /\ Accept(from, packet)
    BY <1>7, PacketFields DEF AcceptTelemetry
  <2>2. change \in Seq(News) /\ heard \in Seq(News)
    BY <2>1, SurfacedIsNews, NoneInSeq DEF StateNews, EventName, Value
  <2>3. Tell(LatchEvents(from, t) \o change \o heard, TRUE, "expire")
    BY <1>7 DEF AcceptTelemetry
  <2> HIDE DEF heard, change
  <2>4. Tell(LatchEvents(from, t) \o (change \o heard), TRUE, "expire")
    <3>1. (LatchEvents(from, t) \o change) \o heard
            = LatchEvents(from, t) \o (change \o heard)
      BY <2>2, LatchEventsType, ConcatAssociates
    <3> QED BY <2>3, <3>1, Zenon
  <2>5. change \o heard \in Seq(News)
    BY <2>2
  <2> QED BY <1>00, <2>1, <2>4, <2>5, AcceptedIsViewed
<1>8. CASE AcceptAck(from, packet, t)
  <2> DEFINE q == Settled(Greeted(t), packet)
             over == Overflow(q, AfterAck(packet, t))
  <2>1. /\ Accept(from, packet)
        /\ Tell(LatchEvents(from, t) \o over, FALSE, "expire")
    BY <1>8 DEF AcceptAck
  <2>2. q \in Seq(PendingCommand)
    BY <1>0, GreetedType, SettledType
  <2> HIDE DEF q
  <2>3. over \in Seq(News)
    BY <2>2, AfterAckType, PushType
  <2> HIDE DEF over
  <2> QED BY <1>00, <2>1, <2>3, AcceptedIsViewed
<1>9. CASE AcceptNotify(from, packet, t)
  <2>1. /\ Accept(from, packet) /\ packet.kind = "notify"
        /\ Tell(LatchEvents(from, t) \o <<Surfaced(packet.name, packet.extra)>>,
                TRUE, "expire")
    BY <1>9 DEF AcceptNotify, AcceptCommand
  <2>2. <<Surfaced(packet.name, packet.extra)>> \in Seq(News)
    BY <2>1, PacketFields, SurfacedIsNews DEF EventName, Value
  <2> QED BY <1>00, <2>1, <2>2, AcceptedIsViewed
<1>10. CASE AcceptStreamOn(from, packet, t)
  <2> DEFINE on   == <<Surfaced("WebcamAvailable", TRUE)>>
             over == PacedOverflow(Greeted(t), t)
  <2>1. /\ Accept(from, packet)
        /\ Tell(LatchEvents(from, t) \o over \o on, TRUE, "expire")
    BY <1>10 DEF AcceptStreamOn, AcceptCommand
  <2>2. on \in Seq(News)
    BY SurfacedIsNews DEF EventName, Value
  <2>3. over \in Seq(News)
    BY <1>0, GreetedType, FrameRequestType, PushType, NoneInSeq DEF PacedOverflow
  <2> HIDE DEF on, over
  <2>4. Tell(LatchEvents(from, t) \o (over \o on), TRUE, "expire")
    <3>1. (LatchEvents(from, t) \o over) \o on
            = LatchEvents(from, t) \o (over \o on)
      BY <2>2, <2>3, LatchEventsType, ConcatAssociates
    <3> QED BY <2>1, <3>1, Zenon
  <2>5. over \o on \in Seq(News)
    BY <2>2, <2>3
  <2> QED BY <1>00, <2>1, <2>4, <2>5, AcceptedIsViewed
<1>11. CASE AcceptStreamOff(from, packet, t)
  <2>1. /\ Accept(from, packet)
        /\ Tell(LatchEvents(from, t) \o <<Surfaced("WebcamAvailable", FALSE)>>,
                TRUE, "expire")
    BY <1>11 DEF AcceptStreamOff, AcceptCommand
  <2>2. <<Surfaced("WebcamAvailable", FALSE)>> \in Seq(News)
    BY SurfacedIsNews DEF EventName, Value
  <2> QED BY <1>00, <2>1, <2>2, AcceptedIsViewed
<1>12. CASE AcceptLastChunk(from, packet, t)
  <2> DEFINE shown == <<Surfaced("WebcamFrame", Written(frames, packet).data)>>
             over  == IF webcamAvailable THEN PacedOverflow(pending, t) ELSE <<>>
  <2>1. /\ Accept(from, packet) /\ Completes(frames, packet) /\ packet.kind = "chunk"
        /\ Tell(over \o shown, TRUE, "expire")
    BY <1>12 DEF AcceptLastChunk, AcceptCommand
  <2>2. Accepts(frames, packet) /\ IsChunk(packet) /\ FramesTyped(frames)
    BY <2>1, PacketFields DEF Completes, FramesOK
  <2>3. Written(frames, packet).data \in Value
    BY <2>2, WrittenType DEF PartialFrame, Value
  <2>4. shown \in Seq(News)
    BY <2>3, SurfacedIsNews DEF EventName
  <2>5. over \in Seq(News)
    BY <1>0, FrameRequestType, PushType, NoneInSeq DEF PacedOverflow
  <2> HIDE DEF shown, over
  <2>6. over \o shown \in Seq(News)
    BY <2>4, <2>5
  <2>7. appPeer' = appPeer /\ pc' \in Places
    BY <1>00, <2>1, <2>6, TellsNews
  <2>8. DOMAIN NoFrames = {}
    BY DEF NoFrames
  <2>9. peer # None
    BY <2>2, <2>8 DEF Accepts, FreshSession
  <2>10. peer' = peer /\ Reading
    BY <2>1, <2>9 DEF Accept, Parsed, Heard, Foreign
  <2> QED BY <2>7, <2>10, Steady DEF Reading
<1> QED BY <1>1, <1>2, <1>3, <1>4, <1>5, <1>6, <1>7, <1>8, <1>9, <1>10, <1>11, <1>12
        DEF Read

LEMMA DroppedIsNews ==
  ASSUME NEW q \in Seq(PendingCommand)
  PROVE  [i \in DOMAIN q |-> Dropped(q[i].name)] \in Seq(News)
<1>1. ASSUME NEW i \in DOMAIN q PROVE Dropped(q[i].name) \in News
  <2>1. q[i] \in PendingCommand
    OBVIOUS
  <2>2. q[i].name \in Names
    BY <2>1 DEF PendingCommand
  <2> QED BY <2>2 DEF Dropped, News
<1>2. DOMAIN q = 1..Len(q) /\ Len(q) \in Nat
  OBVIOUS
<1> QED BY <1>1, <1>2

LEMMA ViewDrain ==
  ASSUME TypeOK, ViewIsPeer, QueueOK, Drain PROVE Viewed
<1>0. "ctrl" \in Places /\ "recv" \in Places /\ FALSE \in BOOLEAN
  BY DEF Places
<1>1. CASE TakeShutdown
  BY <1>1 DEF TakeShutdown, Viewed, ViewIsPeer, Places, TypeOK, ControlTypeOK
<1>2. CASE TakeGamepad \/ TakeConnect \/ Drained
  <2>1. /\ Quietly("ctrl") \/ Quietly("recv")
        /\ pc = "ctrl" /\ peer' = peer /\ receiving' = receiving
    BY <1>2 DEF TakeGamepad, TakeConnect, Drained, Take, linkVars
  <2> QED BY <1>0, <2>1, TellsNothing, Steady
<1>3. CASE TakeDisconnect
  <2>1. pc = "ctrl" /\ receiving' = receiving
    BY <1>3 DEF TakeDisconnect, Take
  <2>2. CASE peer = None
    <3>1. Quietly("ctrl") /\ peer' = peer
      BY <1>3, <2>2 DEF TakeDisconnect
    <3> QED BY <1>0, <2>1, <3>1, TellsNothing, Steady
  <2>3. CASE peer # None
    <3>1. Tell(<<Disconnected>>, TRUE, "ctrl") /\ peer' = None
      BY <1>3, <2>3 DEF TakeDisconnect, DropPeer
    <3>2. appPeer \in Option(Addrs) /\ receiving \in BOOLEAN
      BY DEF TypeOK, ControlTypeOK
    <3> QED BY <1>0, <2>1, <3>1, <3>2, ToldDisconnected
            DEF Tell, Viewed, ViewIsPeer, Places, Option
  <2> QED BY <2>2, <2>3
<1>4. ASSUME NEW t \in Stamps, TakeCommand(t) PROVE Viewed
  <2> DEFINE c == Command(Head(ctrl).name, Head(ctrl).extra, t)
  <2>1. /\ Head(ctrl) \in Control /\ Head(ctrl).op = "command"
        /\ pc = "ctrl" /\ peer' = peer /\ receiving' = receiving
    BY <1>4 DEF TakeCommand, Take, TypeOK, ControlTypeOK, linkVars
  <2>2. c \in PendingCommand
    BY <2>1, CallFields, CommandType
  <2>3. Tell(Overflow(pending, <<c>>), FALSE, "ctrl")
    BY <1>4 DEF TakeCommand
  <2> HIDE DEF c
  <2>4. Overflow(pending, <<c>>) \in Seq(News)
    BY <2>2, OneInSeq, PushType DEF QueueOK, QueueTypeOK
  <2> QED BY <1>0, <2>1, <2>3, <2>4, TellsNews, Steady
<1> QED BY <1>1, <1>2, <1>3, <1>4 DEF Drain

LEMMA ViewUpkeep ==
  ASSUME TypeOK, ViewIsPeer, QueueOK, Upkeep PROVE Viewed
<1>0. /\ "beat" \in Places /\ "webcam" \in Places /\ "retransmit" \in Places
      /\ "ctrl" \in Places /\ FALSE \in BOOLEAN /\ TRUE \in BOOLEAN
      /\ pending \in Seq(PendingCommand)
  BY DEF Places, QueueOK, QueueTypeOK
<1>1. CASE Expire
  <2>1. Tell(<<Disconnected>>, TRUE, "beat") /\ peer' = None /\ receiving' = receiving
        /\ pc = "expire"
    BY <1>1 DEF Expire, DropPeer
  <2>2. appPeer \in Option(Addrs) /\ receiving \in BOOLEAN
    BY DEF TypeOK, ControlTypeOK
  <2> QED BY <1>0, <2>1, <2>2, ToldDisconnected
          DEF Tell, Viewed, ViewIsPeer, Places, Option
<1>2. CASE NotExpired \/ Beat \/ NoBeat \/ WebcamIdle \/ NothingToRetransmit
  <2>1. /\ Quietly("beat") \/ Quietly("webcam") \/ Quietly("retransmit") \/ Quietly("ctrl")
        /\ pc # "stopped" /\ peer' = peer /\ receiving' = receiving
    BY <1>2 DEF NotExpired, Beat, NoBeat, WebcamIdle, NothingToRetransmit, linkVars
  <2> QED BY <1>0, <2>1, TellsNothing, Steady
<1>3. ASSUME NEW t \in Stamps, RequestOwedFrame(t) \/ RecoverStall(t) PROVE Viewed
  <2>1. /\ \/ Tell(Overflow(pending, FrameRequest(t)), FALSE, "retransmit")
           \/ Tell(PacedOverflow(pending, t), FALSE, "retransmit")
        /\ pc = "webcam" /\ peer' = peer /\ receiving' = receiving
    BY <1>3 DEF RequestOwedFrame, RecoverStall, linkVars
  <2>2. Overflow(pending, FrameRequest(t)) \in Seq(News)
    BY <1>0, FrameRequestType, PushType
  <2>3. PacedOverflow(pending, t) \in Seq(News)
    BY <2>2, NoneInSeq DEF PacedOverflow
  <2> QED BY <1>0, <2>1, <2>2, <2>3, TellsNews, Steady
<1>4. CASE Retransmit
  <2> DEFINE failed == Retain(pending, GiveUp)
             out    == [i \in DOMAIN failed |-> Dropped(failed[i].name)]
  <2>1. /\ Tell(out, GiveUp # {}, "ctrl")
        /\ pc = "retransmit" /\ peer' = peer /\ receiving' = receiving
    BY <1>4 DEF Retransmit, linkVars
  <2>2. GiveUp \in SUBSET DOMAIN pending
    BY DEF GiveUp
  <2>3. failed \in Seq(PendingCommand)
    BY <1>0, <2>2, RetainType
  <2> HIDE DEF failed
  <2>4. out \in Seq(News)
    BY <2>3, DroppedIsNews
  <2> HIDE DEF out
  <2>5. (GiveUp # {}) \in BOOLEAN
    OBVIOUS
  <2> QED BY <1>0, <2>1, <2>4, <2>5, TellsNews, Steady
<1> QED BY <1>1, <1>2, <1>3, <1>4 DEF Upkeep

LEMMA ViewStep ==
  ASSUME TypeOK, ViewIsPeer, QueueOK, FramesOK, FreshSession, [Next]_vars
  PROVE  Viewed
<1>0. pc \in Places /\ "expire" \in Places /\ TRUE \in BOOLEAN
  BY DEF Places, TypeOK, ControlTypeOK
<1>1. CASE App \/ Tick \/ UNCHANGED vars
  <2>1. /\ pc' = pc /\ appPeer' = appPeer /\ peer' = peer
        /\ (receiving' => receiving)
    BY <1>1 DEF App, Call, Shutdown, DropReceiver, Tick, vars, linkVars
  <2>2. pc' \in Places
    BY <1>0, <2>1
  <2> QED BY <2>1, <2>2, Steady
<1>2. CASE ReadNothing \/ ReadWhilePaused
  <2>1. Quietly("expire") /\ Reading /\ peer' = peer
    BY <1>2 DEF ReadNothing, ReadWhilePaused, linkVars
  <2> QED BY <1>0, <2>1, TellsNothing, Steady DEF Reading
<1>3. CASE ReadError
  <2>1. Tell(<<ProtocolError>>, TRUE, "expire") /\ Reading /\ peer' = peer
    BY <1>3 DEF ReadError, linkVars
  <2> QED BY <1>0, <2>1, ErrorIsNews, TellsNews, Steady DEF Reading
<1>4. CASE Receive
  BY <1>2, <1>3, <1>4, ViewRead DEF Receive
<1> QED BY <1>1, <1>4, ViewDrain, ViewUpkeep DEF Next, Worker

-----------------------------------------------------------------------------
(* The inductive invariant.  Each part needs the types; FreshSession needs   *)
(* WebcamArmed (a client without a peer never asks for a frame), ViewIsPeer  *)
(* needs FreshSession (no frame is completed by the packet that makes a      *)
(* peer), and the refinement needs the first and the last.                   *)
ClientInv ==
  /\ TypeOK /\ QueueOK /\ FramesOK
  /\ WebcamArmed /\ FreshSession /\ QuietWhenPaused /\ ViewIsPeer

LEMMA ClientInvInit == Init => ClientInv
<1> SUFFICES ASSUME Init PROVE ClientInv
  OBVIOUS
<1>1. FramesOK
  BY NoFramesOK DEF Init, FramesOK
<1>2. RequestLimit \in Nat
  BY LimitAssumption DEF RequestLimit
<1>3. QueueOK
  BY NoneInSeq, LimitAssumption DEF Init, QueueOK, QueueTypeOK
<1>4. ControlTypeOK /\ LinkTypeOK
  BY NoneInSeq, LimitAssumption DEF Init, ControlTypeOK, LinkTypeOK, Option
<1>5. WebcamTypeOK
  BY <1>1 DEF Init, WebcamTypeOK, FramesOK, FramesBounded, FramesTyped, Option
<1>6. WebcamArmed /\ FreshSession /\ QuietWhenPaused /\ ViewIsPeer
  BY DEF Init, WebcamArmed, FreshSession, QuietWhenPaused, ViewIsPeer
<1> QED BY <1>1, <1>3, <1>4, <1>5, <1>6 DEF ClientInv, TypeOK, QueueOK

LEMMA ClientInvNext == ClientInv /\ [Next]_vars => ClientInv'
<1> SUFFICES ASSUME ClientInv, [Next]_vars PROVE ClientInv'
  OBVIOUS
<1>1. WebcamFlagsOK
  BY DEF ClientInv, TypeOK, WebcamTypeOK, WebcamFlagsOK
<1>2. QueueOK'
  BY QueueStep DEF ClientInv
<1>3. FramesOK'
  BY FramesStep DEF ClientInv
<1>4. WebcamFlagsOK'
  BY <1>1, FlagsStep
<1>5. FreshSession'
  BY FreshStep DEF ClientInv
<1>6. QuietWhenPaused'
  BY QuietStep DEF ClientInv
<1>7. Viewed
  BY ViewStep DEF ClientInv
<1>8. ctrl' \in Seq(Control) /\ receiving' \in BOOLEAN
  BY ControlStep DEF ClientInv, TypeOK
<1>9. LinkTypeOK'
  BY LinkStep DEF ClientInv, TypeOK
<1>10. ControlTypeOK'
  BY <1>7, <1>8 DEF ControlTypeOK, Viewed, Places
<1>11. WebcamTypeOK'
  BY <1>3, <1>4 DEF WebcamTypeOK, WebcamFlagsOK, FramesOK, FramesBounded, FramesTyped
<1>12. TypeOK'
  BY <1>2, <1>9, <1>10, <1>11 DEF TypeOK, QueueOK
<1> QED BY <1>2, <1>3, <1>4, <1>5, <1>6, <1>7, <1>12
        DEF ClientInv, WebcamFlagsOK, Viewed

LEMMA ClientInvHolds == Spec => []ClientInv
  BY ClientInvInit, ClientInvNext, PTL DEF Spec

(* Every handler of the worker keeps its fields within their types, whatever *)
(* the network delivers and the application calls.                           *)
THEOREM TypeCorrect == Spec => []TypeOK
<1>1. ClientInv => TypeOK
  BY DEF ClientInv
<1> QED BY ClientInvHolds, <1>1, PTL

(* A client paused by disconnect() or by a busy controller has no peer and   *)
(* puts nothing on the network.                                              *)
THEOREM PausedIsQuiet == Spec => []QuietWhenPaused
<1>1. ClientInv => QuietWhenPaused
  BY DEF ClientInv
<1> QED BY ClientInvHolds, <1>1, PTL

(* drop_peer, wherever it is called from, leaves nothing of a session for    *)
(* the next one.                                                             *)
THEOREM SessionsAreFresh == Spec => []FreshSession
<1>1. ClientInv => FreshSession
  BY DEF ClientInv
<1> QED BY ClientInvHolds, <1>1, PTL

(* The stall recovery of maybe_request_webcam_frame can always fire while    *)
(* the camera is on.                                                         *)
THEOREM CameraStaysArmed == Spec => []WebcamArmed
<1>1. ClientInv => WebcamArmed
  BY DEF ClientInv
<1> QED BY ClientInvHolds, <1>1, PTL

(* queue_command, is_duplicate and handle_frame_begin keep what they hold    *)
(* within their limits, whatever the peer sends.                             *)
THEOREM MemoryIsBounded == Spec => []BoundedMemory
<1>1. ClientInv => BoundedMemory
  BY DEF ClientInv, QueueOK, FramesOK, FramesBounded, BoundedMemory
<1> QED BY ClientInvHolds, <1>1, PTL

(* handle_frame_chunk hands over a frame with the chunk that completes it.   *)
THEOREM NothingCompleteWaits == Spec => []NoCompleteFrameWaits
<1>1. ClientInv => NoCompleteFrameWaits
  BY DEF ClientInv, FramesOK, NoneComplete, Incomplete, Chunks, NoCompleteFrameWaits
<1> QED BY ClientInvHolds, <1>1, PTL

-----------------------------------------------------------------------------
(* The client implements DsSession: what a step of the worker may do to its  *)
(* peer and to its search.                                                   *)
Kept    == peer' = peer /\ discovering' = discovering
Latched == /\ peer = None /\ discovering /\ discovering' = discovering
           /\ peer' \in Addrs
Severed == peer # None /\ peer' = None /\ discovering' = discovering
Paused  == peer' = None /\ discovering' = FALSE
Resumed == peer' = peer /\ discovering' = TRUE
Move == Kept \/ Latched \/ Severed \/ Paused \/ Resumed

LEMMA Moves ==
  ASSUME [Next]_vars PROVE Move /\ (Closed => Closed')
<1> USE DEF Move
<1>1. CASE App \/ Tick \/ UNCHANGED vars
  <2>1. Kept
    BY <1>1 DEF App, Call, Shutdown, DropReceiver, Tick, vars, linkVars, Kept
  <2>2. pc' = pc /\ (receiving' = receiving \/ receiving' = FALSE)
    BY <1>1 DEF App, Call, Shutdown, DropReceiver, Tick, vars
  <2> QED BY <2>1, <2>2 DEF Closed
<1>2. ASSUME pc # "stopped", receiving' = receiving PROVE Closed => Closed'
  <2>1. CASE receiving
    BY <1>2, <2>1 DEF Closed
  <2>2. CASE ~receiving
    BY <1>2, <2>2 DEF Closed
  <2> QED BY <2>1, <2>2
<1>3. CASE Drain
  <2>1. pc # "stopped" /\ receiving' = receiving
    BY <1>3 DEF Drain, TakeShutdown, TakeCommand, TakeGamepad, TakeConnect,
                TakeDisconnect, Drained, Take
  <2>2. Kept \/ Paused \/ Resumed
    BY <1>3 DEF Drain, TakeShutdown, TakeCommand, TakeGamepad, TakeConnect,
                TakeDisconnect, Drained, DropPeer, linkVars, Kept, Paused, Resumed
  <2> QED BY <1>2, <2>1, <2>2
<1>4. CASE ReadNothing \/ ReadError \/ ReadWhilePaused
  <2>1. Reading /\ Kept
    BY <1>4 DEF ReadNothing, ReadError, ReadWhilePaused, linkVars, Kept
  <2> QED BY <1>2, <2>1 DEF Reading
<1>5. ASSUME NEW from \in Addrs, NEW packet \in Datagrams, NEW t \in Stamps,
             Read(from, packet, t)
      PROVE  Move /\ (Closed => Closed')
  <2>1. CASE ReadForeign(from) \/ ReadGarbage(from, packet)
    <3>1. Reading /\ Kept
      BY <2>1 DEF ReadForeign, ReadGarbage, Heard, linkVars, Kept
    <3> QED BY <1>2, <3>1 DEF Reading
  <2>2. CASE ReadBusy(from, packet)
    <3>1. Reading /\ Paused
      BY <2>2 DEF ReadBusy, Heard, Latching, Paused
    <3> QED BY <1>2, <3>1 DEF Reading
  <2>3. CASE LatchUntold(from, packet) \/ Accept(from, packet)
    <3>1. /\ Parsed(from, packet) /\ peer' = from /\ discovering' = discovering
      BY <2>3 DEF LatchUntold, Accept
    <3>2. Reading /\ (Kept \/ Latched)
      BY <3>1 DEF Parsed, Heard, Foreign, Deaf, Kept, Latched
    <3> QED BY <1>2, <3>2 DEF Reading
  <2> QED BY <1>5, <2>1, <2>2, <2>3
          DEF Read, AcceptIdle, AcceptHeartbeat, AcceptTelemetry, AcceptAck,
              AcceptCommand, AcceptDuplicate, AcceptNotify, AcceptStreamOn,
              AcceptStreamOff, AcceptFrameBegin, AcceptFrameChunk, AcceptLastChunk
<1>6. CASE Upkeep
  <2>1. pc # "stopped" /\ receiving' = receiving
    BY <1>6 DEF Upkeep, Expire, NotExpired, Beat, NoBeat, WebcamIdle,
       RequestOwedFrame, RecoverStall, Retransmit, NothingToRetransmit
  <2>2. Kept \/ Severed
    BY <1>6 DEF Upkeep, Expire, NotExpired, Beat, NoBeat, WebcamIdle,
       RequestOwedFrame, RecoverStall, Retransmit, NothingToRetransmit,
       Overdue, DropPeer, linkVars, Kept, Severed
  <2> QED BY <1>2, <2>1, <2>2
<1> QED BY <1>1, <1>3, <1>4, <1>5, <1>6 DEF Next, Worker, Receive

LEMMA SessionInit == Init => Session!Init
  BY DEF Init, Session!Init, Closed

LEMMA SessionStep ==
  ClientInv /\ ClientInv' /\ [Next]_vars => [Session!Next]_(Session!session)
<1> SUFFICES ASSUME ClientInv, ClientInv', [Next]_vars
             PROVE  [Session!Next]_(Session!session)
  OBVIOUS
<1>1. Move /\ (Closed => Closed')
  BY Moves
<1>2. /\ ~discovering => peer = None
      /\ ~discovering' => peer' = None
      /\ ~Closed => appPeer = peer
      /\ ~Closed' => appPeer' = peer'
      /\ discovering \in BOOLEAN /\ discovering' \in BOOLEAN
  BY DEF ClientInv, QuietWhenPaused, ViewIsPeer, Closed, TypeOK, LinkTypeOK
<1> HIDE DEF Closed
<1>3. CASE Closed
  BY <1>1, <1>3 DEF Session!session
<1>4. CASE ~Closed /\ Closed'
  <2>1. Session!Close
    BY <1>4 DEF Session!Close
  <2> QED BY <2>1 DEF Session!Next
<1>5. CASE ~Closed /\ ~Closed'
  <2>1. CASE Kept
    BY <1>2, <1>5, <2>1 DEF Kept, Session!session
  <2>2. CASE Latched
    <3>1. Session!Begin(peer')
      BY <1>2, <1>5, <2>2, NoneIsNo DEF Latched, Session!Begin
    <3> QED BY <2>2, <3>1 DEF Latched, Session!Next
  <2>3. CASE Severed
    <3>1. Session!Lose
      BY <1>2, <1>5, <2>3 DEF Severed, Session!Lose
    <3> QED BY <3>1 DEF Session!Next
  <2>4. CASE Paused
    <3>1. CASE ~discovering
      BY <1>2, <1>5, <2>4, <3>1 DEF Paused, Session!session
    <3>2. CASE discovering
      <4>1. Session!Pause
        BY <1>2, <1>5, <2>4, <3>2 DEF Paused, Session!Pause
      <4> QED BY <4>1 DEF Session!Next
    <3> QED BY <3>1, <3>2
  <2>5. CASE Resumed
    <3>1. CASE discovering
      BY <1>2, <1>5, <2>5, <3>1 DEF Resumed, Session!session
    <3>2. CASE ~discovering
      <4>1. Session!Resume
        BY <1>2, <1>5, <2>5, <3>2 DEF Resumed, Session!Resume
      <4> QED BY <4>1 DEF Session!Next
    <3> QED BY <3>1, <3>2
  <2> QED BY <1>1, <2>1, <2>2, <2>3, <2>4, <2>5 DEF Move
<1> QED BY <1>3, <1>4, <1>5

(* Whatever the network delivers, the events of the worker follow DsSession:  *)
(* a session begins from a search, is announced when it begins and ends, and  *)
(* never passes from one controller to another unannounced.                   *)
THEOREM ClientImplementsSession == Spec => SessionSpec
<1>1. Spec => Session!Init /\ [][Session!Next]_(Session!session)
  BY SessionInit, SessionStep, ClientInvHolds, PTL DEF Spec
<1> QED BY <1>1 DEF SessionSpec, Session!Spec

-----------------------------------------------------------------------------
(* The order and the pace of what the client sends. *)
Unsent(p)  == p.attempts = 0 /\ p.sentAge = None
Fresh(q)   == \A i \in DOMAIN q : Unsent(q[i])
Dated(q)   == \A i \in DOMAIN q : q[i].attempts = 0 => q[i].sentAge = None
Ordered(q) == \A i, j \in DOMAIN q :
                i < j /\ q[j].attempts > 0 => q[i].attempts > 0
InOrder(q) == Dated(q) /\ Ordered(q)

-----------------------------------------------------------------------------
LEMMA Attempts ==
  ASSUME NEW q \in Seq(PendingCommand), NEW i \in DOMAIN q
  PROVE  /\ q[i] \in PendingCommand /\ q[i].attempts \in Nat
         /\ q[i].sentAge \in Option(0..CommandRetryInterval)
<1>1. q[i] \in PendingCommand
  OBVIOUS
<1> QED
  BY <1>1, LimitAssumption DEF PendingCommand

(* Where each command of a queue that was added to comes from.              *)
LEMMA PushAt ==
  ASSUME NEW q \in Seq(PendingCommand), NEW cmds \in Seq(PendingCommand)
  PROVE  \E e \in Nat : \A i \in DOMAIN Push(q, cmds) :
           /\ i + e \in DOMAIN (q \o cmds)
           /\ Push(q, cmds)[i] = (q \o cmds)[i + e]
<1> DEFINE s == q \o cmds
           e == Excess(s, MaxPendingCommands)
<1>1. s \in Seq(PendingCommand) /\ MaxPendingCommands \in Nat
  BY LimitAssumption
<1>2. e \in Nat
  BY <1>1 DEF Excess
<1>3. \A i \in DOMAIN Newest(s, MaxPendingCommands) :
        /\ i + e \in DOMAIN s
        /\ Newest(s, MaxPendingCommands)[i] = s[i + e]
  BY <1>1, NewestType
<1> QED
  BY <1>2, <1>3 DEF Push

LEMMA JoinAt ==
  ASSUME NEW q \in Seq(PendingCommand), NEW cmds \in Seq(PendingCommand),
         NEW i \in DOMAIN (q \o cmds)
  PROVE  /\ i \in Nat
         /\ \/ i \in DOMAIN q /\ i <= Len(q) /\ (q \o cmds)[i] = q[i]
            \/ i > Len(q) /\ i - Len(q) \in DOMAIN cmds
                 /\ (q \o cmds)[i] = cmds[i - Len(q)]
  OBVIOUS

LEMMA PushFrom ==
  ASSUME NEW q \in Seq(PendingCommand), NEW cmds \in Seq(PendingCommand),
         NEW i \in DOMAIN Push(q, cmds)
  PROVE  \/ \E j \in DOMAIN q : Push(q, cmds)[i] = q[j]
         \/ \E j \in DOMAIN cmds : Push(q, cmds)[i] = cmds[j]
<1>1. PICK e \in Nat : i + e \in DOMAIN (q \o cmds)
                         /\ Push(q, cmds)[i] = (q \o cmds)[i + e]
  BY PushAt
<1> QED
  BY <1>1, JoinAt

LEMMA JoinInOrder ==
  ASSUME NEW q \in Seq(PendingCommand), NEW cmds \in Seq(PendingCommand),
         InOrder(q), Fresh(cmds)
  PROVE  InOrder(q \o cmds)
<1> DEFINE s == q \o cmds
<1>1. ASSUME NEW i \in DOMAIN s, s[i].attempts = 0 PROVE s[i].sentAge = None
  BY <1>1, JoinAt DEF InOrder, Dated, Fresh, Unsent
<1>2. ASSUME NEW i \in DOMAIN s, NEW j \in DOMAIN s, i < j, s[j].attempts > 0
      PROVE  s[i].attempts > 0
  <2>1. /\ i \in Nat /\ j \in Nat /\ Len(q) \in Nat
        /\ (i \in DOMAIN q /\ s[i] = q[i]) \/ i > Len(q)
    BY JoinAt
  <2>2. j \in DOMAIN q /\ j <= Len(q) /\ s[j] = q[j]
    BY <1>2, JoinAt DEF Fresh, Unsent
  <2> HIDE DEF s
  <2>3. i \in DOMAIN q /\ s[i] = q[i]
    BY <1>2, <2>1, <2>2
  <2> QED
    BY <1>2, <2>2, <2>3 DEF InOrder, Ordered
<1> QED
  BY <1>1, <1>2 DEF InOrder, Dated, Ordered

LEMMA PushInOrder ==
  ASSUME NEW q \in Seq(PendingCommand), NEW cmds \in Seq(PendingCommand),
         InOrder(q), Fresh(cmds)
  PROVE  InOrder(Push(q, cmds))
<1> DEFINE s == q \o cmds
           p == Push(q, cmds)
<1>1. InOrder(s) /\ DOMAIN s \subseteq Int
  BY JoinInOrder
<1>2. p \in Seq(PendingCommand)
  BY PushType
<1>3. DOMAIN p \subseteq Int
  BY <1>2
<1>4. PICK e \in Nat : \A i \in DOMAIN p : i + e \in DOMAIN s /\ p[i] = s[i + e]
  BY PushAt
<1> HIDE DEF s, p
<1>5. \A i, j \in DOMAIN p : i < j => i + e < j + e
  BY <1>3
<1> QED
  BY <1>1, <1>4, <1>5 DEF InOrder, Dated, Ordered, p

LEMMA RetainInOrder ==
  ASSUME NEW q \in Seq(PendingCommand), NEW K \in SUBSET DOMAIN q, InOrder(q)
  PROVE  InOrder(Retain(q, K))
<1> DEFINE r == Retain(q, K)
<1>1. K \in SUBSET Int /\ IsFiniteSet(K)
  BY IndicesFinite
<1>2. ASSUME NEW k \in DOMAIN r, r[k].attempts = 0 PROVE r[k].sentAge = None
  <2>1. PICK i \in K : r[k] = q[i]
    BY RetainFrom
  <2> QED
    BY <1>2, <2>1 DEF InOrder, Dated
<1>3. ASSUME NEW k \in DOMAIN r, NEW l \in DOMAIN r, k < l, r[l].attempts > 0
      PROVE  r[k].attempts > 0
  <2>1. PICK i \in K : Rank(K, i) = k /\ r[k] = q[i]
    BY RetainFrom
  <2>2. PICK j \in K : Rank(K, j) = l /\ r[l] = q[j]
    BY RetainFrom
  <2>3. k \in Int /\ l \in Int
    BY <1>1, <2>1, <2>2, RankType
  <2>4. i # j
    BY <1>3, <2>1, <2>2, <2>3
  <2>5. ~(j < i)
    BY <1>1, <1>3, <2>1, <2>2, <2>3, RankMonotone
  <2>6. i < j
    BY <1>1, <2>4, <2>5
  <2> QED
    BY <1>3, <2>1, <2>2, <2>6 DEF InOrder, Ordered
<1> QED
  BY <1>2, <1>3 DEF InOrder, Dated, Ordered

-----------------------------------------------------------------------------
(* What the client queues itself was never sent.                            *)
LEMMA CommandIsFresh ==
  ASSUME NEW name, NEW extra, NEW t PROVE Fresh(<<Command(name, extra, t)>>)
  BY DEF Fresh, Unsent, Command

LEMMA QueuedAreFresh ==
  ASSUME NEW t, NEW ack
  PROVE  Fresh(FrameRequest(t)) /\ Fresh(Greeting(t)) /\ Fresh(AfterAck(ack, t))
<1>1. Fresh(FrameRequest(t))
  BY CommandIsFresh DEF FrameRequest
<1>2. Fresh(<<>>)
  BY DEF Fresh
<1>3. Fresh(Greeting(t))
  <2> DEFINE a == Command("REQUEST_ACTIVE", "", t)
             b == Command("REQUEST_CONFIGS", "", t)
             c == Command("REQUEST_OPMODES", "", t)
  <2>1. Unsent(a) /\ Unsent(b) /\ Unsent(c)
    BY DEF Unsent, Command
  <2>2. Greeting(t) = <<a, b, c>> \/ Greeting(t) = <<>>
    BY DEF Greeting
  <2> HIDE DEF a, b, c
  <2>3. Fresh(<<a, b, c>>)
    BY <2>1 DEF Fresh
  <2> QED
    BY <1>2, <2>2, <2>3
<1>4. Fresh(AfterAck(ack, t))
  BY <1>2, CommandIsFresh DEF AfterAck
<1> QED
  BY <1>1, <1>3, <1>4

LEMMA EmptyInOrder == InOrder(<<>>)
  BY DEF InOrder, Dated, Ordered

LEMMA PacedInOrder ==
  ASSUME NEW q \in Seq(PendingCommand), NEW t \in Stamps, InOrder(q),
         RequestFramePaced(q, t)
  PROVE  InOrder(pending')
  BY PushInOrder, QueuedAreFresh, FrameRequestType DEF RequestFramePaced

LEMMA GreetedInOrder ==
  ASSUME QueueOK, InOrder(pending), NEW t \in Stamps
  PROVE  Greeted(t) \in Seq(PendingCommand) /\ InOrder(Greeted(t))
  BY GreetedType, GreetingType, PushInOrder, QueuedAreFresh
     DEF Greeted, QueueOK, QueueTypeOK

LEMMA SettledInOrder ==
  ASSUME NEW q \in Seq(PendingCommand), NEW ack, InOrder(q)
  PROVE  InOrder(Settled(q, ack))
<1> DEFINE K == {i \in DOMAIN q : q[i].name # ack.name \/ q[i].stamp # ack.stamp}
<1>1. K \in SUBSET DOMAIN q
  OBVIOUS
<1> HIDE DEF K
<1> QED
  BY <1>1, RetainInOrder DEF Settled, K

-----------------------------------------------------------------------------
LEMMA OrderRead ==
  ASSUME QueueOK, InOrder(pending), NEW from \in Addrs, NEW packet \in Datagrams,
         NEW t \in Stamps, Read(from, packet, t)
  PROVE  InOrder(pending')
<1>0. /\ pending \in Seq(PendingCommand)
      /\ Greeted(t) \in Seq(PendingCommand) /\ InOrder(Greeted(t))
  BY GreetedInOrder DEF QueueOK, QueueTypeOK
<1>1. CASE pending' \in {pending, Greeted(t)}
  BY <1>0, <1>1
<1>2. CASE AcceptAck(from, packet, t)
  <2> DEFINE q == Settled(Greeted(t), packet)
  <2>1. q \in Seq(PendingCommand) /\ InOrder(q)
    BY <1>0, SettledType, SettledInOrder
  <2>2. pending' = Push(q, AfterAck(packet, t))
    BY <1>2 DEF AcceptAck
  <2> HIDE DEF q
  <2> QED
    BY <2>1, <2>2, PushInOrder, AfterAckType, QueuedAreFresh
<1>3. CASE AcceptStreamOn(from, packet, t)
  <2>1. RequestFramePaced(Greeted(t), t)
    BY <1>3 DEF AcceptStreamOn
  <2> QED
    BY <1>0, <2>1, PacedInOrder
<1>4. CASE AcceptLastChunk(from, packet, t)
  <2>1. RequestFramePaced(pending, t) \/ pending' = pending
    BY <1>4 DEF AcceptLastChunk
  <2> QED
    BY <1>0, <2>1, PacedInOrder
<1>5. CASE ~(\/ AcceptAck(from, packet, t) \/ AcceptStreamOn(from, packet, t)
             \/ AcceptLastChunk(from, packet, t))
  <2>1. pending' = pending \/ pending' = Greeted(t)
    BY <1>5 DEF Read, ReadForeign, ReadGarbage, ReadBusy, LatchUntold, AcceptIdle,
       AcceptHeartbeat, AcceptTelemetry, AcceptDuplicate, AcceptNotify,
       AcceptStreamOff, AcceptFrameBegin, AcceptFrameChunk, queueVars
  <2> QED
    BY <1>0, <2>1
<1> QED
  BY <1>2, <1>3, <1>4, <1>5

(* After a round of retransmissions every command has been tried.           *)
LEMMA AttemptedIsSent ==
  ASSUME NEW p \in PendingCommand, p.attempts = 0 => p.sentAge = None
  PROVE  /\ Attempted(p).attempts > 0
         /\ Waiting(p) => Attempted(p) = p
<1>1. p.attempts \in Nat
  BY LimitAssumption DEF PendingCommand
<1>2. CASE Waiting(p)
  <2>1. p.sentAge # None
    BY <1>2, NoneIsNo, LimitAssumption DEF Waiting
  <2>2. p.attempts # 0 /\ Attempted(p) = p
    BY <1>2, <2>1 DEF Attempted
  <2> QED
    BY <1>1, <2>2
<1>3. CASE ~Waiting(p)
  <2>1. Attempted(p) = [p EXCEPT !.attempts = @ + 1, !.sentAge = 0]
    BY <1>3 DEF Attempted
  <2>2. Attempted(p).attempts = p.attempts + 1
    BY <2>1 DEF PendingCommand
  <2> QED
    BY <1>1, <1>3, <2>2
<1> QED
  BY <1>2, <1>3

LEMMA RetransmitTries ==
  ASSUME QueueOK, InOrder(pending), Retransmit
  PROVE  /\ \A i \in DOMAIN pending' : pending'[i].attempts > 0
<1> DEFINE K == DOMAIN pending \ GiveUp
           kept == Retain(pending, K)
<1>1. pending \in Seq(PendingCommand) /\ K \in SUBSET DOMAIN pending
  BY DEF QueueOK, QueueTypeOK
<1>2. pending' = [i \in DOMAIN kept |-> Attempted(kept[i])]
  BY DEF Retransmit
<1> HIDE DEF K
<1>3. kept \in Seq(PendingCommand) /\ InOrder(kept)
  BY <1>1, RetainType, RetainInOrder
<1> HIDE DEF kept
<1>4. ASSUME NEW i \in DOMAIN kept PROVE Attempted(kept[i]).attempts > 0
  BY <1>3, Attempts, AttemptedIsSent DEF InOrder, Dated
<1> QED
  BY <1>2, <1>4

LEMMA TriedInOrder ==
  ASSUME NEW q \in Seq(PendingCommand), \A i \in DOMAIN q : q[i].attempts > 0
  PROVE  InOrder(q)
  BY DEF InOrder, Dated, Ordered

(* Time makes older what was sent and leaves alone what was not.            *)
LEMMA TickAges ==
  ASSUME QueueOK, InOrder(pending), Tick
  PROVE  /\ DOMAIN pending' = DOMAIN pending
         /\ \A i \in DOMAIN pending :
              /\ pending'[i].attempts = pending[i].attempts
              /\ pending[i].attempts = 0 => pending'[i] = pending[i]
<1>1. pending \in Seq(PendingCommand)
  BY DEF QueueOK, QueueTypeOK
<1>2. pending' = [i \in DOMAIN pending |->
        [pending[i] EXCEPT !.sentAge = Cap(@, CommandRetryInterval)]]
  BY DEF Tick
<1>3. ASSUME NEW i \in DOMAIN pending
      PROVE  /\ pending'[i].attempts = pending[i].attempts
             /\ pending[i].attempts = 0 => pending'[i] = pending[i]
  <2> DEFINE p == pending[i]
  <2>1. p \in PendingCommand
    BY <1>1
  <2>2. pending'[i] = [p EXCEPT !.sentAge = Cap(p.sentAge, CommandRetryInterval)]
    BY <1>2
  <2>3. p.attempts = 0 => Cap(p.sentAge, CommandRetryInterval) = p.sentAge
    BY NoneIsNo, LimitAssumption DEF InOrder, Dated, Cap
  <2> HIDE DEF p
  <2>4. pending'[i].attempts = p.attempts
    BY <2>1, <2>2 DEF PendingCommand
  <2>5. p.attempts = 0 => pending'[i] = p
    BY <2>1, <2>2, <2>3 DEF PendingCommand
  <2> QED
    BY <2>4, <2>5 DEF p
<1> QED
  BY <1>2, <1>3

LEMMA OrderStep ==
  ASSUME TypeOK, QueueOK, QueueOK', InOrder(pending), [Next]_vars
  PROVE  InOrder(pending')
<1>0. pending \in Seq(PendingCommand) /\ pending' \in Seq(PendingCommand)
  BY DEF QueueOK, QueueTypeOK
<1>1. CASE pending' = pending \/ pending' = <<>>
  BY <1>1, EmptyInOrder
<1>2. CASE App
  BY <1>1, <1>2 DEF App, Call, Shutdown, DropReceiver, queueVars
<1>3. CASE TakeShutdown \/ TakeGamepad \/ TakeConnect \/ TakeDisconnect \/ Drained
  BY <1>1, <1>3 DEF TakeShutdown, TakeGamepad, TakeConnect, TakeDisconnect, Drained,
                    DropPeer, queueVars
<1>4. ASSUME NEW t \in Stamps, TakeCommand(t) PROVE InOrder(pending')
  <2> DEFINE c == Command(Head(ctrl).name, Head(ctrl).extra, t)
  <2>1. Head(ctrl) \in Control /\ Head(ctrl).op = "command"
    BY <1>4 DEF TakeCommand, Take, TypeOK, ControlTypeOK
  <2>2. c \in PendingCommand /\ Fresh(<<c>>)
    BY <2>1, CallFields, CommandType, CommandIsFresh
  <2>3. pending' = Push(pending, <<c>>)
    BY <1>4 DEF TakeCommand
  <2> HIDE DEF c
  <2> QED
    BY <1>0, <2>2, <2>3, OneInSeq, PushInOrder
<1>5. CASE ReadNothing \/ ReadError \/ ReadWhilePaused
  BY <1>1, <1>5 DEF ReadNothing, ReadError, ReadWhilePaused, queueVars
<1>6. ASSUME NEW from \in Addrs, NEW packet \in Datagrams, NEW t \in Stamps,
             Read(from, packet, t)
      PROVE  InOrder(pending')
  BY <1>6, OrderRead
<1>7. CASE \/ Expire \/ NotExpired \/ Beat \/ NoBeat \/ WebcamIdle
           \/ NothingToRetransmit
  BY <1>1, <1>7 DEF Expire, DropPeer, NotExpired, Beat, NoBeat, WebcamIdle,
                    NothingToRetransmit, queueVars
<1>8. ASSUME NEW t \in Stamps, RequestOwedFrame(t) \/ RecoverStall(t)
      PROVE  InOrder(pending')
  <2>1. pending' = Push(pending, FrameRequest(t)) \/ RequestFramePaced(pending, t)
    BY <1>8 DEF RequestOwedFrame, RecoverStall
  <2> QED
    BY <1>0, <2>1, PushInOrder, QueuedAreFresh, FrameRequestType, PacedInOrder
<1>9. CASE Retransmit
  BY <1>0, <1>9, RetransmitTries, TriedInOrder
<1>10. CASE Tick
  BY <1>10, TickAges DEF InOrder, Dated, Ordered
<1>11. CASE UNCHANGED vars
  BY <1>1, <1>11 DEF vars, queueVars
<1> QED
  BY <1>2, <1>3, <1>4, <1>5, <1>6, <1>7, <1>8, <1>9, <1>10, <1>11
     DEF Next, Worker, Drain, Receive, Upkeep

LEMMA OrderInvariant == Spec => [](ClientInv /\ InOrder(pending))
<1>1. Init => InOrder(pending)
  BY EmptyInOrder DEF Init
<1>2. ClientInv /\ ClientInv' /\ InOrder(pending) /\ [Next]_vars => InOrder(pending)'
  BY OrderStep DEF ClientInv
<1> QED
  BY <1>1, <1>2, ClientInvHolds, PTL DEF Spec

(* Commands are first sent in the order they were queued, whatever is       *)
(* acknowledged, given up, pushed out or queued in between.                 *)
THEOREM CommandsKeepOrder == Spec => []FirstSentInOrder
<1>1. ClientInv /\ InOrder(pending) => FirstSentInOrder
  BY DEF InOrder, Ordered, FirstSentInOrder
<1> QED
  BY OrderInvariant, <1>1, PTL
-----------------------------------------------------------------------------
(* Whether every unsent request in queue q waits in the queue already.      *)
Waits(p) == \E j \in DOMAIN pending : pending[j] = p
NoNewRequest(q) ==
  \A i \in DOMAIN q :
    q[i].name = "REQUEST_FRAME" /\ q[i].attempts = 0 => Waits(q[i])

LEMMA PushNoRequest ==
  ASSUME NEW q \in Seq(PendingCommand), NEW cmds \in Seq(PendingCommand),
         NoNewRequest(q), \A i \in DOMAIN cmds : cmds[i].name # "REQUEST_FRAME"
  PROVE  NoNewRequest(Push(q, cmds))
  BY PushFrom DEF NoNewRequest

LEMMA PendingNoRequest == NoNewRequest(pending) /\ NoNewRequest(<<>>)
  BY DEF NoNewRequest, Waits

LEMMA QueuedNoRequest ==
  ASSUME NEW t, NEW ack
  PROVE  /\ \A i \in DOMAIN Greeting(t) : Greeting(t)[i].name # "REQUEST_FRAME"
         /\ \A i \in DOMAIN AfterAck(ack, t) : AfterAck(ack, t)[i].name # "REQUEST_FRAME"
<1> DEFINE a == Command("REQUEST_ACTIVE", "", t)
           b == Command("REQUEST_CONFIGS", "", t)
           c == Command("REQUEST_OPMODES", "", t)
           r == Command("RESTART", "", t)
<1>1. /\ a.name # "REQUEST_FRAME" /\ b.name # "REQUEST_FRAME"
      /\ c.name # "REQUEST_FRAME" /\ r.name # "REQUEST_FRAME"
  BY DEF Command
<1>2. /\ Greeting(t) = <<a, b, c>> \/ Greeting(t) = <<>>
      /\ AfterAck(ack, t) = <<r>> \/ AfterAck(ack, t) = <<>>
  BY DEF Greeting, AfterAck
<1> HIDE DEF a, b, c, r
<1>3. /\ \A i \in DOMAIN <<a, b, c>> : <<a, b, c>>[i].name # "REQUEST_FRAME"
      /\ \A i \in DOMAIN <<r>> : <<r>>[i].name # "REQUEST_FRAME"
      /\ \A i \in DOMAIN <<>> : FALSE
  BY <1>1
<1> QED
  BY <1>2, <1>3

LEMMA GreetedNoRequest ==
  ASSUME QueueOK, NEW t \in Stamps PROVE NoNewRequest(Greeted(t))
  BY PushNoRequest, PendingNoRequest, GreetingType, QueuedNoRequest
     DEF Greeted, QueueOK, QueueTypeOK

LEMMA SettledNoRequest ==
  ASSUME NEW q \in Seq(PendingCommand), NEW ack, NoNewRequest(q)
  PROVE  NoNewRequest(Settled(q, ack))
<1> DEFINE K == {i \in DOMAIN q : q[i].name # ack.name \/ q[i].stamp # ack.stamp}
<1>1. K \in SUBSET DOMAIN q
  OBVIOUS
<1> HIDE DEF K
<1>2. NoNewRequest(Retain(q, K))
  BY <1>1, RetainFrom DEF NoNewRequest
<1> QED
  BY <1>2 DEF Settled, K

LEMMA PacedNoRequest ==
  ASSUME NEW q, NEW t, NoNewRequest(q), RequestFramePaced(q, t)
  PROVE  NoNewRequest(pending') \/ RequestDue
  BY DEF RequestFramePaced

LEMMA PaceRead ==
  ASSUME QueueOK, NEW from \in Addrs, NEW packet \in Datagrams,
         NEW t \in Stamps, Read(from, packet, t)
  PROVE  NoNewRequest(pending') \/ RequestDue
<1>0. /\ NoNewRequest(pending) /\ NoNewRequest(Greeted(t))
      /\ Greeted(t) \in Seq(PendingCommand)
  BY PendingNoRequest, GreetedNoRequest, GreetedType DEF QueueOK
<1>1. CASE AcceptAck(from, packet, t)
  <2> DEFINE q == Settled(Greeted(t), packet)
  <2>1. q \in Seq(PendingCommand) /\ NoNewRequest(q)
    BY <1>0, SettledType, SettledNoRequest
  <2>2. pending' = Push(q, AfterAck(packet, t))
    BY <1>1 DEF AcceptAck
  <2> HIDE DEF q
  <2>3. NoNewRequest(pending')
    BY <2>1, <2>2, PushNoRequest, AfterAckType, QueuedNoRequest
  <2> QED
    BY <2>3
<1>2. CASE AcceptStreamOn(from, packet, t)
  <2>1. RequestFramePaced(Greeted(t), t)
    BY <1>2 DEF AcceptStreamOn
  <2> QED
    BY <1>0, <2>1, PacedNoRequest
<1>3. CASE AcceptLastChunk(from, packet, t)
  <2>1. RequestFramePaced(pending, t) \/ pending' = pending
    BY <1>3 DEF AcceptLastChunk
  <2> QED
    BY <1>0, <2>1, PacedNoRequest
<1>4. CASE ~(\/ AcceptAck(from, packet, t) \/ AcceptStreamOn(from, packet, t)
             \/ AcceptLastChunk(from, packet, t))
  <2>1. pending' = pending \/ pending' = Greeted(t)
    BY <1>4 DEF Read, ReadForeign, ReadGarbage, ReadBusy, LatchUntold, AcceptIdle,
       AcceptHeartbeat, AcceptTelemetry, AcceptDuplicate, AcceptNotify,
       AcceptStreamOff, AcceptFrameBegin, AcceptFrameChunk, queueVars
  <2> QED
    BY <1>0, <2>1
<1> QED
  BY <1>1, <1>2, <1>3, <1>4

LEMMA PaceStep ==
  ASSUME QueueOK, InOrder(pending), Next, pc # "ctrl"
  PROVE  NoNewRequest(pending') \/ RequestDue
<1>1. CASE pending' = pending \/ pending' = <<>>
  BY <1>1, PendingNoRequest
<1>2. CASE App \/ Drain
  <2>1. pending' = pending
    BY <1>2 DEF App, Call, Shutdown, DropReceiver, queueVars, Drain, TakeShutdown,
       TakeCommand, TakeGamepad, TakeConnect, TakeDisconnect, Drained, Take
  <2> QED
    BY <1>1, <2>1
<1>3. CASE ReadNothing \/ ReadError \/ ReadWhilePaused
  BY <1>1, <1>3 DEF ReadNothing, ReadError, ReadWhilePaused, queueVars
<1>4. ASSUME NEW from \in Addrs, NEW packet \in Datagrams, NEW t \in Stamps,
             Read(from, packet, t)
      PROVE  NoNewRequest(pending') \/ RequestDue
  BY <1>4, PaceRead
<1>5. CASE \/ Expire \/ NotExpired \/ Beat \/ NoBeat \/ WebcamIdle
           \/ NothingToRetransmit
  BY <1>1, <1>5 DEF Expire, DropPeer, NotExpired, Beat, NoBeat, WebcamIdle,
                    NothingToRetransmit, queueVars
<1>6. ASSUME NEW t \in Stamps, RequestOwedFrame(t) \/ RecoverStall(t)
      PROVE  NoNewRequest(pending') \/ RequestDue
  <2>1. RequestDue \/ RequestFramePaced(pending, t)
    BY <1>6 DEF RequestOwedFrame, WebcamOwed, RecoverStall
  <2> QED
    BY <2>1, PendingNoRequest, PacedNoRequest
<1>7. CASE Retransmit
  BY <1>7, RetransmitTries DEF NoNewRequest
<1>8. CASE Tick
  BY <1>8, TickAges DEF NoNewRequest, Waits
<1> QED
  BY <1>2, <1>3, <1>4, <1>5, <1>6, <1>7, <1>8 DEF Next, Worker, Receive, Upkeep

(* A request of the worker's own for a frame joins the queue only when the  *)
(* pacing interval has passed, whatever brings it about.                    *)
THEOREM RequestsArePaced == Spec => RequestsPaced
<1>1. ClientInv /\ InOrder(pending) /\ [Next]_vars =>
        [pc # "ctrl" /\ (\E i \in DOMAIN pending' :
                            /\ pending'[i].name = "REQUEST_FRAME" /\ pending'[i].attempts = 0
                            /\ \A j \in DOMAIN pending : pending[j] # pending'[i])
           => RequestDue]_vars
  BY PaceStep DEF ClientInv, NoNewRequest, Waits
<1> QED
  BY OrderInvariant, <1>1, PTL DEF Spec, RequestsPaced
-----------------------------------------------------------------------------
(* For what is lost it does not matter what commands are called: a queue is *)
(* a sequence of them, events are a sequence of anything.                   *)
IsCommand(p) ==
  p = [name |-> p.name, extra |-> p.extra, stamp |-> p.stamp,
       sentAge |-> p.sentAge, attempts |-> p.attempts]
IsQueue(q)    == \E S : q \in Seq(S) /\ \A p \in S : IsCommand(p)
IsSequence(s) == \E S : s \in Seq(S)

LEMMA QueueOf ==
  ASSUME NEW S, NEW q \in Seq(S), \A p \in S : IsCommand(p)
  PROVE  IsQueue(q) /\ IsSequence(q)
BY Zenon DEF IsQueue, IsSequence

LEMMA SequenceOf == ASSUME NEW S, NEW s \in Seq(S) PROVE IsSequence(s)
BY Zenon DEF IsSequence

LEMMA QueuesOne ==
  ASSUME NEW name, NEW extra, NEW t PROVE IsQueue(<<Command(name, extra, t)>>)
<1> DEFINE c == Command(name, extra, t)
<1>1. IsCommand(c)
  BY DEF IsCommand, Command
<1> HIDE DEF c
<1> DEFINE S == {c}
           q == <<c>>
<1>2. q \in Seq(S) /\ \A p \in S : IsCommand(p)
  BY <1>1, OneInSeq
<1> HIDE DEF S, q
<1>3. IsQueue(q)
  BY <1>2, QueueOf, Zenon
<1> QED
  BY <1>3 DEF c, q

LEMMA QueuesNone == IsQueue(<<>>) /\ IsSequence(<<>>)
<1> DEFINE S == {}
           q == <<>>
<1>1. q \in Seq(S) /\ \A p \in S : IsCommand(p)
  BY NoneInSeq
<1> HIDE DEF S, q
<1>2. IsQueue(q) /\ IsSequence(q)
  BY <1>1, QueueOf, Zenon
<1> QED
  BY <1>2 DEF q

LEMMA QueuesOwn ==
  ASSUME NEW t, NEW ack
  PROVE  IsQueue(FrameRequest(t)) /\ IsQueue(Greeting(t)) /\ IsQueue(AfterAck(ack, t))
<1>1. IsQueue(FrameRequest(t)) /\ IsQueue(AfterAck(ack, t))
  BY QueuesOne, QueuesNone DEF FrameRequest, AfterAck
<1>2. IsQueue(Greeting(t))
  <2> DEFINE a == Command("REQUEST_ACTIVE", "", t)
             b == Command("REQUEST_CONFIGS", "", t)
             c == Command("REQUEST_OPMODES", "", t)
             S == {a, b, c}
  <2>1. IsCommand(a) /\ IsCommand(b) /\ IsCommand(c)
    BY DEF IsCommand, Command
  <2>2. Greeting(t) = <<a, b, c>> \/ Greeting(t) = <<>>
    BY DEF Greeting
  <2> HIDE DEF a, b, c
  <2>3. <<a, b, c>> \in Seq(S) /\ \A p \in S : IsCommand(p)
    BY <2>1, ThreeInSeq
  <2> HIDE DEF S
  <2>4. IsQueue(<<a, b, c>>)
    BY <2>3, QueueOf, Zenon
  <2> QED
    BY <2>2, <2>4, QueuesNone
<1> QED
  BY <1>1, <1>2

LEMMA QueueOfPending ==
  ASSUME NEW q \in Seq(PendingCommand) PROVE IsQueue(q)
<1>1. \A p \in PendingCommand : IsCommand(p)
  BY DEF IsCommand, PendingCommand
<1> QED
  BY <1>1, QueueOf, Zenon

LEMMA QueuesJoin ==
  ASSUME NEW q, IsQueue(q), NEW cmds, IsQueue(cmds)
  PROVE  /\ IsQueue(Push(q, cmds)) /\ Len(Push(q, cmds)) <= MaxPendingCommands
         /\ IsSequence(Overflow(q, cmds))
<1>1. PICK S : q \in Seq(S) /\ \A p \in S : IsCommand(p)
  BY DEF IsQueue
<1>2. PICK T : cmds \in Seq(T) /\ \A p \in T : IsCommand(p)
  BY DEF IsQueue
<1> DEFINE U == S \cup T
           s == q \o cmds
           out == Oldest(s, MaxPendingCommands)
<1>3. s \in Seq(U) /\ MaxPendingCommands \in Nat
  BY <1>1, <1>2, LimitAssumption
<1>4. \A p \in U : IsCommand(p)
  BY <1>1, <1>2
<1> HIDE DEF U, s
<1>5. Push(q, cmds) \in Seq(U) /\ Len(Push(q, cmds)) <= MaxPendingCommands
  BY <1>3, NewestType DEF Push, s
<1>6. out \in Seq(U)
  <2>1. Excess(s, MaxPendingCommands) \in 0..Len(s)
    BY <1>3 DEF Excess
  <2> QED
    BY <1>3, <2>1 DEF Oldest
<1>7. Overflow(q, cmds) = [i \in DOMAIN out |-> Dropped(out[i].name)]
  BY DEF Overflow, s
<1> HIDE DEF out
<1> DEFINE D == {Dropped(p.name) : p \in U}
<1>8. Overflow(q, cmds) \in Seq(D)
  <2>1. \A i \in DOMAIN out : Dropped(out[i].name) \in D
    BY <1>6
  <2> HIDE DEF D
  <2> QED
    BY <1>6, <1>7, <2>1
<1> HIDE DEF D
<1>9. IsQueue(Push(q, cmds))
  BY <1>4, <1>5, QueueOf, Zenon
<1>10. IsSequence(Overflow(q, cmds))
  BY <1>8, SequenceOf, Zenon
<1> QED
  BY <1>5, <1>9, <1>10

LEMMA SettledQueue ==
  ASSUME NEW q, IsQueue(q), NEW ack
  PROVE  IsQueue(Settled(q, ack))
<1>1. PICK S : q \in Seq(S) /\ \A p \in S : IsCommand(p)
  BY DEF IsQueue
<1> DEFINE K == {i \in DOMAIN q : q[i].name # ack.name \/ q[i].stamp # ack.stamp}
<1>2. K \in SUBSET DOMAIN q
  OBVIOUS
<1> HIDE DEF K
<1>3. Retain(q, K) \in Seq(S)
  BY <1>1, <1>2, RetainType
<1>4. IsQueue(Retain(q, K))
  BY <1>1, <1>3, QueueOf, Zenon
<1> QED
  BY <1>4 DEF Settled, K

(* Queue r still holds every command of q, unless its identity is in X or   *)
(* the events say that it was dropped.                                      *)
Holds(q, r, evs, X) ==
  \A i \in DOMAIN q :
    \/ Identity(q[i]) \in X
    \/ \E j \in DOMAIN r : Identity(r[j]) = Identity(q[i])
    \/ Contains(evs, Dropped(q[i].name))

LEMMA ContainsEither ==
  ASSUME NEW a, IsSequence(a), NEW b, IsSequence(b), NEW x,
         Contains(a, x) \/ Contains(b, x)
  PROVE  Contains(a \o b, x)
<1>1. PICK S : a \in Seq(S)
  BY DEF IsSequence
<1>2. PICK T : b \in Seq(T)
  BY DEF IsSequence
<1>3. CASE Contains(a, x)
  <2>1. PICK i \in DOMAIN a : a[i] = x
    BY <1>3 DEF Contains
  <2>2. i \in DOMAIN (a \o b) /\ (a \o b)[i] = x
    BY <1>1, <1>2, <2>1
  <2> QED
    BY <2>2 DEF Contains
<1>4. CASE Contains(b, x)
  <2>1. PICK i \in DOMAIN b : b[i] = x
    BY <1>4 DEF Contains
  <2>2. Len(a) + i \in DOMAIN (a \o b) /\ (a \o b)[Len(a) + i] = x
    BY <1>1, <1>2, <2>1
  <2> QED
    BY <2>2 DEF Contains
<1> QED
  BY <1>3, <1>4

LEMMA SequencesJoin ==
  ASSUME NEW a, IsSequence(a), NEW b, IsSequence(b)
  PROVE  IsSequence(a \o b)
<1>1. PICK S : a \in Seq(S)
  BY DEF IsSequence
<1>2. PICK T : b \in Seq(T)
  BY DEF IsSequence
<1>3. a \o b \in Seq(S \cup T)
  BY <1>1, <1>2
<1> QED
  BY <1>3, SequenceOf, Zenon

LEMMA OneIsSequence == ASSUME NEW x PROVE IsSequence(<<x>>)
<1>1. <<x>> \in Seq({x})
  BY OneInSeq
<1> QED
  BY <1>1, SequenceOf, Zenon

LEMMA KeptSame == ASSUME NEW q, NEW evs, NEW X PROVE Holds(q, q, evs, X)
  BY DEF Holds

(* More events told keep what fewer kept.                                   *)
LEMMA KeptMore ==
  ASSUME NEW a, IsSequence(a), NEW b, IsSequence(b),
         NEW q, NEW r, NEW X, Holds(q, r, a, X) \/ Holds(q, r, b, X)
  PROVE  Holds(q, r, a \o b, X)
  BY ContainsEither DEF Holds

LEMMA KeptTwice ==
  ASSUME NEW q, NEW r, NEW s, NEW evs, NEW X,
         Holds(q, r, evs, X), Holds(r, s, evs, X)
  PROVE  Holds(q, s, evs, X)
<1>1. ASSUME NEW i \in DOMAIN q, Identity(q[i]) \notin X,
             ~Contains(evs, Dropped(q[i].name))
      PROVE  \E k \in DOMAIN s : Identity(s[k]) = Identity(q[i])
  <2>1. PICK j \in DOMAIN r : Identity(r[j]) = Identity(q[i])
    BY <1>1 DEF Holds
  <2>2. r[j].name = q[i].name
    BY <2>1 DEF Identity
  <2> QED
    BY <1>1, <2>1, <2>2 DEF Holds
<1> QED
  BY <1>1 DEF Holds

(* What makes room in the queue is reported.                                *)
LEMMA PushKeeps ==
  ASSUME NEW q, IsQueue(q), NEW cmds, IsQueue(cmds), NEW X
  PROVE  Holds(q, Push(q, cmds), Overflow(q, cmds), X)
<1>0. PICK S : q \in Seq(S)
  BY DEF IsQueue
<1>a. PICK T : cmds \in Seq(T)
  BY DEF IsQueue
<1> DEFINE s == q \o cmds
           e == Excess(s, MaxPendingCommands)
<1>1. /\ s \in Seq(S \cup T) /\ MaxPendingCommands \in Nat
      /\ Len(s) \in Nat /\ Len(q) \in Nat /\ Len(q) <= Len(s)
      /\ \A i \in DOMAIN q : i \in 1..Len(s) /\ s[i] = q[i]
  BY <1>0, <1>a, LimitAssumption
<1>2. e \in 0..Len(s)
  BY <1>1 DEF Excess
<1>3. /\ Push(q, cmds) = SubSeq(s, e + 1, Len(s))
      /\ Oldest(s, MaxPendingCommands) = SubSeq(s, 1, e)
  BY DEF Push, Newest, Oldest
<1>4. Overflow(q, cmds) = [i \in DOMAIN SubSeq(s, 1, e) |-> Dropped(SubSeq(s, 1, e)[i].name)]
  BY <1>3 DEF Overflow
<1> HIDE DEF s, e
<1>5. ASSUME NEW i \in DOMAIN q
      PROVE  \/ \E j \in DOMAIN Push(q, cmds) : Push(q, cmds)[j] = q[i]
             \/ Contains(Overflow(q, cmds), Dropped(q[i].name))
  <2>1. i \in 1..Len(s) /\ s[i] = q[i]
    BY <1>1
  <2>2. CASE i <= e
    <3>1. i \in DOMAIN SubSeq(s, 1, e) /\ SubSeq(s, 1, e)[i] = s[i]
      BY <1>1, <1>2, <2>1, <2>2
    <3>2. i \in DOMAIN Overflow(q, cmds) /\ Overflow(q, cmds)[i] = Dropped(q[i].name)
      BY <1>4, <2>1, <3>1
    <3> QED
      BY <3>2 DEF Contains
  <2>3. CASE i > e
    <3>1. i - e \in DOMAIN SubSeq(s, e + 1, Len(s))
            /\ SubSeq(s, e + 1, Len(s))[i - e] = s[i]
      BY <1>1, <1>2, <2>1, <2>3
    <3> QED
      BY <1>3, <2>1, <3>1
  <2> QED
    BY <1>2, <2>1, <2>2, <2>3
<1> QED
  BY <1>5 DEF Holds

LEMMA PacedKeeps ==
  ASSUME NEW q, IsQueue(q), Len(q) <= MaxPendingCommands, NEW t, NEW X,
         RequestFramePaced(q, t)
  PROVE  /\ Holds(q, pending', PacedOverflow(q, t), X)
         /\ IsQueue(pending') /\ Len(pending') <= MaxPendingCommands
         /\ IsSequence(PacedOverflow(q, t))
  BY PushKeeps, QueuesOwn, QueuesJoin, QueuesNone, KeptSame
     DEF RequestFramePaced, PacedOverflow
(* Only a first packet queues the greeting, and what it pushes out is told.  *)
LEMMA GreetingKeeps ==
  ASSUME IsQueue(pending), Len(pending) <= MaxPendingCommands, NEW from, NEW t, NEW X
  PROVE  /\ Holds(pending, Greeted(t), LatchEvents(from, t), X)
         /\ IsQueue(Greeted(t)) /\ Len(Greeted(t)) <= MaxPendingCommands
         /\ IsSequence(LatchEvents(from, t))
<1>0. PICK S : pending \in Seq(S)
  BY DEF IsQueue
<1> DEFINE over == Overflow(pending, Greeting(t))
<1>1. /\ IsQueue(Greeted(t)) /\ Len(Greeted(t)) <= MaxPendingCommands
      /\ IsSequence(over) /\ Holds(pending, Greeted(t), over, X)
  BY QueuesOwn, QueuesJoin, PushKeeps DEF Greeted
<1> HIDE DEF over
<1>2. CASE Latching
  <2>1. LatchEvents(from, t) = <<Connected(from)>> \o over
    BY <1>2 DEF LatchEvents, over
  <2>2. IsSequence(<<Connected(from)>>)
    BY OneIsSequence
  <2> QED
    BY <1>1, <2>1, <2>2, KeptMore, SequencesJoin
<1>3. CASE ~Latching
  <2>1. Greeted(t) = Newest(pending \o <<>>, MaxPendingCommands)
    BY <1>3 DEF Greeted, Greeting, Push
  <2>2. pending \o <<>> = pending /\ Len(pending) \in Nat /\ MaxPendingCommands \in Nat
    BY <1>0, LimitAssumption
  <2>3. Excess(pending, MaxPendingCommands) = 0
    BY <2>2 DEF Excess
  <2>4. Greeted(t) = SubSeq(pending, 1, Len(pending))
    BY <2>1, <2>2, <2>3 DEF Newest
  <2>5. Greeted(t) = pending /\ LatchEvents(from, t) = <<>>
    BY <1>0, <1>3, <2>4 DEF LatchEvents
  <2> QED
    BY <1>1, <2>5, KeptSame, QueuesNone
<1> QED
  BY <1>2, <1>3

(* An acknowledgement takes only the commands of its name and stamp.        *)
LEMMA SettledKeeps ==
  ASSUME NEW q, IsQueue(q), NEW ack, NEW evs
  PROVE  Holds(q, Settled(q, ack), evs, {<<ack.name, ack.stamp>>})
<1>0. PICK S : q \in Seq(S)
  BY DEF IsQueue
<1> DEFINE K == {i \in DOMAIN q : q[i].name # ack.name \/ q[i].stamp # ack.stamp}
<1>1. ASSUME NEW i \in DOMAIN q, Identity(q[i]) # <<ack.name, ack.stamp>>
      PROVE  \E j \in DOMAIN Settled(q, ack) : Settled(q, ack)[j] = q[i]
  <2>1. i \in K /\ K \in SUBSET DOMAIN q
    BY <1>1 DEF Identity
  <2> HIDE DEF K
  <2> QED
    BY <1>0, <2>1, RetainAt DEF Settled, K
<1> QED
  BY <1>1 DEF Holds

(* A retransmission, or the clock, leaves a command what it is.             *)
LEMMA SameIdentity ==
  ASSUME NEW p, IsCommand(p)
  PROVE  /\ Identity(Attempted(p)) = Identity(p) /\ IsCommand(Attempted(p))
         /\ \A a : /\ Identity([p EXCEPT !.sentAge = a]) = Identity(p)
                   /\ IsCommand([p EXCEPT !.sentAge = a])
<1> DEFINE n == p.name
           x == p.extra
           s == p.stamp
           g == p.sentAge
           m == p.attempts
           r == [name |-> n, extra |-> x, stamp |-> s, sentAge |-> g, attempts |-> m]
<1>1. p = r
  BY DEF IsCommand
<1> HIDE DEF n, x, s, g, m
<1>2. ASSUME NEW a
      PROVE  [r EXCEPT !.sentAge = a]
               = [name |-> n, extra |-> x, stamp |-> s, sentAge |-> a, attempts |-> m]
  OBVIOUS
<1>3. ASSUME NEW a, NEW b
      PROVE  [r EXCEPT !.attempts = b, !.sentAge = a]
               = [name |-> n, extra |-> x, stamp |-> s, sentAge |-> a, attempts |-> b]
  <2>1. DOMAIN r = {"name", "extra", "stamp", "sentAge", "attempts"}
    OBVIOUS
  <2>2. [r EXCEPT !.attempts = b, !.sentAge = a]
          = [f \in DOMAIN r |-> IF f = "sentAge" THEN a ELSE IF f = "attempts" THEN b ELSE r[f]]
    OBVIOUS
  <2> QED
    BY <2>1, <2>2
<1>4. ASSUME NEW a, NEW b, NEW c,
             c = [name |-> n, extra |-> x, stamp |-> s, sentAge |-> a, attempts |-> b]
      PROVE  IsCommand(c) /\ Identity(c) = <<n, s>>
  BY <1>4 DEF IsCommand, Identity
<1>5. Identity(p) = <<n, s>> /\ IsCommand(p)
  BY <1>1, <1>4
<1>6. ASSUME NEW a
      PROVE  Identity([p EXCEPT !.sentAge = a]) = <<n, s>>
             /\ IsCommand([p EXCEPT !.sentAge = a])
  BY <1>1, <1>2, <1>4
<1>7. Identity(Attempted(p)) = <<n, s>> /\ IsCommand(Attempted(p))
  <2>1. CASE Waiting(p)
    BY <1>5, <2>1 DEF Attempted
  <2>2. CASE ~Waiting(p)
    <3>1. Attempted(p) = [r EXCEPT !.attempts = r.attempts + 1, !.sentAge = 0]
      BY <1>1, <2>2 DEF Attempted
    <3> QED
      BY <1>3, <1>4, <3>1
  <2> QED
    BY <2>1, <2>2
<1> QED
  BY <1>5, <1>6, <1>7

(* A queue whose every command was replaced by one like it.                 *)
LEMMA QueueMapped ==
  ASSUME NEW q, IsQueue(q), NEW r, DOMAIN r = DOMAIN q, r = [i \in DOMAIN q |-> r[i]],
         \A i \in DOMAIN q : IsCommand(r[i])
  PROVE  IsQueue(r) /\ Len(r) = Len(q)
<1>0. PICK S : q \in Seq(S)
  BY DEF IsQueue
<1>1. DOMAIN q = 1..Len(q) /\ Len(q) \in Nat
  BY <1>0
<1> DEFINE T == {r[i] : i \in DOMAIN q}
<1>2. r \in Seq(T) /\ Len(r) = Len(q)
  BY <1>1
<1>3. \A p \in T : IsCommand(p)
  OBVIOUS
<1> HIDE DEF T
<1>4. IsQueue(r)
  BY <1>2, <1>3, QueueOf, Zenon
<1> QED
  BY <1>2, <1>4

LEMMA QueueMember ==
  ASSUME NEW q, IsQueue(q), NEW i \in DOMAIN q PROVE IsCommand(q[i])
<1>1. PICK S : q \in Seq(S) /\ \A p \in S : IsCommand(p)
  BY DEF IsQueue
<1> QED
  BY <1>1
QueueFits == IsQueue(pending) /\ Len(pending) <= MaxPendingCommands

LEMMA RetransmitKeeps ==
  ASSUME QueueFits, receiving, Retransmit
  PROVE  Holds(pending, pending', events', {}) /\ QueueFits'
<1> DEFINE K == DOMAIN pending \ GiveUp
           kept == Retain(pending, K)
           failed == Retain(pending, GiveUp)
<1>0. PICK S : pending \in Seq(S) /\ \A p \in S : IsCommand(p)
  BY DEF QueueFits, IsQueue
<1>1. K \in SUBSET DOMAIN pending /\ GiveUp \in SUBSET DOMAIN pending
  BY DEF GiveUp
<1>2. /\ pending' = [i \in DOMAIN kept |-> Attempted(kept[i])]
      /\ events' = [i \in DOMAIN failed |-> Dropped(failed[i].name)]
  BY DEF Retransmit, Tell
<1>3. ASSUME NEW i \in GiveUp
      PROVE  Contains(events', Dropped(pending[i].name))
  <2>1. /\ Rank(GiveUp, i) \in DOMAIN failed
        /\ failed[Rank(GiveUp, i)] = pending[i]
    BY <1>0, <1>1, RetainAt
  <2> HIDE DEF failed
  <2>2. /\ Rank(GiveUp, i) \in DOMAIN events'
        /\ events'[Rank(GiveUp, i)] = Dropped(pending[i].name)
    BY <1>2, <2>1
  <2> QED
    BY <2>2 DEF Contains
<1>4. ASSUME NEW i \in K
      PROVE  \E j \in DOMAIN pending' : Identity(pending'[j]) = Identity(pending[i])
  <2> HIDE DEF K
  <2>1. Rank(K, i) \in DOMAIN kept /\ kept[Rank(K, i)] = pending[i]
    BY <1>0, <1>1, RetainAt
  <2> HIDE DEF kept
  <2>2. Rank(K, i) \in DOMAIN pending' /\ pending'[Rank(K, i)] = Attempted(pending[i])
    BY <1>2, <2>1
  <2>3. IsCommand(pending[i])
    BY <1>0, <1>1
  <2> QED
    BY <2>2, <2>3, SameIdentity
<1>5. QueueFits'
  <2> HIDE DEF K
  <2>1. kept \in Seq(S) /\ Len(kept) <= Len(pending) /\ Len(pending) \in Nat
    BY <1>0, <1>1, RetainType
  <2> HIDE DEF kept
  <2>2. IsQueue(kept) /\ Len(kept) \in Nat
    BY <1>0, <2>1, QueueOf
  <2>3. \A i \in DOMAIN kept : IsCommand(Attempted(kept[i]))
    BY <1>0, <2>1, SameIdentity
  <2>4. /\ DOMAIN pending' = DOMAIN kept /\ pending' = [i \in DOMAIN kept |-> pending'[i]]
        /\ \A i \in DOMAIN kept : IsCommand(pending'[i])
    BY <1>2, <2>3
  <2>5. IsQueue(pending') /\ Len(pending') = Len(kept)
    BY <2>2, <2>4, QueueMapped
  <2> QED
    BY <2>1, <2>2, <2>5, LimitAssumption DEF QueueFits
<1> QED
  BY <1>3, <1>4, <1>5 DEF Holds

LEMMA TickKeeps ==
  ASSUME QueueFits, Tick
  PROVE  Holds(pending, pending', events', {}) /\ QueueFits'
<1>1. pending' = [i \in DOMAIN pending |->
        [pending[i] EXCEPT !.sentAge = Cap(pending[i].sentAge, CommandRetryInterval)]]
  BY DEF Tick
<1>2. ASSUME NEW i \in DOMAIN pending
      PROVE  /\ i \in DOMAIN pending' /\ Identity(pending'[i]) = Identity(pending[i])
             /\ IsCommand(pending'[i])
  <2>1. IsCommand(pending[i])
    BY QueueMember DEF QueueFits
  <2> QED
    BY <1>1, <2>1, SameIdentity
<1>3. DOMAIN pending' = DOMAIN pending /\ pending' = [i \in DOMAIN pending |-> pending'[i]]
  BY <1>1
<1>4. IsQueue(pending') /\ Len(pending') = Len(pending)
  BY <1>2, <1>3, QueueMapped DEF QueueFits
<1> QED
  BY <1>2, <1>4 DEF Holds, QueueFits

-----------------------------------------------------------------------------
(* The commands that a datagram may take without a word: none, or those     *)
(* that it acknowledges.                                                    *)
Takes(from, packet, X) ==
  X = {} \/ (/\ pc = "recv" /\ peer' = from
             /\ packet.kind = "ack" /\ X = {<<packet.name, packet.stamp>>})

LEMMA ReadKeeps ==
  ASSUME QueueFits, receiving, NEW from, NEW packet, NEW t, Read(from, packet, t)
  PROVE  /\ QueueFits'
         /\ \E X : Takes(from, packet, X) /\ Holds(pending, pending', events', X)
<1> DEFINE latch == LatchEvents(from, t)
           Goal == /\ QueueFits'
                   /\ \E X : Takes(from, packet, X) /\ Holds(pending, pending', events', X)
<1>0. /\ IsQueue(pending) /\ Len(pending) <= MaxPendingCommands
      /\ IsQueue(Greeted(t)) /\ Len(Greeted(t)) <= MaxPendingCommands
      /\ IsSequence(latch) /\ \A X : Holds(pending, Greeted(t), latch, X)
  BY GreetingKeeps DEF QueueFits
<1>a. IsQueue(pending') /\ Len(pending') <= MaxPendingCommands
        /\ Holds(pending, pending', events', {}) => Goal
  BY DEF Takes, QueueFits
<1> SUFFICES Goal
  OBVIOUS
<1> HIDE DEF Goal
<1>1. ASSUME pending' = pending PROVE Goal
  BY <1>0, <1>1, <1>a, KeptSame
<1>2. ASSUME pending' = Greeted(t), NEW x,
             events' = latch \/ events' = latch \o <<x>> \/ events' = latch \o <<>>
      PROVE  Goal
  <2>1. IsSequence(<<x>>) /\ IsSequence(<<>>)
    BY OneIsSequence, QueuesNone
  <2> HIDE DEF latch
  <2>2. Holds(pending, pending', events', {})
    BY <1>0, <1>2, <2>1, KeptMore
  <2> QED
    BY <1>0, <1>2, <1>a, <2>2
<1>3. CASE \/ AcceptIdle(from, packet, t) \/ AcceptDuplicate(from, packet, t)
           \/ AcceptFrameBegin(from, packet, t) \/ AcceptFrameChunk(from, packet, t)
  <2>1. pending' = Greeted(t) /\ events' = latch
    BY <1>3 DEF AcceptIdle, AcceptDuplicate, AcceptFrameBegin, AcceptFrameChunk, Tell
  <2> QED
    BY <1>2, <2>1
<1>4. CASE AcceptNotify(from, packet, t) \/ AcceptStreamOff(from, packet, t)
  <2>1. pending' = Greeted(t) /\ \E x : events' = latch \o <<x>>
    BY <1>4 DEF AcceptNotify, AcceptStreamOff, Tell
  <2> QED
    BY <1>2, <2>1
<1>5. CASE AcceptHeartbeat(from, packet, t)
  <2>1. pending' = Greeted(t) /\ events' = latch \o StateNews(packet.state)
    BY <1>5 DEF AcceptHeartbeat, Tell
  <2>2. StateNews(packet.state) = <<>> \/ \E x : StateNews(packet.state) = <<x>>
    BY DEF StateNews
  <2> QED
    BY <1>2, <2>1, <2>2
<1>6. CASE AcceptTelemetry(from, packet, t)
  <2> DEFINE news == StateNews(packet.state)
             s == Surfaced("RobotState", packet.state)
             x == Surfaced("Telemetry", packet.state)
  <2>1. pending' = Greeted(t) /\ events' = (latch \o news) \o <<x>>
    BY <1>6 DEF AcceptTelemetry, Tell
  <2>2. news = <<>> \/ news = <<s>>
    BY DEF StateNews
  <2>3. IsSequence(<<s>>) /\ IsSequence(<<>>) /\ IsSequence(<<x>>)
    BY OneIsSequence, QueuesNone
  <2> HIDE DEF latch, news, s, x
  <2>4. IsSequence(news)
    BY <2>2, <2>3
  <2>5. IsSequence(latch \o news)
    BY <1>0, <2>4, SequencesJoin
  <2>6. Holds(pending, pending', latch \o news, {})
    BY <1>0, <2>1, <2>4, KeptMore
  <2>7. Holds(pending, pending', events', {})
    BY <2>1, <2>3, <2>5, <2>6, KeptMore
  <2> QED
    BY <1>0, <1>a, <2>1, <2>7
<1>7. CASE AcceptAck(from, packet, t)
  <2> DEFINE q == Settled(Greeted(t), packet)
             over == Overflow(q, AfterAck(packet, t))
             id == <<packet.name, packet.stamp>>
  <2>1. /\ pending' = Push(q, AfterAck(packet, t)) /\ events' = latch \o over
        /\ pc = "recv" /\ peer' = from /\ packet.kind = "ack"
    BY <1>7 DEF AcceptAck, Accept, Parsed, Heard, Reading, Tell
  <2>2. IsQueue(q) /\ IsQueue(AfterAck(packet, t))
    BY <1>0, SettledQueue, QueuesOwn
  <2>3. Holds(Greeted(t), q, events', {id})
    BY <1>0, SettledKeeps
  <2>4. /\ Holds(q, pending', over, {id}) /\ IsSequence(over)
        /\ IsQueue(pending') /\ Len(pending') <= MaxPendingCommands
    BY <2>1, <2>2, PushKeeps, QueuesJoin
  <2> HIDE DEF latch, q, over, id
  <2>5. Holds(pending, Greeted(t), events', {id}) /\ Holds(q, pending', events', {id})
    BY <1>0, <2>1, <2>4, KeptMore
  <2>6. Holds(pending, pending', events', {id})
    BY <2>3, <2>5, KeptTwice
  <2>7. Takes(from, packet, {id})
    BY <2>1 DEF Takes, id
  <2> QED
    BY <2>4, <2>6, <2>7 DEF Goal, QueueFits
<1>8. CASE AcceptStreamOn(from, packet, t)
  <2> DEFINE over == PacedOverflow(Greeted(t), t)
             x == Surfaced("WebcamAvailable", TRUE)
  <2>1. RequestFramePaced(Greeted(t), t) /\ events' = (latch \o over) \o <<x>>
    BY <1>8 DEF AcceptStreamOn, Tell
  <2>2. /\ Holds(Greeted(t), pending', over, {}) /\ IsSequence(over)
        /\ IsQueue(pending') /\ Len(pending') <= MaxPendingCommands
    BY <1>0, <2>1, PacedKeeps
  <2>3. IsSequence(<<x>>)
    BY OneIsSequence
  <2> HIDE DEF latch, over, x
  <2>4. IsSequence(latch \o over)
    BY <1>0, <2>2, SequencesJoin
  <2>5. /\ Holds(pending, Greeted(t), latch \o over, {})
        /\ Holds(Greeted(t), pending', latch \o over, {})
    BY <1>0, <2>2, KeptMore
  <2>6. Holds(pending, pending', latch \o over, {})
    BY <2>5, KeptTwice
  <2>7. Holds(pending, pending', events', {})
    BY <2>1, <2>3, <2>4, <2>6, KeptMore
  <2> QED
    BY <1>a, <2>2, <2>7
<1>9. CASE AcceptLastChunk(from, packet, t) /\ webcamAvailable
  <2> DEFINE over == PacedOverflow(pending, t)
             x == Surfaced("WebcamFrame", Written(frames, packet).data)
  <2>1. RequestFramePaced(pending, t) /\ events' = over \o <<x>>
    BY <1>9 DEF AcceptLastChunk, Tell
  <2>2. /\ Holds(pending, pending', over, {}) /\ IsSequence(over)
        /\ IsQueue(pending') /\ Len(pending') <= MaxPendingCommands
    BY <1>0, <2>1, PacedKeeps
  <2>3. IsSequence(<<x>>)
    BY OneIsSequence
  <2> HIDE DEF over, x
  <2>4. Holds(pending, pending', events', {})
    BY <2>1, <2>2, <2>3, KeptMore
  <2> QED
    BY <1>a, <2>2, <2>4
<1>10. CASE \/ ReadForeign(from) \/ ReadGarbage(from, packet) \/ ReadBusy(from, packet)
            \/ LatchUntold(from, packet)
            \/ AcceptLastChunk(from, packet, t) /\ ~webcamAvailable
  BY <1>1, <1>10 DEF ReadForeign, ReadGarbage, ReadBusy, LatchUntold, AcceptLastChunk,
                     queueVars
<1> QED
  BY <1>3, <1>4, <1>5, <1>6, <1>7, <1>8, <1>9, <1>10 DEF Read
(* Any other step keeps every command, or reports it, or ends the session.  *)
Otherwise(t) ==
  \/ App \/ UNCHANGED vars \/ Tick
  \/ TakeShutdown \/ TakeGamepad \/ TakeConnect \/ TakeDisconnect \/ Drained
  \/ TakeCommand(t)
  \/ ReadNothing \/ ReadError \/ ReadWhilePaused
  \/ Expire \/ NotExpired \/ Beat \/ NoBeat \/ WebcamIdle
  \/ RequestOwedFrame(t) \/ RecoverStall(t)
  \/ Retransmit \/ NothingToRetransmit

LEMMA OtherKeeps ==
  ASSUME QueueFits, receiving, NEW t, Otherwise(t)
  PROVE  QueueFits' /\ (SessionEnds \/ Holds(pending, pending', events', {}))
<1> DEFINE Goal == QueueFits' /\ (SessionEnds \/ Holds(pending, pending', events', {}))
<1>0. IsQueue(pending) /\ Len(pending) <= MaxPendingCommands
  BY DEF QueueFits
<1>a. IsQueue(pending') /\ Len(pending') <= MaxPendingCommands
        /\ Holds(pending, pending', events', {}) => Goal
  BY DEF QueueFits
<1> SUFFICES Goal
  OBVIOUS
<1>b. pending' = pending => Goal
  BY <1>0, KeptSame DEF QueueFits
<1>c. QueueFits' /\ SessionEnds => Goal
  OBVIOUS
<1> HIDE DEF Goal
<1>1. CASE App \/ UNCHANGED vars
  BY <1>1, <1>b DEF App, Call, Shutdown, DropReceiver, vars, queueVars
<1>2. CASE TakeShutdown \/ TakeGamepad \/ TakeConnect \/ Drained
  BY <1>2, <1>b DEF TakeShutdown, TakeGamepad, TakeConnect, Drained, queueVars
<1>3. CASE TakeDisconnect \/ Expire
  <2>1. CASE peer = None
    BY <1>3, <2>1, <1>b DEF TakeDisconnect, Expire, Overdue, queueVars
  <2>2. CASE peer # None
    <3>1. peer' = None /\ events' = <<Disconnected>> /\ pending' = <<>>
      BY <1>3, <2>2 DEF TakeDisconnect, Expire, DropPeer, Tell
    <3>2. Contains(events', Disconnected)
      BY <3>1 DEF Contains
    <3>3. QueueFits'
      BY <3>1, QueuesNone, LimitAssumption DEF QueueFits
    <3> QED
      BY <1>c, <2>2, <3>1, <3>2, <3>3 DEF SessionEnds
  <2> QED
    BY <2>1, <2>2
<1>4. CASE TakeCommand(t)
  <2> DEFINE c == <<Command(Head(ctrl).name, Head(ctrl).extra, t)>>
  <2>1. pending' = Push(pending, c) /\ events' = Overflow(pending, c)
    BY <1>4 DEF TakeCommand, Tell
  <2>2. IsQueue(c)
    BY QueuesOne
  <2> HIDE DEF c
  <2> QED
    BY <1>0, <1>a, <2>1, <2>2, PushKeeps, QueuesJoin
<1>5. CASE ReadNothing \/ ReadError \/ ReadWhilePaused
  BY <1>5, <1>b DEF ReadNothing, ReadError, ReadWhilePaused, queueVars
<1>6. CASE NotExpired \/ Beat \/ NoBeat \/ WebcamIdle \/ NothingToRetransmit
  BY <1>6, <1>b DEF NotExpired, Beat, NoBeat, WebcamIdle, NothingToRetransmit,
                    queueVars
<1>7. CASE RequestOwedFrame(t)
  <2>1. /\ pending' = Push(pending, FrameRequest(t))
        /\ events' = Overflow(pending, FrameRequest(t))
    BY <1>7 DEF RequestOwedFrame, Tell
  <2> QED
    BY <1>0, <1>a, <2>1, QueuesOwn, PushKeeps, QueuesJoin
<1>8. CASE RecoverStall(t)
  <2>1. RequestFramePaced(pending, t) /\ events' = PacedOverflow(pending, t)
    BY <1>8 DEF RecoverStall, Tell
  <2> QED
    BY <1>0, <1>a, <2>1, PacedKeeps
<1>9. CASE Retransmit
  BY <1>9, <1>a, RetransmitKeeps DEF QueueFits
<1>10. CASE Tick
  BY <1>10, <1>a, TickKeeps DEF QueueFits
<1> QED
  BY <1>1, <1>2, <1>3, <1>4, <1>5, <1>6, <1>7, <1>8, <1>9, <1>10 DEF Otherwise

LEMMA LossStep ==
  ASSUME QueueFits, receiving, Next \/ UNCHANGED vars
  PROVE  \/ SessionEnds
         \/ \E from, packet, X :
              Takes(from, packet, X) /\ Holds(pending, pending', events', X)
<1>1. ASSUME NEW from, NEW packet, NEW t, Read(from, packet, t)
      PROVE  \E X : Takes(from, packet, X) /\ Holds(pending, pending', events', X)
  BY <1>1, ReadKeeps
<1>2. ASSUME NEW t, Otherwise(t)
      PROVE  SessionEnds \/ Holds(pending, pending', events', {})
  BY <1>2, OtherKeeps
<1>3. (\E from, packet, t : Read(from, packet, t)) \/ \E t : Otherwise(t)
  BY Zenon DEF Next, Worker, Drain, Receive, Upkeep, Otherwise
<1>4. \A from, packet : Takes(from, packet, {})
  BY DEF Takes
<1> QED
  BY <1>1, <1>2, <1>3, <1>4

(* No command of the queue is lost in silence, on any path: it is reported  *)
(* dropped, goes with its session, or is what the acknowledgement names.    *)
THEOREM NoSilentLoss == Spec => LossIsReported
<1>1. ClientInv /\ [Next]_vars =>
        [receiving /\ pc' # "stopped" =>
           \A i, j \in DOMAIN pending :
             Lost(i) /\ Lost(j) =>
               \/ SessionEnds
               \/ pc = "recv" /\ Identity(pending[i]) = Identity(pending[j])]_vars
  <2> SUFFICES ASSUME ClientInv, [Next]_vars, receiving, pc' # "stopped", ~SessionEnds,
                      NEW i \in DOMAIN pending, NEW j \in DOMAIN pending,
                      Lost(i), Lost(j)
               PROVE  pc = "recv" /\ Identity(pending[i]) = Identity(pending[j])
    OBVIOUS
  <2>1. QueueFits
    BY QueueOfPending DEF ClientInv, QueueOK, QueueTypeOK, QueueFits
  <2>2. PICK from, packet, X :
          Takes(from, packet, X) /\ Holds(pending, pending', events', X)
    BY <2>1, LossStep
  <2>3. Identity(pending[i]) \in X /\ Identity(pending[j]) \in X
    BY <2>2 DEF Holds, Lost
  <2> QED
    BY <2>2, <2>3 DEF Takes
<1> QED
  BY <1>1, ClientInvHolds, PTL DEF Spec, LossIsReported
=============================================================================
