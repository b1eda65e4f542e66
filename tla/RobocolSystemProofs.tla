------------------------- MODULE RobocolSystemProofs -------------------------
(***************************************************************************)
(* The client follows a controller only if that controller serves it, and  *)
(* takes a command for settled only if the controller handled it, whatever *)
(* the network loses, delays, duplicates and reorders, for any limits,     *)
(* intervals, calls and carried packets.                                   *)
(*                                                                         *)
(* The argument for the first: everything the controller ever sent, but a  *)
(* refusal, it sent to the station that it served then and has served      *)
(* since; and a client without a peer makes no peer of who refuses it.     *)
(* For the second: the controller acknowledges in the step in which it     *)
(* handles, and no acknowledgement that reaches a station is a station's.  *)
(***************************************************************************)
EXTENDS RobocolSystem, RobocolClientProofs

(* A packet of the controller was sent to the station; unless it is a       *)
(* refusal, the station was served then.                                    *)
Vouched(m, served) ==
  /\ m.from \in {DsAddr, RcAddr}
  /\ m.from = RcAddr => m.to = DsAddr /\ (IsBusy(m.packet) \/ served = DsAddr)

SysInv ==
  /\ ds \in {None, DsAddr}
  /\ \A m \in net : Vouched(m, ds)
  /\ LinkIsMutual

-----------------------------------------------------------------------------
(* A refusal crosses the wire as one.                                       *)
LEMMA RefusalOnWire ==
  ASSUME NEW p, IsBusy(p) PROVE IsBusy(OnWire(p))
  BY DEF IsBusy, OnWire

(* What is put on the wire is vouched for if what is sent is.               *)
LEMMA ClientVouched ==
  ASSUME NEW out, NEW served, NEW m \in Sent(out, DsAddr)
  PROVE  Vouched(m, served)
  BY SystemAssumption DEF Sent, Vouched

SentRightly(out, served) ==
  \A i \in DOMAIN out :
    out[i].to = DsAddr /\ (IsBusy(out[i].packet) \/ served = DsAddr)

LEMMA RcVouched ==
  ASSUME NEW out, NEW served, SentRightly(out, served), NEW m \in Sent(out, RcAddr)
  PROVE  Vouched(m, served)
<1>1. PICK i \in DOMAIN out :
        m = [from |-> RcAddr, to |-> out[i].to, packet |-> OnWire(out[i].packet)]
  BY DEF Sent
<1>2. m.from = RcAddr /\ m.to = DsAddr /\ m.packet = OnWire(out[i].packet)
  BY <1>1 DEF SentRightly
<1> QED
  BY <1>2, RefusalOnWire DEF SentRightly, Vouched

-----------------------------------------------------------------------------
(* The client: a datagram makes its sender the peer only if it is no        *)
(* refusal, or its sender is the peer already.                              *)
LEMMA PeerFromRead ==
  ASSUME NEW from, NEW packet, NEW t, Read(from, packet, t)
  PROVE  peer' = peer \/ (peer' = from /\ ~IsBusy(packet))
<1>1. CASE ReadForeign(from) \/ ReadGarbage(from, packet) \/ ReadBusy(from, packet)
  BY <1>1 DEF ReadForeign, ReadGarbage, ReadBusy, linkVars
<1>2. ASSUME Parsed(from, packet), peer' = from
      PROVE  peer' = peer \/ (peer' = from /\ ~IsBusy(packet))
  BY <1>2 DEF Parsed, Heard, Foreign, Latching
<1>3. CASE LatchUntold(from, packet)
  BY <1>2, <1>3 DEF LatchUntold
<1>4. CASE Accept(from, packet)
  BY <1>2, <1>4 DEF Accept
<1> QED
  BY <1>1, <1>3, <1>4
     DEF Read, AcceptIdle, AcceptHeartbeat, AcceptTelemetry, AcceptAck, AcceptDuplicate,
         AcceptNotify, AcceptStreamOn, AcceptStreamOff, AcceptFrameBegin,
         AcceptFrameChunk, AcceptLastChunk, AcceptCommand

LEMMA PeerFromOther ==
  ASSUME ClientRuns \/ ClientQueues PROVE peer' = peer \/ peer' = None
<1>1. CASE ClientQueues
  BY <1>1 DEF ClientQueues, TakeCommand, linkVars
<1>2. CASE \/ TakeConnect \/ TakeDisconnect \/ Drained \/ ReadNothing
           \/ Expire \/ NotExpired
  BY <1>2 DEF TakeConnect, TakeDisconnect, Drained, ReadNothing, Expire, NotExpired,
              DropPeer, linkVars
<1>3. CASE Beat \/ NoBeat \/ WebcamIdle \/ Retransmit \/ NothingToRetransmit
  BY <1>3 DEF Beat, NoBeat, WebcamIdle, Retransmit, NothingToRetransmit, linkVars
<1> QED
  BY <1>1, <1>2, <1>3 DEF ClientRuns

LEMMA ClientStep ==
  ASSUME SysInv, ClientReads \/ ClientQueues \/ ClientRuns PROVE SysInv'
<1>1. ds' = ds /\ net' = net \cup Sent(sent', DsAddr)
  BY DEF ClientReads, ClientQueues, ClientRuns, ClientSteps, RcUnchanged, rcVars
<1>2. \A m \in net' : Vouched(m, ds)
  BY <1>1, ClientVouched DEF SysInv
<1>3. LinkIsMutual'
  <2>1. CASE ClientReads
    <3>1. PICK m \in ToClient : Read(m.from, m.packet, Now)
      BY <2>1 DEF ClientReads
    <3>2. m.from = RcAddr => IsBusy(m.packet) \/ ds = DsAddr
      BY <3>1 DEF ToClient, SysInv, Vouched
    <3>3. peer' = peer \/ (peer' = m.from /\ ~IsBusy(m.packet))
      BY <3>1, PeerFromRead
    <3> QED
      BY <1>1, <3>2, <3>3 DEF SysInv, LinkIsMutual
  <2>2. CASE ClientQueues \/ ClientRuns
    BY <1>1, <2>2, PeerFromOther, SystemAssumption DEF SysInv, LinkIsMutual
  <2> QED
    BY <2>1, <2>2
<1> QED
  BY <1>1, <1>2, <1>3 DEF SysInv, Vouched

-----------------------------------------------------------------------------
(* The controller: what it sends by send and send_command goes to the       *)
(* station it serves.                                                       *)
LEMMA ToDsRightly ==
  ASSUME ds \in {None, DsAddr}, NEW packets PROVE SentRightly(Rc!ToDs(packets), ds)
  BY DEF SentRightly, Rc!ToDs, Rc!RcTo

LEMMA NothingRightly == ASSUME NEW served PROVE SentRightly(<<>>, served)
  BY DEF SentRightly

LEMMA RcServes ==
  ASSUME ds \in {None, DsAddr}, NEW p, NEW t, Rc!Handling(DsAddr, p, t)
  PROVE  /\ ds' \in {ds, DsAddr}
         /\ SentRightly(rcSent', ds')
<1>1. CASE Rc!RefuseStation(DsAddr, p)
  <2>1. rcSent' = <<Rc!RcTo(DsAddr, [kind |-> "discovery", busy |-> TRUE])>> /\ ds' = ds
    BY <1>1 DEF Rc!RefuseStation
  <2> QED
    BY <2>1 DEF SentRightly, IsBusy, Rc!RcTo
<1>2. CASE Rc!ServeStation(DsAddr, p)
  <2>1. rcSent' = <<Rc!RcTo(DsAddr, [kind |-> "discovery", busy |-> FALSE])>> /\ ds' = DsAddr
    BY <1>2 DEF Rc!ServeStation
  <2> QED
    BY <2>1 DEF SentRightly, Rc!RcTo
<1>3. CASE Rc!EchoHeartbeat(DsAddr, p)
  <2>1. /\ rcSent' = <<Rc!RcTo(DsAddr, [kind |-> "heartbeat", state |-> state])>>
        /\ ds = DsAddr /\ ds' = ds
    BY <1>3 DEF Rc!EchoHeartbeat
  <2> QED
    BY <2>1 DEF SentRightly, Rc!RcTo
<1>4. CASE Rc!IgnoreInput(DsAddr, p) \/ Rc!OnGamepad(DsAddr, p)
  <2>1. rcSent' = <<>> /\ ds' = ds
    BY <1>4 DEF Rc!IgnoreInput, Rc!OnGamepad
  <2> QED
    BY <2>1, NothingRightly
<1>5. ASSUME NEW names, Rc!Handle(DsAddr, p, names), NEW packets, Rc!Answer(p, packets)
      PROVE  ds' \in {ds, DsAddr} /\ SentRightly(rcSent', ds')
  BY <1>5, ToDsRightly DEF Rc!Handle, Rc!Answer
<1>6. CASE Rc!OnStop(DsAddr, p, t) \/ Rc!OnInit(DsAddr, p, t) \/ Rc!OnRun(DsAddr, p, t)
  BY <1>5, <1>6 DEF Rc!OnStop, Rc!OnInit, Rc!OnRun
<1>7. CASE Rc!OnRestart(DsAddr, p, t) \/ Rc!OnRequestFrame(DsAddr, p, t)
             \/ Rc!OnRead(DsAddr, p, t)
  BY <1>5, <1>7 DEF Rc!OnRestart, Rc!OnRequestFrame, Rc!OnRead
<1>8. CASE Rc!OnActivate(DsAddr, p) \/ Rc!OnSave(DsAddr, p, t) \/ Rc!OnDelete(DsAddr, p)
             \/ Rc!OnBadConfig(DsAddr, p)
  BY <1>5, <1>8 DEF Rc!OnActivate, Rc!OnSave, Rc!OnDelete, Rc!OnBadConfig
<1> QED
  BY <1>1, <1>2, <1>3, <1>4, <1>6, <1>7, <1>8 DEF Rc!Handling

LEMMA RcGoesOn ==
  ASSUME ds \in {None, DsAddr}, RcRuns
  PROVE  ds' = ds /\ SentRightly(rcSent', ds)
<1>1. CASE Rc!HearNothing \/ Rc!NoCrash
  BY <1>1, NothingRightly DEF Rc!HearNothing, Rc!NoCrash, Rc!dsVars
<1>2. CASE Rc!TelemetryTick
  BY <1>2, NothingRightly, ToDsRightly DEF Rc!TelemetryTick, Rc!dsVars
<1>3. ASSUME NEW t, Rc!Crash(t) PROVE ds' = ds /\ SentRightly(rcSent', ds)
  BY <1>3, ToDsRightly DEF Rc!Crash, Rc!dsVars
<1> QED
  BY <1>1, <1>2, <1>3 DEF RcRuns

LEMMA RcStep ==
  ASSUME SysInv, RcSteps PROVE SysInv'
<1>1. net' = net \cup Sent(rcSent', RcAddr) /\ peer' = peer
  BY DEF RcSteps, vars, linkVars
<1>2. ds' \in {ds, DsAddr} /\ SentRightly(rcSent', ds')
  <2>1. CASE RcReads
    <3>1. PICK m \in ToRc, t \in NextStamp : Rc!Handling(m.from, m.packet, t)
      BY <2>1 DEF RcReads
    <3>2. m.from = DsAddr
      BY <3>1, SystemAssumption DEF ToRc, SysInv, Vouched
    <3> QED
      BY <3>1, <3>2, RcServes DEF SysInv
  <2>2. CASE RcRuns
    BY <2>2, RcGoesOn DEF SysInv
  <2> QED
    BY <2>1, <2>2 DEF RcSteps
<1>3. \A m \in net' : Vouched(m, ds')
  BY <1>1, <1>2, RcVouched DEF SysInv, Vouched
<1> QED
  BY <1>1, <1>2, <1>3 DEF SysInv, LinkIsMutual, Vouched

-----------------------------------------------------------------------------
LEMMA SysBegins == SysInit => SysInv
  BY SystemAssumption DEF SysInit, Init, Rc!RcInit, SysInv, LinkIsMutual

LEMMA SysSteps == SysInv /\ [SysNext]_sysVars => SysInv'
<1> SUFFICES ASSUME SysInv, [SysNext]_sysVars PROVE SysInv'
  OBVIOUS
<1>1. CASE ClientReads \/ ClientQueues \/ ClientRuns
  BY <1>1, ClientStep
<1>2. CASE RcSteps
  BY <1>2, RcStep
<1>3. CASE AppCalls \/ TimePasses \/ UNCHANGED sysVars
  <2>1. peer' = peer /\ ds' = ds /\ net' = net
    BY <1>3 DEF AppCalls, Call, TimePasses, Tick, Rc!RcTick, sysVars, rcVars, vars, linkVars
  <2> QED
    BY <2>1 DEF SysInv, LinkIsMutual, Vouched
<1> QED
  BY <1>1, <1>2, <1>3 DEF SysNext

(* The client has a peer only if the controller serves it: what it sends is *)
(* acted on, over any network and through any timeouts and refusals.        *)
THEOREM LinksAreMutual == SysSpec => []LinkIsMutual
<1>1. SysInv => LinkIsMutual
  BY DEF SysInv
<1> QED
  BY <1>1, SysBegins, SysSteps, PTL DEF SysSpec
-----------------------------------------------------------------------------
(* Who acknowledges what.  A station acknowledges only what controllers     *)
(* send, and sends none of that; so what reaches a station as an            *)
(* acknowledgement is a controller's, of a command that it has handled.     *)
Acked == {"notify", "stream", "begin", "chunk"}

Honest(m, done) ==
  /\ m.from = DsAddr => /\ m.packet.kind \notin Acked
                        /\ m.packet.kind = "ack" => m.to # DsAddr
  /\ m.from = RcAddr /\ m.packet.kind = "ack" =>
       <<m.packet.name, m.packet.stamp>> \in done

SettleInv ==
  /\ SysInv /\ QueueFits /\ receiving
  /\ \A m \in net : Honest(m, handled)

LEMMA KindOnWire ==
  ASSUME NEW p
  PROVE  OnWire(p).kind = p.kind /\ (p.kind = "ack" => OnWire(p) = p)
  BY DEF OnWire

LEMMA HonestGrows ==
  ASSUME NEW m, NEW done, NEW more, Honest(m, done), done \subseteq more
  PROVE  Honest(m, more)
  BY DEF Honest

(* What a station may send, and what a controller may. *)
StationSends(out) ==
  \A i \in DOMAIN out :
    /\ out[i].packet.kind \notin Acked
    /\ out[i].packet.kind = "ack" => out[i].to # DsAddr

ControllerSends(out, done) ==
  \A i \in DOMAIN out :
    out[i].packet.kind = "ack" =>
      <<out[i].packet.name, out[i].packet.stamp>> \in done

LEMMA SentHonest ==
  ASSUME NEW out, NEW done
  PROVE  /\ StationSends(out) => \A m \in Sent(out, DsAddr) : Honest(m, done)
         /\ ControllerSends(out, done) => \A m \in Sent(out, RcAddr) : Honest(m, done)
<1>1. ASSUME NEW from, NEW m \in Sent(out, from)
      PROVE  \E i \in DOMAIN out :
               /\ m.from = from /\ m.to = out[i].to
               /\ m.packet.kind = out[i].packet.kind
               /\ m.packet.kind = "ack" => m.packet = out[i].packet
  <2>1. PICK i \in DOMAIN out :
          m = [from |-> from, to |-> out[i].to, packet |-> OnWire(out[i].packet)]
    BY <1>1 DEF Sent
  <2>2. m.from = from /\ m.to = out[i].to /\ m.packet = OnWire(out[i].packet)
    BY <2>1
  <2> QED
    BY <2>2, KindOnWire
<1>2. ASSUME StationSends(out), NEW m \in Sent(out, DsAddr) PROVE Honest(m, done)
  BY <1>1, <1>2, SystemAssumption DEF StationSends, Honest
<1>3. ASSUME ControllerSends(out, done), NEW m \in Sent(out, RcAddr)
      PROVE  Honest(m, done)
  BY <1>1, <1>3, SystemAssumption DEF ControllerSends, Honest
<1> QED
  BY <1>2, <1>3

-----------------------------------------------------------------------------
(* The station. *)
LEMMA ReadSends ==
  ASSUME NEW m, Vouched(m, ds), Honest(m, handled), NEW t, Read(m.from, m.packet, t)
  PROVE  StationSends(sent')
<1>1. sent' = <<>> => StationSends(sent')
  BY DEF StationSends
<1>2. ASSUME NEW kinds, kinds \subseteq Acked, AcceptCommand(m.from, m.packet, kinds)
      PROVE  StationSends(sent')
  <2>1. m.from = RcAddr
    BY <1>2 DEF AcceptCommand, Honest, Vouched
  <2>2. sent' = <<To(RcAddr, Ack(m.packet.name, m.packet.stamp))>>
    BY <1>2, <2>1 DEF AcceptCommand
  <2> QED
    BY <2>2, SystemAssumption DEF StationSends, To, Ack, Acked
<1>3. CASE \/ AcceptDuplicate(m.from, m.packet, t) \/ AcceptNotify(m.from, m.packet, t)
           \/ AcceptStreamOn(m.from, m.packet, t) \/ AcceptStreamOff(m.from, m.packet, t)
  BY <1>2, <1>3 DEF AcceptDuplicate, AcceptNotify, AcceptStreamOn, AcceptStreamOff, Acked
<1>4. CASE \/ AcceptFrameBegin(m.from, m.packet, t)
           \/ AcceptFrameChunk(m.from, m.packet, t)
           \/ AcceptLastChunk(m.from, m.packet, t)
  BY <1>2, <1>4 DEF AcceptFrameBegin, AcceptFrameChunk, AcceptLastChunk, Acked
<1>5. CASE \/ ReadForeign(m.from) \/ ReadGarbage(m.from, m.packet)
           \/ ReadBusy(m.from, m.packet) \/ LatchUntold(m.from, m.packet)
  BY <1>1, <1>5 DEF ReadForeign, ReadGarbage, ReadBusy, LatchUntold
<1>6. CASE \/ AcceptIdle(m.from, m.packet, t) \/ AcceptHeartbeat(m.from, m.packet, t)
           \/ AcceptTelemetry(m.from, m.packet, t) \/ AcceptAck(m.from, m.packet, t)
  BY <1>1, <1>6 DEF AcceptIdle, AcceptHeartbeat, AcceptTelemetry, AcceptAck
<1> QED
  BY <1>3, <1>4, <1>5, <1>6 DEF Read

LEMMA OtherSends ==
  ASSUME ClientQueues \/ ClientRuns PROVE StationSends(sent')
<1>1. sent' = <<>> => StationSends(sent')
  BY DEF StationSends
<1>2. CASE ClientQueues
  BY <1>1, <1>2 DEF ClientQueues, TakeCommand
<1>3. CASE \/ TakeConnect \/ TakeDisconnect \/ Drained \/ ReadNothing
           \/ Expire \/ NotExpired
  BY <1>1, <1>3 DEF TakeConnect, TakeDisconnect, Drained, ReadNothing, Expire, NotExpired
<1>4. CASE NoBeat \/ WebcamIdle \/ NothingToRetransmit
  BY <1>1, <1>4 DEF NoBeat, WebcamIdle, NothingToRetransmit
<1>5. CASE Beat
  <2>1. sent' = Beats
    BY <1>5 DEF Beat
  <2>2. \A i \in DOMAIN Beats : Beats[i].packet.kind \in {"heartbeat", "discovery"}
    BY DEF Beats, To
  <2> QED
    BY <2>1, <2>2 DEF StationSends, Acked
<1>6. CASE Retransmit
  <2>1. \A i \in DOMAIN sent' : sent'[i].packet.kind = "command"
    BY <1>6 DEF Retransmit, To
  <2> QED
    BY <2>1 DEF StationSends, Acked
<1> QED
  BY <1>2, <1>3, <1>4, <1>5, <1>6 DEF ClientRuns

-----------------------------------------------------------------------------
(* The controller: it acknowledges a command as it handles it, and nothing  *)
(* else that it sends is an acknowledgement.                                *)
NoAcks(packets) ==
  \E S : packets \in Seq(S) /\ \A p \in S : p.kind # "ack"

LEMMA NoAckIn ==
  ASSUME NEW S, NEW packets \in Seq(S), \A p \in S : p.kind # "ack"
  PROVE  NoAcks(packets)
BY Zenon DEF NoAcks

LEMMA OneNoAck == ASSUME NEW p, p.kind # "ack" PROVE NoAcks(<<p>>)
<1> DEFINE S == {p}
           s == <<p>>
<1>1. s \in Seq(S) /\ \A x \in S : x.kind # "ack"
  BY OneInSeq
<1> HIDE DEF S, s
<1>2. NoAcks(s)
  BY <1>1, NoAckIn, Zenon
<1> QED
  BY <1>2 DEF s

LEMMA NoneNoAck == NoAcks(<<>>)
<1> DEFINE S == {}
           s == <<>>
<1>1. s \in Seq(S) /\ \A x \in S : x.kind # "ack"
  BY NoneInSeq
<1> HIDE DEF S, s
<1>2. NoAcks(s)
  BY <1>1, NoAckIn, Zenon
<1> QED
  BY <1>2 DEF s

LEMMA JoinNoAcks ==
  ASSUME NEW a, NoAcks(a), NEW b, NoAcks(b) PROVE NoAcks(a \o b)
<1>1. PICK S : a \in Seq(S) /\ \A p \in S : p.kind # "ack"
  BY DEF NoAcks
<1>2. PICK T : b \in Seq(T) /\ \A p \in T : p.kind # "ack"
  BY DEF NoAcks
<1>3. a \o b \in Seq(S \cup T) /\ \A p \in S \cup T : p.kind # "ack"
  BY <1>1, <1>2
<1> QED
  BY <1>3, NoAckIn, Zenon

LEMMA NewsNoAcks ==
  ASSUME NEW name, NEW extra, NEW t, NEW on \in BOOLEAN
  PROVE  /\ NoAcks(<<Rc!Notify(name, extra, t)>>) /\ NoAcks(Rc!StreamNews(on, t))
         /\ NoAcks(Rc!StreamNews(on, t) \o <<Rc!Notify(name, extra, t)>>)
<1>1. NoAcks(<<Rc!Notify(name, extra, t)>>)
  <2>1. Rc!Notify(name, extra, t).kind # "ack"
    BY DEF Rc!Notify
  <2> QED
    BY <2>1, OneNoAck
<1>2. NoAcks(Rc!StreamNews(on, t))
  <2> DEFINE p == [kind |-> "stream", name |-> "STREAM_CHANGE", stamp |-> t,
                   available |-> on]
  <2>1. p.kind # "ack"
    OBVIOUS
  <2>2. Rc!StreamNews(on, t) = <<>> \/ Rc!StreamNews(on, t) = <<p>>
    BY DEF Rc!StreamNews
  <2> HIDE DEF p
  <2> QED
    BY <2>1, <2>2, OneNoAck, NoneNoAck
<1> QED
  BY <1>1, <1>2, JoinNoAcks

LEMMA FrameNoAcks == ASSUME NEW n, NEW t PROVE NoAcks(Rc!WebcamFrame(n, t))
<1> DEFINE k == Rc!JpegChunks
           chunks == [i \in 1..k |-> Rc!FrameChunk(n, i - 1, t)]
           S == {Rc!FrameChunk(n, i - 1, t) : i \in 1..k}
<1>1. k \in Nat
  <2> DEFINE n0 == JpegBytes + FrameChunkSize - 1
  <2>1. n0 \in Nat /\ FrameChunkSize \in Nat \ {0}
    BY SystemAssumption, ChunkAssumption
  <2> HIDE DEF n0
  <2>2. n0 \div FrameChunkSize \in Nat
    BY <2>1
  <2> QED
    BY <2>2 DEF n0, Rc!JpegChunks, Rc!ChunkCount
<1>2. \A p \in S : p.kind # "ack"
  BY DEF Rc!FrameChunk
<1>3. chunks \in Seq(S)
  <2> HIDE DEF k
  <2> QED
    BY <1>1
<1> HIDE DEF S, chunks
<1>4. NoAcks(chunks)
  BY <1>2, <1>3, NoAckIn, Zenon
<1>5. NoAcks(<<Rc!FrameBegin(n, t)>>)
  <2>1. Rc!FrameBegin(n, t).kind # "ack"
    BY DEF Rc!FrameBegin
  <2> QED
    BY <2>1, OneNoAck
<1>6. NoAcks(<<Rc!FrameBegin(n, t)>> \o chunks)
  BY <1>4, <1>5, JoinNoAcks
<1> QED
  BY <1>6 DEF chunks, k, Rc!WebcamFrame

LEMMA ToDsAcks ==
  ASSUME NEW packets, NEW done, ds # None =>
           \A i \in DOMAIN packets : packets[i].kind = "ack" =>
             <<packets[i].name, packets[i].stamp>> \in done
  PROVE  ControllerSends(Rc!ToDs(packets), done)
  BY DEF ControllerSends, Rc!ToDs, Rc!RcTo

LEMMA NewsSent ==
  ASSUME NEW packets, NoAcks(packets), NEW done
  PROVE  ControllerSends(Rc!ToDs(packets), done)
<1>1. PICK S : packets \in Seq(S) /\ \A p \in S : p.kind # "ack"
  BY DEF NoAcks
<1>2. \A i \in DOMAIN packets : packets[i].kind # "ack"
  BY <1>1
<1> QED
  BY <1>2, ToDsAcks

LEMMA AnswerSent ==
  ASSUME NEW c, NEW packets, NoAcks(packets), NEW done,
         <<c.name, c.stamp>> \in done, Rc!Answer(c, packets)
  PROVE  ControllerSends(rcSent', done)
<1> DEFINE a == Rc!RcAck(c)
           s == <<a>> \o packets
<1>0. PICK S : packets \in Seq(S) /\ \A p \in S : p.kind # "ack"
  BY DEF NoAcks
<1>1. a.name = c.name /\ a.stamp = c.stamp
  BY DEF Rc!RcAck
<1> HIDE DEF a
<1>2. \A i \in DOMAIN s : s[i] = a \/ s[i].kind # "ack"
  <2>1. /\ s \in Seq({a} \cup S)
        /\ \A i \in 1..Len(s) : s[i] = a \/ s[i] \in S
    BY <1>0
  <2> QED
    BY <1>0, <2>1
<1> HIDE DEF s
<1>3. ControllerSends(Rc!ToDs(s), done)
  BY <1>1, <1>2, ToDsAcks
<1> QED
  BY <1>3 DEF s, a, Rc!Answer

LEMMA RcReadSends ==
  ASSUME NEW from, NEW p, NEW t, Rc!Handling(from, p, t), NEW done,
         p.kind = "command" /\ ds = from => <<p.name, p.stamp>> \in done
  PROVE  ControllerSends(rcSent', done)
<1> DEFINE Goal == ControllerSends(rcSent', done)
<1>a. rcSent' = <<>> => Goal
  BY DEF ControllerSends
<1>b. ASSUME NEW q, rcSent' = <<q>>, q.packet.kind # "ack" PROVE Goal
  BY <1>b DEF ControllerSends
<1>c. ASSUME NEW names, Rc!Handle(from, p, names),
             NEW packets, NoAcks(packets), Rc!Answer(p, packets)
      PROVE  Goal
  BY <1>c, AnswerSent DEF Rc!Handle
<1>d. /\ NoAcks(<<>>) /\ NoAcks(Rc!WebcamFrame(frameNum, t))
      /\ \A name, extra : NoAcks(<<Rc!Notify(name, extra, t)>>)
  BY NoneNoAck, NewsNoAcks, FrameNoAcks
<1> SUFFICES Goal
  OBVIOUS
<1> HIDE DEF Goal
<1>1. CASE Rc!RefuseStation(from, p) \/ Rc!ServeStation(from, p)
  BY <1>1, <1>b DEF Rc!RefuseStation, Rc!ServeStation, Rc!RcTo
<1>2. CASE Rc!EchoHeartbeat(from, p)
  BY <1>2, <1>b DEF Rc!EchoHeartbeat, Rc!RcTo
<1>3. CASE Rc!IgnoreInput(from, p) \/ Rc!OnGamepad(from, p)
  BY <1>3, <1>a DEF Rc!IgnoreInput, Rc!OnGamepad
<1>4. CASE Rc!OnStop(from, p, t)
  <2> DEFINE q == Rc!StreamNews(FALSE, t) \o <<Rc!Notify("NOTIFY_INIT", p.extra, t)>>
  <2>1. NoAcks(q)
    BY NewsNoAcks
  <2>2. Rc!Handle(from, p, {"INIT"}) /\ Rc!Answer(p, q)
    BY <1>4 DEF Rc!OnStop
  <2> QED
    BY <1>c, <2>1, <2>2, Zenon
<1>5. CASE Rc!OnInit(from, p, t)
  <2> DEFINE q == Rc!StreamNews(TRUE, t) \o <<Rc!Notify("NOTIFY_INIT", p.extra, t)>>
  <2>1. NoAcks(q)
    BY NewsNoAcks
  <2>2. Rc!Handle(from, p, {"INIT"}) /\ Rc!Answer(p, q)
    BY <1>5 DEF Rc!OnInit
  <2> QED
    BY <1>c, <2>1, <2>2, Zenon
<1>6. CASE Rc!OnRun(from, p, t)
  BY <1>6, <1>c, <1>d DEF Rc!OnRun
<1>7. CASE Rc!OnRestart(from, p, t)
  <2> DEFINE q == Rc!StreamNews(FALSE, t)
             r == q \o <<Rc!Notify("NOTIFY_ACTIVE", pendingActivation, t)>>
  <2>1. NoAcks(q) /\ NoAcks(r)
    BY NewsNoAcks
  <2>2. Rc!Handle(from, p, {"RESTART"}) /\ (Rc!Answer(p, q) \/ Rc!Answer(p, r))
    BY <1>7 DEF Rc!OnRestart
  <2> QED
    BY <1>c, <2>1, <2>2, Zenon
<1>8. CASE Rc!OnRequestFrame(from, p, t)
  BY <1>8, <1>c, <1>d DEF Rc!OnRequestFrame
<1>9. CASE Rc!OnRead(from, p, t)
  <2>1. NoAcks(Rc!Response(p, t))
    BY <1>d DEF Rc!Response
  <2> QED
    BY <1>9, <1>c, <2>1 DEF Rc!OnRead
<1>10. CASE Rc!OnActivate(from, p) \/ Rc!OnDelete(from, p) \/ Rc!OnBadConfig(from, p)
  BY <1>10, <1>c, <1>d DEF Rc!OnActivate, Rc!OnDelete, Rc!OnBadConfig
<1>11. CASE Rc!OnSave(from, p, t)
  BY <1>11, <1>c, <1>d DEF Rc!OnSave
<1> QED
  BY <1>1, <1>2, <1>3, <1>4, <1>5, <1>6, <1>7, <1>8, <1>9, <1>10, <1>11
     DEF Rc!Handling

LEMMA RcRunSends ==
  ASSUME RcRuns, NEW done PROVE ControllerSends(rcSent', done)
<1>1. CASE Rc!HearNothing \/ Rc!NoCrash
  BY <1>1 DEF Rc!HearNothing, Rc!NoCrash, ControllerSends
<1>2. CASE Rc!TelemetryTick
  <2>1. NoAcks(<<[kind |-> "telemetry", state |-> state]>>)
    BY OneNoAck
  <2> QED
    BY <1>2, <2>1, NewsSent DEF Rc!TelemetryTick, ControllerSends
<1>3. ASSUME NEW t, Rc!Crash(t) PROVE ControllerSends(rcSent', done)
  <2>1. NoAcks(<<Rc!Notify("STACKTRACE", "", t)>> \o Rc!StreamNews(FALSE, t)
                 \o <<Rc!Notify("NOTIFY_INIT", StopOpMode, t)>>)
    BY NewsNoAcks, JoinNoAcks
  <2> QED
    BY <1>3, <2>1, NewsSent DEF Rc!Crash
<1> QED
  BY <1>1, <1>2, <1>3 DEF RcRuns

-----------------------------------------------------------------------------
LEMMA SettleBegins == SysInit => SettleInv
<1> SUFFICES ASSUME SysInit PROVE SettleInv
  OBVIOUS
<1>1. pending = <<>> /\ receiving /\ net = {}
  BY DEF SysInit, Init
<1>2. QueueFits
  BY <1>1, QueuesNone, LimitAssumption DEF QueueFits
<1> QED
  BY <1>1, <1>2, SysBegins DEF SettleInv

LEMMA ReadReceives ==
  ASSUME NEW from, NEW packet, NEW t, Read(from, packet, t)
  PROVE  receiving' = receiving
<1>1. Reading => receiving' = receiving
  BY DEF Reading
<1>2. CASE ReadForeign(from)
  BY <1>1, <1>2 DEF ReadForeign
<1>3. Heard(from) => Reading
  BY DEF Heard
<1>4. CASE ReadGarbage(from, packet) \/ ReadBusy(from, packet)
  BY <1>1, <1>3, <1>4 DEF ReadGarbage, ReadBusy
<1>5. Parsed(from, packet) => receiving' = receiving
  BY <1>1, <1>3 DEF Parsed
<1>6. CASE LatchUntold(from, packet)
  BY <1>5, <1>6 DEF LatchUntold
<1>7. CASE Accept(from, packet)
  BY <1>5, <1>7 DEF Accept
<1> QED
  BY <1>2, <1>4, <1>6, <1>7
     DEF Read, AcceptIdle, AcceptHeartbeat, AcceptTelemetry, AcceptAck, AcceptDuplicate,
         AcceptNotify, AcceptStreamOn, AcceptStreamOff, AcceptFrameBegin,
         AcceptFrameChunk, AcceptLastChunk, AcceptCommand

(* What the station loses in a step that it takes, but with its session, is *)
(* what an acknowledgement names.                                           *)
LEMMA StationLoses ==
  ASSUME SettleInv, ClientReads \/ ClientQueues \/ ClientRuns \/ AppCalls \/ TimePasses
  PROVE  /\ QueueFits' /\ receiving'
         /\ \/ SessionEnds
            \/ Holds(pending, pending', events', handled)
<1>0. QueueFits /\ receiving
  BY DEF SettleInv
<1>a. ASSUME NEW X, X \subseteq handled, Holds(pending, pending', events', X)
      PROVE  Holds(pending, pending', events', handled)
  BY <1>a DEF Holds
<1>b. ASSUME NEW t, Otherwise(t)
      PROVE  QueueFits' /\ (SessionEnds \/ Holds(pending, pending', events', handled))
  BY <1>0, <1>a, <1>b, OtherKeeps
<1>1. CASE ClientReads
  <2>1. PICK m \in ToClient : Read(m.from, m.packet, Now)
    BY <1>1 DEF ClientReads
  <2>2. QueueFits'
    BY <1>0, <2>1, ReadKeeps
  <2>3. PICK X : Takes(m.from, m.packet, X) /\ Holds(pending, pending', events', X)
    BY <1>0, <2>1, ReadKeeps
  <2>4. Vouched(m, ds) /\ Honest(m, handled) /\ m.to = DsAddr
    BY <2>1 DEF SettleInv, SysInv, ToClient
  <2>5. X \subseteq handled
    BY <2>3, <2>4 DEF Takes, Vouched, Honest
  <2>6. receiving'
    BY <1>0, <2>1, ReadReceives
  <2> QED
    BY <1>a, <2>2, <2>3, <2>5, <2>6
<1>2. CASE ClientQueues
  <2>1. Otherwise(Now) /\ receiving'
    BY <1>0, <1>2 DEF ClientQueues, Otherwise, TakeCommand, Take
  <2> QED
    BY <1>b, <2>1
<1>3. CASE ClientRuns
  <2>1. Otherwise(Now)
    BY <1>3 DEF ClientRuns, Otherwise
  <2>2. receiving'
    BY <1>0, <1>3 DEF ClientRuns, TakeConnect, TakeDisconnect, Drained, ReadNothing,
       Take, Reading, Expire, NotExpired, Beat, NoBeat, WebcamIdle, Retransmit,
       NothingToRetransmit
  <2> QED
    BY <1>b, <2>1, <2>2
<1>4. CASE AppCalls
  <2>1. Otherwise(Now) /\ receiving'
    BY <1>0, <1>4 DEF AppCalls, Otherwise, App, Call
  <2> QED
    BY <1>b, <2>1
<1>5. CASE TimePasses
  <2>1. Otherwise(Now) /\ receiving'
    BY <1>0, <1>5 DEF TimePasses, Otherwise, Tick
  <2> QED
    BY <1>b, <2>1
<1> QED
  BY <1>1, <1>2, <1>3, <1>4, <1>5

LEMMA HonestStep ==
  ASSUME SettleInv, [SysNext]_sysVars
  PROVE  \A m \in net' : Honest(m, handled')
<1>0. \A m \in net : Honest(m, handled) /\ Vouched(m, ds)
  BY DEF SettleInv, SysInv
<1>1. CASE ClientReads \/ ClientQueues \/ ClientRuns
  <2>1. net' = net \cup Sent(sent', DsAddr) /\ handled' = handled
    BY <1>1 DEF ClientReads, ClientQueues, ClientRuns, ClientSteps, RcUnchanged
  <2>2. StationSends(sent')
    <3>1. ASSUME NEW m \in ToClient, Read(m.from, m.packet, Now)
          PROVE  StationSends(sent')
      BY <1>0, <3>1, ReadSends DEF ToClient
    <3> QED
      BY <1>1, <3>1, OtherSends DEF ClientReads
  <2> QED
    BY <1>0, <2>1, <2>2, SentHonest
<1>2. CASE RcSteps
  <2>1. net' = net \cup Sent(rcSent', RcAddr)
    BY <1>2 DEF RcSteps
  <2>2. handled \subseteq handled' /\ ControllerSends(rcSent', handled')
    <3>1. CASE RcRuns
      BY <3>1, RcRunSends DEF RcRuns
    <3>2. CASE RcReads
      <4>1. PICK m \in ToRc, t \in NextStamp :
              /\ Rc!Handling(m.from, m.packet, t)
              /\ handled' = IF m.packet.kind = "command" /\ ds = m.from
                            THEN handled \cup {<<m.packet.name, m.packet.stamp>>}
                            ELSE handled
        BY <3>2 DEF RcReads
      <4>2. m.packet.kind = "command" /\ ds = m.from =>
              <<m.packet.name, m.packet.stamp>> \in handled'
        BY <4>1
      <4> QED
        BY <4>1, <4>2, RcReadSends
    <3> QED
      BY <1>2, <3>1, <3>2 DEF RcSteps
  <2> QED
    BY <1>0, <2>1, <2>2, SentHonest, HonestGrows
<1>3. CASE AppCalls \/ TimePasses \/ UNCHANGED sysVars
  <2>1. net' = net /\ handled' = handled
    BY <1>3 DEF AppCalls, TimePasses, sysVars
  <2> QED
    BY <1>0, <2>1
<1> QED
  BY <1>1, <1>2, <1>3 DEF SysNext

LEMMA SettleSteps ==
  ASSUME SettleInv, [SysNext]_sysVars
  PROVE  /\ SettleInv'
         /\ \A i \in DOMAIN pending :
              Lost(i) /\ peer' # None /\ receiving => Identity(pending[i]) \in handled
<1>1. SysInv'
  BY SysSteps DEF SettleInv
<1>2. \A m \in net' : Honest(m, handled')
  BY HonestStep
<1>3. CASE ClientReads \/ ClientQueues \/ ClientRuns \/ AppCalls \/ TimePasses
  <2>1. /\ QueueFits' /\ receiving'
        /\ SessionEnds \/ Holds(pending, pending', events', handled)
    BY <1>3, StationLoses
  <2>2. SettleInv'
    BY <1>1, <1>2, <2>1 DEF SettleInv
  <2> QED
    BY <2>1, <2>2 DEF SessionEnds, Holds, Lost
<1>4. CASE RcSteps \/ UNCHANGED sysVars
  <2>1. UNCHANGED vars
    BY <1>4 DEF RcSteps, sysVars
  <2>2. pending' = pending /\ receiving' = receiving
    BY <2>1 DEF vars, queueVars
  <2>3. QueueFits' /\ receiving'
    BY <2>2 DEF QueueFits, SettleInv
  <2>4. SettleInv'
    BY <1>1, <1>2, <2>3 DEF SettleInv
  <2> QED
    BY <2>2, <2>4 DEF Lost
<1> QED
  BY <1>3, <1>4 DEF SysNext

(* A command that leaves the queue without a report, in a session that goes *)
(* on, was handled by the controller: no lost, late, repeated or reordered  *)
(* packet settles what was not done.                                        *)
THEOREM SettledIsHandled == SysSpec => SettledWasHandled
<1>1. SettleInv /\ [SysNext]_sysVars =>
        SettleInv' /\ [\A i \in DOMAIN pending :
                         Lost(i) /\ peer' # None /\ receiving =>
                           Identity(pending[i]) \in handled]_sysVars
  BY SettleSteps
<1> QED
  BY <1>1, SettleBegins, PTL DEF SysSpec, SettledWasHandled
=============================================================================
