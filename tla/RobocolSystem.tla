---------------------------- MODULE RobocolSystem ----------------------------
(***************************************************************************)
(* One driver station and the stand-in robot controller, each running its  *)
(* own loop, joined by a network that may lose, delay, duplicate and       *)
(* reorder what it carries: a packet once sent may be read at any later    *)
(* time, any number of times, or never.                                    *)
(*                                                                         *)
(* The programs are those of RobocolClient and FakeRc; this module adds    *)
(* the wire between them, a clock common to both, and what the operator's  *)
(* commands have become.  The camera is left to CameraStream: the network  *)
(* here never carries the news that a stream is on.                        *)
(***************************************************************************)
EXTENDS RobocolClient

CONSTANTS
  DsAddr, RcAddr,
  Carried,                \* bound: kinds of packets, and names of commands, carried
  OpModes, StopOpMode, CrashOpMode, Keys, Xmls, FactoryConfigs, NoConfig,
  FactoryXml, DsTimeout, PhantomTicks, CrashDelay, JpegBytes, MaxFrameNum,
  MaxResourceId, RcStamps

ASSUME SystemAssumption ==
  /\ "STREAM_CHANGE" \notin Carried
  /\ DsAddr # RcAddr /\ None \notin {DsAddr, RcAddr}
  /\ JpegBytes \in Nat

VARIABLES
  rcPc, ds, dsAge, phantom, state, opmode, runAge, configs, active,
  pendingActivation, saved, nextId, rcWebcam, frameNum, alliance, start,
  prevX, prevY, rcSent,
  net,        \* every packet that may still be read
  issued,     \* history: the commands the client has queued, <<name, stamp>>
  handled     \* history: the commands the controller has handled

Rc == INSTANCE FakeRc WITH Stations <- {DsAddr}, Inputs <- {}

rcVars ==
  <<rcPc, ds, dsAge, phantom, state, opmode, runAge, configs, active,
    pendingActivation, saved, nextId, rcWebcam, frameNum, alliance, start,
    prevX, prevY, rcSent>>
sysVars == <<vars, rcVars, net, issued, handled>>

-----------------------------------------------------------------------------
(* The wire.  An activation's payload is the configuration it names; the    *)
(* network of an instance loses what is not in Carried.                     *)
OnWire(packet) ==
  IF packet.kind = "command" /\ packet.name = "ACTIVATE"
  THEN [kind |-> "command", name |-> packet.name, stamp |-> packet.stamp,
        key |-> packet.extra, id |-> 1]
  ELSE packet

Carries(packet) ==
  IF packet.kind \in {"command", "ack", "notify", "stream"}
  THEN packet.name \in Carried ELSE packet.kind \in Carried

Sent(out, from) ==
  {[from |-> from, to |-> out[i].to, packet |-> OnWire(out[i].packet)] :
     i \in {j \in DOMAIN out : Carries(out[j].packet)}}

ToClient == {m \in net : m.to = DsAddr}
ToRc     == {m \in net : m.to = RcAddr}

(* The client's clock: each step that queues commands reads a time of its   *)
(* own, and there are as many as Stamps.                                    *)
Now == 1 + Cardinality({c[2] : c \in issued})
Queues(t) ==
  LET new == {i \in DOMAIN pending' : pending'[i].stamp = t}
  IN  /\ new # {} => t \in Stamps
      /\ issued' = issued \cup {<<pending'[i].name, t>> : i \in new}

-----------------------------------------------------------------------------
RcUnchanged == UNCHANGED <<rcVars, handled>>
ClientSteps ==
  /\ net' = net \cup Sent(sent', DsAddr)
  /\ RcUnchanged

ClientReads ==
  \E m \in ToClient : Read(m.from, m.packet, Now) /\ Queues(Now) /\ ClientSteps

ClientQueues ==
  /\ TakeCommand(Now)
  /\ Queues(Now)
  /\ ClientSteps

ClientRuns ==
  /\ \/ TakeConnect \/ TakeDisconnect \/ Drained
     \/ ReadNothing
     \/ Expire \/ NotExpired \/ Beat \/ NoBeat \/ WebcamIdle
     \/ Retransmit \/ NothingToRetransmit
  /\ UNCHANGED issued
  /\ ClientSteps

AppCalls ==
  /\ \E c \in Calls : Call(c)
  /\ UNCHANGED <<net, issued, rcVars, handled>>

(* The controller's clock gives each command it sends a stamp of its own.   *)
FreshStamp(t) ==
  ~\E m \in net : m.packet.kind \in {"notify", "stream"} /\ m.packet.stamp = t
NextStamp == {t \in RcStamps : FreshStamp(t) /\ \A u \in RcStamps : u < t => ~FreshStamp(u)}

RcReads ==
  \E m \in ToRc, t \in NextStamp :
    /\ Rc!Handling(m.from, m.packet, t)
    /\ handled' = IF m.packet.kind = "command" /\ ds = m.from
                  THEN handled \cup {<<m.packet.name, m.packet.stamp>>}
                  ELSE handled

RcRuns ==
  /\ Rc!HearNothing \/ Rc!NoCrash \/ Rc!TelemetryTick \/ \E t \in NextStamp : Rc!Crash(t)
  /\ UNCHANGED handled

RcSteps ==
  /\ RcReads \/ RcRuns
  /\ net' = net \cup Sent(rcSent', RcAddr)
  /\ UNCHANGED <<vars, issued>>

TimePasses == Tick /\ Rc!RcTick /\ UNCHANGED <<net, issued, handled>>

SysInit == Init /\ Rc!RcInit /\ net = {} /\ issued = {} /\ handled = {}

SysNext ==
  ClientReads \/ ClientQueues \/ ClientRuns \/ AppCalls \/ RcSteps \/ TimePasses

SysSpec == SysInit /\ [][SysNext]_sysVars
-----------------------------------------------------------------------------
(* The client follows a controller only if that controller serves it, so    *)
(* that its heartbeats are answered and its commands acted on.              *)
LinkIsMutual == peer = RcAddr => ds = DsAddr

(* A command that leaves the queue without a report, in a session that goes *)
(* on, has been handled by the controller, whatever became of the packets.  *)
SettledWasHandled ==
  [][\A i \in DOMAIN pending :
       Lost(i) /\ peer' # None /\ receiving => Identity(pending[i]) \in handled]_sysVars

(* client.rs:503-505: "A config change only takes effect on the RC after a  *)
(* restart. [...] we restart only on an explicit ACTIVATE, so edits can be  *)
(* saved to the hub without interrupting a running robot."  The operator    *)
(* asks for no restart but through ACTIVATE; each asks for one.             *)
OneRestartPerActivate ==
  Cardinality({c \in issued : c[1] = "RESTART"})
    <= Cardinality({c \in issued : c[1] = "ACTIVATE"})
=============================================================================
