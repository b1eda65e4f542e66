--------------------------- MODULE MCRobocolSystem ---------------------------
(* One station and one controller over a faulty network. *)
EXTENDS RobocolSystem

RcOnly    == <<RcAddr>>
AllNames  == {"REQUEST_ACTIVE", "REQUEST_CONFIGS", "REQUEST_OPMODES",
              "REQUEST_FRAME", "ACTIVATE", "RESTART", "RUN"}
States    == {"NotStarted", "Init", "Running", "Stopped"}
SendOf(name, extra) == [op |-> "command", name |-> name, extra |-> extra]

ActivateCalls == {SendOf("ACTIVATE", "k1")}
SystemCalls   == {SendOf("RUN", "Crash"), [op |-> "connect"], [op |-> "disconnect"]}

(* No action and no property reads what the last step put out. *)
SystemView ==
  <<pc, ctrl, receiving, linkVars, queueVars, webcamVars, appPeer,
    rcPc, ds, dsAge, phantom, state, opmode, runAge, configs, active,
    pendingActivation, saved, nextId, rcWebcam, frameNum, alliance, start,
    prevX, prevY, net, issued, handled>>

NoConfigs  == [k \in {} |-> 0]
NoneActive == [key |-> "none", id |-> 0]
=============================================================================
