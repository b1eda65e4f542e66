------------------------------- MODULE MCFakeRc -------------------------------
(* Small instances of FakeRc: the OpMode life cycle under every sequence of  *)
(* commands, and its configurations.                                         *)
EXTENDS FakeRc

CONSTANTS d1, d2, k1, k2

Cmd(name, extra) == [kind |-> "command", name |-> name, stamp |-> 1, extra |-> extra]
ConfigCmd(name, key, id) ==
  [kind |-> "command", name |-> name, stamp |-> 1, key |-> key, id |-> id, xml |-> "x"]
Press(user, x) == [kind |-> "gamepad", user |-> user, x |-> x, y |-> ~x]

NoConfigs  == [k \in {} |-> 0]
OneConfig  == [k \in {k1} |-> 1]
NoneActive == [key |-> "none", id |-> 0]

OpModeInputs ==
  {Cmd("INIT", "Stop"), Cmd("INIT", "Duo"), Cmd("INIT", "Crash"),
   Cmd("RUN", "Duo"), Cmd("RUN", "Crash"), Cmd("RESTART", ""),
   Cmd("REQUEST_FRAME", ""), [kind |-> "discovery"], [kind |-> "heartbeat"],
   [kind |-> "garbage"]}

(* One configuration to begin with, one to add; the gamepad in INIT. *)
ConfigInputs ==
  {Cmd("REQUEST_ACTIVE", ""), Cmd("REQUEST_CONFIGS", ""),
   ConfigCmd("REQUEST_CONFIG", k1, 0),
   ConfigCmd("ACTIVATE", k1, 1), ConfigCmd("ACTIVATE", None, 0),
   ConfigCmd("SAVE", k2, 0), ConfigCmd("SAVE", k1, 1), ConfigCmd("SAVE", None, 0),
   ConfigCmd("DELETE", k1, 1), ConfigCmd("DELETE", None, 0),
   [kind |-> "ack", name |-> "SCAN", stamp |-> 1],
   Press(1, TRUE), Press(2, TRUE)}

AllInputs == OpModeInputs \cup ConfigInputs
=============================================================================
