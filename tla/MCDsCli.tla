------------------------------- MODULE MCDsCli -------------------------------
(* Lines of every kind; lists in which a name is missing, has moved to       *)
(* another configuration, or is there twice.                                 *)
EXTENDS DsCli

Line(cmd, arg) == [cmd |-> cmd, arg |-> arg]
SomeLines ==
  {Line("connect", None), Line("disconnect", None), Line("w", None), Line("quit", None),
   Line("init", "Duo"), Line("run", None), Line("save-config", "k1"),
   Line("activate-config", "k1"), Line("delete-config", None)}
Config(name, id) == [name |-> name, id |-> id]
SomeLists == {<<>>, <<Config("k1", 1), Config("k1", 2)>>, <<Config("k2", 1), Config("k1", 3)>>}
=============================================================================
