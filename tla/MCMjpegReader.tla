---------------------------- MODULE MCMjpegReader ----------------------------
(* A boundary that overlaps itself, pictures that hold parts of it.         *)
EXTENDS MjpegReader

F == 102
Bounds    == {<<Dash, F>>}
HeaderLn  == <<F>>
(* The last one is too long. *)
Dashes(n) == [i \in 1..n |-> Dash]
Pics      == {<<F, CR, LF, Dash>>, Dashes(9), Dashes(10)}
=============================================================================
