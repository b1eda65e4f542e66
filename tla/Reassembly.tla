------------------------------ MODULE Reassembly ------------------------------
(***************************************************************************)
(* How the capture decoder puts IPv4 fragments back together (net.rs).     *)
(* Fragments wait by source, destination and identification, in the order  *)
(* they were captured, until every byte up to the end of the last fragment *)
(* is there; a later fragment overwrites an earlier one.                   *)
(*                                                                         *)
(* A fragment is [src, dst, ident, offset, more, body, of]; `of` says which *)
(* datagram it was cut from, which the code does not know.                 *)
(***************************************************************************)
EXTENDS Integers, SequencesExt

Key(f) == <<f.src, f.dst, f.ident>>
Unknown == -1
NoEntry(ts) == [chunks |-> <<>>, total |-> Unknown, ts |-> ts]

Entry(pending, f, ts) ==
  LET e == IF Key(f) \in DOMAIN pending THEN pending[Key(f)] ELSE NoEntry(ts)
  IN  [e EXCEPT !.chunks = Append(@, [off |-> f.offset, bytes |-> f.body, of |-> f.of]),
                !.total  = IF f.more THEN @ ELSE f.offset + Len(f.body)]

(* The chunks that hold byte b of a datagram, counting from 1, and the one  *)
(* whose byte is kept.                                                      *)
Holding(e, b) == {k \in DOMAIN e.chunks : b - e.chunks[k].off \in DOMAIN e.chunks[k].bytes}
Kept(e, b)    == e.chunks[Max(Holding(e, b))]

(* Seeded faults: a datagram is only looked at when its last fragment comes; *)
(* fragments are joined as they were captured.                               *)
CompleteAtEnd(e) ==
  /\ e.total # Unknown /\ \A b \in 1..e.total : Holding(e, b) # {}
  /\ Last(e.chunks).off + Len(Last(e.chunks).bytes) = e.total
AssembledAsCaptured(e) == FlattenSeq([k \in DOMAIN e.chunks |-> e.chunks[k].bytes])

Complete(e)  == e.total # Unknown /\ \A b \in 1..e.total : Holding(e, b) # {}
Assembled(e) == [b \in 1..e.total |-> Kept(e, b).bytes[b - Kept(e, b).off]]
Origins(e)   == {c.of : c \in Range(e.chunks)}

(* Seeded fault: what is complete stays. *)
RemainingAll(pending, f, e) == [k \in DOMAIN pending \cup {Key(f)} |-> IF k = Key(f) THEN e ELSE pending[k]]
Remaining(pending, f, e) ==
  IF Complete(e) THEN [k \in DOMAIN pending \ {Key(f)} |-> pending[k]]
  ELSE [k \in DOMAIN pending \cup {Key(f)} |-> IF k = Key(f) THEN e ELSE pending[k]]
=============================================================================
