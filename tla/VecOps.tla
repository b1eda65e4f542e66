------------------------------- MODULE VecOps -------------------------------
(***************************************************************************)
(* The operations of Rust's Vec and VecDeque the client uses, as operators *)
(* on sequences.  None is recursive, so that theorems can be stated about  *)
(* the modules that use them.                                              *)
(***************************************************************************)
EXTENDS Integers, Sequences, FiniteSets

(* How many of the indices K are at or below i. *)
Rank(K, i) == Cardinality({j \in K : j <= i})

(* Vec::retain: what is left of s when only the indices K stay, in order.  *)
Retain(s, K) ==
  [k \in 1..Cardinality(K) |-> s[CHOOSE i \in K : Rank(K, i) = k]]

(* The last n elements of s, all of s if it is no longer than that: what a *)
(* queue of capacity n holds once it has dropped its oldest elements.      *)
Excess(s, n) == IF Len(s) > n THEN Len(s) - n ELSE 0
Newest(s, n) == SubSeq(s, Excess(s, n) + 1, Len(s))
Oldest(s, n) == SubSeq(s, 1, Excess(s, n))

Contains(s, x) == \E i \in DOMAIN s : s[i] = x
=============================================================================
