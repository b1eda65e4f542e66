--------------------------------- MODULE Wire ---------------------------------
(***************************************************************************)
(* Fields at fixed offsets of a byte buffer, as wire.rs reads and writes   *)
(* them.  A buffer is a sequence of bytes 0..255 and offsets count from 0; *)
(* a number is the sequence of its big-endian bytes.  A layout gives each  *)
(* field of a packet its offset and width.                                 *)
(***************************************************************************)
EXTENDS Integers, SequencesExt

CONSTANT Utf8(_)     \* whether a sequence of bytes is text

Zeros(n)            == [i \in 1..n |-> 0]
Bytes16(n)          == <<(n \div 256) % 256, n % 256>>    \* `as u16` wraps
Holds(buf, off, n)  == off + n <= Len(buf)
Slice(buf, off, n)  == SubSeq(buf, off + 1, off + n)
Number(bytes)       == FoldLeft(LAMBDA n, b : 256 * n + b, 0, bytes)

Put(buf, off, bytes) ==
  [i \in DOMAIN buf |-> IF i - off \in DOMAIN bytes THEN bytes[i - off] ELSE buf[i]]

HeaderLen == 5
Header(uid, payload) == Put(Zeros(HeaderLen + payload), 0, <<uid>> \o Bytes16(payload))

Filled(buf, layout, fields) ==
  LET At(i) == {f \in DOMAIN layout : i - layout[f][1] \in DOMAIN fields[f]}
  IN  [i \in DOMAIN buf |->
         IF At(i) = {} THEN buf[i]
         ELSE LET f == CHOOSE f \in At(i) : TRUE IN fields[f][i - layout[f][1]]]
Fields(buf, layout) ==
  [f \in DOMAIN layout |-> Slice(buf, layout[f][1], layout[f][2])]
Reaches(buf, layout) ==
  \A f \in DOMAIN layout : Holds(buf, layout[f][1], layout[f][2])

(* A string after the w bytes of its length.  Its `next` is the offset just *)
(* past it, or Beyond if the buffer ends in it or it is not text.           *)
Beyond == -1
Str(w, text) == (IF w = 1 THEN <<Len(text) % 256>> ELSE Bytes16(Len(text))) \o text
(* Seeded fault: a string ends where the buffer does.                       *)
StrAtLenient(buf, off, w) ==
  LET n    == Number(Slice(buf, off, w))
      rest == SubSeq(buf, off + w + 1, IF off + w + n < Len(buf) THEN off + w + n ELSE Len(buf))
  IN  IF off # Beyond /\ Holds(buf, off, w)
      THEN [text |-> rest, next |-> off + w + Len(rest)]
      ELSE [text |-> <<>>, next |-> Beyond]
StrAt(buf, off, w) ==
  LET n    == Number(Slice(buf, off, w))
      text == Slice(buf, off + w, n)
  IN  IF off # Beyond /\ Holds(buf, off, w) /\ Holds(buf, off + w, n) /\ Utf8(text)
      THEN [text |-> text, next |-> off + w + n]
      ELSE [text |-> <<>>, next |-> Beyond]
=============================================================================
