-------------------------------- MODULE Base64 --------------------------------
(***************************************************************************)
(* Standard-alphabet base64 with padding (base64.rs).  A text is the       *)
(* sequence of its characters' codes.                                      *)
(***************************************************************************)
EXTENDS Integers, SequencesExt

Alphabet == [i \in 1..64 |-> CASE i \in 1..26  -> 64 + i   \* A..Z
                               [] i \in 27..52 -> 70 + i   \* a..z
                               [] i \in 53..62 -> i - 5    \* 0..9
                               [] i = 63       -> 43       \* +
                               [] i = 64       -> 47]      \* /
Pad        == 61
Whitespace == {32, 9, 13, 10}
None64     == [failed |-> TRUE]

Groups(s, k) ==
  [j \in 1..((Len(s) + k - 1) \div k) |->
     SubSeq(s, k * (j - 1) + 1, IF k * j < Len(s) THEN k * j ELSE Len(s))]
Char(n) == Alphabet[n + 1]

EncodeGroup(b) ==
  LET at(i) == IF i \in DOMAIN b THEN b[i] ELSE 0
  IN  << Char(at(1) \div 4),
         Char((at(1) % 4) * 16 + at(2) \div 16),
         IF Len(b) > 1 THEN Char((at(2) % 16) * 4 + at(3) \div 64) ELSE Pad,
         IF Len(b) > 2 THEN Char(at(3) % 64) ELSE Pad >>
Encode(data) == FlattenSeq([j \in DOMAIN Groups(data, 3) |-> EncodeGroup(Groups(data, 3)[j])])

(* Decoding skips white space and ends at the first padding. *)
IsLetter(s, i) == s[i] \notin Whitespace /\ \A k \in 1..i : s[k] # Pad
Letters(s) == FlattenSeq([i \in DOMAIN s |-> IF IsLetter(s, i) THEN <<s[i]>> ELSE <<>>])
Sextet(c) == (CHOOSE i \in 1..64 : Alphabet[i] = c) - 1

(* Two, three or four sextets give one, two or three bytes. *)
DecodeGroup(c) ==
  <<c[1] * 4 + c[2] \div 16>>
    \o (IF Len(c) > 2 THEN <<((c[2] * 16) % 256) + (c[3] \div 4)>> ELSE <<>>)
    \o (IF Len(c) > 3 THEN <<((c[3] * 64) % 256) + c[4]>> ELSE <<>>)
Decode(s) ==
  LET letters == Letters(s)
  IN  IF ~(ToSet(letters) \subseteq Range(Alphabet)) \/ Len(letters) % 4 = 1 THEN None64
      ELSE LET groups == Groups([i \in DOMAIN letters |-> Sextet(letters[i])], 4)
           IN  FlattenSeq([j \in DOMAIN groups |-> DecodeGroup(groups[j])])

(* Android's Base64.DEFAULT, which the controller uses: a line break after  *)
(* every `width` characters.                                                *)
Wrapped(s, width) ==
  FlattenSeq([j \in DOMAIN Groups(s, width) |-> Groups(s, width)[j] \o <<10>>])
=============================================================================
