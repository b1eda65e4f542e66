---------------------------- MODULE CaptureProofs ----------------------------
(***************************************************************************)
(* The codecs, for every packet and all bytes, and what the capture        *)
(* decoder makes of fragments, for any traffic, size of frames and order   *)
(* of capture.                                                             *)
(*                                                                         *)
(* A packet is fields, strings and entries put end to end, each read where *)
(* the one before it ended (PacketSurvives); of a buffer that ends early   *)
(* every reader says the same, or nothing (ParseCut).  A text in base64 is *)
(* groups of four letters, and line breaks only move the letters apart     *)
(* (SpreadLetters).                                                        *)
(*                                                                         *)
(* The argument for the decoder is about what waits under a key            *)
(* (EntriesOK): pieces captured under that key, short of a whole datagram, *)
(* with the length known as soon as a last piece waits.  A datagram with a *)
(* key of its own therefore spends one capture of each of its fragments    *)
(* per decoding (Accounted).  Where the datagrams of a key come in good    *)
(* order, one of them waits at a time, each piece once (OneAtATime), and   *)
(* what is put together is of one datagram (MixedIsDisorder).  Pieces of   *)
(* one datagram agree wherever they overlap, so what is put together of    *)
(* them is its bytes (DecodedInFull), with the header's numbers read back  *)
(* as written.  Whatever is mixed, the bytes of the header are of one      *)
(* datagram of the key (HeadsOK), so what is decoded comes from its sender *)
(* and is of its kind (SourceInv): the controller is who sent telemetry.   *)
(***************************************************************************)
EXTENDS Codecs, FiniteSetTheorems, WellFoundedInduction, TLAPS

-----------------------------------------------------------------------------
(* Numbers and sequences. *)
LEMMA LeastNat ==
  ASSUME NEW T \in SUBSET Nat, T # {}
  PROVE  \E n \in T : \A m \in T : n <= m
<1>1. PICK n \in T : \A m \in T : ~(<<m, n>> \in OpToRel(<, Nat))
  BY NatLessThanWellFounded, WFMin
<1>2. \A m \in T : ~(m < n)
  BY <1>1 DEF OpToRel
<1> QED
  BY <1>2

LEMMA MaxIsThere ==
  ASSUME NEW N \in Nat, NEW T, T \subseteq 1..N, T # {}
  PROVE  Max(T) \in T
<1> DEFINE U == {N - x : x \in T}
<1>1. U \subseteq Nat /\ U # {}
  <2>1. \A x \in T : N - x \in Nat
    OBVIOUS
  <2> QED
    BY <2>1
<1>2. PICK u \in U : \A v \in U : u <= v
  <2> HIDE DEF U
  <2> QED
    BY <1>1, LeastNat
<1>3. PICK x \in T : u = N - x
  BY <1>2
<1>4. \A y \in T : x >= y
  <2> SUFFICES ASSUME NEW y \in T PROVE x >= y
    OBVIOUS
  <2>1. N - y \in U
    OBVIOUS
  <2>2. u <= N - y
    BY <1>2, <2>1
  <2> HIDE DEF U
  <2> QED
    BY <1>3, <2>2
<1> QED
  BY <1>4 DEF Max

(* What is appended follows what was there. *)
Follows(S, s, h, p) ==
  /\ s \in Seq(S) /\ Len(h) \in Nat /\ Len(p) \in Nat /\ Len(s) = Len(h) + Len(p)
  /\ \A i \in 1..Len(h) : s[i] = h[i]
  /\ \A i \in 1..Len(p) : s[Len(h) + i] = p[i]

LEMMA Joined ==
  ASSUME NEW S, NEW h \in Seq(S), NEW p \in Seq(S)
  PROVE  Follows(S, h \o p, h, p)
  BY DEF Follows

LEMMA TwoOf ==
  ASSUME NEW S, NEW s \in Seq(S), NEW k \in Nat, k + 2 <= Len(s)
  PROVE  Slice(s, k, 2) = <<s[k + 1], s[k + 2]>>
<1> DEFINE t == SubSeq(s, k + 1, k + 2)
<1>1. t \in Seq(S) /\ Len(t) = 2 /\ t[1] = s[k + 1] /\ t[2] = s[k + 2]
  OBVIOUS
<1> HIDE DEF t
<1>2. t = <<t[1], t[2]>>
  BY <1>1
<1> QED
  BY <1>1, <1>2 DEF Slice, t

LEMMA RestOf ==
  ASSUME NEW S, NEW s \in Seq(S), NEW p \in Seq(S), NEW k \in Nat, Len(s) = k + Len(p),
         \A i \in 1..Len(p) : s[k + i] = p[i]
  PROVE  SubSeq(s, k + 1, k + Len(p)) = p
<1> DEFINE t == SubSeq(s, k + 1, k + Len(p))
<1>1. Len(p) \in Nat /\ DOMAIN p = 1..Len(p)
  OBVIOUS
<1>2. t \in Seq(S) /\ Len(t) = Len(p) /\ \A i \in 1..Len(p) : t[i] = s[k + i]
  BY <1>1
<1> HIDE DEF t
<1>3. t = p
  BY <1>1, <1>2
<1> QED
  BY <1>3 DEF t

(* What two bytes of a header say: a fold over them, unrolled.              *)
LEMMA NumberUnfolds ==
  ASSUME NEW s
  PROVE  \E it : Number(s) = it[DOMAIN s] /\ it = CHOOSE f : f = [q \in SUBSET DOMAIN s |->
                IF q = {} THEN 0 ELSE 256 * f[q \ {Max(q)}] + s[Max(q)]]
<1> DEFINE it == CHOOSE f : f = [q \in SUBSET DOMAIN s |->
                IF q = {} THEN 0 ELSE 256 * f[q \ {Max(q)}] + s[Max(q)]]
<1>1. Number(s) = it[DOMAIN s]
  BY Zenon DEF Number, FoldLeft, MapThenFoldSet
<1> QED
  BY <1>1, Zenon

LEMMA NumberOfTwo ==
  ASSUME NEW a \in Int, NEW b \in Int
  PROVE  Number(<<a, b>>) = 256 * a + b
<1> DEFINE s == <<a, b>>
           D == {1, 2}
           Sol(f) == f = [q \in SUBSET DOMAIN s |-> IF q = {} THEN 0 ELSE 256 * f[q \ {Max(q)}] + s[Max(q)]]
           w == [q \in SUBSET D |-> IF q = {} THEN 0 ELSE IF q = {1} THEN a ELSE IF q = {2} THEN b
                                   ELSE 256 * a + b]
<1>1. Max({1}) = 1 /\ Max({2}) = 2 /\ Max(D) = 2
  BY DEF Max
<1>2. s[1] = a /\ s[2] = b /\ DOMAIN s = D
  OBVIOUS
<1>3. /\ {1} \ {1} = {} /\ {2} \ {2} = {} /\ D \ {2} = {1} /\ {1} # {2} /\ {1} # D /\ {2} # D
      /\ D # {} /\ {1} # {} /\ {2} # {}
  OBVIOUS
<1>4. w[{}] = 0 /\ w[{1}] = a /\ w[{2}] = b /\ w[D] = 256 * a + b
  BY <1>3
<1>5. \A q \in SUBSET D : q = {} \/ q = {1} \/ q = {2} \/ q = D
  OBVIOUS
<1> HIDE DEF s
<1>6. Sol(w)
  <2>1. ASSUME NEW q \in SUBSET D
        PROVE  w[q] = IF q = {} THEN 0 ELSE 256 * w[q \ {Max(q)}] + s[Max(q)]
    <3> HIDE DEF w
    <3>1. CASE q = {}
      BY <1>4, <3>1
    <3>2. CASE q = {1}
      BY <1>1, <1>2, <1>3, <1>4, <3>2
    <3>3. CASE q = {2}
      BY <1>1, <1>2, <1>3, <1>4, <3>3
    <3>4. CASE q = D
      <4> HIDE DEF D
      <4> QED
        BY <1>1, <1>2, <1>3, <1>4, <3>4
    <3> QED
      BY <1>5, <3>1, <3>2, <3>3, <3>4
  <2>2. w = [q \in SUBSET D |-> w[q]]
    OBVIOUS
  <2> HIDE DEF w
  <2>3. w = [q \in SUBSET D |-> IF q = {} THEN 0 ELSE 256 * w[q \ {Max(q)}] + s[Max(q)]]
    BY <2>1, <2>2
  <2> QED
    BY <1>2, <2>3
<1>7. PICK it : Number(s) = it[DOMAIN s] /\ it = CHOOSE f : Sol(f)
  BY NumberUnfolds, Zenon
<1> HIDE DEF w
<1>8. Sol(it)
  <2> HIDE DEF Sol
  <2> QED
    BY <1>6, <1>7, Zenon
<1>9. /\ it[{}] = 0 /\ it[{1}] = 256 * it[{1} \ {Max({1})}] + s[Max({1})]
      /\ it[D] = 256 * it[D \ {Max(D)}] + s[Max(D)]
  BY <1>2, <1>3, <1>8
<1>10. it[{1}] = a
  BY <1>1, <1>2, <1>3, <1>9
<1>11. it[D] = 256 * a + b
  <2> HIDE DEF D
  <2> QED
    BY <1>1, <1>2, <1>3, <1>9, <1>10
<1> QED
  BY <1>2, <1>7, <1>11 DEF s

LEMMA NumberOfBytes16 ==
  ASSUME NEW n \in Nat, n < 65536
  PROVE  Number(Bytes16(n)) = n
<1> DEFINE a == (n \div 256) % 256
           b == n % 256
<1>1. a \in Int /\ b \in Int /\ 256 * a + b = n
  BY SMT
<1>2. Bytes16(n) = <<a, b>>
  BY DEF Bytes16
<1> HIDE DEF a, b
<1> QED
  BY <1>1, <1>2, NumberOfTwo

-----------------------------------------------------------------------------
(* Bytes in a buffer. *)
Byte == 0..255
HasAt(buf, off, s) ==
  /\ off + Len(s) <= Len(buf)
  /\ \A i \in 1..Len(s) : buf[off + i] = s[i]

LEMMA BufferIs ==
  ASSUME NEW n \in Nat, NEW b \in [1..n -> Byte]
  PROVE  b \in Seq(Byte) /\ Len(b) = n
  OBVIOUS

LEMMA SequenceIs ==
  ASSUME NEW S, NEW s \in Seq(S)
  PROVE  Len(s) \in Nat /\ DOMAIN s = 1..Len(s) /\ s \in [1..Len(s) -> S]
  OBVIOUS

LEMMA SlicedOut ==
  ASSUME NEW buf \in Seq(Byte), NEW off \in Nat, NEW s \in Seq(Byte), HasAt(buf, off, s)
  PROVE  Slice(buf, off, Len(s)) = s
<1> DEFINE t == SubSeq(buf, off + 1, off + Len(s))
<1>1. Len(s) \in Nat /\ DOMAIN s = 1..Len(s) /\ off + Len(s) <= Len(buf)
  BY DEF HasAt
<1>2. t \in Seq(Byte) /\ Len(t) = Len(s) /\ \A i \in 1..Len(s) : t[i] = buf[off + i]
  <2> HIDE DEF Byte
  <2> QED
    BY <1>1
<1> HIDE DEF t
<1>3. \A i \in 1..Len(s) : t[i] = s[i]
  BY <1>2 DEF HasAt
<1>4. t = s
  <2> HIDE DEF Byte
  <2> QED
    BY <1>1, <1>2, <1>3
<1> QED
  BY <1>4 DEF Slice, t

LEMMA ContainsBoth ==
  ASSUME NEW buf \in Seq(Byte), NEW off \in Nat, NEW s \in Seq(Byte), NEW t \in Seq(Byte),
         HasAt(buf, off, s \o t)
  PROVE  HasAt(buf, off, s) /\ HasAt(buf, off + Len(s), t)
<1> DEFINE u == s \o t
<1>1. /\ Len(s) \in Nat /\ Len(t) \in Nat /\ Len(u) = Len(s) + Len(t)
      /\ \A i \in 1..Len(s) : u[i] = s[i]
      /\ \A i \in 1..Len(t) : u[Len(s) + i] = t[i]
  <2> HIDE DEF Byte
  <2> QED
    OBVIOUS
<1> HIDE DEF u
<1>2. off + Len(u) <= Len(buf) /\ \A i \in 1..Len(u) : buf[off + i] = u[i]
  BY DEF HasAt, u
<1>3. off + Len(s) + Len(t) <= Len(buf)
  BY <1>1, <1>2
<1> QED
  BY <1>1, <1>2, <1>3 DEF HasAt

IsPut(r, n, b, off, s) ==
  /\ r \in [1..n -> Byte]
  /\ \A i \in 1..n : r[i] = IF i - off \in 1..Len(s) THEN s[i - off] ELSE b[i]

LEMMA PutIs ==
  ASSUME NEW n \in Nat, NEW b \in [1..n -> Byte], NEW off \in Nat, NEW s \in Seq(Byte)
  PROVE  IsPut(Put(b, off, s), n, b, off, s)
<1>1. Len(s) \in Nat /\ DOMAIN s = 1..Len(s) /\ \A i \in 1..Len(s) : s[i] \in Byte
  OBVIOUS
<1> QED
  BY <1>1 DEF Put, IsPut

LEMMA PutContains ==
  ASSUME NEW n \in Nat, NEW b \in [1..n -> Byte], NEW off \in Nat, NEW s \in Seq(Byte),
         off + Len(s) <= n
  PROVE  HasAt(Put(b, off, s), off, s)
<1> DEFINE r == Put(b, off, s)
<1>1. /\ r \in [1..n -> Byte] /\ Len(s) \in Nat
      /\ \A i \in 1..n : r[i] = IF i - off \in 1..Len(s) THEN s[i - off] ELSE b[i]
  BY PutIs DEF IsPut
<1> HIDE DEF r
<1>2. Len(r) = n
  BY <1>1, BufferIs
<1>3. ASSUME NEW i \in 1..Len(s) PROVE r[off + i] = s[i]
  <2>1. off + i \in 1..n /\ (off + i) - off = i
    BY <1>1
  <2> QED
    BY <1>1, <2>1
<1> QED
  BY <1>2, <1>3 DEF HasAt, r

LEMMA PutElsewhere ==
  ASSUME NEW n \in Nat, NEW b \in [1..n -> Byte], NEW off \in Nat, NEW s \in Seq(Byte),
         NEW at \in Nat, NEW t \in Seq(Byte), HasAt(b, at, t),
         at + Len(t) <= off \/ off + Len(s) <= at
  PROVE  HasAt(Put(b, off, s), at, t)
<1> DEFINE r == Put(b, off, s)
<1>1. /\ r \in [1..n -> Byte] /\ Len(s) \in Nat /\ Len(t) \in Nat
      /\ \A i \in 1..n : r[i] = IF i - off \in 1..Len(s) THEN s[i - off] ELSE b[i]
  BY PutIs DEF IsPut
<1> HIDE DEF r
<1>2. Len(r) = n /\ Len(b) = n
  BY <1>1, BufferIs
<1>3. at + Len(t) <= n /\ \A i \in 1..Len(t) : b[at + i] = t[i]
  BY <1>2 DEF HasAt
<1>4. ASSUME NEW i \in 1..Len(t) PROVE r[at + i] = t[i]
  <2>1. at + i \in 1..n /\ (at + i) - off \notin 1..Len(s)
    BY <1>1, <1>3
  <2> QED
    BY <1>1, <1>3, <2>1
<1> QED
  BY <1>2, <1>3, <1>4 DEF HasAt, r

LEMMA HeaderIs ==
  ASSUME NEW uid \in Byte, NEW k \in Nat
  PROVE  Header(uid, k) \in [1..(5 + k) -> Byte] /\ Header(uid, k)[1] = uid
<1> DEFINE s == <<uid>> \o Bytes16(k)
           z == Zeros(5 + k)
<1>1. z \in [1..(5 + k) -> Byte] /\ 5 + k \in Nat
  BY DEF Zeros, Byte
<1>2. s \in Seq(Byte) /\ Len(s) = 3 /\ s[1] = uid
  <2>1. (k \div 256) % 256 \in Byte /\ k % 256 \in Byte
    BY DEF Byte
  <2> HIDE DEF Byte
  <2> QED
    BY <2>1 DEF Bytes16
<1> HIDE DEF s, z
<1>3. PICK n, off : n = 5 + k /\ off = 0
  OBVIOUS
<1>4. IsPut(Put(z, off, s), n, z, off, s)
  <2>1. n \in Nat /\ off \in Nat /\ z \in [1..n -> Byte]
    BY <1>1, <1>3
  <2>2. s \in Seq(Byte)
    BY <1>2
  <2> QED
    BY <2>1, <2>2, PutIs, Zenon
<1>5. Header(uid, k) = Put(z, off, s)
  BY <1>3 DEF Header, HeaderLen, z, s
<1> QED
  BY <1>2, <1>3, <1>4, <1>5 DEF IsPut

-----------------------------------------------------------------------------
(* The fields of a layout. *)
LayoutIn(layout, lo, hi) ==
  /\ lo \in Nat /\ hi \in Nat /\ lo <= hi
  /\ \A f \in DOMAIN layout : /\ layout[f][1] \in Nat /\ layout[f][2] \in Nat
                              /\ lo <= layout[f][1] /\ layout[f][1] + layout[f][2] <= hi
  /\ \A f, g \in DOMAIN layout : \/ f = g
                                 \/ layout[f][1] + layout[f][2] <= layout[g][1]
                                 \/ layout[g][1] + layout[g][2] <= layout[f][1]

LEMMA FieldIs ==
  ASSUME NEW layout, NEW fields, HasFields(fields, layout), NEW f \in DOMAIN layout,
         layout[f][2] \in Nat
  PROVE  fields[f] \in [1..layout[f][2] -> Byte] /\ DOMAIN fields[f] = 1..layout[f][2]
         /\ fields[f] \in Seq(Byte) /\ Len(fields[f]) = layout[f][2]
<1>1. fields[f] \in [1..layout[f][2] -> Byte]
  BY DEF HasFields, Byte
<1>2. fields[f] \in Seq(Byte) /\ Len(fields[f]) = layout[f][2]
  BY <1>1, BufferIs
<1> QED
  BY <1>1, <1>2

LEMMA FilledIs ==
  ASSUME NEW layout, NEW lo, NEW hi, LayoutIn(layout, lo, hi), NEW n \in Nat, hi <= n,
         NEW b \in [1..n -> Byte], NEW fields, HasFields(fields, layout)
  PROVE  LET r == Filled(b, layout, fields)
         IN  /\ r \in [1..n -> Byte]
             /\ \A f \in DOMAIN layout : HasAt(r, layout[f][1], fields[f])
             /\ \A i \in 1..n : i <= lo \/ hi < i => r[i] = b[i]
<1> DEFINE At(i) == {f \in DOMAIN layout : i - layout[f][1] \in DOMAIN fields[f]}
           Here(i) == CHOOSE f \in At(i) : TRUE
           r == Filled(b, layout, fields)
<1>1. \A f \in DOMAIN layout :
        /\ layout[f][1] \in Nat /\ layout[f][2] \in Nat
        /\ lo <= layout[f][1] /\ layout[f][1] + layout[f][2] <= hi
  BY DEF LayoutIn
<1>2. \A f \in DOMAIN layout :
        /\ DOMAIN fields[f] = 1..layout[f][2] /\ Len(fields[f]) = layout[f][2]
        /\ \A i \in 1..layout[f][2] : fields[f][i] \in Byte
  BY <1>1, FieldIs
<1>3. r = [i \in 1..n |-> IF At(i) = {} THEN b[i] ELSE fields[Here(i)][i - layout[Here(i)][1]]]
  BY DEF Filled
<1>4. \A i \in 1..n : At(i) # {} => Here(i) \in At(i)
  OBVIOUS
<1>5. ASSUME NEW i \in 1..n PROVE r[i] \in Byte
  <2>1. CASE At(i) = {}
    BY <1>3, <2>1
  <2>2. CASE At(i) # {}
    <3>1. Here(i) \in At(i)
      BY <2>2
    <3>2. PICK g : g = Here(i)
      OBVIOUS
    <3>3. r[i] = fields[g][i - layout[g][1]]
      BY <1>3, <2>2, <3>2
    <3>4. g \in DOMAIN layout /\ i - layout[g][1] \in DOMAIN fields[g]
      BY <3>1, <3>2
    <3> QED
      BY <1>2, <3>3, <3>4
  <2> QED
    BY <2>1, <2>2
<1>6. r \in [1..n -> Byte]
  <2> HIDE DEF r
  <2>1. r = [i \in 1..n |-> r[i]]
    BY <1>3
  <2> QED
    BY <1>5, <2>1
<1>7. ASSUME NEW f \in DOMAIN layout, NEW i \in 1..layout[f][2]
      PROVE  r[layout[f][1] + i] = fields[f][i]
  <2>1. PICK k : k = layout[f][1] + i
    OBVIOUS
  <2>2. k \in 1..n /\ k - layout[f][1] = i
    BY <1>1, <2>1 DEF LayoutIn
  <2>3. f \in At(k)
    BY <1>2, <2>2
  <2>4. ASSUME NEW g \in At(k) PROVE g = f
    <3>1. g \in DOMAIN layout /\ k - layout[g][1] \in 1..layout[g][2]
      BY <1>2
    <3>2. \/ f = g
          \/ layout[f][1] + layout[f][2] <= layout[g][1]
          \/ layout[g][1] + layout[g][2] <= layout[f][1]
      BY <3>1 DEF LayoutIn
    <3>3. /\ layout[f][1] \in Nat /\ layout[f][2] \in Nat
          /\ layout[g][1] \in Nat /\ layout[g][2] \in Nat
      BY <1>1, <3>1
    <3> HIDE DEF At, Here, r
    <3> QED
      BY <2>1, <3>1, <3>2, <3>3
  <2>5. Here(k) = f
    BY <2>3, <2>4
  <2>6. r[k] = fields[f][k - layout[f][1]]
    BY <1>3, <2>2, <2>3, <2>5
  <2> QED
    BY <2>1, <2>2, <2>6
<1>8. ASSUME NEW f \in DOMAIN layout PROVE HasAt(r, layout[f][1], fields[f])
  <2>1. Len(r) = n
    BY <1>6, BufferIs
  <2>2. Len(fields[f]) = layout[f][2] /\ layout[f][1] + layout[f][2] <= n
    BY <1>1, <1>2 DEF LayoutIn
  <2> HIDE DEF r
  <2> QED
    BY <1>7, <2>1, <2>2 DEF HasAt
<1>9. ASSUME NEW i \in 1..n, i <= lo \/ hi < i PROVE r[i] = b[i]
  <2>1. At(i) = {}
    <3> SUFFICES ASSUME NEW f \in At(i) PROVE FALSE
      OBVIOUS
    <3>1. f \in DOMAIN layout /\ i - layout[f][1] \in 1..layout[f][2]
      BY <1>2
    <3> QED
      BY <1>1, <1>9, <3>1 DEF LayoutIn
  <2> QED
    BY <1>3, <2>1
<1> HIDE DEF r
<1> QED
  BY <1>6, <1>8, <1>9 DEF r

LEMMA FieldsBack ==
  ASSUME NEW buf \in Seq(Byte), NEW layout, NEW lo, NEW hi, LayoutIn(layout, lo, hi),
         NEW fields, HasFields(fields, layout),
         \A f \in DOMAIN layout : HasAt(buf, layout[f][1], fields[f])
  PROVE  Reaches(buf, layout) /\ Fields(buf, layout) = fields
<1>1. ASSUME NEW f \in DOMAIN layout
      PROVE  /\ Holds(buf, layout[f][1], layout[f][2])
             /\ Slice(buf, layout[f][1], layout[f][2]) = fields[f]
  <2>1. layout[f][1] \in Nat /\ layout[f][2] \in Nat
    BY DEF LayoutIn
  <2>2. fields[f] \in Seq(Byte) /\ Len(fields[f]) = layout[f][2]
    BY <2>1, FieldIs
  <2>3. HasAt(buf, layout[f][1], fields[f])
    OBVIOUS
  <2>4. Slice(buf, layout[f][1], Len(fields[f])) = fields[f]
    BY <2>1, <2>2, <2>3, SlicedOut
  <2> QED
    BY <2>2, <2>3, <2>4 DEF HasAt, Holds
<1>2. Fields(buf, layout) = [f \in DOMAIN layout |-> fields[f]]
  BY <1>1 DEF Fields
<1>3. fields = [f \in DOMAIN layout |-> fields[f]]
  BY DEF HasFields
<1> QED
  BY <1>1, <1>2, <1>3 DEF Reaches

-----------------------------------------------------------------------------
(* Strings after their length. *)
LEMMA NumberOfOne ==
  ASSUME NEW a \in Int
  PROVE  Number(<<a>>) = a
<1> DEFINE s == <<a>>
           Sol(f) == f = [q \in SUBSET DOMAIN s |-> IF q = {} THEN 0 ELSE 256 * f[q \ {Max(q)}] + s[Max(q)]]
           w == [q \in SUBSET {1} |-> IF q = {} THEN 0 ELSE a]
<1>1. Max({1}) = 1
  BY DEF Max
<1>2. s[1] = a /\ DOMAIN s = {1}
  OBVIOUS
<1>3. {1} \ {1} = {} /\ {1} # {} /\ \A q \in SUBSET {1} : q = {} \/ q = {1}
  OBVIOUS
<1>4. w[{}] = 0 /\ w[{1}] = a
  OBVIOUS
<1> HIDE DEF s
<1>5. Sol(w)
  <2>1. ASSUME NEW q \in SUBSET {1}
        PROVE  w[q] = IF q = {} THEN 0 ELSE 256 * w[q \ {Max(q)}] + s[Max(q)]
    <3> HIDE DEF w
    <3>1. CASE q = {}
      BY <1>4, <3>1
    <3>2. CASE q = {1}
      BY <1>1, <1>2, <1>3, <1>4, <3>2
    <3> QED
      BY <1>3, <3>1, <3>2
  <2>2. w = [q \in SUBSET {1} |-> w[q]]
    OBVIOUS
  <2> HIDE DEF w
  <2>3. w = [q \in SUBSET {1} |-> IF q = {} THEN 0 ELSE 256 * w[q \ {Max(q)}] + s[Max(q)]]
    BY <2>1, <2>2
  <2> QED
    BY <1>2, <2>3
<1>6. PICK it : Number(s) = it[DOMAIN s] /\ it = CHOOSE f : Sol(f)
  BY NumberUnfolds, Zenon
<1> HIDE DEF w
<1>7. Sol(it)
  <2> HIDE DEF Sol
  <2> QED
    BY <1>5, <1>6, Zenon
<1>8. it[{}] = 0 /\ it[{1}] = 256 * it[{1} \ {Max({1})}] + s[Max({1})]
  <2>1. \A q \in SUBSET DOMAIN s :
          it[q] = IF q = {} THEN 0 ELSE 256 * it[q \ {Max(q)}] + s[Max(q)]
    BY <1>7
  <2>2. {} \in SUBSET DOMAIN s /\ {1} \in SUBSET DOMAIN s
    BY <1>2
  <2> QED
    BY <1>3, <2>1, <2>2
<1>9. it[{1}] = a
  BY <1>1, <1>2, <1>3, <1>8
<1> QED
  BY <1>2, <1>6, <1>9 DEF s

(* The bytes of a string's length. *)
Width(w, n) == (w = 1 /\ n < 256) \/ (w = 2 /\ n < 65536)
LengthBytes(w, n) == IF w = 1 THEN <<n % 256>> ELSE Bytes16(n)

LEMMA LengthIs ==
  ASSUME NEW w \in {1, 2}, NEW n \in Nat
  PROVE  LET s == LengthBytes(w, n)
         IN  s \in Seq(Byte) /\ Len(s) = w
<1>1. CASE w = 1
  <2>1. n % 256 \in Byte
    BY DEF Byte
  <2> HIDE DEF Byte
  <2> QED
    BY <1>1, <2>1 DEF LengthBytes
<1>2. CASE w = 2
  <2>1. (n \div 256) % 256 \in Byte /\ n % 256 \in Byte
    BY DEF Byte
  <2> HIDE DEF Byte
  <2> QED
    BY <1>2, <2>1 DEF LengthBytes, Bytes16
<1> QED
  BY <1>1, <1>2

LEMMA LengthBack ==
  ASSUME NEW w, NEW n \in Nat, Width(w, n)
  PROVE  Number(LengthBytes(w, n)) = n
<1>1. CASE w = 1
  <2>1. n % 256 = n /\ n \in Int
    BY <1>1 DEF Width
  <2> QED
    BY <1>1, <2>1, NumberOfOne DEF LengthBytes
<1>2. CASE w = 2
  <2>1. n < 65536
    BY <1>2 DEF Width
  <2> QED
    BY <1>2, <2>1, NumberOfBytes16 DEF LengthBytes
<1> QED
  BY <1>1, <1>2 DEF Width

LEMMA StrIs ==
  ASSUME NEW w \in {1, 2}, NEW text \in Seq(Byte)
  PROVE  /\ Str(w, text) = LengthBytes(w, Len(text)) \o text
         /\ Str(w, text) \in Seq(Byte) /\ Len(Str(w, text)) = w + Len(text)
         /\ Len(text) \in Nat
<1>1. Len(text) \in Nat
  OBVIOUS
<1>2. PICK s : s = LengthBytes(w, Len(text))
  OBVIOUS
<1>3. s \in Seq(Byte) /\ Len(s) = w
  BY <1>1, <1>2, LengthIs
<1>4. Str(w, text) = s \o text
  BY <1>2 DEF Str, LengthBytes
<1>5. s \o text \in Seq(Byte) /\ Len(s \o text) = w + Len(text)
  <2> HIDE DEF Byte
  <2> QED
    BY <1>1, <1>3
<1> QED
  BY <1>1, <1>2, <1>3, <1>4, <1>5

LEMMA StrBack ==
  ASSUME NEW buf \in Seq(Byte), NEW off \in Nat, NEW w, NEW text \in Texts,
         Width(w, Len(text)), HasAt(buf, off, Str(w, text))
  PROVE  StrAt(buf, off, w) = [text |-> text, next |-> off + w + Len(text)]
<1>1. text \in Seq(Byte) /\ Utf8(text)
  BY DEF Texts, Byte
<1>2. /\ Str(w, text) = LengthBytes(w, Len(text)) \o text
      /\ Len(text) \in Nat /\ w \in {1, 2}
  <2>1. w \in {1, 2}
    BY DEF Width
  <2> QED
    BY <1>1, <2>1, StrIs
<1> DEFINE s == LengthBytes(w, Len(text))
<1>3. s \in Seq(Byte) /\ Len(s) = w /\ Number(s) = Len(text)
  BY <1>2, LengthIs, LengthBack
<1> HIDE DEF s
<1>4. HasAt(buf, off, s) /\ HasAt(buf, off + w, text)
  <2>1. HasAt(buf, off, s \o text)
    BY <1>2 DEF s
  <2> QED
    BY <1>1, <1>3, <2>1, ContainsBoth
<1>5. Slice(buf, off, w) = s /\ Slice(buf, off + w, Len(text)) = text
  <2>1. Slice(buf, off, Len(s)) = s
    BY <1>3, <1>4, SlicedOut
  <2>2. off + w \in Nat
    BY <1>2
  <2>3. Slice(buf, off + w, Len(text)) = text
    BY <1>1, <1>4, <2>2, SlicedOut
  <2> QED
    BY <1>3, <2>1, <2>3
<1>6. off # Beyond /\ Holds(buf, off, w) /\ Holds(buf, off + w, Len(text))
  BY <1>3, <1>4 DEF HasAt, Holds, Beyond
<1>7. Number(Slice(buf, off, w)) = Len(text)
  BY <1>3, <1>5
<1> QED
  BY <1>1, <1>5, <1>6, <1>7, Zenon DEF StrAt

-----------------------------------------------------------------------------
(* Packets of fixed width. *)
LEMMA Layouts ==
  /\ LayoutIn(KeepAliveLayout, 3, 6) /\ LayoutIn(CommandLayout, 3, 13)
  /\ LayoutIn(TelemetryLayout, 3, 15) /\ LayoutIn(DiscoveryLayout, 3, 12)
  /\ LayoutIn(HeartbeatLayout, 3, 38) /\ LayoutIn(GamepadLayout, 3, 65)
<1>1. LayoutIn(KeepAliveLayout, 3, 6)
  BY DEF LayoutIn, KeepAliveLayout
<1>2. LayoutIn(CommandLayout, 3, 13)
  BY DEF LayoutIn, CommandLayout
<1>3. LayoutIn(TelemetryLayout, 3, 15)
  BY DEF LayoutIn, TelemetryLayout
<1>4. LayoutIn(DiscoveryLayout, 3, 12)
  BY DEF LayoutIn, DiscoveryLayout
<1>5. LayoutIn(HeartbeatLayout, 3, 38)
  BY DEF LayoutIn, HeartbeatLayout
<1>6. LayoutIn(GamepadLayout, 3, 65)
  BY DEF LayoutIn, GamepadLayout
<1> QED
  BY <1>1, <1>2, <1>3, <1>4, <1>5, <1>6

(* A buffer that begins with a packet's kind and holds its fields.          *)
Carries(s, n, uid, layout, fields) ==
  /\ s \in [1..n -> Byte] /\ s[1] = uid
  /\ \A f \in DOMAIN layout : HasAt(s, layout[f][1], fields[f])

LEMMA HeaderCarries ==
  ASSUME NEW uid \in Byte, NEW k \in Nat, NEW layout, NEW hi, LayoutIn(layout, 3, hi),
         hi <= 5 + k, NEW fields, HasFields(fields, layout)
  PROVE  Carries(Filled(Header(uid, k), layout, fields), 5 + k, uid, layout, fields)
<1> DEFINE b == Header(uid, k)
           r == Filled(b, layout, fields)
<1>1. PICK n, lo : n = 5 + k /\ lo = 3
  OBVIOUS
<1>2. n \in Nat /\ hi <= n /\ b \in [1..n -> Byte] /\ b[1] = uid /\ LayoutIn(layout, lo, hi)
  <2>1. b \in [1..(5 + k) -> Byte] /\ b[1] = uid
    BY HeaderIs
  <2> HIDE DEF b
  <2> QED
    BY <1>1, <2>1
<1> HIDE DEF b
<1>3. /\ r \in [1..n -> Byte]
      /\ \A f \in DOMAIN layout : HasAt(r, layout[f][1], fields[f])
      /\ \A i \in 1..n : i <= lo \/ hi < i => r[i] = b[i]
  BY <1>2, FilledIs
<1> HIDE DEF r
<1>4. r[1] = uid
  BY <1>1, <1>2, <1>3
<1> QED
  BY <1>1, <1>3, <1>4 DEF Carries, r, b

LEMMA PutCarries ==
  ASSUME NEW n \in Nat, NEW s, NEW uid, NEW layout, NEW fields, n > 0,
         Carries(s, n, uid, layout, fields), HasFields(fields, layout),
         NEW off \in Nat, off > 0, NEW t \in Seq(Byte), off + Len(t) <= n,
         \A f \in DOMAIN layout :
           /\ layout[f][1] \in Nat /\ layout[f][2] \in Nat
           /\ layout[f][1] + layout[f][2] <= off \/ off + Len(t) <= layout[f][1]
  PROVE  Carries(Put(s, off, t), n, uid, layout, fields) /\ HasAt(Put(s, off, t), off, t)
<1> DEFINE r == Put(s, off, t)
<1>1. s \in [1..n -> Byte] /\ s[1] = uid /\ Len(t) \in Nat
  BY DEF Carries
<1>2. /\ r \in [1..n -> Byte]
      /\ \A i \in 1..n : r[i] = IF i - off \in 1..Len(t) THEN t[i - off] ELSE s[i]
  <2>1. IsPut(r, n, s, off, t)
    BY <1>1, PutIs
  <2> HIDE DEF r
  <2> QED
    BY <2>1 DEF IsPut
<1>3. HasAt(r, off, t)
  BY <1>1, PutContains
<1>4. ASSUME NEW f \in DOMAIN layout PROVE HasAt(r, layout[f][1], fields[f])
  <2>1. PICK at, u : at = layout[f][1] /\ u = fields[f]
    OBVIOUS
  <2>2. layout[f][2] \in Nat
    OBVIOUS
  <2>3. at \in Nat /\ u \in Seq(Byte) /\ Len(u) = layout[f][2]
    BY <2>1, <2>2, FieldIs
  <2>4. HasAt(s, at, u)
    BY <2>1 DEF Carries
  <2>5. at + Len(u) <= off \/ off + Len(t) <= at
    BY <2>1, <2>3
  <2> QED
    BY <1>1, <2>1, <2>3, <2>4, <2>5, PutElsewhere
<1>5. r[1] = uid
  BY <1>1, <1>2
<1> HIDE DEF r
<1> QED
  BY <1>2, <1>3, <1>4, <1>5 DEF Carries, r

ReadsAs(s, n, uid, layout, fields) ==
  /\ s \in Seq(Byte) /\ Len(s) = n /\ s # <<>> /\ s[1] = uid
  /\ Reaches(s, layout) /\ Fields(s, layout) = fields

LEMMA CarriedBack ==
  ASSUME NEW n \in Nat, n > 0, NEW s, NEW uid, NEW layout, NEW fields, NEW hi,
         LayoutIn(layout, 3, hi), Carries(s, n, uid, layout, fields), HasFields(fields, layout)
  PROVE  ReadsAs(s, n, uid, layout, fields)
<1>1. s \in [1..n -> Byte] /\ s[1] = uid
  BY DEF Carries
<1>2. s \in Seq(Byte) /\ Len(s) = n
  BY <1>1, BufferIs
<1>3. PICK lo : lo = 3
  OBVIOUS
<1>4. LayoutIn(layout, lo, hi) /\ \A f \in DOMAIN layout : HasAt(s, layout[f][1], fields[f])
  BY <1>3 DEF Carries
<1>5. Reaches(s, layout) /\ Fields(s, layout) = fields
  BY <1>2, <1>4, FieldsBack
<1> QED
  BY <1>1, <1>2, <1>5 DEF ReadsAs

(* What every packet becomes, and is read as. *)
Survives(p) ==
  /\ Serialize(p) \in Seq(Byte) /\ Len(Serialize(p)) > 0
  /\ Serialize(p)[1] = 5 => p.kind = "telemetry"
  /\ Encodable(p) => Parse(Serialize(p)) = p

LEMMA KeepAliveSurvives ==
  ASSUME NEW p, p.kind = "keepalive", IsPacket(p) PROVE Survives(p)
<1> DEFINE s == Serialize(p)
<1>1. p = [kind |-> "keepalive", fields |-> p.fields] /\ HasFields(p.fields, KeepAliveLayout)
  BY DEF IsPacket
<1>2. s = Filled(Header(6, 1), KeepAliveLayout, p.fields)
  BY DEF Serialize, SerializeKeepAlive
<1>3. Carries(s, 6, 6, KeepAliveLayout, p.fields)
  <2>1. 6 \in Byte /\ 1 \in Nat /\ 6 <= 5 + 1 /\ 5 + 1 = 6
    BY DEF Byte
  <2> QED
    BY <1>1, <1>2, <2>1, Layouts, HeaderCarries
<1> HIDE DEF s
<1>4. ReadsAs(s, 6, 6, KeepAliveLayout, p.fields)
  <2>1. /\ 6 \in Nat /\ 6 > 0 /\ LayoutIn(KeepAliveLayout, 3, 6)
        /\ Carries(s, 6, 6, KeepAliveLayout, p.fields) /\ HasFields(p.fields, KeepAliveLayout)
    BY <1>1, <1>3, Layouts
  <2> QED
    BY <2>1, CarriedBack, Zenon
<1>5. Parse(s) = p
  BY <1>1, <1>4 DEF ReadsAs, Parse, ParseKeepAlive
<1> QED
  BY <1>4, <1>5 DEF ReadsAs, Survives, s

LEMMA DiscoverySurvives ==
  ASSUME NEW p, p.kind = "discovery", IsPacket(p) PROVE Survives(p)
<1> DEFINE s == Serialize(p)
           b == Put(Zeros(13), 0, <<3>> \o Bytes16(10))
<1>1. /\ p = [kind |-> "discovery", fields |-> p.fields]
      /\ HasFields(p.fields, DiscoveryLayout) /\ PeerType(p.fields) = p.fields
  BY DEF IsPacket
<1>2. s = Filled(b, DiscoveryLayout, p.fields)
  BY DEF Serialize, SerializeDiscovery
<1>3. b \in [1..13 -> Byte] /\ b[1] = 3
  <2> DEFINE t == <<3>> \o Bytes16(10)
  <2>1. Zeros(13) \in [1..13 -> Byte]
    BY DEF Zeros, Byte
  <2>2. t \in Seq(Byte) /\ Len(t) = 3 /\ t[1] = 3
    <3>1. (10 \div 256) % 256 \in Byte /\ 10 % 256 \in Byte /\ 3 \in Byte
      BY DEF Byte
    <3> HIDE DEF Byte
    <3> QED
      BY <3>1 DEF Bytes16
  <2> HIDE DEF t
  <2>3. IsPut(b, 13, Zeros(13), 0, t)
    BY <2>1, <2>2, PutIs DEF t
  <2> HIDE DEF b
  <2> QED
    BY <2>2, <2>3 DEF IsPut
<1> HIDE DEF b
<1>4. Carries(s, 13, 3, DiscoveryLayout, p.fields)
  <2>1. PICK n, lo, hi : n = 13 /\ lo = 3 /\ hi = 12
    OBVIOUS
  <2>2. /\ s \in [1..n -> Byte]
        /\ \A f \in DOMAIN DiscoveryLayout : HasAt(s, DiscoveryLayout[f][1], p.fields[f])
        /\ \A i \in 1..n : i <= lo \/ hi < i => s[i] = b[i]
    <3>1. n \in Nat /\ hi <= n /\ b \in [1..n -> Byte] /\ LayoutIn(DiscoveryLayout, lo, hi)
      BY <1>3, <2>1, Layouts
    <3> QED
      BY <1>1, <1>2, <3>1, FilledIs
  <2>3. s[1] = 3
    BY <1>3, <2>1, <2>2
  <2> QED
    BY <2>1, <2>2, <2>3 DEF Carries
<1> HIDE DEF s
<1>5. ReadsAs(s, 13, 3, DiscoveryLayout, p.fields)
  <2>1. /\ 13 \in Nat /\ 13 > 0 /\ LayoutIn(DiscoveryLayout, 3, 12)
        /\ Carries(s, 13, 3, DiscoveryLayout, p.fields) /\ HasFields(p.fields, DiscoveryLayout)
    BY <1>1, <1>4, Layouts
  <2> QED
    BY <2>1, CarriedBack, Zenon
<1>6. Parse(s) = p
  BY <1>1, <1>5 DEF ReadsAs, Parse, ParseDiscovery
<1> QED
  BY <1>5, <1>6 DEF ReadsAs, Survives, s

-----------------------------------------------------------------------------
(* Packets with text. *)
LEMMA HeartbeatSurvives ==
  ASSUME NEW p, p.kind = "heartbeat", IsPacket(p) PROVE Survives(p)
<1> DEFINE s == Serialize(p)
           tz == p.timezone_id
           L == HeartbeatLayout
           k == 34 + Len(tz)
           n == 5 + k
           t == Str(1, tz)
           b == Filled(Header(1, k), L, p.fields)
<1>1. /\ p = [kind |-> "heartbeat", fields |-> p.fields, timezone_id |-> tz]
      /\ HasFields(p.fields, L) /\ RobotState(p.fields) = p.fields
      /\ tz \in Texts
  BY DEF IsPacket
<1>2. tz \in Seq(Byte)
  BY <1>1 DEF Texts, Byte
<1>3. t \in Seq(Byte) /\ Len(t) = 1 + Len(tz) /\ Len(tz) \in Nat
  BY <1>2, StrIs
<1>4. s = Put(b, 38, t)
  BY DEF Serialize, SerializeHeartbeat
<1>5. n \in Nat /\ n > 0 /\ k \in Nat /\ 38 + Len(t) = n /\ 38 <= n
  BY <1>3
<1>6. \A f \in DOMAIN L : /\ L[f][1] \in Nat /\ L[f][2] \in Nat
                          /\ L[f][1] + L[f][2] <= 38
  BY Layouts DEF LayoutIn
<1> HIDE DEF L, t, tz, k
<1>7. Carries(b, n, 1, L, p.fields)
  <2>1. /\ 1 \in Byte /\ k \in Nat /\ LayoutIn(L, 3, 38) /\ 38 <= 5 + k
        /\ HasFields(p.fields, L)
    BY <1>1, <1>5, Layouts DEF Byte, L
  <2> QED
    BY <2>1, HeaderCarries, Zenon
<1> HIDE DEF b, n
<1>8. Carries(s, n, 1, L, p.fields) /\ HasAt(s, 38, t)
  <2>1. PICK off : off = 38
    OBVIOUS
  <2>2. /\ off \in Nat /\ off > 0 /\ off + Len(t) <= n
        /\ \A f \in DOMAIN L : /\ L[f][1] \in Nat /\ L[f][2] \in Nat
                               /\ L[f][1] + L[f][2] <= off \/ off + Len(t) <= L[f][1]
    BY <1>5, <1>6, <2>1
  <2>3. Carries(Put(b, off, t), n, 1, L, p.fields) /\ HasAt(Put(b, off, t), off, t)
    BY <1>1, <1>3, <1>5, <1>7, <2>2, PutCarries
  <2> QED
    BY <1>4, <2>1, <2>3
<1> HIDE DEF s
<1>9. ReadsAs(s, n, 1, L, p.fields)
  <2>1. n \in Nat /\ n > 0 /\ LayoutIn(L, 3, 38) /\ Carries(s, n, 1, L, p.fields) /\ HasFields(p.fields, L)
    BY <1>1, <1>5, <1>8, Layouts DEF L
  <2> QED
    BY <2>1, CarriedBack, Zenon
<1>10. ASSUME Encodable(p) PROVE Parse(s) = p
  <2>1. Width(1, Len(tz))
    BY <1>10 DEF Encodable, Width, tz
  <2>2. StrAt(s, 38, 1) = [text |-> tz, next |-> 38 + 1 + Len(tz)]
    <3>1. s \in Seq(Byte) /\ 38 \in Nat /\ tz \in Texts /\ Width(1, Len(tz)) /\ HasAt(s, 38, Str(1, tz))
      BY <1>1, <1>8, <1>9, <2>1 DEF ReadsAs, t
    <3> QED
      BY <3>1, StrBack, Zenon
  <2>3. StrAt(s, 38, 1).text = tz /\ StrAt(s, 38, 1).next # Beyond
    BY <1>3, <2>2 DEF Beyond
  <2>4. Reaches(s, HeartbeatLayout) /\ Fields(s, HeartbeatLayout) = p.fields
    BY <1>9 DEF ReadsAs, L
  <2>5. ParseHeartbeat(s) = p
    BY <1>1, <2>3, <2>4 DEF ParseHeartbeat
  <2>6. s # <<>> /\ s[1] = 1
    BY <1>9 DEF ReadsAs
  <2> QED
    BY <2>5, <2>6 DEF Parse
<1> QED
  BY <1>5, <1>9, <1>10 DEF ReadsAs, Survives, s

LEMMA CommandSurvives ==
  ASSUME NEW p, p.kind = "command", IsPacket(p) PROVE Survives(p)
<1> DEFINE s == Serialize(p)
           L == CommandLayout
           name == Str(2, p.name)
           extra == IF p.acknowledged THEN <<>> ELSE Str(2, p.extra)
           rest == name \o extra
           k == 9 + Len(rest)
           n == 5 + k
           ack == <<IF p.acknowledged THEN 1 ELSE 0>>
           t == ack \o rest
           b == Filled(Header(4, k), L, p.fields)
<1>1. /\ p = [kind |-> "command", fields |-> p.fields, acknowledged |-> p.acknowledged,
             name |-> p.name, extra |-> p.extra]
      /\ HasFields(p.fields, L) /\ p.acknowledged \in BOOLEAN
      /\ p.name \in Texts /\ p.extra \in Texts
  BY DEF IsPacket
<1>2. p.name \in Seq(Byte) /\ p.extra \in Seq(Byte)
  BY <1>1 DEF Texts, Byte
<1>3. /\ name \in Seq(Byte) /\ Len(name) = 2 + Len(p.name) /\ Len(p.name) \in Nat
      /\ Str(2, p.extra) \in Seq(Byte)
  BY <1>2, StrIs
<1>4. s = Put(b, 13, t)
  BY Zenon DEF Serialize, SerializeCommand
<1>5. extra \in Seq(Byte)
  <2>1. <<>> \in Seq(Byte)
    OBVIOUS
  <2> QED
    BY <1>3, <2>1
<1>6. ack \in Seq(Byte) /\ Len(ack) = 1
  <2>1. PICK x : x = IF p.acknowledged THEN 1 ELSE 0
    OBVIOUS
  <2>2. x \in Byte
    BY <2>1 DEF Byte
  <2> HIDE DEF Byte
  <2> QED
    BY <2>1, <2>2
<1> HIDE DEF name, extra, ack
<1>7. rest \in Seq(Byte) /\ Len(rest) \in Nat
  <2> HIDE DEF Byte
  <2> QED
    BY <1>3, <1>5
<1> HIDE DEF rest
<1>8. t \in Seq(Byte) /\ Len(t) = 1 + Len(rest)
  <2>1. Follows(Byte, ack \o rest, ack, rest)
    BY <1>6, <1>7, Joined
  <2> QED
    BY <1>6, <2>1 DEF Follows
<1>9. n \in Nat /\ n > 0 /\ k \in Nat /\ 13 + Len(t) = n /\ 13 <= n
  BY <1>7, <1>8
<1>10. \A f \in DOMAIN L : /\ L[f][1] \in Nat /\ L[f][2] \in Nat
                           /\ L[f][1] + L[f][2] <= 13
  BY Layouts DEF LayoutIn
<1> HIDE DEF L, t, k
<1>11. Carries(b, n, 4, L, p.fields)
  <2>1. /\ 4 \in Byte /\ k \in Nat /\ LayoutIn(L, 3, 13) /\ 13 <= 5 + k
        /\ HasFields(p.fields, L)
    BY <1>1, <1>9, Layouts DEF Byte, L
  <2> QED
    BY <2>1, HeaderCarries, Zenon
<1> HIDE DEF b, n
<1>12. Carries(s, n, 4, L, p.fields) /\ HasAt(s, 13, t)
  <2>1. PICK off : off = 13
    OBVIOUS
  <2>2. /\ off \in Nat /\ off > 0 /\ off + Len(t) <= n
        /\ \A f \in DOMAIN L : /\ L[f][1] \in Nat /\ L[f][2] \in Nat
                               /\ L[f][1] + L[f][2] <= off \/ off + Len(t) <= L[f][1]
    BY <1>9, <1>10, <2>1
  <2>3. Carries(Put(b, off, t), n, 4, L, p.fields) /\ HasAt(Put(b, off, t), off, t)
    BY <1>1, <1>8, <1>9, <1>11, <2>2, PutCarries
  <2> QED
    BY <1>4, <2>1, <2>3
<1> HIDE DEF s
<1>13. ReadsAs(s, n, 4, L, p.fields)
  <2>1. n \in Nat /\ n > 0 /\ LayoutIn(L, 3, 13) /\ Carries(s, n, 4, L, p.fields) /\ HasFields(p.fields, L)
    BY <1>1, <1>9, <1>12, Layouts DEF L
  <2> QED
    BY <2>1, CarriedBack, Zenon
<1>14. ASSUME Encodable(p) PROVE Parse(s) = p
  <2>1. /\ Width(2, Len(p.name)) /\ Width(2, Len(p.extra))
        /\ p.acknowledged => p.extra = <<>>
    BY <1>14 DEF Encodable, Width
  <2>2. HasAt(s, 13, ack) /\ HasAt(s, 13 + 1, rest)
    <3>1. s \in Seq(Byte) /\ 13 \in Nat /\ HasAt(s, 13, ack \o rest)
      BY <1>12, <1>13 DEF ReadsAs, t
    <3>2. HasAt(s, 13, ack) /\ HasAt(s, 13 + Len(ack), rest)
      BY <1>6, <1>7, <3>1, ContainsBoth, Zenon
    <3> QED
      BY <1>6, <3>2
  <2>3. HasAt(s, 14, name) /\ HasAt(s, 14 + 2 + Len(p.name), extra)
    <3>1. s \in Seq(Byte) /\ 14 \in Nat /\ HasAt(s, 14, name \o extra)
      BY <1>13, <2>2 DEF ReadsAs, rest
    <3>2. HasAt(s, 14, name) /\ HasAt(s, 14 + Len(name), extra)
      BY <1>3, <1>5, <3>1, ContainsBoth, Zenon
    <3>3. 14 + Len(name) = 14 + 2 + Len(p.name)
      BY <1>3
    <3> QED
      BY <3>2, <3>3
  <2>4. StrAt(s, 14, 2) = [text |-> p.name, next |-> 14 + 2 + Len(p.name)]
    <3>1. /\ s \in Seq(Byte) /\ 14 \in Nat /\ p.name \in Texts
          /\ Width(2, Len(p.name)) /\ HasAt(s, 14, Str(2, p.name))
      BY <1>1, <1>13, <2>1, <2>3 DEF ReadsAs, name
    <3> QED
      BY <3>1, StrBack, Zenon
  <2>5. StrAt(s, 14, 2).text = p.name /\ StrAt(s, 14, 2).next = 14 + 2 + Len(p.name)
    BY <2>4
  <2>6. Fields(s, CommandLayout) = p.fields
    BY <1>13 DEF ReadsAs, L
  <2>7. Slice(s, 13, 1) = ack
    <3>1. s \in Seq(Byte) /\ 13 \in Nat /\ ack \in Seq(Byte) /\ HasAt(s, 13, ack)
      BY <1>6, <1>13, <2>2 DEF ReadsAs
    <3>2. Slice(s, 13, Len(ack)) = ack
      BY <3>1, SlicedOut, Zenon
    <3> QED
      BY <1>6, <3>2
  <2>8. (Slice(s, 13, 1) # <<0>>) <=> p.acknowledged
    <3>1. CASE p.acknowledged
      <4>1. ack = <<1>>
        BY <3>1 DEF ack
      <4>2. <<1>> # <<0>>
        OBVIOUS
      <4> QED
        BY <2>7, <3>1, <4>1, <4>2
    <3>2. CASE ~p.acknowledged
      BY <2>7, <3>2 DEF ack
    <3> QED
      BY <3>1, <3>2
  <2>9. PICK a, e : /\ a = (Slice(s, 13, 1) # <<0>>)
                    /\ e = IF a THEN [text |-> <<>>, next |-> 0]
                           ELSE StrAt(s, StrAt(s, 14, 2).next, 2)
    OBVIOUS
  <2>10. a = p.acknowledged
    BY <1>1, <2>8, <2>9, Zenon
  <2>11. e.next # Beyond /\ e.text = p.extra
    <3>1. CASE p.acknowledged
      <4>1. e = [text |-> <<>>, next |-> 0]
        BY <2>9, <2>10, <3>1, Zenon
      <4> QED
        BY <2>1, <3>1, <4>1 DEF Beyond
    <3>2. CASE ~p.acknowledged
      <4>1. e = StrAt(s, 14 + 2 + Len(p.name), 2)
        BY <2>5, <2>9, <2>10, <3>2, Zenon
      <4>2. PICK off : off = 14 + 2 + Len(p.name)
        OBVIOUS
      <4>3. /\ s \in Seq(Byte) /\ off \in Nat /\ p.extra \in Texts
            /\ Width(2, Len(p.extra)) /\ HasAt(s, off, Str(2, p.extra))
        BY <1>1, <1>3, <1>13, <2>1, <2>3, <3>2, <4>2 DEF ReadsAs, extra
      <4>4. StrAt(s, off, 2) = [text |-> p.extra, next |-> off + 2 + Len(p.extra)]
        BY <4>3, StrBack, Zenon
      <4>5. Len(p.extra) \in Nat
        BY <1>2
      <4>6. e = [text |-> p.extra, next |-> off + 2 + Len(p.extra)]
        BY <4>1, <4>2, <4>4, Zenon
      <4>7. off + 2 + Len(p.extra) # Beyond
        <5>1. \A i, j \in Nat : i + 2 + j # Beyond
          BY DEF Beyond
        <5>2. off \in Nat
          BY <4>3
        <5> QED
          BY <4>5, <5>1, <5>2
      <4> HIDE DEF Beyond
      <4> QED
        BY <4>6, <4>7
    <3> QED
      BY <3>1, <3>2
  <2>12. ParseCommand(s) = [kind |-> "command", fields |-> Fields(s, CommandLayout),
                           acknowledged |-> a, name |-> StrAt(s, 14, 2).text, extra |-> e.text]
    <3>1. StrAt(s, 14, 2).next # Beyond /\ e.next # Beyond
      BY <1>3, <2>5, <2>11 DEF Beyond
    <3> QED
      BY <2>9, <3>1, Zenon DEF ParseCommand
  <2>13. ParseCommand(s) = p
    BY <1>1, <2>5, <2>6, <2>10, <2>11, <2>12, Zenon
  <2>14. s # <<>> /\ s[1] = 4
    BY <1>13 DEF ReadsAs
  <2> QED
    BY <2>13, <2>14 DEF Parse
<1> QED
  BY <1>9, <1>13, <1>14 DEF ReadsAs, Survives, s

-----------------------------------------------------------------------------
(* Buttons: one bit each. *)
BitsOf(P) ==
  LET Set(i) == IF i \in P THEN Bit[i] ELSE 0
  IN  Set(1) + Set(2) + Set(3) + Set(4) + Set(5) + Set(6) + Set(7) + Set(8)

LEMMA BitsAdd ==
  ASSUME NEW a \in {0, 1}, NEW b \in {0, 2}, NEW c \in {0, 4}, NEW d \in {0, 8},
         NEW e \in {0, 16}, NEW f \in {0, 32}, NEW g \in {0, 64}, NEW h \in {0, 128},
         NEW s, s = a + b + c + d + e + f + g + h
  PROVE  /\ s \in 0..255
         /\ ((s \div 1) % 2 = 1 <=> a # 0) /\ ((s \div 2) % 2 = 1 <=> b # 0)
         /\ ((s \div 4) % 2 = 1 <=> c # 0) /\ ((s \div 8) % 2 = 1 <=> d # 0)
         /\ ((s \div 16) % 2 = 1 <=> e # 0) /\ ((s \div 32) % 2 = 1 <=> f # 0)
         /\ ((s \div 64) % 2 = 1 <=> g # 0) /\ ((s \div 128) % 2 = 1 <=> h # 0)
  BY SMT

LEMMA BitsBack ==
  ASSUME NEW P
  PROVE  /\ BitsOf(P) \in Byte
         /\ \A i \in 1..8 : (BitsOf(P) \div Bit[i]) % 2 = 1 <=> i \in P
<1>1. PICK a : a = IF 1 \in P THEN 1 ELSE 0
  OBVIOUS
<1>2. PICK b : b = IF 2 \in P THEN 2 ELSE 0
  OBVIOUS
<1>3. PICK c : c = IF 3 \in P THEN 4 ELSE 0
  OBVIOUS
<1>4. PICK d : d = IF 4 \in P THEN 8 ELSE 0
  OBVIOUS
<1>5. PICK e : e = IF 5 \in P THEN 16 ELSE 0
  OBVIOUS
<1>6. PICK f : f = IF 6 \in P THEN 32 ELSE 0
  OBVIOUS
<1>7. PICK g : g = IF 7 \in P THEN 64 ELSE 0
  OBVIOUS
<1>8. PICK h : h = IF 8 \in P THEN 128 ELSE 0
  OBVIOUS
<1>9. PICK s : s = BitsOf(P)
  OBVIOUS
<1>10. s = a + b + c + d + e + f + g + h
  BY <1>1, <1>2, <1>3, <1>4, <1>5, <1>6, <1>7, <1>8, <1>9 DEF BitsOf, Bit
<1>11. /\ a \in {0, 1} /\ b \in {0, 2} /\ c \in {0, 4} /\ d \in {0, 8}
       /\ e \in {0, 16} /\ f \in {0, 32} /\ g \in {0, 64} /\ h \in {0, 128}
  BY <1>1, <1>2, <1>3, <1>4, <1>5, <1>6, <1>7, <1>8
<1>12. /\ s \in 0..255
       /\ ((s \div 1) % 2 = 1 <=> a # 0) /\ ((s \div 2) % 2 = 1 <=> b # 0)
       /\ ((s \div 4) % 2 = 1 <=> c # 0) /\ ((s \div 8) % 2 = 1 <=> d # 0)
       /\ ((s \div 16) % 2 = 1 <=> e # 0) /\ ((s \div 32) % 2 = 1 <=> f # 0)
       /\ ((s \div 64) % 2 = 1 <=> g # 0) /\ ((s \div 128) % 2 = 1 <=> h # 0)
  BY <1>10, <1>11, BitsAdd
<1>13. ASSUME NEW i \in 1..8 PROVE (s \div Bit[i]) % 2 = 1 <=> i \in P
  <2>1. CASE i = 1
    <3>1. Bit[i] = 1 /\ (a # 0 <=> i \in P)
      BY <1>1, <2>1 DEF Bit
    <3> QED
      BY <1>12, <3>1
  <2>2. CASE i = 2
    <3>1. Bit[i] = 2 /\ (b # 0 <=> i \in P)
      BY <1>2, <2>2 DEF Bit
    <3> QED
      BY <1>12, <3>1
  <2>3. CASE i = 3
    <3>1. Bit[i] = 4 /\ (c # 0 <=> i \in P)
      BY <1>3, <2>3 DEF Bit
    <3> QED
      BY <1>12, <3>1
  <2>4. CASE i = 4
    <3>1. Bit[i] = 8 /\ (d # 0 <=> i \in P)
      BY <1>4, <2>4 DEF Bit
    <3> QED
      BY <1>12, <3>1
  <2>5. CASE i = 5
    <3>1. Bit[i] = 16 /\ (e # 0 <=> i \in P)
      BY <1>5, <2>5 DEF Bit
    <3> QED
      BY <1>12, <3>1
  <2>6. CASE i = 6
    <3>1. Bit[i] = 32 /\ (f # 0 <=> i \in P)
      BY <1>6, <2>6 DEF Bit
    <3> QED
      BY <1>12, <3>1
  <2>7. CASE i = 7
    <3>1. Bit[i] = 64 /\ (g # 0 <=> i \in P)
      BY <1>7, <2>7 DEF Bit
    <3> QED
      BY <1>12, <3>1
  <2>8. CASE i = 8
    <3>1. Bit[i] = 128 /\ (h # 0 <=> i \in P)
      BY <1>8, <2>8 DEF Bit
    <3> QED
      BY <1>12, <3>1
  <2> QED
    BY <2>1, <2>2, <2>3, <2>4, <2>5, <2>6, <2>7, <2>8
<1> QED
  BY <1>9, <1>12, <1>13 DEF Byte

(* The buttons of an octet. *)
Octet(pressed, n) == {i \in 1..8 : n + i \in DOMAIN Buttons /\ Buttons[n + i] \in pressed}

LEMMA BitfieldIs ==
  ASSUME NEW pressed
  PROVE  LET s == Bitfield(pressed)
         IN  /\ s \in Seq(Byte) /\ Len(s) = 4
             /\ s[1] = BitsOf(Octet(pressed, 24)) /\ s[2] = BitsOf(Octet(pressed, 16))
             /\ s[3] = BitsOf(Octet(pressed, 8)) /\ s[4] = BitsOf(Octet(pressed, 0))
<1>1. Bitfield(pressed) = <<BitsOf(Octet(pressed, 24)), BitsOf(Octet(pressed, 16)),
                            BitsOf(Octet(pressed, 8)), BitsOf(Octet(pressed, 0))>>
  <2>1. \A n, i : i \in 1..8 => (n + i \in DOMAIN Buttons /\ Buttons[n + i] \in pressed
                                 <=> i \in Octet(pressed, n))
    BY DEF Octet
  <2> QED
    BY <2>1 DEF Bitfield, BitsOf
<1>2. \A n : BitsOf(Octet(pressed, n)) \in Byte
  BY BitsBack
<1> QED
  BY <1>1, <1>2

LEMMA PressedBack ==
  ASSUME NEW pressed, pressed \subseteq Range(Buttons)
  PROVE  Pressed(Bitfield(pressed)) = pressed
<1> DEFINE s == Bitfield(pressed)
           On(i) == (s[4 - (i - 1) \div 8] \div Bit[((i - 1) % 8) + 1]) % 2 = 1
<1>1. DOMAIN Buttons = 1..18
  BY DEF Buttons
<1>2. ASSUME NEW i \in 1..18 PROVE On(i) <=> Buttons[i] \in pressed
  <2>1. PICK o : o = (i - 1) \div 8
    OBVIOUS
  <2>2. PICK r : r = ((i - 1) % 8) + 1
    OBVIOUS
  <2>3. o \in {0, 1, 2} /\ r \in 1..8 /\ 8 * o + r = i
    BY <2>1, <2>2
  <2>4. s[4 - o] = BitsOf(Octet(pressed, 8 * o))
    <3>1. CASE o = 0
      BY <3>1, BitfieldIs
    <3>2. CASE o = 1
      BY <3>2, BitfieldIs
    <3>3. CASE o = 2
      BY <3>3, BitfieldIs
    <3> QED
      BY <2>3, <3>1, <3>2, <3>3
  <2> HIDE DEF s
  <2>5. On(i) <=> (s[4 - o] \div Bit[r]) % 2 = 1
    BY <2>1, <2>2, Zenon
  <2>6. PICK P : P = Octet(pressed, 8 * o)
    OBVIOUS
  <2>7. (BitsOf(P) \div Bit[r]) % 2 = 1 <=> r \in P
    BY <2>3, BitsBack
  <2>8. r \in P <=> Buttons[i] \in pressed
    BY <1>1, <2>3, <2>6 DEF Octet
  <2> QED
    BY <2>4, <2>5, <2>6, <2>7, <2>8, Zenon
<1>3. Pressed(s) = {Buttons[n] : n \in {i \in 1..18 : On(i)}}
  BY <1>1, Zenon DEF Pressed
<1> HIDE DEF On
<1>4. Pressed(s) = {Buttons[n] : n \in {i \in 1..18 : Buttons[i] \in pressed}}
  BY <1>2, <1>3
<1>5. \A b \in pressed : \E i \in 1..18 : b = Buttons[i]
  BY <1>1 DEF Range
<1> HIDE DEF s
<1> QED
  BY <1>4, <1>5 DEF s

LEMMA GamepadSurvives ==
  ASSUME NEW p, p.kind = "gamepad", IsPacket(p) PROVE Survives(p)
<1> DEFINE s == Serialize(p)
           L == GamepadLayout
           type == p.fields.gamepad_type
           field == Bitfield(p.buttons)
           b == Filled(Header(2, 60), L, p.fields)
           c == Put(b, 47, type)
<1>1. /\ p = [kind |-> "gamepad", fields |-> p.fields, buttons |-> p.buttons]
      /\ HasFields(p.fields, L) /\ GamepadType(p.fields) = p.fields
      /\ p.buttons \subseteq Range(Buttons)
  BY DEF IsPacket
<1>2. type \in Seq(Byte) /\ Len(type) = 1
  <2>1. "gamepad_type" \in DOMAIN L /\ L["gamepad_type"][2] = 1
    BY DEF GamepadLayout
  <2>2. PICK f, w : f = "gamepad_type" /\ w = 1
    OBVIOUS
  <2>3. f \in DOMAIN L /\ L[f][2] = w /\ w \in Nat
    BY <2>1, <2>2
  <2> HIDE DEF L
  <2>4. p.fields[f] \in Seq(Byte) /\ Len(p.fields[f]) = w
    BY <1>1, <2>3, FieldIs
  <2> QED
    BY <2>2, <2>4
<1>3. field \in Seq(Byte) /\ Len(field) = 4
  BY BitfieldIs
<1>4. s = Put(c, 42, field)
  BY Zenon DEF Serialize, SerializeGamepad, ButtonsAt
<1>5. \A f \in DOMAIN L : /\ L[f][1] \in Nat /\ L[f][2] \in Nat
                          /\ L[f][1] + L[f][2] <= 47 \/ 48 <= L[f][1]
                          /\ L[f][1] + L[f][2] <= 42 \/ 46 <= L[f][1]
  BY DEF GamepadLayout
<1> HIDE DEF L, type, field
<1>6. Carries(b, 65, 2, L, p.fields)
  <2>1. PICK k : k = 60
    OBVIOUS
  <2>2. /\ 2 \in Byte /\ k \in Nat /\ LayoutIn(L, 3, 65) /\ 65 <= 5 + k
        /\ HasFields(p.fields, L)
    BY <1>1, <2>1, Layouts DEF Byte, L
  <2>3. Carries(Filled(Header(2, k), L, p.fields), 5 + k, 2, L, p.fields)
    BY <2>2, HeaderCarries, Zenon
  <2>4. 5 + k = 65
    BY <2>1
  <2> QED
    BY <2>1, <2>3, <2>4, Zenon
<1> HIDE DEF b
<1>7. Carries(c, 65, 2, L, p.fields)
  <2>1. PICK n, off : n = 65 /\ off = 47
    OBVIOUS
  <2>2. /\ n \in Nat /\ n > 0 /\ off \in Nat /\ off > 0 /\ off + Len(type) <= n
        /\ \A f \in DOMAIN L : /\ L[f][1] \in Nat /\ L[f][2] \in Nat
                               /\ L[f][1] + L[f][2] <= off \/ off + Len(type) <= L[f][1]
    BY <1>2, <1>5, <2>1
  <2>3. Carries(Put(b, off, type), n, 2, L, p.fields)
    BY <1>1, <1>2, <1>6, <2>1, <2>2, PutCarries
  <2> QED
    BY <2>1, <2>3
<1> HIDE DEF c
<1>8. Carries(s, 65, 2, L, p.fields) /\ HasAt(s, 42, field)
  <2>1. PICK n, off : n = 65 /\ off = 42
    OBVIOUS
  <2>2. /\ n \in Nat /\ n > 0 /\ off \in Nat /\ off > 0 /\ off + Len(field) <= n
        /\ \A f \in DOMAIN L : /\ L[f][1] \in Nat /\ L[f][2] \in Nat
                               /\ L[f][1] + L[f][2] <= off \/ off + Len(field) <= L[f][1]
    BY <1>3, <1>5, <2>1
  <2>3. Carries(Put(c, off, field), n, 2, L, p.fields) /\ HasAt(Put(c, off, field), off, field)
    BY <1>1, <1>3, <1>7, <2>1, <2>2, PutCarries
  <2> QED
    BY <1>4, <2>1, <2>3
<1> HIDE DEF s
<1>9. ReadsAs(s, 65, 2, L, p.fields)
  <2>1. /\ 65 \in Nat /\ 65 > 0 /\ LayoutIn(L, 3, 65) /\ Carries(s, 65, 2, L, p.fields)
        /\ HasFields(p.fields, L)
    BY <1>1, <1>8, Layouts DEF L
  <2> QED
    BY <2>1, CarriedBack, Zenon
<1>10. Slice(s, ButtonsAt, 4) = field
  <2>1. s \in Seq(Byte) /\ 42 \in Nat /\ field \in Seq(Byte) /\ HasAt(s, 42, field)
    BY <1>3, <1>8, <1>9 DEF ReadsAs
  <2>2. Slice(s, 42, Len(field)) = field
    BY <2>1, SlicedOut, Zenon
  <2> QED
    BY <1>3, <2>2 DEF ButtonsAt
<1>11. Pressed(Slice(s, ButtonsAt, 4)) = p.buttons
  BY <1>1, <1>10, PressedBack DEF field
<1>12. ParseGamepad(s) = p
  BY <1>1, <1>9, <1>11 DEF ReadsAs, L, ParseGamepad
<1>13. Parse(s) = p
  BY <1>9, <1>12 DEF ReadsAs, Parse
<1> QED
  BY <1>9, <1>13 DEF ReadsAs, Survives, s

-----------------------------------------------------------------------------
(* Ranks in a finite set under a strict order of it. *)
Orders(R, K) ==
  /\ \A a \in K : <<a, a>> \notin R
  /\ \A a, b, c \in K : <<a, b>> \in R /\ <<b, c>> \in R => <<a, c>> \in R
  /\ \A a, b \in K : a = b \/ <<a, b>> \in R \/ <<b, a>> \in R
RankIn(R, K, k) == Cardinality({l \in K : <<l, k>> \in R})

LEMMA LowerRank ==
  ASSUME NEW K, IsFiniteSet(K), NEW R, Orders(R, K), NEW k \in K, NEW l \in K, <<l, k>> \in R
  PROVE  RankIn(R, K, l) < RankIn(R, K, k)
<1> DEFINE A == {x \in K : <<x, l>> \in R}
           B == {x \in K : <<x, k>> \in R}
<1>1. IsFiniteSet(B) /\ IsFiniteSet(A)
  BY FS_Subset
<1>2. A \subseteq B /\ l \in B /\ l \notin A
  BY DEF Orders
<1>3. Cardinality(A) \in Nat /\ Cardinality(B) \in Nat
  BY <1>1, FS_CardinalityType
<1> HIDE DEF A, B
<1>4. Cardinality(A) <= Cardinality(B) /\ Cardinality(A) # Cardinality(B)
  BY <1>1, <1>2, FS_Subset
<1> QED
  BY <1>3, <1>4 DEF RankIn, A, B

LEMMA RanksAreAll ==
  ASSUME NEW K, IsFiniteSet(K), NEW R, Orders(R, K)
  PROVE  /\ Cardinality(K) \in Nat
         /\ \A k \in K : RankIn(R, K, k) \in 0..(Cardinality(K) - 1)
         /\ \A k, l \in K : RankIn(R, K, k) = RankIn(R, K, l) => k = l
         /\ \A i \in 0..(Cardinality(K) - 1) : \E k \in K : RankIn(R, K, k) = i
<1> DEFINE N == Cardinality(K)
           T == 0..(N - 1)
           f == [k \in K |-> RankIn(R, K, k)]
<1>1. N \in Nat
  BY FS_CardinalityType
<1>2. ASSUME NEW k \in K PROVE RankIn(R, K, k) \in T
  <2> DEFINE B == {x \in K : <<x, k>> \in R}
  <2>1. B \subseteq K /\ k \notin B
    BY DEF Orders
  <2> HIDE DEF B
  <2>2. IsFiniteSet(B) /\ Cardinality(B) <= N /\ Cardinality(B) # N
    BY <2>1, FS_Subset
  <2>3. Cardinality(B) \in Nat
    BY <2>2, FS_CardinalityType
  <2>4. Cardinality(B) \in T
    BY <1>1, <2>2, <2>3
  <2> QED
    BY <2>4 DEF RankIn, B
<1>3. \A k, l \in K : RankIn(R, K, k) = RankIn(R, K, l) => k = l
  <2>1. \A k, l \in K : <<l, k>> \in R => RankIn(R, K, l) < RankIn(R, K, k)
    BY LowerRank
  <2>2. \A k \in K : RankIn(R, K, k) \in Nat
    BY <1>1, <1>2
  <2> SUFFICES ASSUME NEW k \in K, NEW l \in K, RankIn(R, K, k) = RankIn(R, K, l), k # l
               PROVE  FALSE
    OBVIOUS
  <2>3. <<k, l>> \in R \/ <<l, k>> \in R
    BY DEF Orders
  <2>4. PICK x, y : x = RankIn(R, K, k) /\ y = RankIn(R, K, l)
    OBVIOUS
  <2>5. x \in Nat /\ x = y /\ (x < y \/ y < x)
    BY <2>1, <2>2, <2>3, <2>4
  <2> QED
    BY <2>5
<1>4. IsFiniteSet(T) /\ Cardinality(T) = N
  <2>1. 0 \in Int /\ N - 1 \in Int
    BY <1>1
  <2>2. IsFiniteSet(T) /\ Cardinality(T) = IF 0 > N - 1 THEN 0 ELSE N - 1 - 0 + 1
    BY <2>1, FS_Interval
  <2> QED
    BY <1>1, <2>2
<1>5. f \in Injection(K, T)
  <2> HIDE DEF T
  <2> QED
    BY <1>2, <1>3 DEF Injection, IsInjective
<1>6. f \in Surjection(K, T)
  <2> HIDE DEF f, T, N
  <2> QED
    BY <1>4, <1>5, FS_Injection DEF N
<1>7. \A i \in T : \E k \in K : f[k] = i
  <2> HIDE DEF T, f
  <2> QED
    BY <1>6 DEF Surjection
<1> QED
  BY <1>1, <1>2, <1>3, <1>7

(* Induction on a set of numbers. *)
LEMMA UpFrom ==
  ASSUME NEW n \in Nat, NEW T, 0 \in T, \A i \in 0..n : i \in T /\ i < n => i + 1 \in T
  PROVE  \A i \in 0..n : i \in T
<1> DEFINE U == {i \in 0..n : i \notin T}
<1> SUFFICES ASSUME U # {} PROVE FALSE
  OBVIOUS
<1>1. PICK i \in U : \A j \in U : i <= j
  <2>1. U \in SUBSET Nat
    OBVIOUS
  <2> HIDE DEF U
  <2> QED
    BY <2>1, LeastNat
<1>2. i # 0 /\ i - 1 \in 0..n /\ i - 1 < n
  BY <1>1
<1>3. i - 1 \in T
  BY <1>1, <1>2
<1>4. (i - 1) + 1 \in T
  BY <1>2, <1>3
<1> QED
  BY <1>1, <1>4

(* Names are in a strict order. *)
LEMMA BeforeOrders ==
  ASSUME NEW K, K \subseteq Seq(Byte)
  PROVE  Orders({s \in K \X K : Before(s[1], s[2])}, K)
<1> DEFINE R == {s \in K \X K : Before(s[1], s[2])}
<1>1. \A a, b \in K : <<a, b>> \in R <=> Before(a, b)
  OBVIOUS
<1>2. \A a \in K : /\ Len(a) \in Nat /\ DOMAIN a = 1..Len(a)
                   /\ \A i \in 1..Len(a) : a[i] \in Int
  <2>1. ASSUME NEW a \in K
        PROVE  Len(a) \in Nat /\ DOMAIN a = 1..Len(a) /\ \A i \in 1..Len(a) : a[i] \in Int
    <3>1. a \in Seq(Byte) /\ \A x \in Byte : x \in Int
      BY DEF Byte
    <3> HIDE DEF Byte
    <3> QED
      BY <3>1
  <2> QED
    BY <2>1
<1> HIDE DEF R
<1>3. ASSUME NEW a \in K PROVE ~Before(a, a)
  BY <1>2 DEF Before
<1>4. ASSUME NEW a \in K, NEW b \in K, NEW c \in K, Before(a, b), Before(b, c)
      PROVE  Before(a, c)
  <2>1. PICK i \in DOMAIN b : /\ \A j \in 1..(i - 1) : j \in DOMAIN a /\ a[j] = b[j]
                              /\ i \in DOMAIN a => a[i] < b[i]
    BY <1>4 DEF Before
  <2>2. PICK k \in DOMAIN c : /\ \A j \in 1..(k - 1) : j \in DOMAIN b /\ b[j] = c[j]
                              /\ k \in DOMAIN b => b[k] < c[k]
    BY <1>4 DEF Before
  <2>3. i \in Nat /\ k \in Nat /\ i > 0 /\ k > 0
    BY <1>2
  <2>4. CASE i < k
    <3>1. i \in DOMAIN c /\ b[i] = c[i]
      BY <1>2, <2>2, <2>3, <2>4
    <3>2. \A j \in 1..(i - 1) : j \in DOMAIN a /\ a[j] = c[j]
      BY <2>1, <2>2, <2>3, <2>4
    <3> QED
      BY <2>1, <3>1, <3>2 DEF Before
  <2>5. CASE i = k
    <3>1. \A j \in 1..(i - 1) : j \in DOMAIN a /\ a[j] = c[j]
      BY <2>1, <2>2, <2>5
    <3>2. i \in DOMAIN a => a[i] < c[i]
      BY <1>2, <2>1, <2>2, <2>5
    <3> QED
      BY <2>2, <2>5, <3>1, <3>2 DEF Before
  <2>6. CASE k < i
    <3>1. \A j \in 1..(k - 1) : j \in DOMAIN a /\ a[j] = c[j]
      BY <2>1, <2>2, <2>3, <2>6
    <3>2. k \in DOMAIN a /\ a[k] = b[k] /\ k \in DOMAIN b
      BY <1>2, <2>1, <2>3, <2>6
    <3> QED
      BY <2>2, <3>1, <3>2 DEF Before
  <2> QED
    BY <2>3, <2>4, <2>5, <2>6
<1>5. ASSUME NEW a \in K, NEW b \in K, a # b
      PROVE  Before(a, b) \/ Before(b, a)
  <2> DEFINE Same(i) == i \in DOMAIN a /\ i \in DOMAIN b /\ a[i] = b[i]
             T == {i \in Nat : i > 0 /\ ~Same(i)}
  <2>1. T \in SUBSET Nat /\ T # {}
    <3>1. Len(a) + 1 \in Nat /\ Len(a) + 1 > 0 /\ Len(a) + 1 \notin DOMAIN a
      BY <1>2
    <3> QED
      BY <3>1
  <2>2. PICK i \in T : \A j \in T : i <= j
    <3> HIDE DEF T
    <3> QED
      BY <2>1, LeastNat
  <2>3. i \in Nat /\ i > 0 /\ ~Same(i)
    BY <2>2
  <2>4. \A j \in 1..(i - 1) : Same(j)
    BY <2>2, <2>3
  <2>5. CASE i \in DOMAIN a /\ i \in DOMAIN b
    <3>1. a[i] \in Int /\ b[i] \in Int /\ a[i] # b[i]
      BY <1>2, <2>3, <2>5
    <3>2. a[i] < b[i] \/ b[i] < a[i]
      BY <3>1
    <3> QED
      BY <2>4, <2>5, <3>2 DEF Before
  <2>6. CASE i \in DOMAIN a /\ i \notin DOMAIN b
    BY <2>4, <2>6 DEF Before
  <2>7. CASE i \notin DOMAIN a /\ i \in DOMAIN b
    BY <2>4, <2>7 DEF Before
  <2>8. CASE i \notin DOMAIN a /\ i \notin DOMAIN b
    <3>1. Len(a) = i - 1 /\ Len(b) = i - 1
      <4>1. Len(a) < i /\ Len(b) < i
        BY <1>2, <2>3, <2>8
      <4>2. i - 1 = 0 \/ (i - 1 \in DOMAIN a /\ i - 1 \in DOMAIN b)
        BY <2>3, <2>4
      <4> QED
        BY <1>2, <2>3, <4>1, <4>2
    <3>2. \A j \in 1..Len(a) : a[j] = b[j]
      BY <2>4, <3>1
    <3>3. a \in Seq(Byte) /\ b \in Seq(Byte)
      OBVIOUS
    <3>4. a = b
      <4> HIDE DEF Byte
      <4> QED
        BY <3>1, <3>2, <3>3
    <3> QED
      BY <1>5, <3>4
  <2> QED
    BY <2>5, <2>6, <2>7, <2>8
<1> QED
  BY <1>1, <1>3, <1>4, <1>5 DEF Orders, R

-----------------------------------------------------------------------------
(* What a sequence of entries becomes when they are put end to end. *)
LEMMA ContainsJoined ==
  ASSUME NEW a \in Seq(Byte), NEW b \in Seq(Byte)
  PROVE  /\ a \o b \in Seq(Byte) /\ Len(a \o b) = Len(a) + Len(b)
         /\ HasAt(a \o b, Len(a), b)
         /\ \A off \in Nat, s \in Seq(Byte) : HasAt(a, off, s) => HasAt(a \o b, off, s)
<1> DEFINE c == a \o b
<1>1. Follows(Byte, c, a, b)
  BY Joined
<1> HIDE DEF c
<1>2. /\ c \in Seq(Byte) /\ Len(a) \in Nat /\ Len(b) \in Nat /\ Len(c) = Len(a) + Len(b)
      /\ \A i \in 1..Len(a) : c[i] = a[i]
      /\ \A i \in 1..Len(b) : c[Len(a) + i] = b[i]
  BY <1>1 DEF Follows
<1>3. HasAt(c, Len(a), b)
  BY <1>2 DEF HasAt
<1>4. ASSUME NEW off \in Nat, NEW s \in Seq(Byte), HasAt(a, off, s)
      PROVE  HasAt(c, off, s)
  <2>1. Len(s) \in Nat
    OBVIOUS
  <2>2. off + Len(s) <= Len(a) /\ \A i \in 1..Len(s) : a[off + i] = s[i]
    BY <1>4 DEF HasAt
  <2>3. off + Len(s) <= Len(c)
    BY <1>2, <2>1, <2>2
  <2>4. ASSUME NEW i \in 1..Len(s) PROVE c[off + i] = s[i]
    <3>1. off + i \in 1..Len(a)
      BY <1>2, <2>1, <2>2
    <3> QED
      BY <1>2, <2>2, <3>1
  <2> QED
    BY <2>3, <2>4 DEF HasAt
<1> QED
  BY <1>2, <1>3, <1>4 DEF c

(* Where each of n entries ends in what they become. *)
Ends(e, n, flat, ends) ==
  /\ flat \in Seq(Byte) /\ ends \in [0..n -> Nat] /\ ends[0] = 0 /\ ends[n] = Len(flat)
  /\ \A i \in 1..n : ends[i] = ends[i - 1] + Len(e[i]) /\ HasAt(flat, ends[i - 1], e[i])

LEMMA Chains ==
  ASSUME NEW n \in Nat, NEW e
  PROVE  \E h : h = [i \in 1..n |-> IF i = 1 THEN e[i] ELSE h[i - 1] \o e[i]]
<1> DEFINE Sol(h, m) == h = [i \in 1..m |-> IF i = 1 THEN e[i] ELSE h[i - 1] \o e[i]]
           T == {m \in 0..n : \E h : Sol(h, m)}
<1>1. 0 \in T
  <2>1. Sol([i \in 1..0 |-> <<>>], 0)
    OBVIOUS
  <2> HIDE DEF Sol
  <2> QED
    BY <2>1
<1>2. ASSUME NEW m \in 0..n, m \in T, m < n PROVE m + 1 \in T
  <2>1. PICK h : Sol(h, m)
    BY <1>2
  <2>2. \A i \in 1..m : h[i] = IF i = 1 THEN e[i] ELSE h[i - 1] \o e[i]
    BY <2>1
  <2> DEFINE last == IF m + 1 = 1 THEN e[m + 1] ELSE h[m] \o e[m + 1]
             g == [i \in 1..(m + 1) |-> IF i = m + 1 THEN last ELSE h[i]]
  <2>3. ASSUME NEW i \in 1..(m + 1) PROVE g[i] = IF i = 1 THEN e[i] ELSE g[i - 1] \o e[i]
    <3>1. CASE i = m + 1
      <4>1. g[i] = last
        BY <3>1
      <4>2. i # 1 => i - 1 \in 1..(m + 1) /\ i - 1 # m + 1 /\ i - 1 = m
        BY <3>1
      <4>3. i # 1 => g[i - 1] = h[m]
        BY <4>2
      <4> HIDE DEF g
      <4> QED
        BY <3>1, <4>1, <4>3
    <3>2. CASE i # m + 1
      <4>1. i \in 1..m /\ (i # 1 => i - 1 \in 1..(m + 1) /\ i - 1 # m + 1)
        BY <3>2
      <4>2. g[i] = h[i] /\ (i # 1 => g[i - 1] = h[i - 1])
        BY <4>1
      <4> HIDE DEF g
      <4> QED
        BY <2>2, <4>1, <4>2
    <3> QED
      BY <3>1, <3>2
  <2>4. g = [i \in 1..(m + 1) |-> g[i]]
    OBVIOUS
  <2> HIDE DEF g
  <2>5. Sol(g, m + 1)
    BY <2>3, <2>4
  <2> HIDE DEF Sol
  <2> QED
    BY <1>2, <2>5
<1>3. n \in T
  <2> HIDE DEF T
  <2> QED
    BY <1>1, <1>2, UpFrom
<1> QED
  BY <1>3

LEMMA FlatIs ==
  ASSUME NEW n \in Nat, NEW e \in [1..n -> Seq(Byte)]
  PROVE  \E ends : Ends(e, n, FlattenSeq(e), ends)
<1> DEFINE S == Seq(Byte)
           h == CHOOSE f : f = [i \in 1..n |-> IF i = 1 THEN e[i] ELSE f[i - 1] \o e[i]]
           F == [i \in 0..n |-> IF i = 0 THEN <<>> ELSE h[i]]
           ends == [i \in 0..n |-> Len(F[i])]
<1>1. Len(e) = n /\ e \in Seq(S)
  OBVIOUS
<1>2. h = [i \in 1..n |-> IF i = 1 THEN e[i] ELSE h[i - 1] \o e[i]]
  BY Chains
<1>3. FlattenSeq(e) = F[n]
  <2>1. CASE n = 0
    <3>1. e = <<>>
      BY <1>1, <2>1
    <3> QED
      BY <1>1, <2>1, <3>1 DEF FlattenSeq
  <2>2. CASE n # 0
    <3>1. F[n] = h[n]
      BY <2>2
    <3> HIDE DEF F
    <3> QED
      BY <1>1, <2>2, <3>1, Zenon DEF FlattenSeq
  <2> QED
    BY <2>1, <2>2
<1>4. F[0] = <<>> /\ <<>> \in S /\ Len(<<>>) = 0
  OBVIOUS
<1>5. ASSUME NEW i \in 0..n, i < n, F[i] \in S PROVE F[i + 1] = F[i] \o e[i + 1]
  <2>1. i + 1 \in 1..n /\ (i + 1) - 1 = i /\ i + 1 # 0
    BY <1>5
  <2>2. F[i + 1] = h[i + 1]
    BY <2>1
  <2>3. h[i + 1] = IF i + 1 = 1 THEN e[i + 1] ELSE h[i] \o e[i + 1]
    <3> HIDE DEF h
    <3> QED
      BY <1>2, <2>1
  <2>4. e[i + 1] \in S
    BY <2>1
  <2> HIDE DEF h
  <2>5. CASE i = 0
    <3>1. F[i] = <<>>
      BY <2>5
    <3>2. <<>> \o e[i + 1] = e[i + 1]
      <4> HIDE DEF Byte
      <4> QED
        BY <2>4
    <3> HIDE DEF F
    <3> QED
      BY <2>2, <2>3, <2>5, <3>1, <3>2
  <2>6. CASE i # 0
    <3>1. F[i] = h[i] /\ i + 1 # 1
      BY <2>6
    <3> HIDE DEF F
    <3> QED
      BY <2>2, <2>3, <3>1, Zenon
  <2> QED
    BY <2>5, <2>6
<1> HIDE DEF h, F
<1>6. ASSUME NEW i \in 0..n PROVE F[i] \in S
  <2> DEFINE T == {k \in 0..n : F[k] \in S}
  <2>1. 0 \in T
    <3>1. F[0] \in S
      BY <1>4, Zenon
    <3> QED
      BY <3>1
  <2>2. ASSUME NEW k \in 0..n, k \in T, k < n PROVE k + 1 \in T
    <3>1. F[k] \in S /\ k + 1 \in 1..n /\ k + 1 \in 0..n
      BY <2>2
    <3>2. F[k + 1] = F[k] \o e[k + 1] /\ e[k + 1] \in S
      BY <1>5, <2>2, <3>1
    <3> QED
      BY <3>1, <3>2, ContainsJoined
  <2> HIDE DEF T
  <2>3. \A k \in 0..n : k \in T
    BY <2>1, <2>2, UpFrom
  <2> QED
    BY <2>3 DEF T
<1>7. \A i \in 0..n : ends[i] = Len(F[i])
  OBVIOUS
<1>8. ends \in [0..n -> Nat]
  <2>1. \A i \in 0..n : Len(F[i]) \in Nat
    BY <1>6
  <2> QED
    BY <2>1
<1> HIDE DEF ends
<1>9. ASSUME NEW k \in 0..n
      PROVE  \A i \in 1..k : HasAt(F[k], ends[i - 1], e[i])
  <2> DEFINE T == {m \in 0..n : \A i \in 1..m : HasAt(F[m], ends[i - 1], e[i])}
  <2>1. 0 \in T
    OBVIOUS
  <2>2. ASSUME NEW m \in 0..n, m \in T, m < n PROVE m + 1 \in T
    <3>1. m + 1 \in 0..n /\ m + 1 \in 1..n
      BY <2>2
    <3>2. F[m + 1] = F[m] \o e[m + 1] /\ F[m] \in S /\ e[m + 1] \in S
      BY <1>5, <1>6, <2>2, <3>1
    <3>3. /\ HasAt(F[m + 1], Len(F[m]), e[m + 1])
          /\ \A off \in Nat, s \in S : HasAt(F[m], off, s) => HasAt(F[m + 1], off, s)
      BY <3>2, ContainsJoined
    <3>4. ASSUME NEW i \in 1..(m + 1) PROVE HasAt(F[m + 1], ends[i - 1], e[i])
      <4>1. CASE i = m + 1
        <5>1. i - 1 = m
          BY <4>1
        <5> QED
          BY <1>7, <3>3, <4>1, <5>1
      <4>2. CASE i # m + 1
        <5>1. i \in 1..m /\ i \in 1..n /\ i - 1 \in 0..n
          BY <2>2, <4>2
        <5>2. ends[i - 1] \in Nat /\ e[i] \in S
          BY <1>8, <5>1
        <5>3. HasAt(F[m], ends[i - 1], e[i])
          BY <2>2, <5>1
        <5> QED
          BY <3>3, <5>2, <5>3
      <4> QED
        BY <4>1, <4>2
    <3> QED
      BY <3>1, <3>4
  <2>3. k \in T
    <3> HIDE DEF T
    <3> QED
      BY <2>1, <2>2, UpFrom
  <2> QED
    BY <2>3
<1>10. ASSUME NEW i \in 1..n PROVE ends[i] = ends[i - 1] + Len(e[i])
  <2>1. i - 1 \in 0..n /\ i - 1 < n /\ (i - 1) + 1 = i /\ i \in 0..n
    OBVIOUS
  <2>2. F[i] = F[i - 1] \o e[i] /\ F[i - 1] \in S /\ e[i] \in S
    <3>1. F[(i - 1) + 1] = F[i - 1] \o e[(i - 1) + 1]
      BY <1>5, <1>6, <2>1
    <3> QED
      BY <1>6, <2>1, <3>1
  <2>3. Len(F[i]) = Len(F[i - 1]) + Len(e[i])
    BY <2>2, ContainsJoined
  <2> QED
    BY <1>7, <2>1, <2>3
<1>11. Ends(e, n, F[n], ends)
  <2>1. n \in 0..n /\ 0 \in 0..n
    OBVIOUS
  <2>2. F[n] \in Seq(Byte) /\ ends[0] = 0 /\ ends[n] = Len(F[n])
    BY <1>4, <1>6, <1>7, <2>1
  <2>3. \A i \in 1..n : HasAt(F[n], ends[i - 1], e[i])
    BY <1>9, <2>1
  <2> QED
    BY <1>8, <1>10, <2>2, <2>3 DEF Ends
<1> QED
  BY <1>3, <1>11

-----------------------------------------------------------------------------
(* What was read after each entry. *)
StringsUpto(buf, off, n, u, end) ==
  /\ u[0] = [read |-> <<>>, next |-> off + 1] /\ u[n] = end
  /\ \A i \in 1..n : u[i] = StringAt(buf, u[i - 1])
NumbersUpto(buf, off, n, u, end) ==
  /\ u[0] = [read |-> [k \in {} |-> <<>>], next |-> off + 1] /\ u[n] = end
  /\ \A i \in 1..n : u[i] = NumberAt(buf, u[i - 1])

StringsFrom(buf, v, n, u) == u = [i \in 0..n |-> IF i = 0 THEN v ELSE StringAt(buf, u[i - 1])]

LEMMA StringsReached ==
  ASSUME NEW buf, NEW v, NEW n \in Nat
  PROVE  \E u : StringsFrom(buf, v, n, u)
<1> DEFINE Sol(u, m) == u = [i \in 0..m |-> IF i = 0 THEN v ELSE StringAt(buf, u[i - 1])]
           T == {m \in 0..n : \E u : Sol(u, m)}
<1>1. 0 \in T
  <2> DEFINE w == [i \in 0..0 |-> v]
  <2>1. \A i \in 0..0 : w[i] = IF i = 0 THEN v ELSE StringAt(buf, w[i - 1])
    OBVIOUS
  <2>2. w = [i \in 0..0 |-> w[i]]
    OBVIOUS
  <2> HIDE DEF w
  <2>3. Sol(w, 0)
    BY <2>1, <2>2
  <2> HIDE DEF Sol
  <2> QED
    BY <2>3
<1>2. ASSUME NEW m \in 0..n, m \in T, m < n PROVE m + 1 \in T
  <2>1. PICK u : Sol(u, m)
    BY <1>2
  <2>2. \A i \in 0..m : u[i] = IF i = 0 THEN v ELSE StringAt(buf, u[i - 1])
    BY <2>1
  <2> DEFINE w == [i \in 0..(m + 1) |-> IF i = m + 1 THEN StringAt(buf, u[m]) ELSE u[i]]
  <2>3. ASSUME NEW i \in 0..(m + 1) PROVE w[i] = IF i = 0 THEN v ELSE StringAt(buf, w[i - 1])
    <3>1. CASE i = m + 1
      <4>1. w[i] = StringAt(buf, u[m]) /\ i # 0
        BY <3>1
      <4>2. i - 1 \in 0..(m + 1) /\ i - 1 # m + 1 /\ i - 1 = m
        BY <3>1
      <4>3. w[i - 1] = u[m]
        BY <4>2
      <4> HIDE DEF w
      <4> QED
        BY <4>1, <4>3
    <3>2. CASE i # m + 1
      <4>1. i \in 0..m /\ (i # 0 => i - 1 \in 0..(m + 1) /\ i - 1 # m + 1)
        BY <3>2
      <4>2. w[i] = u[i] /\ (i # 0 => w[i - 1] = u[i - 1])
        BY <4>1
      <4> HIDE DEF w
      <4> QED
        BY <2>2, <4>1, <4>2
    <3> QED
      BY <3>1, <3>2
  <2>4. w = [i \in 0..(m + 1) |-> w[i]]
    OBVIOUS
  <2> HIDE DEF w
  <2>5. Sol(w, m + 1)
    BY <2>3, <2>4
  <2> HIDE DEF Sol
  <2> QED
    BY <1>2, <2>5
<1>3. n \in T
  <2> HIDE DEF T
  <2> QED
    BY <1>1, <1>2, UpFrom
<1> QED
  BY <1>3 DEF StringsFrom

LEMMA StringsUnrolled ==
  ASSUME NEW buf \in Seq(Byte), NEW off \in Nat, Holds(buf, off, 1)
  PROVE  /\ buf[off + 1] \in Nat
         /\ \E u : StringsUpto(buf, off, buf[off + 1], u, StringsAt(buf, off))
<1> DEFINE n == buf[off + 1]
           v == [read |-> <<>>, next |-> off + 1]
           u == CHOOSE f : f = [i \in 0..n |-> IF i = 0 THEN v ELSE StringAt(buf, f[i - 1])]
<1>1. n \in Nat
  <2>1. off + 1 \in 1..Len(buf)
    BY DEF Holds
  <2>2. n \in Byte
    <3> HIDE DEF Byte
    <3> QED
      BY <2>1
  <2> HIDE DEF n, u, v
  <2> QED
    BY <2>2 DEF Byte
<1>2. off # Beyond
  BY DEF Beyond
<1>3. StringsAt(buf, off) = u[n]
  BY <1>2, Zenon DEF StringsAt
<1> HIDE DEF n, v
<1>4. u = [i \in 0..n |-> IF i = 0 THEN v ELSE StringAt(buf, u[i - 1])]
  <2>1. \E f : StringsFrom(buf, v, n, f)
    BY <1>1, StringsReached, Zenon
  <2>2. u = CHOOSE f : StringsFrom(buf, v, n, f)
    BY DEF StringsFrom
  <2> HIDE DEF u
  <2>3. StringsFrom(buf, v, n, u)
    BY <2>1, <2>2, Zenon
  <2> QED
    BY <2>3 DEF StringsFrom
<1> HIDE DEF u
<1>5. u[0] = v /\ \A i \in 1..n : u[i] = StringAt(buf, u[i - 1])
  BY <1>1, <1>4
<1>6. StringsUpto(buf, off, n, u, StringsAt(buf, off))
  BY <1>3, <1>5 DEF StringsUpto, v
<1> QED
  BY <1>1, <1>6 DEF n

NumbersFrom(buf, v, n, u) == u = [i \in 0..n |-> IF i = 0 THEN v ELSE NumberAt(buf, u[i - 1])]

LEMMA NumbersReached ==
  ASSUME NEW buf, NEW v, NEW n \in Nat
  PROVE  \E u : NumbersFrom(buf, v, n, u)
<1> DEFINE Sol(u, m) == u = [i \in 0..m |-> IF i = 0 THEN v ELSE NumberAt(buf, u[i - 1])]
           T == {m \in 0..n : \E u : Sol(u, m)}
<1>1. 0 \in T
  <2> DEFINE w == [i \in 0..0 |-> v]
  <2>1. \A i \in 0..0 : w[i] = IF i = 0 THEN v ELSE NumberAt(buf, w[i - 1])
    OBVIOUS
  <2>2. w = [i \in 0..0 |-> w[i]]
    OBVIOUS
  <2> HIDE DEF w
  <2>3. Sol(w, 0)
    BY <2>1, <2>2
  <2> HIDE DEF Sol
  <2> QED
    BY <2>3
<1>2. ASSUME NEW m \in 0..n, m \in T, m < n PROVE m + 1 \in T
  <2>1. PICK u : Sol(u, m)
    BY <1>2
  <2>2. \A i \in 0..m : u[i] = IF i = 0 THEN v ELSE NumberAt(buf, u[i - 1])
    BY <2>1
  <2> DEFINE w == [i \in 0..(m + 1) |-> IF i = m + 1 THEN NumberAt(buf, u[m]) ELSE u[i]]
  <2>3. ASSUME NEW i \in 0..(m + 1) PROVE w[i] = IF i = 0 THEN v ELSE NumberAt(buf, w[i - 1])
    <3>1. CASE i = m + 1
      <4>1. w[i] = NumberAt(buf, u[m]) /\ i # 0
        BY <3>1
      <4>2. i - 1 \in 0..(m + 1) /\ i - 1 # m + 1 /\ i - 1 = m
        BY <3>1
      <4>3. w[i - 1] = u[m]
        BY <4>2
      <4> HIDE DEF w
      <4> QED
        BY <4>1, <4>3
    <3>2. CASE i # m + 1
      <4>1. i \in 0..m /\ (i # 0 => i - 1 \in 0..(m + 1) /\ i - 1 # m + 1)
        BY <3>2
      <4>2. w[i] = u[i] /\ (i # 0 => w[i - 1] = u[i - 1])
        BY <4>1
      <4> HIDE DEF w
      <4> QED
        BY <2>2, <4>1, <4>2
    <3> QED
      BY <3>1, <3>2
  <2>4. w = [i \in 0..(m + 1) |-> w[i]]
    OBVIOUS
  <2> HIDE DEF w
  <2>5. Sol(w, m + 1)
    BY <2>3, <2>4
  <2> HIDE DEF Sol
  <2> QED
    BY <1>2, <2>5
<1>3. n \in T
  <2> HIDE DEF T
  <2> QED
    BY <1>1, <1>2, UpFrom
<1> QED
  BY <1>3 DEF NumbersFrom

LEMMA NumbersUnrolled ==
  ASSUME NEW buf \in Seq(Byte), NEW off \in Nat, Holds(buf, off, 1)
  PROVE  /\ buf[off + 1] \in Nat
         /\ \E u : NumbersUpto(buf, off, buf[off + 1], u, NumbersAt(buf, off))
<1> DEFINE n == buf[off + 1]
           v == [read |-> [k \in {} |-> <<>>], next |-> off + 1]
           u == CHOOSE f : f = [i \in 0..n |-> IF i = 0 THEN v ELSE NumberAt(buf, f[i - 1])]
<1>1. n \in Nat
  <2>1. off + 1 \in 1..Len(buf)
    BY DEF Holds
  <2>2. n \in Byte
    <3> HIDE DEF Byte
    <3> QED
      BY <2>1
  <2> HIDE DEF n, u, v
  <2> QED
    BY <2>2 DEF Byte
<1>2. off # Beyond
  BY DEF Beyond
<1>3. NumbersAt(buf, off) = u[n]
  BY <1>2, Zenon DEF NumbersAt
<1> HIDE DEF n, v
<1>4. u = [i \in 0..n |-> IF i = 0 THEN v ELSE NumberAt(buf, u[i - 1])]
  <2>1. \E f : NumbersFrom(buf, v, n, f)
    BY <1>1, NumbersReached, Zenon
  <2>2. u = CHOOSE f : NumbersFrom(buf, v, n, f)
    BY DEF NumbersFrom
  <2> HIDE DEF u
  <2>3. NumbersFrom(buf, v, n, u)
    BY <2>1, <2>2, Zenon
  <2> QED
    BY <2>3 DEF NumbersFrom
<1> HIDE DEF u
<1>5. u[0] = v /\ \A i \in 1..n : u[i] = NumberAt(buf, u[i - 1])
  BY <1>1, <1>4
<1>6. NumbersUpto(buf, off, n, u, NumbersAt(buf, off))
  BY <1>3, <1>5 DEF NumbersUpto, v
<1> QED
  BY <1>1, <1>6 DEF n

LEMMA ContainsWithin ==
  ASSUME NEW a \in Seq(Byte), NEW b \in Seq(Byte), NEW s \in Seq(Byte),
         NEW off \in Nat, NEW k \in Nat, HasAt(a, off, b), HasAt(b, k, s)
  PROVE  HasAt(a, off + k, s)
<1>1. Len(s) \in Nat /\ Len(b) \in Nat /\ Len(a) \in Nat
  OBVIOUS
<1>2. off + Len(b) <= Len(a) /\ \A i \in 1..Len(b) : a[off + i] = b[i]
  BY DEF HasAt
<1>3. k + Len(s) <= Len(b) /\ \A i \in 1..Len(s) : b[k + i] = s[i]
  BY DEF HasAt
<1>4. (off + k) + Len(s) <= Len(a)
  BY <1>1, <1>2, <1>3
<1>5. ASSUME NEW i \in 1..Len(s) PROVE a[(off + k) + i] = s[i]
  <2>1. k + i \in 1..Len(b) /\ (off + k) + i = off + (k + i)
    BY <1>1, <1>3
  <2> QED
    BY <1>2, <1>3, <2>1
<1> QED
  BY <1>4, <1>5 DEF HasAt

(* A count, and as many entries. *)
EntriesIn(buf, off, n, e, ends, len) ==
  /\ ends \in [0..n -> Nat] /\ ends[0] = 0 /\ len = 1 + ends[n]
  /\ Holds(buf, off, 1) /\ buf[off + 1] = n
  /\ \A i \in 1..n : /\ ends[i] = ends[i - 1] + Len(e[i])
                     /\ HasAt(buf, off + 1 + ends[i - 1], e[i])

LEMMA CountedIs ==
  ASSUME NEW n \in Nat, NEW e \in [1..n -> Seq(Byte)]
  PROVE  Counted(e) \in Seq(Byte) /\ Len(Counted(e)) \in Nat
<1>1. PICK ends : Ends(e, n, FlattenSeq(e), ends)
  BY FlatIs
<1>2. PICK flat : flat = FlattenSeq(e)
  OBVIOUS
<1>3. flat \in Seq(Byte)
  BY <1>1, <1>2 DEF Ends
<1>4. Len(e) % 256 \in Byte
  <2>1. Len(e) = n
    OBVIOUS
  <2> QED
    BY <2>1 DEF Byte
<1>5. Counted(e) = <<Len(e) % 256>> \o flat
  BY <1>2 DEF Counted
<1>6. PICK c : c = Len(e) % 256
  OBVIOUS
<1> HIDE DEF Byte
<1> QED
  BY <1>3, <1>4, <1>5, <1>6

LEMMA FitsByte ==
  ASSUME NEW n \in Nat, n < 256
  PROVE  n % 256 = n
  OBVIOUS

LEMMA CountedBack ==
  ASSUME NEW n \in Nat, n < 256, NEW e \in [1..n -> Seq(Byte)],
         NEW buf \in Seq(Byte), NEW off \in Nat, HasAt(buf, off, Counted(e))
  PROVE  \E ends : EntriesIn(buf, off, n, e, ends, Len(Counted(e)))
<1>1. PICK ends : Ends(e, n, FlattenSeq(e), ends)
  BY FlatIs
<1>2. PICK flat : flat = FlattenSeq(e)
  OBVIOUS
<1>3. /\ flat \in Seq(Byte) /\ ends \in [0..n -> Nat] /\ ends[0] = 0 /\ ends[n] = Len(flat)
      /\ \A i \in 1..n : ends[i] = ends[i - 1] + Len(e[i]) /\ HasAt(flat, ends[i - 1], e[i])
  BY <1>1, <1>2 DEF Ends
<1>4. PICK c : c = <<n>>
  OBVIOUS
<1>5. c \in Seq(Byte) /\ Len(c) = 1 /\ c[1] = n
  <2>1. n \in Byte
    BY DEF Byte
  <2> HIDE DEF Byte
  <2> QED
    BY <1>4, <2>1
<1>6. Counted(e) = c \o flat
  <2>1. Len(e) = n
    OBVIOUS
  <2>2. n % 256 = n
    BY FitsByte
  <2> QED
    BY <1>2, <1>4, <2>1, <2>2 DEF Counted
<1>7. HasAt(buf, off, c) /\ HasAt(buf, off + 1, flat) /\ Len(Counted(e)) = 1 + Len(flat)
  <2>1. HasAt(buf, off, c \o flat)
    BY <1>6
  <2>2. HasAt(buf, off, c) /\ HasAt(buf, off + Len(c), flat)
    BY <1>3, <1>5, <2>1, ContainsBoth
  <2>3. Len(c \o flat) = 1 + Len(flat)
    BY <1>3, <1>5, ContainsJoined
  <2> QED
    BY <1>5, <1>6, <2>2, <2>3
<1>8. Holds(buf, off, 1) /\ buf[off + 1] = n
  BY <1>5, <1>7 DEF HasAt, Holds
<1>9. ASSUME NEW i \in 1..n PROVE HasAt(buf, off + 1 + ends[i - 1], e[i])
  <2>1. i - 1 \in 0..n /\ off + 1 \in Nat
    OBVIOUS
  <2>2. ends[i - 1] \in Nat /\ e[i] \in Seq(Byte) /\ HasAt(flat, ends[i - 1], e[i])
    BY <1>3, <2>1
  <2>3. PICK at, k, s : at = off + 1 /\ k = ends[i - 1] /\ s = e[i]
    OBVIOUS
  <2>4. /\ buf \in Seq(Byte) /\ flat \in Seq(Byte) /\ s \in Seq(Byte)
        /\ at \in Nat /\ k \in Nat /\ HasAt(buf, at, flat) /\ HasAt(flat, k, s)
    BY <1>3, <1>7, <2>1, <2>2, <2>3
  <2>5. HasAt(buf, at + k, s)
    BY <2>4, ContainsWithin, Zenon
  <2> QED
    BY <2>3, <2>5
<1>10. EntriesIn(buf, off, n, e, ends, Len(Counted(e)))
  BY <1>3, <1>7, <1>8, <1>9 DEF EntriesIn
<1> QED
  BY <1>10

ReadTo(end, read, next) == end.read = read /\ end.next = next /\ end = [read |-> read, next |-> next]

PairRead(buf, off, key, value, sofar) ==
  ReadTo(StringAt(buf, sofar), Append(sofar.read, <<key, value>>),
         off + Len(Str(2, key) \o Str(2, value)))

LEMMA PairBack ==
  ASSUME NEW buf \in Seq(Byte), NEW off \in Nat, NEW key \in Texts, NEW value \in Texts,
         Width(2, Len(key)), Width(2, Len(value)),
         HasAt(buf, off, Str(2, key) \o Str(2, value)), NEW sofar, sofar.next = off
  PROVE  PairRead(buf, off, key, value, sofar)
<1>1. key \in Seq(Byte) /\ value \in Seq(Byte)
  BY DEF Texts, Byte
<1>2. PICK k, v : k = Str(2, key) /\ v = Str(2, value)
  OBVIOUS
<1>3. /\ k \in Seq(Byte) /\ Len(k) = 2 + Len(key) /\ Len(key) \in Nat
      /\ v \in Seq(Byte) /\ Len(v) = 2 + Len(value) /\ Len(value) \in Nat
  BY <1>1, <1>2, StrIs
<1>4. HasAt(buf, off, k) /\ HasAt(buf, off + 2 + Len(key), v)
  <2>1. HasAt(buf, off, k) /\ HasAt(buf, off + Len(k), v)
    BY <1>2, <1>3, ContainsBoth
  <2>2. off + Len(k) = off + 2 + Len(key)
    BY <1>3
  <2> QED
    BY <2>1, <2>2
<1>5. StrAt(buf, off, 2) = [text |-> key, next |-> off + 2 + Len(key)]
  <2>1. /\ buf \in Seq(Byte) /\ off \in Nat /\ key \in Texts
        /\ Width(2, Len(key)) /\ HasAt(buf, off, Str(2, key))
    BY <1>2, <1>4
  <2> QED
    BY <2>1, StrBack, Zenon
<1>6. PICK at : at = off + 2 + Len(key)
  OBVIOUS
<1>7. StrAt(buf, at, 2) = [text |-> value, next |-> at + 2 + Len(value)]
  <2>1. /\ buf \in Seq(Byte) /\ at \in Nat /\ value \in Texts
        /\ Width(2, Len(value)) /\ HasAt(buf, at, Str(2, value))
    BY <1>2, <1>3, <1>4, <1>6
  <2> QED
    BY <2>1, StrBack, Zenon
<1>8. off + Len(k \o v) = at + 2 + Len(value)
  <2>1. Len(k \o v) = Len(k) + Len(v)
    BY <1>3, ContainsJoined
  <2> QED
    BY <1>3, <1>6, <2>1
<1>9. PICK a, b : a = StrAt(buf, off, 2) /\ b = StrAt(buf, a.next, 2)
  OBVIOUS
<1>10. a.text = key /\ a.next = at
  BY <1>5, <1>6, <1>9
<1>11. b.text = value /\ b.next = at + 2 + Len(value)
  BY <1>7, <1>9, <1>10
<1>12. StringAt(buf, sofar) = [read |-> Append(sofar.read, <<a.text, b.text>>), next |-> b.next]
  BY <1>9, Zenon DEF StringAt
<1>13. StringAt(buf, sofar) = [read |-> Append(sofar.read, <<key, value>>), next |-> at + 2 + Len(value)]
  BY <1>10, <1>11, <1>12, Zenon
<1>14. PICK r, x : r = Append(sofar.read, <<key, value>>) /\ x = at + 2 + Len(value)
  OBVIOUS
<1>15. ReadTo(StringAt(buf, sofar), r, x)
  BY <1>13, <1>14 DEF ReadTo
<1> QED
  BY <1>2, <1>8, <1>14, <1>15, Zenon DEF PairRead

ArePairs(n, strings, e) ==
  /\ strings \in Seq(Texts \X Texts) /\ Len(strings) = n
  /\ \A i \in 1..n : /\ Width(2, Len(strings[i][1])) /\ Width(2, Len(strings[i][2]))
                     /\ e[i] = StringPair(strings[i])

LEMMA StringsBack ==
  ASSUME NEW n \in Nat, n < 256, NEW e \in [1..n -> Seq(Byte)],
         NEW strings, ArePairs(n, strings, e),
         NEW buf \in Seq(Byte), NEW off \in Nat, HasAt(buf, off, Counted(e))
  PROVE  ReadTo(StringsAt(buf, off), strings, off + Len(Counted(e)))
<1>1. PICK ends : EntriesIn(buf, off, n, e, ends, Len(Counted(e)))
  BY CountedBack
<1>2. /\ ends \in [0..n -> Nat] /\ ends[0] = 0 /\ Len(Counted(e)) = 1 + ends[n]
      /\ Holds(buf, off, 1) /\ buf[off + 1] = n
      /\ \A i \in 1..n : /\ ends[i] = ends[i - 1] + Len(e[i])
                         /\ HasAt(buf, off + 1 + ends[i - 1], e[i])
  BY <1>1 DEF EntriesIn
<1>3. PICK u : StringsUpto(buf, off, n, u, StringsAt(buf, off))
  BY <1>2, StringsUnrolled
<1>4. /\ u[0] = [read |-> <<>>, next |-> off + 1] /\ u[n] = StringsAt(buf, off)
      /\ \A i \in 1..n : u[i] = StringAt(buf, u[i - 1])
  BY <1>3 DEF StringsUpto
<1> DEFINE First(i) == SubSeq(strings, 1, i)
           T == {i \in 0..n : ReadTo(u[i], First(i), off + 1 + ends[i])}
<1>5. 0 \in T
  <2>1. First(0) = <<>>
    OBVIOUS
  <2>2. off + 1 + ends[0] = off + 1
    BY <1>2
  <2> HIDE DEF First
  <2>3. ReadTo(u[0], First(0), off + 1 + ends[0])
    BY <1>4, <2>1, <2>2 DEF ReadTo
  <2> QED
    BY <2>3
<1>6. ASSUME NEW i \in 0..n, i \in T, i < n PROVE i + 1 \in T
  <2>1. i + 1 \in 1..n /\ (i + 1) - 1 = i /\ i + 1 \in 0..n
    BY <1>6
  <2>2. PICK key, value : key = strings[i + 1][1] /\ value = strings[i + 1][2]
    OBVIOUS
  <2>3. key \in Texts /\ value \in Texts /\ strings[i + 1] = <<key, value>>
    <3>1. strings[i + 1] \in Texts \X Texts
      BY <2>1 DEF ArePairs
    <3> QED
      BY <2>2, <3>1
  <2>4. Width(2, Len(key)) /\ Width(2, Len(value))
    BY <2>1, <2>2 DEF ArePairs
  <2>5. e[i + 1] = Str(2, key) \o Str(2, value)
    BY <2>1, <2>2 DEF ArePairs, StringPair
  <2>6. PICK at : at = off + 1 + ends[i]
    OBVIOUS
  <2>7. at \in Nat /\ HasAt(buf, at, e[i + 1]) /\ off + 1 + ends[i + 1] = at + Len(e[i + 1])
    <3>1. ends[i] \in Nat /\ Len(e[i + 1]) \in Nat
      <4>1. e[i + 1] \in Seq(Byte)
        BY <2>1
      <4> QED
        BY <1>2, <4>1
    <3>2. ends[i + 1] = ends[i] + Len(e[i + 1]) /\ HasAt(buf, off + 1 + ends[i], e[i + 1])
      <4>1. ends[(i + 1) - 1] = ends[i]
        BY <2>1
      <4> QED
        BY <1>2, <2>1, <4>1
    <3> QED
      BY <2>6, <3>1, <3>2
  <2>8. u[i].next = at /\ u[i].read = First(i)
    BY <1>6, <2>6 DEF ReadTo
  <2>9. u[i + 1] = StringAt(buf, u[i])
    BY <1>4, <2>1
  <2> HIDE DEF First
  <2>10. ReadTo(StringAt(buf, u[i]), Append(u[i].read, <<key, value>>), at + Len(e[i + 1]))
    <3>1. PICK sofar : sofar = u[i]
      OBVIOUS
    <3>2. /\ key \in Texts /\ value \in Texts /\ Width(2, Len(key)) /\ Width(2, Len(value))
          /\ at \in Nat /\ HasAt(buf, at, Str(2, key) \o Str(2, value)) /\ sofar.next = at
      BY <2>3, <2>4, <2>5, <2>7, <2>8, <3>1
    <3>3. PairRead(buf, at, key, value, sofar)
      BY <3>2, PairBack, Zenon
    <3> QED
      BY <2>5, <3>1, <3>3, Zenon DEF PairRead
  <2>11. First(i + 1) = Append(First(i), <<key, value>>)
    <3>1. strings \in Seq(Texts \X Texts) /\ Len(strings) = n
      BY DEF ArePairs
    <3>2. PICK S : S = Texts \X Texts
      OBVIOUS
    <3>3. First(i + 1) = Append(First(i), strings[i + 1])
      <4>1. strings \in Seq(S) /\ Len(strings) = n /\ i \in Nat /\ i + 1 <= n
        BY <1>6, <3>1, <3>2
      <4> QED
        BY <4>1 DEF First
    <3> QED
      BY <2>3, <3>3
  <2>12. ReadTo(u[i + 1], First(i + 1), off + 1 + ends[i + 1])
    BY <2>7, <2>8, <2>9, <2>10, <2>11, Zenon
  <2> QED
    BY <2>1, <2>12
<1>7. n \in T
  <2> HIDE DEF T
  <2>1. \A i \in 0..n : i \in T
    BY <1>5, <1>6, UpFrom
  <2> QED
    BY <2>1
<1>8. First(n) = strings
  <2>1. PICK S : S = Texts \X Texts
    OBVIOUS
  <2>2. strings \in Seq(S) /\ Len(strings) = n
    BY <2>1 DEF ArePairs
  <2> QED
    BY <2>2
<1>9. off + 1 + ends[n] = off + Len(Counted(e))
  <2>1. ends[n] \in Nat
    BY <1>2
  <2> QED
    BY <1>2, <2>1
<1>10. ReadTo(u[n], First(n), off + 1 + ends[n])
  BY <1>7
<1> HIDE DEF First
<1> QED
  BY <1>4, <1>8, <1>9, <1>10, Zenon

-----------------------------------------------------------------------------
(* Numbers by name: every name once. *)
Named(numbers, n, name, e) ==
  /\ name \in [1..n -> DOMAIN numbers]
  /\ \A k \in DOMAIN numbers : \E i \in 1..n : name[i] = k
  /\ e = [i \in 1..n |-> Str(2, name[i]) \o numbers[name[i]]]

LEMMA NamesAre ==
  ASSUME NEW numbers, IsFiniteSet(DOMAIN numbers), DOMAIN numbers \subseteq Texts
  PROVE  /\ Cardinality(DOMAIN numbers) \in Nat
         /\ \E name : Named(numbers, Cardinality(DOMAIN numbers), name, NumberPairs(numbers))
<1> DEFINE K == DOMAIN numbers
           R == {s \in K \X K : Before(s[1], s[2])}
           Rank(k) == Cardinality({l \in K : Before(l, k)})
           n == Cardinality(K)
           At(i) == CHOOSE k \in K : Rank(k) = i - 1
           name == [i \in 1..n |-> At(i)]
<1>1. Orders(R, K)
  <2>1. K \subseteq Seq(Byte)
    BY DEF Texts, Byte
  <2> HIDE DEF K
  <2> QED
    BY <2>1, BeforeOrders
<1>2. \A k \in K : RankIn(R, K, k) = Rank(k)
  <2>1. ASSUME NEW k \in K PROVE {l \in K : <<l, k>> \in R} = {l \in K : Before(l, k)}
    OBVIOUS
  <2> HIDE DEF R
  <2> QED
    BY <2>1 DEF RankIn
<1>3. /\ n \in Nat
      /\ \A k \in K : Rank(k) \in 0..(n - 1)
      /\ \A k, l \in K : Rank(k) = Rank(l) => k = l
      /\ \A i \in 0..(n - 1) : \E k \in K : Rank(k) = i
  <2> HIDE DEF R, K, Rank
  <2>1. /\ n \in Nat
        /\ \A k \in K : RankIn(R, K, k) \in 0..(n - 1)
        /\ \A k, l \in K : RankIn(R, K, k) = RankIn(R, K, l) => k = l
        /\ \A i \in 0..(n - 1) : \E k \in K : RankIn(R, K, k) = i
    BY <1>1, RanksAreAll DEF K
  <2> QED
    BY <1>2, <2>1
<1>4. NumberPairs(numbers) = [i \in 1..n |-> Str(2, name[i]) \o numbers[name[i]]]
  <2>1. NumberPairs(numbers) = [i \in 1..n |-> Str(2, At(i)) \o numbers[At(i)]]
    BY Zenon DEF NumberPairs
  <2>2. \A i \in 1..n : name[i] = At(i)
    OBVIOUS
  <2> HIDE DEF name, At
  <2> QED
    BY <2>1, <2>2
<1> HIDE DEF K, Rank
<1>5. ASSUME NEW i \in 1..n PROVE At(i) \in K /\ Rank(At(i)) = i - 1
  <2>1. i - 1 \in 0..(n - 1)
    BY <1>3
  <2>2. \E k \in K : Rank(k) = i - 1
    BY <1>3, <2>1
  <2> QED
    BY <2>2, Zenon
<1>6. \A i \in 1..n : name[i] = At(i)
  OBVIOUS
<1>7. name \in [1..n -> K]
  BY <1>5
<1> HIDE DEF At, name
<1>8. ASSUME NEW k \in K PROVE \E i \in 1..n : name[i] = k
  <2>1. Rank(k) + 1 \in 1..n /\ (Rank(k) + 1) - 1 = Rank(k)
    BY <1>3
  <2>2. At(Rank(k) + 1) \in K /\ Rank(At(Rank(k) + 1)) = Rank(k)
    BY <1>5, <2>1
  <2>3. At(Rank(k) + 1) = k
    BY <1>3, <2>2
  <2> QED
    BY <1>6, <2>1, <2>3
<1>9. Named(numbers, n, name, NumberPairs(numbers))
  BY <1>4, <1>7, <1>8 DEF Named, K
<1> QED
  BY <1>3, <1>9 DEF K

WithNumber(read, key, value) ==
  [k \in DOMAIN read \cup {key} |-> IF k = key THEN value ELSE read[k]]
NumberRead(buf, off, key, value, sofar) ==
  ReadTo(NumberAt(buf, sofar), WithNumber(sofar.read, key, value),
         off + Len(Str(2, key) \o value))

LEMMA NumberBack ==
  ASSUME NEW buf \in Seq(Byte), NEW off \in Nat, NEW key \in Texts, Width(2, Len(key)),
         NEW value \in Seq(Byte), Len(value) = 4,
         HasAt(buf, off, Str(2, key) \o value), NEW sofar, sofar.next = off
  PROVE  NumberRead(buf, off, key, value, sofar)
<1>1. key \in Seq(Byte)
  BY DEF Texts, Byte
<1>2. PICK k : k = Str(2, key)
  OBVIOUS
<1>3. k \in Seq(Byte) /\ Len(k) = 2 + Len(key) /\ Len(key) \in Nat
  BY <1>1, <1>2, StrIs
<1>4. PICK at : at = off + 2 + Len(key)
  OBVIOUS
<1>5. HasAt(buf, off, k) /\ HasAt(buf, at, value) /\ at \in Nat
  <2>1. HasAt(buf, off, k) /\ HasAt(buf, off + Len(k), value)
    BY <1>2, <1>3, ContainsBoth
  <2>2. off + Len(k) = at /\ at \in Nat
    BY <1>3, <1>4
  <2> QED
    BY <2>1, <2>2
<1>6. StrAt(buf, off, 2) = [text |-> key, next |-> off + 2 + Len(key)]
  <2>1. /\ buf \in Seq(Byte) /\ off \in Nat /\ key \in Texts
        /\ Width(2, Len(key)) /\ HasAt(buf, off, Str(2, key))
    BY <1>2, <1>5
  <2> QED
    BY <2>1, StrBack, Zenon
<1>7. Holds(buf, at, 4) /\ Slice(buf, at, 4) = value
  <2>1. Slice(buf, at, Len(value)) = value
    BY <1>5, SlicedOut
  <2> QED
    BY <1>5, <2>1 DEF HasAt, Holds
<1>8. off + Len(k \o value) = at + 4
  <2>1. Len(k \o value) = Len(k) + Len(value)
    BY <1>3, ContainsJoined
  <2> QED
    BY <1>3, <1>4, <2>1
<1>9. PICK a : a = StrAt(buf, sofar.next, 2)
  OBVIOUS
<1>10. a.text = key /\ a.next = at
  BY <1>4, <1>6, <1>9
<1>11. at # Beyond
  BY <1>5 DEF Beyond
<1>12. NumberAt(buf, sofar) =
         IF a.next = Beyond \/ ~Holds(buf, a.next, 4)
         THEN [read |-> sofar.read, next |-> Beyond]
         ELSE [read |-> [j \in DOMAIN sofar.read \cup {a.text} |->
                           IF j = a.text THEN Slice(buf, a.next, 4) ELSE sofar.read[j]],
               next |-> a.next + 4]
  BY <1>9, Zenon DEF NumberAt
<1>13. NumberAt(buf, sofar) =
         [read |-> [j \in DOMAIN sofar.read \cup {key} |->
                      IF j = key THEN value ELSE sofar.read[j]], next |-> at + 4]
  BY <1>7, <1>10, <1>11, <1>12, Zenon
<1>14. NumberAt(buf, sofar) = [read |-> WithNumber(sofar.read, key, value), next |-> at + 4]
  BY <1>13, Zenon DEF WithNumber
<1>15. PICK r, x : r = WithNumber(sofar.read, key, value) /\ x = at + 4
  OBVIOUS
<1>16. ReadTo(NumberAt(buf, sofar), r, x)
  BY <1>14, <1>15 DEF ReadTo
<1> QED
  BY <1>2, <1>8, <1>15, <1>16, Zenon DEF NumberRead

(* The numbers of a packet. *)
AreNumbers(numbers) ==
  /\ IsFiniteSet(DOMAIN numbers) /\ DOMAIN numbers \subseteq Texts
  /\ numbers = [k \in DOMAIN numbers |-> numbers[k]]
  /\ \A k \in DOMAIN numbers : numbers[k] \in Seq(Byte) /\ Len(numbers[k]) = 4

LEMMA NumberEntries ==
  ASSUME NEW numbers, AreNumbers(numbers), NEW n \in Nat, NEW name, NEW e,
         Named(numbers, n, name, e)
  PROVE  e \in [1..n -> Seq(Byte)]
<1>1. e = [i \in 1..n |-> Str(2, name[i]) \o numbers[name[i]]]
  BY DEF Named
<1>2. ASSUME NEW i \in 1..n PROVE Str(2, name[i]) \o numbers[name[i]] \in Seq(Byte)
  <2>1. PICK key, value : key = name[i] /\ value = numbers[name[i]]
    OBVIOUS
  <2>2. key \in Seq(Byte) /\ value \in Seq(Byte)
    BY <2>1 DEF Named, AreNumbers, Texts, Byte
  <2>3. Str(2, key) \in Seq(Byte)
    BY <2>2, StrIs
  <2> QED
    BY <2>1, <2>2, <2>3, ContainsJoined
<1> QED
  BY <1>1, <1>2

LEMMA NumbersBack ==
  ASSUME NEW numbers, AreNumbers(numbers), NEW n \in Nat, n < 256, NEW name,
         NEW e, Named(numbers, n, name, e),
         \A k \in DOMAIN numbers : Width(2, Len(k)),
         NEW buf \in Seq(Byte), NEW off \in Nat, HasAt(buf, off, Counted(e))
  PROVE  ReadTo(NumbersAt(buf, off), numbers, off + Len(Counted(e)))
<1> DEFINE K == DOMAIN numbers
<1>1. e \in [1..n -> Seq(Byte)]
  BY NumberEntries
<1>2. PICK ends : EntriesIn(buf, off, n, e, ends, Len(Counted(e)))
  BY <1>1, CountedBack
<1>3. /\ ends \in [0..n -> Nat] /\ ends[0] = 0 /\ Len(Counted(e)) = 1 + ends[n]
      /\ Holds(buf, off, 1) /\ buf[off + 1] = n
      /\ \A i \in 1..n : /\ ends[i] = ends[i - 1] + Len(e[i])
                         /\ HasAt(buf, off + 1 + ends[i - 1], e[i])
  BY <1>2 DEF EntriesIn
<1>4. PICK u : NumbersUpto(buf, off, n, u, NumbersAt(buf, off))
  BY <1>3, NumbersUnrolled
<1>5. /\ u[0] = [read |-> [k \in {} |-> <<>>], next |-> off + 1] /\ u[n] = NumbersAt(buf, off)
      /\ \A i \in 1..n : u[i] = NumberAt(buf, u[i - 1])
  BY <1>4 DEF NumbersUpto
<1>6. /\ name \in [1..n -> K] /\ \A k \in K : \E i \in 1..n : name[i] = k
      /\ \A i \in 1..n : e[i] = Str(2, name[i]) \o numbers[name[i]]
  BY DEF Named
<1> DEFINE These(i) == {name[j] : j \in 1..i}
           Some(i) == [k \in These(i) |-> numbers[k]]
           T == {i \in 0..n : ReadTo(u[i], Some(i), off + 1 + ends[i])}
<1>7. 0 \in T
  <2>1. These(0) = {}
    OBVIOUS
  <2>2. Some(0) = [k \in {} |-> <<>>]
    BY <2>1
  <2>3. off + 1 + ends[0] = off + 1
    BY <1>3
  <2> HIDE DEF Some
  <2>4. ReadTo(u[0], Some(0), off + 1 + ends[0])
    BY <1>5, <2>2, <2>3 DEF ReadTo
  <2> QED
    BY <2>4
<1>8. ASSUME NEW i \in 0..n, i \in T, i < n PROVE i + 1 \in T
  <2>1. i + 1 \in 1..n /\ (i + 1) - 1 = i /\ i + 1 \in 0..n
    BY <1>8
  <2>2. PICK key, value : key = name[i + 1] /\ value = numbers[name[i + 1]]
    OBVIOUS
  <2>3. key \in K
    BY <1>6, <2>1, <2>2
  <2>4. /\ key \in Texts /\ Width(2, Len(key)) /\ value \in Seq(Byte) /\ Len(value) = 4
        /\ value = numbers[key]
    BY <2>2, <2>3 DEF AreNumbers
  <2>5. e[i + 1] = Str(2, key) \o value
    BY <1>6, <2>1, <2>2
  <2>6. PICK at : at = off + 1 + ends[i]
    OBVIOUS
  <2>7. at \in Nat /\ HasAt(buf, at, e[i + 1]) /\ off + 1 + ends[i + 1] = at + Len(e[i + 1])
    <3>1. ends[i] \in Nat /\ Len(e[i + 1]) \in Nat
      <4>1. e[i + 1] \in Seq(Byte)
        BY <1>1, <2>1
      <4> QED
        BY <1>3, <4>1
    <3>2. ends[i + 1] = ends[i] + Len(e[i + 1]) /\ HasAt(buf, off + 1 + ends[i], e[i + 1])
      <4>1. ends[(i + 1) - 1] = ends[i]
        BY <2>1
      <4> QED
        BY <1>3, <2>1, <4>1
    <3> QED
      BY <2>6, <3>1, <3>2
  <2>8. u[i].next = at /\ u[i].read = Some(i)
    <3> HIDE DEF Some
    <3> QED
      BY <1>8, <2>6 DEF ReadTo
  <2>9. u[i + 1] = NumberAt(buf, u[i])
    BY <1>5, <2>1
  <2>10. ReadTo(u[i + 1], WithNumber(Some(i), key, value), at + Len(e[i + 1]))
    <3>1. PICK sofar : sofar = u[i]
      OBVIOUS
    <3>2. /\ key \in Texts /\ Width(2, Len(key)) /\ value \in Seq(Byte) /\ Len(value) = 4
          /\ at \in Nat /\ HasAt(buf, at, Str(2, key) \o value) /\ sofar.next = at
      BY <2>4, <2>5, <2>7, <2>8, <3>1
    <3>3. NumberRead(buf, at, key, value, sofar)
      BY <3>2, NumberBack, Zenon
    <3> HIDE DEF Some
    <3> QED
      BY <2>5, <2>8, <2>9, <3>1, <3>3, Zenon DEF NumberRead
  <2>11. WithNumber(Some(i), key, value) = Some(i + 1)
    <3>1. These(i + 1) = These(i) \cup {key}
      <4>1. 1..(i + 1) = 1..i \cup {i + 1}
        OBVIOUS
      <4> QED
        BY <2>2, <4>1
    <3>2. DOMAIN Some(i) = These(i)
      OBVIOUS
    <3>3. \A k \in These(i) : Some(i)[k] = numbers[k]
      OBVIOUS
    <3> HIDE DEF These
    <3>4. Some(i + 1) = [k \in These(i) \cup {key} |-> numbers[k]]
      BY <3>1
    <3>5. PICK f, g : f = Some(i) /\ g = Some(i + 1)
      OBVIOUS
    <3> HIDE DEF Some
    <3>6. WithNumber(f, key, value) = [k \in These(i) \cup {key} |-> IF k = key THEN value ELSE f[k]]
      BY <3>2, <3>5 DEF WithNumber
    <3>7. \A k \in These(i) \cup {key} : (IF k = key THEN value ELSE f[k]) = numbers[k]
      BY <2>4, <3>3, <3>5
    <3>8. WithNumber(f, key, value) = [k \in These(i) \cup {key} |-> numbers[k]]
      BY <3>6, <3>7
    <3> QED
      BY <3>4, <3>5, <3>8
  <2> HIDE DEF Some
  <2>12. ReadTo(u[i + 1], Some(i + 1), off + 1 + ends[i + 1])
    BY <2>7, <2>10, <2>11, Zenon
  <2> QED
    BY <2>1, <2>12
<1>9. n \in T
  <2> HIDE DEF T
  <2>1. \A i \in 0..n : i \in T
    BY <1>7, <1>8, UpFrom
  <2> QED
    BY <2>1
<1>10. Some(n) = numbers
  <2>1. These(n) = K
    BY <1>6
  <2> QED
    BY <2>1 DEF AreNumbers
<1>11. off + 1 + ends[n] = off + Len(Counted(e))
  <2>1. ends[n] \in Nat
    BY <1>3
  <2> QED
    BY <1>3, <2>1
<1>12. ReadTo(u[n], Some(n), off + 1 + ends[n])
  BY <1>9
<1> HIDE DEF Some
<1> QED
  BY <1>5, <1>10, <1>11, <1>12, Zenon

-----------------------------------------------------------------------------
(* Telemetry: a tag, strings and numbers after the fields. *)
PairsOf(strings) == [i \in DOMAIN strings |-> StringPair(strings[i])]

LEMMA PairsAre ==
  ASSUME NEW strings \in Seq(Texts \X Texts)
  PROVE  /\ Len(strings) \in Nat /\ PairsOf(strings) \in [1..Len(strings) -> Seq(Byte)]
         /\ (\A i \in DOMAIN strings : Width(2, Len(strings[i][1])) /\ Width(2, Len(strings[i][2])))
              => ArePairs(Len(strings), strings, PairsOf(strings))
<1> DEFINE n == Len(strings)
           e == PairsOf(strings)
<1>1. n \in Nat /\ DOMAIN strings = 1..n /\ \A i \in 1..n : strings[i] \in Texts \X Texts
  <2>1. PICK S : S = Texts \X Texts
    OBVIOUS
  <2>2. strings \in Seq(S)
    BY <2>1
  <2>3. Len(strings) \in Nat /\ DOMAIN strings = 1..Len(strings)
        /\ \A i \in 1..Len(strings) : strings[i] \in S
    BY <2>2
  <2> QED
    BY <2>1, <2>3
<1>2. e = [i \in 1..n |-> StringPair(strings[i])]
  BY <1>1 DEF PairsOf
<1>3. ASSUME NEW i \in 1..n PROVE StringPair(strings[i]) \in Seq(Byte)
  <2>1. PICK key, value : key = strings[i][1] /\ value = strings[i][2]
    OBVIOUS
  <2>2. key \in Texts /\ value \in Texts
    BY <1>1, <2>1
  <2>3. key \in Seq(Byte) /\ value \in Seq(Byte)
    BY <2>2 DEF Texts, Byte
  <2>4. Str(2, key) \in Seq(Byte) /\ Str(2, value) \in Seq(Byte)
    BY <2>3, StrIs
  <2>5. Str(2, key) \o Str(2, value) \in Seq(Byte)
    BY <2>4, ContainsJoined
  <2> QED
    BY <2>1, <2>5 DEF StringPair
<1>4. e \in [1..n -> Seq(Byte)]
  BY <1>2, <1>3
<1>5. \A i \in 1..n : e[i] = StringPair(strings[i])
  BY <1>2
<1> HIDE DEF e
<1>6. ASSUME \A i \in DOMAIN strings : Width(2, Len(strings[i][1])) /\ Width(2, Len(strings[i][2]))
      PROVE  ArePairs(n, strings, e)
  BY <1>1, <1>5, <1>6 DEF ArePairs
<1> QED
  BY <1>1, <1>4, <1>6 DEF e

(* What telemetry is made of. *)
TelemetryParts(p, tag, strings, numbers, rest) ==
  /\ tag \in Seq(Byte) /\ strings \in Seq(Byte) /\ numbers \in Seq(Byte) /\ rest \in Seq(Byte)
  /\ tag = Str(1, p.tag) /\ Len(tag) = 1 + Len(p.tag) /\ Len(p.tag) \in Nat
  /\ strings = Counted(PairsOf(p.strings)) /\ numbers = Counted(NumberPairs(p.numbers))
  /\ Len(strings) \in Nat /\ Len(numbers) \in Nat /\ Len(rest) \in Nat
  /\ rest = (tag \o strings) \o numbers

TelemetryOK(p) ==
  /\ p = [kind |-> "telemetry", fields |-> p.fields, is_sorted |-> p.is_sorted,
          tag |-> p.tag, strings |-> p.strings, numbers |-> p.numbers]
  /\ HasFields(p.fields, TelemetryLayout) /\ RobotState(p.fields) = p.fields
  /\ p.is_sorted \in BOOLEAN /\ p.tag \in Texts /\ p.strings \in Seq(Texts \X Texts)
  /\ AreNumbers(p.numbers)

LEMMA TelemetryIs ==
  ASSUME NEW p, p.kind = "telemetry", IsPacket(p) PROVE TelemetryOK(p)
<1>1. /\ p = [kind |-> "telemetry", fields |-> p.fields, is_sorted |-> p.is_sorted,
              tag |-> p.tag, strings |-> p.strings, numbers |-> p.numbers]
      /\ HasFields(p.fields, TelemetryLayout) /\ RobotState(p.fields) = p.fields
      /\ p.is_sorted \in BOOLEAN /\ p.tag \in Texts /\ p.strings \in Seq(Texts \X Texts)
      /\ IsFiniteSet(DOMAIN p.numbers) /\ DOMAIN p.numbers \subseteq Texts
      /\ p.numbers \in [DOMAIN p.numbers -> [1..4 -> 0..255]]
  BY DEF IsPacket
<1>2. AreNumbers(p.numbers)
  <2>1. PICK f : f = p.numbers
    OBVIOUS
  <2>2. PICK W : W = [1..4 -> Byte]
    OBVIOUS
  <2>3. f \in [DOMAIN f -> W]
    BY <1>1, <2>1, <2>2 DEF Byte
  <2>4. f = [k \in DOMAIN f |-> f[k]] /\ \A k \in DOMAIN f : f[k] \in W
    BY <2>3
  <2>5. \A v \in W : v \in Seq(Byte) /\ Len(v) = 4
    BY <2>2, BufferIs
  <2> QED
    BY <1>1, <2>1, <2>4, <2>5 DEF AreNumbers
<1> QED
  BY <1>1, <1>2 DEF TelemetryOK

LEMMA PartsAre ==
  ASSUME NEW p, TelemetryOK(p)
  PROVE  \E tag, strings, numbers, rest : TelemetryParts(p, tag, strings, numbers, rest)
<1>1. PICK tag : tag = Str(1, p.tag)
  OBVIOUS
<1>2. tag \in Seq(Byte) /\ Len(tag) = 1 + Len(p.tag) /\ Len(p.tag) \in Nat
  <2>1. p.tag \in Seq(Byte)
    BY DEF TelemetryOK, Texts, Byte
  <2> QED
    BY <1>1, <2>1, StrIs
<1>3. PICK strings : strings = Counted(PairsOf(p.strings))
  OBVIOUS
<1>4. strings \in Seq(Byte) /\ Len(strings) \in Nat
  <2>1. p.strings \in Seq(Texts \X Texts)
    BY DEF TelemetryOK
  <2>2. Len(p.strings) \in Nat /\ PairsOf(p.strings) \in [1..Len(p.strings) -> Seq(Byte)]
    BY <2>1, PairsAre, Zenon
  <2> QED
    BY <1>3, <2>2, CountedIs, Zenon
<1>5. PICK numbers : numbers = Counted(NumberPairs(p.numbers))
  OBVIOUS
<1>6. numbers \in Seq(Byte) /\ Len(numbers) \in Nat
  <2>1. AreNumbers(p.numbers)
    BY DEF TelemetryOK
  <2>2. PICK n : n = Cardinality(DOMAIN p.numbers)
    OBVIOUS
  <2>3. n \in Nat /\ \E name : Named(p.numbers, n, name, NumberPairs(p.numbers))
    BY <2>1, <2>2, NamesAre, Zenon DEF AreNumbers
  <2>4. NumberPairs(p.numbers) \in [1..n -> Seq(Byte)]
    BY <2>1, <2>3, NumberEntries, Zenon
  <2> QED
    BY <1>5, <2>3, <2>4, CountedIs, Zenon
<1>7. PICK first : first = tag \o strings
  OBVIOUS
<1>8. PICK rest : rest = first \o numbers
  OBVIOUS
<1>9. first \in Seq(Byte)
  BY <1>2, <1>4, <1>7, ContainsJoined
<1>10. rest \in Seq(Byte) /\ Len(rest) \in Nat
  <2>1. rest \in Seq(Byte)
    BY <1>6, <1>8, <1>9, ContainsJoined
  <2> QED
    BY <2>1, SequenceIs
<1>11. TelemetryParts(p, tag, strings, numbers, rest)
  BY <1>1, <1>2, <1>3, <1>4, <1>5, <1>6, <1>7, <1>8, <1>10 DEF TelemetryParts
<1> QED
  BY <1>11

LEMMA TelemetryReads ==
  ASSUME NEW p, TelemetryOK(p), Encodable(p), p.kind = "telemetry", NEW buf \in Seq(Byte),
         NEW tag, NEW strings, NEW numbers, NEW rest,
         TelemetryParts(p, tag, strings, numbers, rest), HasAt(buf, 15, rest)
  PROVE  LET t == StrAt(buf, 15, 1)
             s == StringsAt(buf, t.next)
             n == NumbersAt(buf, s.next)
         IN  t.text = p.tag /\ s.read = p.strings /\ n.read = p.numbers /\ n.next # Beyond
<1>1. /\ tag \in Seq(Byte) /\ strings \in Seq(Byte) /\ numbers \in Seq(Byte) /\ rest \in Seq(Byte)
      /\ tag = Str(1, p.tag) /\ Len(tag) = 1 + Len(p.tag) /\ Len(p.tag) \in Nat
      /\ strings = Counted(PairsOf(p.strings)) /\ numbers = Counted(NumberPairs(p.numbers))
      /\ Len(strings) \in Nat /\ Len(numbers) \in Nat
      /\ rest = (tag \o strings) \o numbers
  BY DEF TelemetryParts
<1>2. /\ Width(1, Len(p.tag)) /\ Len(p.strings) < 256
      /\ Cardinality(DOMAIN p.numbers) < 256
      /\ \A k \in DOMAIN p.numbers : Width(2, Len(k))
      /\ \A i \in DOMAIN p.strings : Width(2, Len(p.strings[i][1])) /\ Width(2, Len(p.strings[i][2]))
  BY DEF Encodable, Width
<1>3. p.tag \in Texts /\ p.strings \in Seq(Texts \X Texts) /\ AreNumbers(p.numbers)
  BY DEF TelemetryOK
<1>4. PICK at1, at2, at3 : at1 = 15 /\ at2 = at1 + Len(tag) /\ at3 = at2 + Len(strings)
  OBVIOUS
<1>5. at1 \in Nat /\ at2 \in Nat /\ at3 \in Nat /\ at2 = at1 + 1 + Len(p.tag)
  <2>1. Len(tag) = 1 + Len(p.tag) /\ Len(p.tag) \in Nat /\ Len(strings) \in Nat
    BY <1>1, Zenon
  <2> QED
    BY <1>4, <2>1
<1>6. HasAt(buf, at1, tag) /\ HasAt(buf, at2, strings) /\ HasAt(buf, at3, numbers)
  <2>1. PICK first : first = tag \o strings
    OBVIOUS
  <2>2. first \in Seq(Byte) /\ Len(first) = Len(tag) + Len(strings)
    BY <1>1, <2>1, ContainsJoined
  <2>3. HasAt(buf, at1, first \o numbers)
    BY <1>1, <1>4, <2>1
  <2>4. HasAt(buf, at1, first) /\ HasAt(buf, at1 + Len(first), numbers)
    BY <1>1, <1>5, <2>2, <2>3, ContainsBoth, Zenon
  <2>5. at1 + Len(first) = at3
    <3>1. Len(tag) = 1 + Len(p.tag) /\ Len(p.tag) \in Nat /\ Len(strings) \in Nat
      BY <1>1, Zenon
    <3> QED
      BY <1>4, <2>2, <3>1
  <2>6. HasAt(buf, at1, tag) /\ HasAt(buf, at1 + Len(tag), strings)
    BY <1>1, <1>5, <2>1, <2>4, ContainsBoth, Zenon
  <2> QED
    BY <1>4, <2>4, <2>5, <2>6
<1>7. StrAt(buf, 15, 1).text = p.tag /\ StrAt(buf, 15, 1).next = at2
  <2>1. /\ buf \in Seq(Byte) /\ at1 \in Nat /\ p.tag \in Texts
        /\ Width(1, Len(p.tag)) /\ HasAt(buf, at1, Str(1, p.tag))
    BY <1>1, <1>2, <1>3, <1>5, <1>6
  <2>2. StrAt(buf, at1, 1) = [text |-> p.tag, next |-> at1 + 1 + Len(p.tag)]
    BY <2>1, StrBack, Zenon
  <2> QED
    BY <1>4, <1>5, <2>2
<1>8. ReadTo(StringsAt(buf, at2), p.strings, at3)
  <2>1. PICK n, e : n = Len(p.strings) /\ e = PairsOf(p.strings)
    OBVIOUS
  <2>2. n \in Nat /\ e \in [1..n -> Seq(Byte)] /\ ArePairs(n, p.strings, e)
    BY <1>2, <1>3, <2>1, PairsAre, Zenon
  <2>3. n \in Nat /\ n < 256 /\ e \in [1..n -> Seq(Byte)] /\ ArePairs(n, p.strings, e)
        /\ buf \in Seq(Byte) /\ at2 \in Nat /\ HasAt(buf, at2, Counted(e))
    BY <1>1, <1>2, <1>5, <1>6, <2>1, <2>2, Zenon
  <2>4. ReadTo(StringsAt(buf, at2), p.strings, at2 + Len(Counted(e)))
    BY <2>3, StringsBack, Zenon
  <2> QED
    BY <1>1, <1>4, <2>1, <2>4, Zenon
<1>9. ReadTo(NumbersAt(buf, at3), p.numbers, at3 + Len(numbers))
  <2>1. PICK n, e : n = Cardinality(DOMAIN p.numbers) /\ e = NumberPairs(p.numbers)
    OBVIOUS
  <2>2. PICK f : f = p.numbers
    OBVIOUS
  <2>3. AreNumbers(f) /\ n \in Nat /\ \E name : Named(f, n, name, e)
    BY <1>3, <2>1, <2>2, NamesAre, Zenon DEF AreNumbers
  <2>4. PICK name : Named(f, n, name, e)
    BY <2>3
  <2>5. /\ AreNumbers(f) /\ n \in Nat /\ n < 256 /\ Named(f, n, name, e)
        /\ \A k \in DOMAIN f : Width(2, Len(k))
        /\ buf \in Seq(Byte) /\ at3 \in Nat /\ HasAt(buf, at3, Counted(e))
    BY <1>1, <1>2, <1>5, <1>6, <2>1, <2>2, <2>3, <2>4, Zenon
  <2>6. ReadTo(NumbersAt(buf, at3), f, at3 + Len(Counted(e)))
    BY <2>5, NumbersBack, Zenon
  <2> QED
    BY <1>1, <2>1, <2>2, <2>6, Zenon
<1>10. at3 + Len(numbers) # Beyond
  <2>1. \A i, j \in Nat : i + j # Beyond
    BY DEF Beyond
  <2> QED
    BY <1>1, <1>5, <2>1
<1>11. PICK t, s, n : t = StrAt(buf, 15, 1) /\ s = StringsAt(buf, t.next) /\ n = NumbersAt(buf, s.next)
  OBVIOUS
<1>12. t.text = p.tag /\ t.next = at2
  BY <1>7, <1>11
<1>13. s.read = p.strings /\ s.next = at3
  BY <1>8, <1>11, <1>12, Zenon DEF ReadTo
<1>14. n.read = p.numbers /\ n.next # Beyond
  BY <1>9, <1>10, <1>11, <1>13, Zenon DEF ReadTo
<1> QED
  BY <1>11, <1>12, <1>13, <1>14, Zenon

LEMMA TelemetrySurvives ==
  ASSUME NEW p, p.kind = "telemetry", IsPacket(p) PROVE Survives(p)
<1> DEFINE s == Serialize(p)
           L == TelemetryLayout
<1>1. TelemetryOK(p)
  BY TelemetryIs
<1>2. PICK tag, strings, numbers, rest : TelemetryParts(p, tag, strings, numbers, rest)
  BY <1>1, PartsAre
<1>3. rest \in Seq(Byte) /\ Len(rest) \in Nat
  BY <1>2 DEF TelemetryParts
<1> DEFINE k == 10 + Len(rest)
           n == 5 + k
           sorted == <<IF p.is_sorted THEN 1 ELSE 0>>
           b == Filled(Header(5, k), L, p.fields)
           c == Put(b, 13, sorted)
<1>4. s = Put(c, 15, rest)
  <2>1. rest = (Str(1, p.tag) \o Counted(PairsOf(p.strings))) \o Counted(NumberPairs(p.numbers))
    BY <1>2, Zenon DEF TelemetryParts
  <2> QED
    BY <2>1, Zenon DEF Serialize, SerializeTelemetry, PairsOf
<1>5. /\ p = [kind |-> "telemetry", fields |-> p.fields, is_sorted |-> p.is_sorted,
              tag |-> p.tag, strings |-> p.strings, numbers |-> p.numbers]
      /\ HasFields(p.fields, L) /\ RobotState(p.fields) = p.fields
      /\ p.is_sorted \in BOOLEAN
  BY <1>1, Zenon DEF TelemetryOK
<1>6. sorted \in Seq(Byte) /\ Len(sorted) = 1
  <2>1. PICK x : x = IF p.is_sorted THEN 1 ELSE 0
    OBVIOUS
  <2>2. x \in Byte
    BY <2>1 DEF Byte
  <2> HIDE DEF Byte
  <2> QED
    BY <2>1, <2>2
<1> HIDE DEF sorted
<1>7. n \in Nat /\ n > 0 /\ k \in Nat /\ 15 + Len(rest) = n /\ 15 <= n
  BY <1>3
<1>8. \A f \in DOMAIN L : /\ L[f][1] \in Nat /\ L[f][2] \in Nat
                          /\ L[f][1] + L[f][2] <= 15
                          /\ L[f][1] + L[f][2] <= 13 \/ 14 <= L[f][1]
  BY DEF TelemetryLayout
<1> HIDE DEF L, k
<1>9. Carries(b, n, 5, L, p.fields)
  <2>1. /\ 5 \in Byte /\ k \in Nat /\ LayoutIn(L, 3, 15) /\ 15 <= 5 + k
        /\ HasFields(p.fields, L)
    BY <1>5, <1>7, Layouts DEF Byte, L
  <2> QED
    BY <2>1, HeaderCarries, Zenon
<1> HIDE DEF b, n
<1>10. Carries(c, n, 5, L, p.fields) /\ HasAt(c, 13, sorted)
  <2>1. PICK off : off = 13
    OBVIOUS
  <2>2. /\ off \in Nat /\ off > 0 /\ off + Len(sorted) <= n
        /\ \A f \in DOMAIN L : /\ L[f][1] \in Nat /\ L[f][2] \in Nat
                               /\ L[f][1] + L[f][2] <= off \/ off + Len(sorted) <= L[f][1]
    BY <1>6, <1>7, <1>8, <2>1
  <2>3. Carries(Put(b, off, sorted), n, 5, L, p.fields) /\ HasAt(Put(b, off, sorted), off, sorted)
    BY <1>5, <1>6, <1>7, <1>9, <2>2, PutCarries
  <2> QED
    BY <2>1, <2>3
<1> HIDE DEF c
<1>11. Carries(s, n, 5, L, p.fields) /\ HasAt(s, 15, rest) /\ HasAt(s, 13, sorted)
  <2>1. PICK off, at : off = 15 /\ at = 13
    OBVIOUS
  <2>2. /\ off \in Nat /\ off > 0 /\ off + Len(rest) <= n
        /\ \A f \in DOMAIN L : /\ L[f][1] \in Nat /\ L[f][2] \in Nat
                               /\ L[f][1] + L[f][2] <= off \/ off + Len(rest) <= L[f][1]
    BY <1>7, <1>8, <2>1
  <2>3. Carries(Put(c, off, rest), n, 5, L, p.fields) /\ HasAt(Put(c, off, rest), off, rest)
    BY <1>3, <1>5, <1>7, <1>10, <2>2, PutCarries
  <2>4. HasAt(Put(c, off, rest), at, sorted)
    <3>1. n \in Nat /\ c \in [1..n -> Byte] /\ off \in Nat /\ rest \in Seq(Byte) /\ at \in Nat
          /\ sorted \in Seq(Byte) /\ HasAt(c, at, sorted)
          /\ (at + Len(sorted) <= off \/ off + Len(rest) <= at)
      BY <1>3, <1>6, <1>7, <1>10, <2>1 DEF Carries
    <3> QED
      BY <3>1, PutElsewhere, Zenon
  <2> QED
    BY <1>4, <2>1, <2>3, <2>4
<1> HIDE DEF s
<1>12. ReadsAs(s, n, 5, L, p.fields)
  <2>1. n \in Nat /\ n > 0 /\ LayoutIn(L, 3, 15) /\ Carries(s, n, 5, L, p.fields) /\ HasFields(p.fields, L)
    BY <1>5, <1>7, <1>11, Layouts DEF L
  <2> QED
    BY <2>1, CarriedBack, Zenon
<1>13. ASSUME Encodable(p) PROVE Parse(s) = p
  <2>1. PICK t, ss, nn : t = StrAt(s, 15, 1) /\ ss = StringsAt(s, t.next) /\ nn = NumbersAt(s, ss.next)
    OBVIOUS
  <2>2. t.text = p.tag /\ ss.read = p.strings /\ nn.read = p.numbers /\ nn.next # Beyond
    <3>1. s \in Seq(Byte) /\ HasAt(s, 15, rest)
      BY <1>11, <1>12 DEF ReadsAs
    <3> QED
      BY <1>1, <1>2, <1>13, <2>1, <3>1, TelemetryReads, Zenon
  <2>3. Slice(s, 13, 1) = sorted
    <3>1. s \in Seq(Byte) /\ 13 \in Nat /\ sorted \in Seq(Byte) /\ HasAt(s, 13, sorted)
      BY <1>6, <1>11, <1>12 DEF ReadsAs
    <3>2. Slice(s, 13, Len(sorted)) = sorted
      BY <3>1, SlicedOut, Zenon
    <3> QED
      BY <1>6, <3>2
  <2>4. (Slice(s, 13, 1) # <<0>>) <=> p.is_sorted
    <3>1. CASE p.is_sorted
      <4>1. sorted = <<1>>
        BY <3>1 DEF sorted
      <4>2. <<1>> # <<0>>
        OBVIOUS
      <4> QED
        BY <2>3, <3>1, <4>1, <4>2
    <3>2. CASE ~p.is_sorted
      BY <2>3, <3>2 DEF sorted
    <3> QED
      BY <3>1, <3>2
  <2>5. PICK a : a = (Slice(s, 13, 1) # <<0>>)
    OBVIOUS
  <2>6. a = p.is_sorted
    BY <1>5, <2>4, <2>5, Zenon
  <2>7. ParseTelemetry(s) = [kind |-> "telemetry", fields |-> RobotState(Fields(s, TelemetryLayout)),
            is_sorted |-> a, tag |-> t.text, strings |-> ss.read, numbers |-> nn.read]
    BY <2>1, <2>2, <2>5, Zenon DEF ParseTelemetry
  <2>8. RobotState(Fields(s, TelemetryLayout)) = p.fields
    BY <1>5, <1>12 DEF ReadsAs, L
  <2>9. ParseTelemetry(s) = p
    BY <1>5, <2>2, <2>6, <2>7, <2>8, Zenon
  <2>10. s # <<>> /\ s[1] = 5
    BY <1>12 DEF ReadsAs
  <2> QED
    BY <2>9, <2>10 DEF Parse
<1> QED
  BY <1>7, <1>12, <1>13 DEF ReadsAs, Survives, s

LEMMA PacketSurvives ==
  ASSUME NEW p, IsPacket(p) PROVE Survives(p)
<1>1. p.kind \in {"heartbeat", "gamepad", "discovery", "keepalive", "command", "telemetry"}
  <2> SUFFICES ASSUME p.kind \notin {"heartbeat", "gamepad", "discovery", "keepalive",
                                     "command", "telemetry"}
               PROVE  FALSE
    OBVIOUS
  <2> QED
    BY DEF IsPacket
<1> QED
  BY <1>1, HeartbeatSurvives, GamepadSurvives, DiscoverySurvives, KeepAliveSurvives,
     CommandSurvives, TelemetrySurvives

-----------------------------------------------------------------------------
(* What is read of a buffer that ends early: the same, or nothing. *)
Begins(s, buf) ==
  /\ s \in Seq(Byte) /\ buf \in Seq(Byte) /\ Len(s) <= Len(buf)
  /\ \A i \in 1..Len(s) : s[i] = buf[i]
Offset(x) == x \in Nat \/ x = Beyond
Agrees(x, y) == Offset(x.next) /\ (x.next = Beyond \/ x = y)

LEMMA SliceIs ==
  ASSUME NEW s \in Seq(Byte), NEW off \in Nat, NEW n \in Nat, Holds(s, off, n)
  PROVE  /\ Slice(s, off, n) \in Seq(Byte) /\ Len(Slice(s, off, n)) = n
         /\ \A i \in 1..n : Slice(s, off, n)[i] = s[off + i]
<1> DEFINE t == SubSeq(s, off + 1, off + n)
<1>1. off + n <= Len(s)
  BY DEF Holds
<1>2. t \in Seq(Byte) /\ Len(t) = n /\ \A i \in 1..n : t[i] = s[off + i]
  <2> HIDE DEF Byte
  <2> QED
    BY <1>1
<1> QED
  BY <1>2 DEF Slice

LEMMA SliceSame ==
  ASSUME NEW s, NEW buf, Begins(s, buf), NEW off \in Nat, NEW n \in Nat, Holds(s, off, n)
  PROVE  Holds(buf, off, n) /\ Slice(s, off, n) = Slice(buf, off, n)
<1>1. s \in Seq(Byte) /\ buf \in Seq(Byte) /\ Len(s) \in Nat /\ Len(buf) \in Nat
  BY SequenceIs DEF Begins
<1>2. Holds(buf, off, n)
  BY <1>1 DEF Begins, Holds
<1>3. PICK t, u : t = Slice(s, off, n) /\ u = Slice(buf, off, n)
  OBVIOUS
<1>4. t \in Seq(Byte) /\ Len(t) = n /\ \A i \in 1..n : t[i] = s[off + i]
  BY <1>1, <1>3, SliceIs
<1>5. u \in Seq(Byte) /\ Len(u) = n /\ \A i \in 1..n : u[i] = buf[off + i]
  BY <1>1, <1>2, <1>3, SliceIs
<1>6. \A i \in 1..n : s[off + i] = buf[off + i]
  <2>1. \A i \in 1..n : off + i \in 1..Len(s)
    BY <1>1 DEF Holds
  <2> QED
    BY <2>1 DEF Begins
<1>7. t = u
  <2>1. \A i \in 1..n : t[i] = u[i]
    BY <1>4, <1>5, <1>6
  <2> HIDE DEF Byte
  <2> QED
    BY <1>4, <1>5, <2>1
<1> QED
  BY <1>2, <1>3, <1>7

LEMMA NumberIsNat ==
  ASSUME NEW w \in {1, 2}, NEW t \in Seq(Byte), Len(t) = w
  PROVE  Number(t) \in Nat
<1>1. \A b \in Byte : b \in Int /\ b \in Nat
  BY DEF Byte
<1>2. CASE w = 1
  <2>1. t = <<t[1]>> /\ t[1] \in Byte
    <3> HIDE DEF Byte
    <3> QED
      BY <1>2
  <2>2. PICK a : a = t[1]
    OBVIOUS
  <2> QED
    BY <1>1, <2>1, <2>2, NumberOfOne
<1>3. CASE w = 2
  <2>1. t = <<t[1], t[2]>> /\ t[1] \in Byte /\ t[2] \in Byte
    <3> HIDE DEF Byte
    <3> QED
      BY <1>3
  <2>2. PICK a, b : a = t[1] /\ b = t[2]
    OBVIOUS
  <2>3. Number(<<a, b>>) = 256 * a + b /\ a \in Nat /\ b \in Nat
    BY <1>1, <2>1, <2>2, NumberOfTwo
  <2> QED
    BY <2>1, <2>2, <2>3
<1> QED
  BY <1>2, <1>3

LEMMA StrAtAgrees ==
  ASSUME NEW s, NEW buf, Begins(s, buf), NEW off, Offset(off), NEW w \in {1, 2}
  PROVE  /\ Agrees(StrAt(s, off, w), StrAt(buf, off, w))
         /\ StrAt(s, off, w).next # Beyond => off \in Nat /\ off + w <= Len(s)
<1>1. s \in Seq(Byte) /\ buf \in Seq(Byte) /\ Len(s) \in Nat /\ Len(buf) \in Nat
  BY SequenceIs DEF Begins
<1>2. PICK n, text : n = Number(Slice(s, off, w)) /\ text = Slice(s, off + w, n)
  OBVIOUS
<1>3. StrAt(s, off, w) =
        IF off # Beyond /\ Holds(s, off, w) /\ Holds(s, off + w, n) /\ Utf8(text)
        THEN [text |-> text, next |-> off + w + n] ELSE [text |-> <<>>, next |-> Beyond]
  BY <1>2, Zenon DEF StrAt
<1>4. CASE off # Beyond /\ Holds(s, off, w) /\ Holds(s, off + w, n) /\ Utf8(text)
  <2>1. off \in Nat /\ w \in Nat /\ off + w \in Nat
    BY <1>4 DEF Offset
  <2>2. off + w <= Len(s)
    BY <1>4 DEF Holds
  <2>3. Holds(buf, off, w) /\ Slice(s, off, w) = Slice(buf, off, w)
    BY <1>4, <2>1, SliceSame
  <2>4. n \in Nat
    <3>1. Slice(s, off, w) \in Seq(Byte) /\ Len(Slice(s, off, w)) = w
      BY <1>1, <1>4, <2>1, SliceIs
    <3> QED
      BY <1>2, <3>1, NumberIsNat
  <2>5. Holds(buf, off + w, n) /\ text = Slice(buf, off + w, n)
    <3>1. PICK at : at = off + w
      OBVIOUS
    <3>2. at \in Nat /\ Holds(s, at, n)
      BY <1>4, <2>1, <3>1
    <3>3. Holds(buf, at, n) /\ Slice(s, at, n) = Slice(buf, at, n)
      BY <2>4, <3>2, SliceSame
    <3> QED
      BY <1>2, <3>1, <3>3
  <2>6. n = Number(Slice(buf, off, w))
    BY <1>2, <2>3
  <2>7. StrAt(buf, off, w) = [text |-> text, next |-> off + w + n]
    BY <1>4, <2>3, <2>5, <2>6, Zenon DEF StrAt
  <2>8. StrAt(s, off, w) = [text |-> text, next |-> off + w + n]
    BY <1>3, <1>4, Zenon
  <2>9. off + w + n \in Nat
    BY <2>1, <2>4
  <2>10. PICK x : x = off + w + n
    OBVIOUS
  <2>11. Agrees(StrAt(s, off, w), StrAt(buf, off, w))
    BY <2>7, <2>8, <2>9, <2>10 DEF Agrees, Offset
  <2> QED
    BY <2>1, <2>2, <2>11
<1>5. CASE ~(off # Beyond /\ Holds(s, off, w) /\ Holds(s, off + w, n) /\ Utf8(text))
  <2>1. StrAt(s, off, w) = [text |-> <<>>, next |-> Beyond]
    BY <1>3, <1>5, Zenon
  <2>2. StrAt(s, off, w).next = Beyond
    BY <2>1
  <2> QED
    BY <2>2 DEF Agrees, Offset
<1> QED
  BY <1>4, <1>5

LEMMA StrAgrees ==
  ASSUME NEW s, NEW buf, Begins(s, buf), NEW x, NEW y, Agrees(x, y), NEW w \in {1, 2}
  PROVE  /\ Agrees(StrAt(s, x.next, w), StrAt(buf, y.next, w))
         /\ StrAt(s, x.next, w).next # Beyond => x = y /\ x.next \in Nat
<1>1. Offset(x.next) /\ (x.next = Beyond \/ x = y)
  BY DEF Agrees
<1>2. /\ Agrees(StrAt(s, x.next, w), StrAt(buf, x.next, w))
      /\ StrAt(s, x.next, w).next # Beyond => x.next \in Nat
  BY <1>1, StrAtAgrees
<1>3. CASE x = y
  BY <1>2, <1>3, Zenon
<1>4. CASE x.next = Beyond
  <2>1. Beyond \notin Nat
    BY DEF Beyond
  <2>2. StrAt(s, x.next, w).next = Beyond
    BY <1>2, <1>4, <2>1
  <2> QED
    BY <1>2, <2>2 DEF Agrees
<1> QED
  BY <1>1, <1>3, <1>4

LEMMA StringAgrees ==
  ASSUME NEW s, NEW buf, Begins(s, buf), NEW x, NEW y, Agrees(x, y)
  PROVE  Agrees(StringAt(s, x), StringAt(buf, y))
<1>1. PICK k, v : k = StrAt(s, x.next, 2) /\ v = StrAt(s, k.next, 2)
  OBVIOUS
<1>2. PICK kk, vv : kk = StrAt(buf, y.next, 2) /\ vv = StrAt(buf, kk.next, 2)
  OBVIOUS
<1>3. Agrees(k, kk) /\ (k.next # Beyond => x = y)
  BY <1>1, <1>2, StrAgrees
<1>4. Agrees(v, vv) /\ (v.next # Beyond => k = kk /\ k.next \in Nat)
  <2>1. 2 \in {1, 2} /\ Begins(s, buf) /\ Agrees(k, kk)
    BY <1>3
  <2>2. /\ Agrees(StrAt(s, k.next, 2), StrAt(buf, kk.next, 2))
        /\ StrAt(s, k.next, 2).next # Beyond => k = kk /\ k.next \in Nat
    BY <2>1, StrAgrees, Zenon
  <2> QED
    BY <1>1, <1>2, <2>2, Zenon
<1>5. StringAt(s, x) = [read |-> Append(x.read, <<k.text, v.text>>), next |-> v.next]
  BY <1>1, Zenon DEF StringAt
<1>6. StringAt(buf, y) = [read |-> Append(y.read, <<kk.text, vv.text>>), next |-> vv.next]
  BY <1>2, Zenon DEF StringAt
<1>7. PICK r : r = Append(x.read, <<k.text, v.text>>)
  OBVIOUS
<1>8. StringAt(s, x).next = v.next
  BY <1>5, <1>7
<1>9. CASE v.next = Beyond
  BY <1>8, <1>9 DEF Agrees, Offset
<1>10. CASE v.next # Beyond
  <2>1. k = kk /\ k.next \in Nat /\ v = vv
    BY <1>4, <1>10 DEF Agrees
  <2>2. k.next # Beyond
    BY <2>1 DEF Beyond
  <2>3. x = y
    BY <1>3, <2>2
  <2>4. StringAt(s, x) = StringAt(buf, y)
    BY <1>5, <1>6, <2>1, <2>3, Zenon
  <2>5. Offset(StringAt(s, x).next)
    BY <1>4, <1>8 DEF Agrees
  <2> QED
    BY <2>4, <2>5 DEF Agrees
<1> QED
  BY <1>9, <1>10

LEMMA NumberAgrees ==
  ASSUME NEW s, NEW buf, Begins(s, buf), NEW x, NEW y, Agrees(x, y)
  PROVE  Agrees(NumberAt(s, x), NumberAt(buf, y))
<1>1. PICK k, kk : k = StrAt(s, x.next, 2) /\ kk = StrAt(buf, y.next, 2)
  OBVIOUS
<1>2. Agrees(k, kk) /\ (k.next # Beyond => x = y)
  BY <1>1, StrAgrees
<1>3. NumberAt(s, x) =
         IF k.next = Beyond \/ ~Holds(s, k.next, 4) THEN [read |-> x.read, next |-> Beyond]
         ELSE [read |-> [j \in DOMAIN x.read \cup {k.text} |->
                           IF j = k.text THEN Slice(s, k.next, 4) ELSE x.read[j]],
               next |-> k.next + 4]
  BY <1>1, Zenon DEF NumberAt
<1>4. NumberAt(buf, y) =
         IF kk.next = Beyond \/ ~Holds(buf, kk.next, 4) THEN [read |-> y.read, next |-> Beyond]
         ELSE [read |-> [j \in DOMAIN y.read \cup {kk.text} |->
                           IF j = kk.text THEN Slice(buf, kk.next, 4) ELSE y.read[j]],
               next |-> kk.next + 4]
  BY <1>1, Zenon DEF NumberAt
<1>5. CASE k.next = Beyond \/ ~Holds(s, k.next, 4)
  <2>1. NumberAt(s, x) = [read |-> x.read, next |-> Beyond]
    BY <1>3, <1>5, Zenon
  <2>2. NumberAt(s, x).next = Beyond
    BY <2>1
  <2> QED
    BY <2>2 DEF Agrees, Offset
<1>6. CASE ~(k.next = Beyond \/ ~Holds(s, k.next, 4))
  <2>1. k = kk /\ k.next \in Nat /\ x = y
    BY <1>2, <1>6 DEF Agrees, Offset
  <2>2. PICK n, at : n = 4 /\ at = k.next
    OBVIOUS
  <2>3. Holds(buf, at, n) /\ Slice(s, at, n) = Slice(buf, at, n)
    <3>1. n \in Nat /\ at \in Nat /\ Holds(s, at, n)
      BY <1>6, <2>1, <2>2
    <3> QED
      BY <3>1, SliceSame
  <2>4. Holds(buf, k.next, 4) /\ Slice(s, k.next, 4) = Slice(buf, k.next, 4)
    BY <2>2, <2>3
  <2>5. NumberAt(s, x) = NumberAt(buf, y)
    BY <1>3, <1>4, <1>6, <2>1, <2>4, Zenon
  <2>6. PICK r : NumberAt(s, x) = [read |-> r, next |-> k.next + 4]
    BY <1>3, <1>6, Zenon
  <2>7. NumberAt(s, x).next \in Nat
    BY <2>1, <2>6
  <2> QED
    BY <2>5, <2>7 DEF Agrees, Offset
<1> QED
  BY <1>5, <1>6

LEMMA StringsAgree ==
  ASSUME NEW s, NEW buf, Begins(s, buf), NEW x, NEW y, Agrees(x, y)
  PROVE  /\ Agrees(StringsAt(s, x.next), StringsAt(buf, y.next))
         /\ StringsAt(s, x.next).next # Beyond => x = y /\ x.next \in Nat
<1>1. Offset(x.next) /\ (x.next = Beyond \/ x = y)
  BY DEF Agrees
<1>2. PICK off : off = x.next
  OBVIOUS
<1>3. CASE off = Beyond \/ ~Holds(s, off, 1)
  <2>1. \E r : StringsAt(s, off) = [read |-> r, next |-> Beyond]
    BY <1>3, Zenon DEF StringsAt
  <2>2. StringsAt(s, off).next = Beyond
    BY <2>1
  <2> QED
    BY <1>2, <2>2 DEF Agrees, Offset
<1>4. CASE ~(off = Beyond \/ ~Holds(s, off, 1))
  <2>1. off \in Nat /\ x = y /\ Holds(s, off, 1)
    BY <1>1, <1>2, <1>4 DEF Offset
  <2>2. s \in Seq(Byte) /\ buf \in Seq(Byte)
    BY DEF Begins
  <2>3. PICK n : n = s[off + 1]
    OBVIOUS
  <2>4. Holds(buf, off, 1) /\ n = buf[off + 1]
    <3>1. off + 1 \in 1..Len(s) /\ Len(s) <= Len(buf)
      BY <2>1, <2>2, SequenceIs DEF Begins, Holds
    <3>2. Len(s) \in Nat /\ Len(buf) \in Nat
      BY <2>2, SequenceIs
    <3> QED
      BY <2>1, <2>3, <3>1, <3>2 DEF Begins, Holds
  <2>5. n \in Nat /\ \E u : StringsUpto(s, off, n, u, StringsAt(s, off))
    BY <2>1, <2>2, <2>3, StringsUnrolled, Zenon
  <2>6. \E u : StringsUpto(buf, off, n, u, StringsAt(buf, off))
    BY <2>1, <2>2, <2>4, StringsUnrolled, Zenon
  <2>7. PICK u : StringsUpto(s, off, n, u, StringsAt(s, off))
    BY <2>5
  <2>8. PICK v : StringsUpto(buf, off, n, v, StringsAt(buf, off))
    BY <2>6
  <2>9. u[0] = v[0] /\ u[0].next = off + 1
    BY <2>7, <2>8 DEF StringsUpto
  <2>10. /\ \A i \in 1..n : u[i] = StringAt(s, u[i - 1]) /\ v[i] = StringAt(buf, v[i - 1])
         /\ u[n] = StringsAt(s, off) /\ v[n] = StringsAt(buf, off)
    BY <2>7, <2>8 DEF StringsUpto
  <2> DEFINE T == {i \in 0..n : Agrees(u[i], v[i])}
  <2>11. 0 \in T
    <3>1. Agrees(u[0], v[0])
      BY <2>1, <2>9 DEF Agrees, Offset
    <3> QED
      BY <2>5, <3>1
  <2>12. ASSUME NEW i \in 0..n, i \in T, i < n PROVE i + 1 \in T
    <3>1. i + 1 \in 1..n /\ (i + 1) - 1 = i /\ i + 1 \in 0..n
      BY <2>5, <2>12
    <3>2. u[i + 1] = StringAt(s, u[i]) /\ v[i + 1] = StringAt(buf, v[i])
      <4>1. u[i + 1] = StringAt(s, u[(i + 1) - 1]) /\ v[i + 1] = StringAt(buf, v[(i + 1) - 1])
        BY <2>10, <3>1
      <4> QED
        BY <3>1, <4>1
    <3>3. Agrees(u[i], v[i])
      BY <2>12
    <3>4. Agrees(u[i + 1], v[i + 1])
      BY <3>2, <3>3, StringAgrees
    <3> QED
      BY <3>1, <3>4
  <2>13. n \in T
    <3> HIDE DEF T
    <3>1. \A i \in 0..n : i \in T
      BY <2>5, <2>11, <2>12, UpFrom
    <3> QED
      BY <2>5, <3>1
  <2>14. Agrees(StringsAt(s, off), StringsAt(buf, off))
    BY <2>10, <2>13
  <2> QED
    BY <1>2, <2>1, <2>14
<1> QED
  BY <1>3, <1>4

LEMMA NumbersAgree ==
  ASSUME NEW s, NEW buf, Begins(s, buf), NEW x, NEW y, Agrees(x, y)
  PROVE  /\ Agrees(NumbersAt(s, x.next), NumbersAt(buf, y.next))
         /\ NumbersAt(s, x.next).next # Beyond => x = y /\ x.next \in Nat
<1>1. Offset(x.next) /\ (x.next = Beyond \/ x = y)
  BY DEF Agrees
<1>2. PICK off : off = x.next
  OBVIOUS
<1>3. CASE off = Beyond \/ ~Holds(s, off, 1)
  <2>1. \E r : NumbersAt(s, off) = [read |-> r, next |-> Beyond]
    BY <1>3, Zenon DEF NumbersAt
  <2>2. NumbersAt(s, off).next = Beyond
    BY <2>1
  <2> QED
    BY <1>2, <2>2 DEF Agrees, Offset
<1>4. CASE ~(off = Beyond \/ ~Holds(s, off, 1))
  <2>1. off \in Nat /\ x = y /\ Holds(s, off, 1)
    BY <1>1, <1>2, <1>4 DEF Offset
  <2>2. s \in Seq(Byte) /\ buf \in Seq(Byte)
    BY DEF Begins
  <2>3. PICK n : n = s[off + 1]
    OBVIOUS
  <2>4. Holds(buf, off, 1) /\ n = buf[off + 1]
    <3>1. off + 1 \in 1..Len(s) /\ Len(s) <= Len(buf)
      BY <2>1, <2>2, SequenceIs DEF Begins, Holds
    <3>2. Len(s) \in Nat /\ Len(buf) \in Nat
      BY <2>2, SequenceIs
    <3> QED
      BY <2>1, <2>3, <3>1, <3>2 DEF Begins, Holds
  <2>5. n \in Nat /\ \E u : NumbersUpto(s, off, n, u, NumbersAt(s, off))
    BY <2>1, <2>2, <2>3, NumbersUnrolled, Zenon
  <2>6. \E u : NumbersUpto(buf, off, n, u, NumbersAt(buf, off))
    BY <2>1, <2>2, <2>4, NumbersUnrolled, Zenon
  <2>7. PICK u : NumbersUpto(s, off, n, u, NumbersAt(s, off))
    BY <2>5
  <2>8. PICK v : NumbersUpto(buf, off, n, v, NumbersAt(buf, off))
    BY <2>6
  <2>9. u[0] = v[0] /\ u[0].next = off + 1
    BY <2>7, <2>8 DEF NumbersUpto
  <2>10. /\ \A i \in 1..n : u[i] = NumberAt(s, u[i - 1]) /\ v[i] = NumberAt(buf, v[i - 1])
         /\ u[n] = NumbersAt(s, off) /\ v[n] = NumbersAt(buf, off)
    BY <2>7, <2>8 DEF NumbersUpto
  <2> DEFINE T == {i \in 0..n : Agrees(u[i], v[i])}
  <2>11. 0 \in T
    <3>1. Agrees(u[0], v[0])
      BY <2>1, <2>9 DEF Agrees, Offset
    <3> QED
      BY <2>5, <3>1
  <2>12. ASSUME NEW i \in 0..n, i \in T, i < n PROVE i + 1 \in T
    <3>1. i + 1 \in 1..n /\ (i + 1) - 1 = i /\ i + 1 \in 0..n
      BY <2>5, <2>12
    <3>2. u[i + 1] = NumberAt(s, u[i]) /\ v[i + 1] = NumberAt(buf, v[i])
      <4>1. u[i + 1] = NumberAt(s, u[(i + 1) - 1]) /\ v[i + 1] = NumberAt(buf, v[(i + 1) - 1])
        BY <2>10, <3>1
      <4> QED
        BY <3>1, <4>1
    <3>3. Agrees(u[i], v[i])
      BY <2>12
    <3>4. Agrees(u[i + 1], v[i + 1])
      BY <3>2, <3>3, NumberAgrees
    <3> QED
      BY <3>1, <3>4
  <2>13. n \in T
    <3> HIDE DEF T
    <3>1. \A i \in 0..n : i \in T
      BY <2>5, <2>11, <2>12, UpFrom
    <3> QED
      BY <2>5, <3>1
  <2>14. Agrees(NumbersAt(s, off), NumbersAt(buf, off))
    BY <2>10, <2>13
  <2> QED
    BY <1>2, <2>1, <2>14
<1> QED
  BY <1>3, <1>4

LEMMA FieldsSame ==
  ASSUME NEW s, NEW buf, Begins(s, buf), NEW layout, NEW lo, NEW hi,
         LayoutIn(layout, lo, hi), Reaches(s, layout)
  PROVE  Reaches(buf, layout) /\ Fields(s, layout) = Fields(buf, layout)
<1>1. ASSUME NEW f \in DOMAIN layout
      PROVE  /\ Holds(buf, layout[f][1], layout[f][2])
             /\ Slice(s, layout[f][1], layout[f][2]) = Slice(buf, layout[f][1], layout[f][2])
  <2>1. PICK off, n : off = layout[f][1] /\ n = layout[f][2]
    OBVIOUS
  <2>2. off \in Nat /\ n \in Nat /\ Holds(s, off, n)
    BY <2>1 DEF LayoutIn, Reaches
  <2> QED
    BY <2>1, <2>2, SliceSame
<1> QED
  BY <1>1 DEF Reaches, Fields

LEMMA ReachesAll ==
  ASSUME NEW s \in Seq(Byte), NEW layout, NEW lo, NEW hi, LayoutIn(layout, lo, hi), hi <= Len(s)
  PROVE  Reaches(s, layout)
<1>1. Len(s) \in Nat
  BY SequenceIs
<1>2. ASSUME NEW f \in DOMAIN layout PROVE layout[f][1] + layout[f][2] <= Len(s)
  BY <1>1 DEF LayoutIn
<1> QED
  BY <1>2 DEF Reaches, Holds

(* What is read of a buffer that ends early. *)
CutOrSame(a, b) == a = Undecodable \/ a = b

LEMMA FixedCut ==
  ASSUME NEW s, NEW buf, Begins(s, buf)
  PROVE  /\ CutOrSame(ParseGamepad(s), ParseGamepad(buf))
         /\ CutOrSame(ParseDiscovery(s), ParseDiscovery(buf))
         /\ CutOrSame(ParseKeepAlive(s), ParseKeepAlive(buf))
<1>1. PICK lo, a, b, c : /\ LayoutIn(GamepadLayout, lo, a) /\ LayoutIn(DiscoveryLayout, lo, b)
                         /\ LayoutIn(KeepAliveLayout, lo, c)
  BY Layouts
<1>2. Reaches(s, DiscoveryLayout) =>
        Reaches(buf, DiscoveryLayout) /\ Fields(s, DiscoveryLayout) = Fields(buf, DiscoveryLayout)
  BY <1>1, FieldsSame
<1>3. Reaches(s, KeepAliveLayout) =>
        Reaches(buf, KeepAliveLayout) /\ Fields(s, KeepAliveLayout) = Fields(buf, KeepAliveLayout)
  BY <1>1, FieldsSame
<1>4. Reaches(s, GamepadLayout) =>
        Reaches(buf, GamepadLayout) /\ Fields(s, GamepadLayout) = Fields(buf, GamepadLayout)
  BY <1>1, FieldsSame
<1>5. ASSUME Reaches(s, GamepadLayout) PROVE Slice(s, 42, 4) = Slice(buf, 42, 4)
  <2>1. Holds(s, 49, 4)
    <3>1. "touchpad_finger_1_x" \in DOMAIN GamepadLayout
          /\ GamepadLayout["touchpad_finger_1_x"] = <<49, 4>>
      BY DEF GamepadLayout
    <3>2. Holds(s, GamepadLayout["touchpad_finger_1_x"][1], GamepadLayout["touchpad_finger_1_x"][2])
      BY <1>5, <3>1 DEF Reaches
    <3> QED
      BY <3>1, <3>2
  <2>2. Len(s) \in Nat
    BY SequenceIs DEF Begins
  <2>3. PICK off, n : off = 42 /\ n = 4
    OBVIOUS
  <2>4. off \in Nat /\ n \in Nat /\ Holds(s, off, n)
    BY <2>1, <2>2, <2>3 DEF Holds
  <2> QED
    BY <2>3, <2>4, SliceSame
<1>6. CutOrSame(ParseGamepad(s), ParseGamepad(buf))
  BY <1>4, <1>5 DEF ParseGamepad, ButtonsAt, CutOrSame
<1>7. CutOrSame(ParseDiscovery(s), ParseDiscovery(buf))
  BY <1>2 DEF ParseDiscovery, CutOrSame
<1>8. CutOrSame(ParseKeepAlive(s), ParseKeepAlive(buf))
  BY <1>3 DEF ParseKeepAlive, CutOrSame
<1> QED
  BY <1>6, <1>7, <1>8

LEMMA HeartbeatCut ==
  ASSUME NEW s, NEW buf, Begins(s, buf)
  PROVE  CutOrSame(ParseHeartbeat(s), ParseHeartbeat(buf))
<1>1. PICK lo, hi : LayoutIn(HeartbeatLayout, lo, hi)
  BY Layouts
<1>2. Reaches(s, HeartbeatLayout) =>
        Reaches(buf, HeartbeatLayout) /\ Fields(s, HeartbeatLayout) = Fields(buf, HeartbeatLayout)
  BY <1>1, FieldsSame
<1>3. Agrees(StrAt(s, 38, 1), StrAt(buf, 38, 1))
  <2>1. PICK off, w : off = 38 /\ w = 1
    OBVIOUS
  <2>2. Offset(off) /\ w \in {1, 2}
    BY <2>1 DEF Offset
  <2>3. Agrees(StrAt(s, off, w), StrAt(buf, off, w))
    BY <2>2, StrAtAgrees
  <2> QED
    BY <2>1, <2>3
<1>4. PICK t, u : t = StrAt(s, 38, 1) /\ u = StrAt(buf, 38, 1)
  OBVIOUS
<1>5. t.next = Beyond \/ t = u
  BY <1>3, <1>4 DEF Agrees
<1>6. ParseHeartbeat(s) =
        IF Reaches(s, HeartbeatLayout) /\ t.next # Beyond
        THEN [kind |-> "heartbeat", fields |-> RobotState(Fields(s, HeartbeatLayout)),
              timezone_id |-> t.text]
        ELSE Undecodable
  BY <1>4, Zenon DEF ParseHeartbeat
<1>7. ParseHeartbeat(buf) =
        IF Reaches(buf, HeartbeatLayout) /\ u.next # Beyond
        THEN [kind |-> "heartbeat", fields |-> RobotState(Fields(buf, HeartbeatLayout)),
              timezone_id |-> u.text]
        ELSE Undecodable
  BY <1>4, Zenon DEF ParseHeartbeat
<1> QED
  BY <1>2, <1>5, <1>6, <1>7, Zenon DEF CutOrSame

LEMMA CommandCut ==
  ASSUME NEW s, NEW buf, Begins(s, buf)
  PROVE  CutOrSame(ParseCommand(s), ParseCommand(buf))
<1>1. PICK n, nn : n = StrAt(s, 14, 2) /\ nn = StrAt(buf, 14, 2)
  OBVIOUS
<1>2. Agrees(n, nn) /\ (n.next # Beyond => 16 <= Len(s))
  <2>1. PICK off, w : off = 14 /\ w = 2
    OBVIOUS
  <2>2. Offset(off) /\ w \in {1, 2}
    BY <2>1 DEF Offset
  <2>3. /\ Agrees(StrAt(s, off, w), StrAt(buf, off, w))
        /\ StrAt(s, off, w).next # Beyond => off + w <= Len(s)
    BY <2>2, StrAtAgrees
  <2> QED
    BY <1>1, <2>1, <2>3
<1>3. PICK a, aa : a = (Slice(s, 13, 1) # <<0>>) /\ aa = (Slice(buf, 13, 1) # <<0>>)
  OBVIOUS
<1>4. PICK e, ee : /\ e = IF a THEN [text |-> <<>>, next |-> 0] ELSE StrAt(s, n.next, 2)
                   /\ ee = IF aa THEN [text |-> <<>>, next |-> 0] ELSE StrAt(buf, nn.next, 2)
  OBVIOUS
<1>5. ParseCommand(s) =
        IF n.next # Beyond /\ e.next # Beyond
        THEN [kind |-> "command", fields |-> Fields(s, CommandLayout), acknowledged |-> a,
              name |-> n.text, extra |-> e.text]
        ELSE Undecodable
  BY <1>1, <1>3, <1>4, Zenon DEF ParseCommand
<1>6. ParseCommand(buf) =
        IF nn.next # Beyond /\ ee.next # Beyond
        THEN [kind |-> "command", fields |-> Fields(buf, CommandLayout), acknowledged |-> aa,
              name |-> nn.text, extra |-> ee.text]
        ELSE Undecodable
  BY <1>1, <1>3, <1>4, Zenon DEF ParseCommand
<1>7. CASE n.next = Beyond
  BY <1>5, <1>7, Zenon DEF CutOrSame
<1>8. CASE n.next # Beyond
  <2>1. n = nn /\ 16 <= Len(s)
    BY <1>2, <1>8 DEF Agrees
  <2>2. s \in Seq(Byte) /\ Len(s) \in Nat
    BY SequenceIs DEF Begins
  <2>3. Slice(s, 13, 1) = Slice(buf, 13, 1)
    <3>1. PICK off, w : off = 13 /\ w = 1
      OBVIOUS
    <3>2. off \in Nat /\ w \in Nat /\ Holds(s, off, w)
      BY <2>1, <2>2, <3>1 DEF Holds
    <3> QED
      BY <3>1, <3>2, SliceSame
  <2>4. a = aa
    BY <1>3, <2>3, Zenon
  <2>5. Fields(s, CommandLayout) = Fields(buf, CommandLayout)
    <3>1. PICK lo, hi : LayoutIn(CommandLayout, lo, hi) /\ hi <= Len(s)
      <4>1. LayoutIn(CommandLayout, 3, 13) /\ 13 <= Len(s)
        BY <2>1, <2>2, Layouts
      <4> QED
        BY <4>1
    <3>2. Reaches(s, CommandLayout)
      BY <2>2, <3>1, ReachesAll
    <3> QED
      BY <3>1, <3>2, FieldsSame
  <2>6. e.next = Beyond \/ e = ee
    <3>1. CASE a
      BY <1>4, <2>4, <3>1, Zenon
    <3>2. CASE ~a
      <4>1. 2 \in {1, 2} /\ Begins(s, buf) /\ Agrees(n, nn)
        BY <1>2
      <4>2. Agrees(StrAt(s, n.next, 2), StrAt(buf, nn.next, 2))
        BY <4>1, StrAgrees, Zenon
      <4>3. e = StrAt(s, n.next, 2) /\ ee = StrAt(buf, nn.next, 2)
        BY <1>4, <2>4, <3>2, Zenon
      <4> QED
        BY <4>2, <4>3, Zenon DEF Agrees
    <3> QED
      BY <3>1, <3>2
  <2> QED
    BY <1>5, <1>6, <2>1, <2>4, <2>5, <2>6, Zenon DEF CutOrSame
<1> QED
  BY <1>7, <1>8

LEMMA TelemetryCut ==
  ASSUME NEW s, NEW buf, Begins(s, buf)
  PROVE  CutOrSame(ParseTelemetry(s), ParseTelemetry(buf))
<1>1. PICK t, tt : t = StrAt(s, 15, 1) /\ tt = StrAt(buf, 15, 1)
  OBVIOUS
<1>2. Agrees(t, tt) /\ (t.next # Beyond => 16 <= Len(s))
  <2>1. PICK off, w : off = 15 /\ w = 1
    OBVIOUS
  <2>2. Offset(off) /\ w \in {1, 2}
    BY <2>1 DEF Offset
  <2>3. /\ Agrees(StrAt(s, off, w), StrAt(buf, off, w))
        /\ StrAt(s, off, w).next # Beyond => off + w <= Len(s)
    BY <2>2, StrAtAgrees
  <2> QED
    BY <1>1, <2>1, <2>3
<1>3. PICK l, ll : l = StringsAt(s, t.next) /\ ll = StringsAt(buf, tt.next)
  OBVIOUS
<1>4. Agrees(l, ll) /\ (l.next # Beyond => t = tt /\ t.next \in Nat)
  BY <1>2, <1>3, StringsAgree, Zenon
<1>5. PICK m, mm : m = NumbersAt(s, l.next) /\ mm = NumbersAt(buf, ll.next)
  OBVIOUS
<1>6. Agrees(m, mm) /\ (m.next # Beyond => l = ll /\ l.next \in Nat)
  BY <1>4, <1>5, NumbersAgree, Zenon
<1>7. PICK a, aa : a = (Slice(s, 13, 1) # <<0>>) /\ aa = (Slice(buf, 13, 1) # <<0>>)
  OBVIOUS
<1>8. ParseTelemetry(s) =
        IF m.next = Beyond THEN Undecodable
        ELSE [kind |-> "telemetry", fields |-> RobotState(Fields(s, TelemetryLayout)),
              is_sorted |-> a, tag |-> t.text, strings |-> l.read, numbers |-> m.read]
  BY <1>1, <1>3, <1>5, <1>7, Zenon DEF ParseTelemetry
<1>9. ParseTelemetry(buf) =
        IF mm.next = Beyond THEN Undecodable
        ELSE [kind |-> "telemetry", fields |-> RobotState(Fields(buf, TelemetryLayout)),
              is_sorted |-> aa, tag |-> tt.text, strings |-> ll.read, numbers |-> mm.read]
  BY <1>1, <1>3, <1>5, <1>7, Zenon DEF ParseTelemetry
<1>10. CASE m.next = Beyond
  BY <1>8, <1>10, Zenon DEF CutOrSame
<1>11. CASE m.next # Beyond
  <2>1. m = mm /\ l = ll /\ t = tt /\ 16 <= Len(s)
    <3>1. \A i \in Nat : i # Beyond
      BY DEF Beyond
    <3> QED
      BY <1>2, <1>4, <1>6, <1>11, <3>1 DEF Agrees
  <2>2. s \in Seq(Byte) /\ Len(s) \in Nat
    BY SequenceIs DEF Begins
  <2>3. Slice(s, 13, 1) = Slice(buf, 13, 1)
    <3>1. PICK off, w : off = 13 /\ w = 1
      OBVIOUS
    <3>2. off \in Nat /\ w \in Nat /\ Holds(s, off, w)
      BY <2>1, <2>2, <3>1 DEF Holds
    <3> QED
      BY <3>1, <3>2, SliceSame
  <2>4. a = aa
    BY <1>7, <2>3, Zenon
  <2>5. Fields(s, TelemetryLayout) = Fields(buf, TelemetryLayout)
    <3>1. PICK lo, hi : LayoutIn(TelemetryLayout, lo, hi) /\ hi <= Len(s)
      <4>1. LayoutIn(TelemetryLayout, 3, 15) /\ 15 <= Len(s)
        BY <2>1, <2>2, Layouts
      <4> QED
        BY <4>1
    <3>2. Reaches(s, TelemetryLayout)
      BY <2>2, <3>1, ReachesAll
    <3> QED
      BY <3>1, <3>2, FieldsSame
  <2> QED
    BY <1>8, <1>9, <1>11, <2>1, <2>4, <2>5, Zenon DEF CutOrSame
<1> QED
  BY <1>10, <1>11

LEMMA ParseCut ==
  ASSUME NEW s, NEW buf, Begins(s, buf)
  PROVE  CutOrSame(Parse(s), Parse(buf))
<1>1. s \in Seq(Byte) /\ buf \in Seq(Byte) /\ Len(s) \in Nat /\ Len(buf) \in Nat
  BY SequenceIs DEF Begins
<1>2. CASE s = <<>>
  BY <1>2 DEF Parse, CutOrSame
<1>3. CASE s # <<>>
  <2>1. Len(s) > 0 /\ buf # <<>> /\ s[1] = buf[1]
    <3>1. Len(s) > 0
      BY <1>1, <1>3
    <3> QED
      BY <1>1, <3>1 DEF Begins
  <2>2. PICK b : b = s[1]
    OBVIOUS
  <2>3. CASE b = 1
    <3>1. Parse(s) = ParseHeartbeat(s) /\ Parse(buf) = ParseHeartbeat(buf)
      BY <1>3, <2>1, <2>2, <2>3 DEF Parse
    <3> QED
      BY <3>1, HeartbeatCut
  <2>4. CASE b = 2
    <3>1. Parse(s) = ParseGamepad(s) /\ Parse(buf) = ParseGamepad(buf)
      BY <1>3, <2>1, <2>2, <2>4 DEF Parse
    <3> QED
      BY <3>1, FixedCut
  <2>5. CASE b = 3
    <3>1. Parse(s) = ParseDiscovery(s) /\ Parse(buf) = ParseDiscovery(buf)
      BY <1>3, <2>1, <2>2, <2>5 DEF Parse
    <3> QED
      BY <3>1, FixedCut
  <2>6. CASE b = 4
    <3>1. Parse(s) = ParseCommand(s) /\ Parse(buf) = ParseCommand(buf)
      BY <1>3, <2>1, <2>2, <2>6 DEF Parse
    <3> QED
      BY <3>1, CommandCut
  <2>7. CASE b = 5
    <3>1. Parse(s) = ParseTelemetry(s) /\ Parse(buf) = ParseTelemetry(buf)
      BY <1>3, <2>1, <2>2, <2>7 DEF Parse
    <3> QED
      BY <3>1, TelemetryCut
  <2>8. CASE b = 6
    <3>1. Parse(s) = ParseKeepAlive(s) /\ Parse(buf) = ParseKeepAlive(buf)
      BY <1>3, <2>1, <2>2, <2>8 DEF Parse
    <3> QED
      BY <3>1, FixedCut
  <2>9. CASE b \notin {1, 2, 3, 4, 5, 6}
    <3>1. Parse(s) = Undecodable
      BY <1>3, <2>2, <2>9 DEF Parse
    <3> QED
      BY <3>1 DEF CutOrSame
  <2> QED
    BY <2>3, <2>4, <2>5, <2>6, <2>7, <2>8, <2>9
<1> QED
  BY <1>2, <1>3

(* Every packet the program can hold, serialized and parsed, is itself, and   *)
(* a buffer that ends early is read as nothing or as the same packet, never   *)
(* as another (packets/, Packet::parse and the serialize of each packet).     *)
THEOREM EveryPacketRoundTrips ==
  ASSUME NEW p, IsPacket(p) PROVE RoundTrip(p)
<1> DEFINE buf == Serialize(p)
<1>1. buf \in Seq(Byte) /\ (Encodable(p) => Parse(buf) = p)
  BY PacketSurvives, Zenon DEF Survives
<1> HIDE DEF buf
<1>2. ASSUME NEW n \in 0..Len(buf), Parse(buf) = p
      PROVE  Parse(SubSeq(buf, 1, n)) \in {Undecodable, p}
  <2> DEFINE s == SubSeq(buf, 1, n)
  <2>1. Begins(s, buf)
    <3> HIDE DEF Byte
    <3> QED
      BY <1>1 DEF Begins
  <2>2. CutOrSame(Parse(s), Parse(buf))
    BY <2>1, ParseCut, Zenon
  <2> QED
    BY <1>2, <2>2, Zenon DEF CutOrSame
<1> QED
  BY <1>1, <1>2, Zenon DEF RoundTrip, buf

-----------------------------------------------------------------------------
(* What kind of packet is read, whatever the bytes. *)
LEMMA TextIsRead ==
  ASSUME NEW s \in Seq(Byte), NEW off, Offset(off), NEW w \in {1, 2}
  PROVE  Offset(StrAt(s, off, w).next) /\ Len(StrAt(s, off, w).text) \in Nat
<1>1. PICK n, text : n = Number(Slice(s, off, w)) /\ text = Slice(s, off + w, n)
  OBVIOUS
<1>2. StrAt(s, off, w) =
        IF off # Beyond /\ Holds(s, off, w) /\ Holds(s, off + w, n) /\ Utf8(text)
        THEN [text |-> text, next |-> off + w + n] ELSE [text |-> <<>>, next |-> Beyond]
  BY <1>1, Zenon DEF StrAt
<1>3. CASE off # Beyond /\ Holds(s, off, w) /\ Holds(s, off + w, n) /\ Utf8(text)
  <2>1. off \in Nat /\ w \in Nat /\ off + w \in Nat
    BY <1>3 DEF Offset
  <2>2. n \in Nat
    <3>1. Slice(s, off, w) \in Seq(Byte) /\ Len(Slice(s, off, w)) = w
      BY <1>3, <2>1, SliceIs
    <3> QED
      BY <1>1, <3>1, NumberIsNat
  <2>3. Len(text) = n
    <3>1. PICK at : at = off + w
      OBVIOUS
    <3>2. at \in Nat /\ Holds(s, at, n)
      BY <1>3, <2>1, <3>1
    <3>3. Len(Slice(s, at, n)) = n
      BY <2>2, <3>2, SliceIs
    <3> QED
      BY <1>1, <3>1, <3>3
  <2>4. PICK x : x = off + w + n
    OBVIOUS
  <2>5. x \in Nat
    BY <2>1, <2>2, <2>4
  <2>6. StrAt(s, off, w) = [text |-> text, next |-> x]
    BY <1>2, <1>3, <2>4, Zenon
  <2> QED
    BY <2>2, <2>3, <2>5, <2>6 DEF Offset
<1>4. CASE ~(off # Beyond /\ Holds(s, off, w) /\ Holds(s, off + w, n) /\ Utf8(text))
  <2>1. StrAt(s, off, w) = [text |-> <<>>, next |-> Beyond]
    BY <1>2, <1>4, Zenon
  <2> QED
    BY <2>1 DEF Offset
<1> QED
  BY <1>3, <1>4

KindIs(p, k) == p.kind = k \/ p.kind = "undecodable"

LEMMA CommandHasExtra ==
  ASSUME NEW s \in Seq(Byte)
  PROVE  /\ KindIs(ParseCommand(s), "command")
         /\ ParseCommand(s).kind = "command" => Len(ParseCommand(s).extra) \in Nat
<1>1. PICK n : n = StrAt(s, 14, 2)
  OBVIOUS
<1>2. Offset(n.next)
  <2>1. PICK off, w : off = 14 /\ w = 2
    OBVIOUS
  <2>2. Offset(off) /\ w \in {1, 2}
    BY <2>1 DEF Offset
  <2> QED
    BY <1>1, <2>1, <2>2, TextIsRead
<1>3. PICK a : a = (Slice(s, 13, 1) # <<0>>)
  OBVIOUS
<1>4. PICK e : e = IF a THEN [text |-> <<>>, next |-> 0] ELSE StrAt(s, n.next, 2)
  OBVIOUS
<1>5. Len(e.text) \in Nat
  <2>1. CASE a
    BY <1>4, <2>1
  <2>2. CASE ~a
    <3>1. e = StrAt(s, n.next, 2)
      BY <1>4, <2>2, Zenon
    <3>2. 2 \in {1, 2}
      OBVIOUS
    <3>3. Len(StrAt(s, n.next, 2).text) \in Nat
      BY <1>2, <3>2, TextIsRead
    <3> QED
      BY <3>1, <3>3
  <2> QED
    BY <2>1, <2>2
<1>6. ParseCommand(s) =
        IF n.next # Beyond /\ e.next # Beyond
        THEN [kind |-> "command", fields |-> Fields(s, CommandLayout), acknowledged |-> a,
              name |-> n.text, extra |-> e.text]
        ELSE Undecodable
  BY <1>1, <1>3, <1>4, Zenon DEF ParseCommand
<1>7. PICK f, x, y : f = Fields(s, CommandLayout) /\ x = n.text /\ y = e.text
  OBVIOUS
<1>8. \/ ParseCommand(s) = [kind |-> "command", fields |-> f, acknowledged |-> a,
                            name |-> x, extra |-> y]
      \/ ParseCommand(s) = Undecodable
  BY <1>6, <1>7, Zenon
<1> QED
  BY <1>5, <1>7, <1>8 DEF KindIs, Undecodable

LEMMA KindsOfRest ==
  ASSUME NEW s
  PROVE  /\ KindIs(ParseHeartbeat(s), "heartbeat") /\ KindIs(ParseGamepad(s), "gamepad")
         /\ KindIs(ParseDiscovery(s), "discovery") /\ KindIs(ParseKeepAlive(s), "keepalive")
<1>1. \A a, b : [kind |-> "heartbeat", fields |-> a, timezone_id |-> b].kind = "heartbeat"
  OBVIOUS
<1>2. \A a, b : [kind |-> "gamepad", fields |-> a, buttons |-> b].kind = "gamepad"
  OBVIOUS
<1>3. \A a : [kind |-> "discovery", fields |-> a].kind = "discovery"
  OBVIOUS
<1>4. \A a : [kind |-> "keepalive", fields |-> a].kind = "keepalive"
  OBVIOUS
<1>5. Undecodable.kind = "undecodable"
  BY DEF Undecodable
<1>6. KindIs(ParseHeartbeat(s), "heartbeat")
  BY <1>1, <1>5, Zenon DEF ParseHeartbeat, KindIs
<1>7. KindIs(ParseGamepad(s), "gamepad")
  BY <1>2, <1>5, Zenon DEF ParseGamepad, KindIs
<1>8. KindIs(ParseDiscovery(s), "discovery")
  BY <1>3, <1>5, Zenon DEF ParseDiscovery, KindIs
<1>9. KindIs(ParseKeepAlive(s), "keepalive")
  BY <1>4, <1>5, Zenon DEF ParseKeepAlive, KindIs
<1> QED
  BY <1>6, <1>7, <1>8, <1>9

LEMMA KindOfTelemetry ==
  ASSUME NEW s PROVE KindIs(ParseTelemetry(s), "telemetry")
<1>1. \A a, b, c, d, e :
        [kind |-> "telemetry", fields |-> a, is_sorted |-> b, tag |-> c,
         strings |-> d, numbers |-> e].kind = "telemetry"
  OBVIOUS
<1>2. Undecodable.kind = "undecodable"
  BY DEF Undecodable
<1>3. ParseTelemetry(s) = Undecodable
      \/ \E a, b, c, d, e :
           ParseTelemetry(s) = [kind |-> "telemetry", fields |-> a, is_sorted |-> b, tag |-> c,
                                strings |-> d, numbers |-> e]
  BY Zenon DEF ParseTelemetry
<1> QED
  BY <1>1, <1>2, <1>3, Zenon DEF KindIs

ReadWell(p, buf) ==
  /\ p.kind = "telemetry" => buf # <<>> /\ buf[1] = 5
  /\ p.kind = "command" => Len(p.extra) \in Nat

LEMMA KindIsRead ==
  ASSUME NEW s \in Seq(Byte)
  PROVE  ReadWell(Parse(s), s)
<1>1. "undecodable" # "telemetry" /\ "undecodable" # "command" /\ Undecodable.kind = "undecodable"
  BY DEF Undecodable
<1>2. CASE s = <<>>
  <2>1. Parse(s) = Undecodable
    BY <1>2, Zenon DEF Parse
  <2> QED
    BY <1>1, <2>1, Zenon DEF ReadWell
<1>3. CASE s # <<>>
  <2>1. PICK a : a = s[1]
    OBVIOUS
  <2>2. Parse(s) = CASE a = 1 -> ParseHeartbeat(s) [] a = 2 -> ParseGamepad(s)
                     [] a = 3 -> ParseDiscovery(s) [] a = 4 -> ParseCommand(s)
                     [] a = 5 -> ParseTelemetry(s) [] a = 6 -> ParseKeepAlive(s)
                     [] OTHER -> Undecodable
    BY <1>3, <2>1, Zenon DEF Parse
  <2>3. PICK h, g, d, c, t, k :
          /\ h = ParseHeartbeat(s) /\ g = ParseGamepad(s) /\ d = ParseDiscovery(s)
          /\ c = ParseCommand(s) /\ t = ParseTelemetry(s) /\ k = ParseKeepAlive(s)
    OBVIOUS
  <2>4. /\ KindIs(h, "heartbeat") /\ KindIs(g, "gamepad") /\ KindIs(d, "discovery")
        /\ KindIs(k, "keepalive") /\ KindIs(c, "command") /\ KindIs(t, "telemetry")
        /\ c.kind = "command" => Len(c.extra) \in Nat
    BY <2>3, KindsOfRest, KindOfTelemetry, CommandHasExtra, Zenon
  <2>5. Parse(s) = CASE a = 1 -> h [] a = 2 -> g [] a = 3 -> d [] a = 4 -> c
                     [] a = 5 -> t [] a = 6 -> k [] OTHER -> Undecodable
    BY <2>2, <2>3, Zenon
  <2>6. PICK p : p = Parse(s)
    OBVIOUS
  <2>7. \/ p = h \/ p = g \/ p = d \/ p = c \/ (p = t /\ a = 5) \/ p = k \/ p = Undecodable
    BY <2>5, <2>6
  <2>8. /\ p.kind = "telemetry" => a = 5
        /\ p.kind = "command" => Len(p.extra) \in Nat
    BY <1>1, <2>4, <2>7 DEF KindIs
  <2> QED
    BY <1>3, <2>1, <2>6, <2>8, Zenon DEF ReadWell
<1> QED
  BY <1>2, <1>3

-----------------------------------------------------------------------------
(* Base64: letters and what they stand for. *)
LEMMA LetterOf ==
  ASSUME NEW n \in 0..63
  PROVE  /\ Char(n) \in 0..255 /\ Char(n) \notin Whitespace /\ Char(n) # Pad
         /\ Char(n) \in Range(Alphabet) /\ Sextet(Char(n)) = n
<1> DEFINE Value(i) == IF i <= 26 THEN 64 + i ELSE IF i <= 52 THEN 70 + i
                       ELSE IF i <= 62 THEN i - 5 ELSE IF i = 63 THEN 43 ELSE 47
<1>1. ASSUME NEW i \in 1..64 PROVE Alphabet[i] = Value(i)
  <2>1. Alphabet[i] = CASE i \in 1..26 -> 64 + i [] i \in 27..52 -> 70 + i
                        [] i \in 53..62 -> i - 5 [] i = 63 -> 43 [] i = 64 -> 47
    BY DEF Alphabet
  <2>2. CASE i \in 1..26
    BY <2>1, <2>2
  <2>3. CASE i \in 27..52
    BY <2>1, <2>3
  <2>4. CASE i \in 53..62
    BY <2>1, <2>4
  <2>5. CASE i = 63
    BY <2>1, <2>5
  <2>6. CASE i = 64
    BY <2>1, <2>6
  <2> QED
    BY <2>2, <2>3, <2>4, <2>5, <2>6
<1>2. \A i, j \in 1..64 : Value(i) = Value(j) => i = j
  OBVIOUS
<1>3. \A i \in 1..64 : Value(i) \in 0..255 /\ Value(i) \notin {32, 9, 13, 10} /\ Value(i) # 61
  OBVIOUS
<1>4. DOMAIN Alphabet = 1..64
  BY DEF Alphabet
<1> HIDE DEF Value
<1>5. n + 1 \in 1..64 /\ Char(n) = Alphabet[n + 1] /\ (n + 1) - 1 = n
  BY DEF Char
<1>6. Char(n) \in Range(Alphabet)
  BY <1>4, <1>5 DEF Range
<1>7. Char(n) \in 0..255 /\ Char(n) \notin Whitespace /\ Char(n) # Pad
  BY <1>1, <1>3, <1>5 DEF Whitespace, Pad
<1>8. PICK i : i = CHOOSE x \in 1..64 : Alphabet[x] = Char(n)
  OBVIOUS
<1>9. i \in 1..64 /\ Alphabet[i] = Char(n)
  BY <1>5, <1>8
<1>10. i = n + 1
  BY <1>1, <1>2, <1>5, <1>9
<1> QED
  BY <1>5, <1>6, <1>7, <1>8, <1>10 DEF Sextet

(* A sequence in rows of k. *)
InRows(s, k, g, n) ==
  /\ n \in Nat /\ g \in [1..n -> Seq(Byte)] /\ Len(s) <= k * n
  /\ n > 0 => k * (n - 1) < Len(s)
  /\ \A j \in 1..n :
       /\ Len(g[j]) = (IF j < n THEN k * j ELSE Len(s)) - k * (j - 1)
       /\ \A i \in 1..Len(g[j]) : g[j][i] = s[k * (j - 1) + i]

LEMMA RowsNeeded ==
  ASSUME NEW a \in Nat, NEW k \in Nat \ {0}
  PROVE  \E n \in Nat : /\ n = (a + k - 1) \div k
                        /\ a <= k * n /\ (n > 0 => k * (n - 1) < a)
<1> DEFINE b == a + k - 1
           n == b \div k
<1>1. b \in Nat
  OBVIOUS
<1>2. n \in Nat /\ k * n <= b /\ b < k * n + k
  <2> HIDE DEF b
  <2> QED
    BY <1>1, SMT
<1> HIDE DEF n
<1>3. k * (n - 1) = k * n - k /\ k * n \in Nat
  BY <1>2, SMT
<1> QED
  BY <1>2, <1>3 DEF n

LEMMA Grouped ==
  ASSUME NEW s \in Seq(Byte), NEW k \in Nat \ {0}
  PROVE  \E n \in Nat : InRows(s, k, Groups(s, k), n)
<1>0. Len(s) \in Nat
  OBVIOUS
<1>1. PICK n \in Nat : /\ n = (Len(s) + k - 1) \div k
                       /\ Len(s) <= k * n /\ (n > 0 => k * (n - 1) < Len(s))
  BY <1>0, RowsNeeded
<1> DEFINE From(j) == k * (j - 1)
           To(j) == IF k * j < Len(s) THEN k * j ELSE Len(s)
           Slot(j) == SubSeq(s, From(j) + 1, To(j))
           g == Groups(s, k)
<1>2. g = [j \in 1..n |-> Slot(j)]
  BY <1>1 DEF Groups
<1>3. ASSUME NEW j \in 1..n
      PROVE  /\ From(j) \in Nat /\ To(j) \in Nat /\ From(j) < To(j) /\ To(j) <= Len(s)
             /\ To(j) = IF j < n THEN k * j ELSE Len(s)
  <2>1. /\ k * j = k * (j - 1) + k /\ k * (j - 1) \in Nat
        /\ k * (j - 1) <= k * (n - 1)
        /\ j < n => k * j <= k * (n - 1)
        /\ j = n => k * j = k * n
    BY SMT
  <2> QED
    BY <1>0, <1>1, <2>1
<1>4. ASSUME NEW j \in 1..n
      PROVE  /\ Slot(j) \in Seq(Byte) /\ Len(Slot(j)) = To(j) - From(j)
             /\ \A i \in 1..(To(j) - From(j)) : Slot(j)[i] = s[From(j) + i]
  <2>1. PICK a, b : a = From(j) /\ b = To(j)
    OBVIOUS
  <2>2. a \in Nat /\ b \in Nat /\ a < b /\ b <= Len(s)
    BY <1>3, <2>1
  <2> HIDE DEF Byte
  <2>3. /\ SubSeq(s, a + 1, b) \in Seq(Byte) /\ Len(SubSeq(s, a + 1, b)) = b - a
        /\ \A i \in 1..(b - a) : SubSeq(s, a + 1, b)[i] = s[a + i]
    BY <2>2
  <2> HIDE DEF From, To
  <2> QED
    BY <2>1, <2>3
<1>5. g \in [1..n -> Seq(Byte)]
  BY <1>2, <1>4
<1>6. ASSUME NEW j \in 1..n
      PROVE  /\ Len(g[j]) = (IF j < n THEN k * j ELSE Len(s)) - k * (j - 1)
             /\ \A i \in 1..Len(g[j]) : g[j][i] = s[k * (j - 1) + i]
  <2>1. g[j] = Slot(j)
    BY <1>2
  <2> HIDE DEF g, Slot
  <2>2. Len(g[j]) = To(j) - From(j)
    BY <1>4, <2>1
  <2>3. To(j) = IF j < n THEN k * j ELSE Len(s)
    BY <1>3
  <2>4. \A i \in 1..Len(g[j]) : g[j][i] = s[From(j) + i]
    BY <1>4, <2>1, <2>2
  <2> HIDE DEF To
  <2> QED
    BY <2>2, <2>3, <2>4
<1> HIDE DEF g
<1>7. InRows(s, k, g, n)
  BY <1>1, <1>5, <1>6 DEF InRows
<1> QED
  BY <1>7 DEF g

(* Rows of one length but the last, put end to end. *)
LaidOut(e, n, k, flat) ==
  /\ flat \in Seq(Byte)
  /\ n = 0 => Len(flat) = 0
  /\ n > 0 => Len(flat) = k * (n - 1) + Len(e[n])
  /\ \A j \in 1..n : HasAt(flat, k * (j - 1), e[j])

LEMMA Evenly ==
  ASSUME NEW n \in Nat, NEW k \in Nat, NEW e \in [1..n -> Seq(Byte)],
         \A j \in 1..n : j < n => Len(e[j]) = k
  PROVE  LaidOut(e, n, k, FlattenSeq(e))
<1> DEFINE flat == FlattenSeq(e)
<1>1. PICK ends : Ends(e, n, flat, ends)
  BY FlatIs
<1> HIDE DEF flat
<1>2. /\ flat \in Seq(Byte) /\ ends \in [0..n -> Nat] /\ ends[0] = 0 /\ ends[n] = Len(flat)
      /\ \A i \in 1..n : ends[i] = ends[i - 1] + Len(e[i]) /\ HasAt(flat, ends[i - 1], e[i])
  BY <1>1 DEF Ends
<1> DEFINE T == {j \in 0..n : j < n => ends[j] = k * j}
<1>3. 0 \in T
  <2>1. k * 0 = 0
    BY SMT
  <2> QED
    BY <1>2, <2>1
<1>4. ASSUME NEW j \in 0..n, j \in T, j < n PROVE j + 1 \in T
  <2>1. j + 1 \in 1..n /\ (j + 1) - 1 = j
    BY <1>4
  <2>2. ends[j + 1] = ends[j] + Len(e[j + 1])
    <3>1. ends[j + 1] = ends[(j + 1) - 1] + Len(e[j + 1])
      BY <1>2, <2>1
    <3> QED
      BY <2>1, <3>1
  <2>3. k * (j + 1) = k * j + k
    BY SMT
  <2>4. ends[j] = k * j
    BY <1>4
  <2>5. j + 1 < n => ends[j + 1] = k * (j + 1)
    <3>1. j + 1 < n => Len(e[j + 1]) = k
      BY <2>1
    <3> QED
      BY <2>2, <2>3, <2>4, <3>1
  <2> QED
    BY <1>4, <2>5
<1> HIDE DEF T
<1>5. \A j \in 0..n : j \in T
  BY <1>3, <1>4, UpFrom
<1>6. ASSUME NEW j \in 1..n PROVE ends[j - 1] = k * (j - 1)
  <2>1. j - 1 \in 0..n /\ j - 1 < n
    OBVIOUS
  <2> QED
    BY <1>5, <2>1 DEF T
<1>7. \A j \in 1..n : HasAt(flat, k * (j - 1), e[j])
  <2> SUFFICES ASSUME NEW j \in 1..n PROVE HasAt(flat, k * (j - 1), e[j])
    OBVIOUS
  <2>1. HasAt(flat, ends[j - 1], e[j]) /\ ends[j - 1] = k * (j - 1)
    BY <1>2, <1>6
  <2> QED
    BY <2>1, Zenon
<1>8. n > 0 => Len(flat) = k * (n - 1) + Len(e[n])
  <2> SUFFICES ASSUME n > 0 PROVE Len(flat) = k * (n - 1) + Len(e[n])
    OBVIOUS
  <2>1. n \in 1..n
    OBVIOUS
  <2>2. ends[n] = ends[n - 1] + Len(e[n]) /\ ends[n - 1] = k * (n - 1)
    BY <1>2, <1>6, <2>1
  <2>3. Len(flat) = ends[n - 1] + Len(e[n])
    BY <1>2, <2>2
  <2> QED
    BY <2>2, <2>3, Zenon
<1>9. n = 0 => Len(flat) = 0
  BY <1>2
<1>10. LaidOut(e, n, k, flat)
  BY <1>2, <1>7, <1>8, <1>9, Zenon DEF LaidOut
<1> QED
  BY <1>10 DEF flat

(* The letters of a text, by where they are. *)
LettersAt(t, l, at) ==
  /\ l \in Nat /\ at \in [1..l -> 1..Len(t)]
  /\ \A i, j \in 1..l : i < j => at[i] < at[j]
  /\ \A p \in 1..Len(t) : IsLetter(t, p) <=> \E k \in 1..l : at[k] = p

LEMMA LettersAre ==
  ASSUME NEW t \in Seq(Byte), NEW l \in Nat, NEW at, LettersAt(t, l, at)
  PROVE  Letters(t) = [k \in 1..l |-> t[at[k]]]
<1> DEFINE n == Len(t)
           e == [i \in 1..n |-> IF IsLetter(t, i) THEN <<t[i]>> ELSE <<>>]
           flat == FlattenSeq(e)
<1>1. n \in Nat /\ DOMAIN t = 1..n /\ \A i \in 1..n : t[i] \in Byte
  OBVIOUS
<1>2. Letters(t) = flat
  BY <1>1 DEF Letters
<1>3. e \in [1..n -> Seq(Byte)]
  BY <1>1
<1>4. \A i \in 1..n : e[i] = IF IsLetter(t, i) THEN <<t[i]>> ELSE <<>>
  OBVIOUS
<1> HIDE DEF e, n
<1>5. PICK ends : Ends(e, n, flat, ends)
  BY <1>1, <1>3, FlatIs
<1> HIDE DEF flat
<1>6. /\ flat \in Seq(Byte) /\ ends \in [0..n -> Nat] /\ ends[0] = 0 /\ ends[n] = Len(flat)
      /\ \A i \in 1..n : ends[i] = ends[i - 1] + Len(e[i]) /\ HasAt(flat, ends[i - 1], e[i])
  BY <1>5 DEF Ends
<1>7. /\ at \in [1..l -> 1..n] /\ \A i, j \in 1..l : i < j => at[i] < at[j]
      /\ \A p \in 1..n : IsLetter(t, p) <=> \E k \in 1..l : at[k] = p
  BY DEF LettersAt, n
<1> DEFINE Reached(i, m) ==
             /\ m \in 0..l /\ (m > 0 => at[m] <= i) /\ (m < l => at[m + 1] > i)
           T == {i \in 0..n : Reached(i, ends[i])}
<1>8. 0 \in T
  <2>1. 0 \in 0..l /\ (0 < l => at[0 + 1] > 0)
    <3>1. 0 < l => at[1] \in 1..n
      BY <1>7
    <3> QED
      BY <3>1
  <2> QED
    BY <1>1, <1>6, <2>1
<1>9. ASSUME NEW i \in 0..n, i \in T, i < n PROVE i + 1 \in T
  <2>1. i + 1 \in 1..n /\ (i + 1) - 1 = i
    BY <1>1, <1>9
  <2>2. ends[i + 1] = ends[i] + Len(e[i + 1])
    <3>1. ends[i + 1] = ends[(i + 1) - 1] + Len(e[i + 1])
      BY <1>6, <2>1
    <3> QED
      BY <2>1, <3>1
  <2>3. PICK m : m = ends[i]
    OBVIOUS
  <2>4. m \in 0..l /\ (m > 0 => at[m] <= i) /\ (m < l => at[m + 1] > i)
    BY <1>9, <2>3
  <2>5. CASE IsLetter(t, i + 1)
    <3>1. ends[i + 1] = m + 1
      <4>1. e[i + 1] = <<t[i + 1]>>
        BY <1>4, <2>1, <2>5
      <4>2. Len(e[i + 1]) = 1
        BY <4>1
      <4> QED
        BY <2>2, <2>3, <4>2
    <3>2. PICK k \in 1..l : at[k] = i + 1
      BY <1>7, <2>1, <2>5
    <3>3. k = m + 1
      <4>1. m < k
        BY <1>7, <2>4, <3>2
      <4>2. ~(m + 1 < k)
        <5> SUFFICES ASSUME m + 1 < k PROVE FALSE
          OBVIOUS
        <5>1. m + 1 \in 1..l /\ m < l
          BY <2>4
        <5>2. at[m + 1] < at[k] /\ at[m + 1] > i /\ at[m + 1] \in 1..n
          BY <1>7, <2>4, <5>1
        <5> QED
          BY <3>2, <5>2
      <4> QED
        BY <2>4, <4>1, <4>2
    <3>4. Reached(i + 1, m + 1)
      <4>1. m + 1 \in 0..l /\ at[m + 1] <= i + 1
        BY <2>4, <3>2, <3>3
      <4>2. m + 1 < l => at[(m + 1) + 1] > i + 1
        <5> SUFFICES ASSUME m + 1 < l PROVE at[(m + 1) + 1] > i + 1
          OBVIOUS
        <5>1. m + 1 \in 1..l /\ (m + 1) + 1 \in 1..l /\ m + 1 < (m + 1) + 1
          BY <2>4
        <5>2. at[m + 1] < at[(m + 1) + 1] /\ at[m + 1] = i + 1
          BY <1>7, <3>2, <3>3, <5>1
        <5> QED
          BY <5>2
      <4> QED
        BY <4>1, <4>2
    <3> HIDE DEF Reached
    <3> QED
      BY <1>9, <2>1, <3>1, <3>4
  <2>6. CASE ~IsLetter(t, i + 1)
    <3>1. ends[i + 1] = m
      <4>1. e[i + 1] = <<>>
        BY <1>4, <2>1, <2>6
      <4>2. Len(e[i + 1]) = 0
        BY <4>1
      <4> QED
        BY <1>6, <2>2, <2>3, <4>2
    <3>2. m < l => at[m + 1] # i + 1 /\ at[m + 1] \in 1..n
      BY <1>7, <2>1, <2>4, <2>6
    <3>3. m > 0 => at[m] \in 1..n
      BY <1>7, <2>4
    <3>4. Reached(i + 1, m)
      BY <2>4, <3>2, <3>3
    <3> HIDE DEF Reached
    <3> QED
      BY <1>9, <2>1, <3>1, <3>4
  <2> QED
    BY <2>5, <2>6
<1> HIDE DEF T
<1>10. \A i \in 0..n : i \in T
  BY <1>1, <1>8, <1>9, UpFrom
<1>11. \A i \in 0..n : Reached(i, ends[i])
  BY <1>10 DEF T
<1>12. Len(flat) = l
  <2>1. n \in 0..n
    BY <1>1
  <2>2. Reached(n, Len(flat))
    BY <1>6, <1>11, <2>1
  <2>3. Len(flat) < l => at[Len(flat) + 1] \in 1..n
    BY <1>7, <2>2
  <2> QED
    BY <1>1, <2>2, <2>3
<1>13. ASSUME NEW k \in 1..l PROVE flat[k] = t[at[k]]
  <2>1. PICK p \in 1..n : p = at[k]
    BY <1>7
  <2>2. p \in 0..n /\ p - 1 \in 0..n /\ p \in Nat
    BY <1>1
  <2>3. e[p] = <<t[p]>>
    BY <1>4, <1>7, <2>1
  <2>4. Len(e[p]) = 1 /\ e[p][1] = t[p]
    BY <2>3
  <2>5. ends[p] = ends[p - 1] + 1 /\ HasAt(flat, ends[p - 1], e[p]) /\ ends[p - 1] \in Nat
    BY <1>6, <2>2, <2>4
  <2>6. flat[ends[p - 1] + 1] = t[p]
    BY <2>4, <2>5 DEF HasAt
  <2>7. PICK m : m = ends[p]
    OBVIOUS
  <2>8. m \in 0..l /\ (m > 0 => at[m] <= p) /\ (m < l => at[m + 1] > p)
    BY <1>11, <2>2, <2>7
  <2>9. ~(k < m)
    <3> SUFFICES ASSUME k < m PROVE FALSE
      OBVIOUS
    <3>1. m \in 1..l /\ m > 0
      BY <2>8
    <3>2. at[k] < at[m] /\ at[m] <= p /\ at[m] \in 1..n
      BY <1>7, <2>8, <3>1
    <3> QED
      BY <2>1, <3>2
  <2>10. ~(m < k)
    <3> SUFFICES ASSUME m < k PROVE FALSE
      OBVIOUS
    <3>1. m < l /\ m + 1 \in 1..l
      BY <2>8
    <3>2. at[m + 1] > p /\ at[m + 1] \in 1..n
      BY <1>7, <2>8, <3>1
    <3>3. m + 1 = k \/ at[m + 1] < at[k]
      BY <1>7, <2>8, <3>1
    <3> QED
      BY <2>1, <3>2, <3>3
  <2>11. m = k
    BY <2>8, <2>9, <2>10
  <2> QED
    BY <2>1, <2>5, <2>6, <2>7, <2>11
<1>14. flat = [k \in 1..l |-> t[at[k]]]
  <2>1. flat = [k \in 1..l |-> flat[k]]
    <3> HIDE DEF Byte
    <3> QED
      BY <1>6, <1>12
  <2> QED
    BY <1>13, <2>1
<1> QED
  BY <1>2, <1>14

-----------------------------------------------------------------------------
(* The letters of up to three bytes, and the bytes again. *)
Sextets(b) ==
  IF Len(b) = 1 THEN <<b[1] \div 4, (b[1] % 4) * 16>>
  ELSE IF Len(b) = 2
       THEN <<b[1] \div 4, (b[1] % 4) * 16 + b[2] \div 16, (b[2] % 16) * 4>>
       ELSE <<b[1] \div 4, (b[1] % 4) * 16 + b[2] \div 16,
              (b[2] % 16) * 4 + b[3] \div 64, b[3] % 64>>

SextetsOf(v, b) ==
  /\ v \in Seq(0..63) /\ Len(v) = Len(b) + 1 /\ DecodeGroup(v) = b

(* Three bytes in four sextets.                                            *)
Shifted(x, y, z) ==
  /\ x \div 4 \in 0..63 /\ (x % 4) * 16 \in 0..63 /\ (x % 4) * 16 + y \div 16 \in 0..63
  /\ (y % 16) * 4 \in 0..63 /\ (y % 16) * 4 + z \div 64 \in 0..63 /\ z % 64 \in 0..63
  /\ (x \div 4) * 4 + ((x % 4) * 16) \div 16 = x
  /\ (x \div 4) * 4 + ((x % 4) * 16 + y \div 16) \div 16 = x
  /\ ((((x % 4) * 16 + y \div 16) * 16) % 256) + ((y % 16) * 4) \div 4 = y
  /\ ((((x % 4) * 16 + y \div 16) * 16) % 256) + ((y % 16) * 4 + z \div 64) \div 4 = y
  /\ ((((y % 16) * 4 + z \div 64) * 64) % 256) + (z % 64) = z

LEMMA Shifts ==
  ASSUME NEW x \in Byte, NEW y \in Byte, NEW z \in Byte
  PROVE  Shifted(x, y, z)
<1>0. x \in 0..255 /\ y \in 0..255 /\ z \in 0..255
  BY DEF Byte
<1>1. PICK p, q : p = x \div 4 /\ q = x % 4
  OBVIOUS
<1>2. p \in 0..63 /\ q \in 0..3 /\ x = p * 4 + q
  BY <1>0, <1>1
<1>3. PICK r, s : r = y \div 16 /\ s = y % 16
  OBVIOUS
<1>4. r \in 0..15 /\ s \in 0..15 /\ y = r * 16 + s
  BY <1>0, <1>3
<1>5. PICK t, u : t = z \div 64 /\ u = z % 64
  OBVIOUS
<1>6. t \in 0..3 /\ u \in 0..63 /\ z = t * 64 + u
  BY <1>0, <1>5
<1>7. /\ p \in 0..63 /\ q * 16 \in 0..63 /\ q * 16 + r \in 0..63
      /\ s * 4 \in 0..63 /\ s * 4 + t \in 0..63 /\ u \in 0..63
  BY <1>2, <1>4, <1>6
<1>8. p * 4 + (q * 16) \div 16 = x /\ p * 4 + (q * 16 + r) \div 16 = x
  BY <1>2, <1>4
<1>9. ((q * 16 + r) * 16) % 256 = r * 16
  <2>1. (q * 16 + r) * 16 = q * 256 + r * 16 /\ r * 16 \in 0..255
    BY <1>2, <1>4
  <2> QED
    BY <1>2, <1>4, <2>1
<1>10. (s * 4) \div 4 = s /\ (s * 4 + t) \div 4 = s
  BY <1>4, <1>6
<1>11. ((s * 4 + t) * 64) % 256 = t * 64
  <2>1. (s * 4 + t) * 64 = s * 256 + t * 64 /\ t * 64 \in 0..255
    BY <1>4, <1>6
  <2> QED
    BY <1>4, <1>6, <2>1
<1>12. /\ (((q * 16 + r) * 16) % 256) + (s * 4) \div 4 = y
       /\ (((q * 16 + r) * 16) % 256) + (s * 4 + t) \div 4 = y
       /\ (((s * 4 + t) * 64) % 256) + u = z
  BY <1>4, <1>6, <1>9, <1>10, <1>11
<1> QED
  BY <1>1, <1>3, <1>5, <1>7, <1>8, <1>12, Zenon DEF Shifted

LEMMA Concatenated ==
  ASSUME NEW S, NEW x \in S, NEW y \in S, NEW z \in S
  PROVE  /\ (<<x>> \o <<>>) \o <<>> = <<x>> /\ (<<x>> \o <<y>>) \o <<>> = <<x, y>>
         /\ (<<x>> \o <<y>>) \o <<z>> = <<x, y, z>>
<1>1. <<x>> \o <<>> = <<x>>
  OBVIOUS
<1>2. <<x>> \o <<y>> = <<x, y>>
  <2>1. PICK a, b : a = <<x>> /\ b = <<y>>
    OBVIOUS
  <2>2. /\ a \in Seq(S) /\ Len(a) = 1 /\ b \in Seq(S) /\ Len(b) = 1 /\ b[1] = y
        /\ a[1] = x
    BY <2>1
  <2>3. PICK c : c = a \o b
    OBVIOUS
  <2>4. Follows(S, c, a, b)
    BY <2>2, <2>3, Joined
  <2>5. /\ c \in Seq(S) /\ Len(c) = 2 /\ c[1] = a[1]
        /\ c[1 + 1] = b[1]
    BY <2>2, <2>4 DEF Follows
  <2>6. c = <<x, y>>
    BY <2>2, <2>5
  <2> QED
    BY <2>1, <2>3, <2>6
<1>3. <<x, y>> \o <<>> = <<x, y>>
  OBVIOUS
<1>4. <<x, y>> \o <<z>> = <<x, y, z>>
  <2>1. PICK a, b : a = <<x, y>> /\ b = <<z>>
    OBVIOUS
  <2>2. /\ a \in Seq(S) /\ Len(a) = 2 /\ b \in Seq(S) /\ Len(b) = 1 /\ b[1] = z
        /\ a[1] = x /\ a[2] = y
    BY <2>1
  <2>3. PICK c : c = a \o b
    OBVIOUS
  <2>4. Follows(S, c, a, b)
    BY <2>2, <2>3, Joined
  <2>5. /\ c \in Seq(S) /\ Len(c) = 3 /\ c[1] = a[1] /\ c[2] = a[2]
        /\ c[2 + 1] = b[1]
    BY <2>2, <2>4 DEF Follows
  <2>6. c = <<x, y, z>>
    BY <2>2, <2>5
  <2> QED
    BY <2>1, <2>3, <2>6
<1> QED
  BY <1>1, <1>2, <1>3, <1>4, Zenon

LEMMA GroupBack ==
  ASSUME NEW b \in Seq(Byte), Len(b) \in 1..3
  PROVE  SextetsOf(Sextets(b), b)
<1>0. 0 \in Byte
  BY DEF Byte
<1>2. CASE Len(b) = 1
  <2>1. PICK x \in Byte : b = <<x>> /\ x = b[1]
    <3> HIDE DEF Byte
    <3> QED
      BY <1>2
  <2>2. PICK p, q : p = x \div 4 /\ q = (x % 4) * 16
    OBVIOUS
  <2>3. PICK v : v = <<p, q>>
    OBVIOUS
  <2>4. Sextets(b) = v
    BY <1>2, <2>1, <2>2, <2>3, Zenon DEF Sextets
  <2>5. p \in 0..63 /\ q \in 0..63 /\ p * 4 + q \div 16 = x
    <3>1. Shifted(x, 0, 0)
      BY <1>0, Shifts
    <3> QED
      BY <2>2, <3>1, Zenon DEF Shifted
  <2>6. /\ v \in Seq(0..63) /\ Len(v) = 2 /\ v[1] = p /\ v[2] = q
        /\ ~(Len(v) > 2) /\ ~(Len(v) > 3)
    BY <2>3, <2>5
  <2>7. DecodeGroup(v) = b
    <3>1. DecodeGroup(v) = (<<x>> \o <<>>) \o <<>>
      BY <2>5, <2>6, Zenon DEF DecodeGroup
    <3> QED
      BY <2>1, <3>1, Concatenated
  <2>8. Len(v) = Len(b) + 1
    BY <1>2, <2>6
  <2> QED
    BY <2>4, <2>6, <2>7, <2>8, Zenon DEF SextetsOf
<1>3. CASE Len(b) = 2
  <2>1. PICK x \in Byte, y \in Byte : b = <<x, y>> /\ x = b[1] /\ y = b[2]
    <3> HIDE DEF Byte
    <3> QED
      BY <1>3
  <2>2. PICK p, q, r : p = x \div 4 /\ q = (x % 4) * 16 + y \div 16 /\ r = (y % 16) * 4
    OBVIOUS
  <2>3. PICK v : v = <<p, q, r>>
    OBVIOUS
  <2>4. Sextets(b) = v
    <3>1. Len(b) # 1
      BY <1>3
    <3> QED
      BY <1>3, <2>1, <2>2, <2>3, <3>1, Zenon DEF Sextets
  <2>5. /\ p \in 0..63 /\ q \in 0..63 /\ r \in 0..63 /\ p * 4 + q \div 16 = x
        /\ ((q * 16) % 256) + r \div 4 = y
    <3>1. Shifted(x, y, 0)
      BY <1>0, Shifts
    <3> QED
      BY <2>2, <3>1, Zenon DEF Shifted
  <2>6. /\ v \in Seq(0..63) /\ Len(v) = 3 /\ v[1] = p /\ v[2] = q /\ v[3] = r
        /\ Len(v) > 2 /\ ~(Len(v) > 3)
    BY <2>3, <2>5
  <2>7. DecodeGroup(v) = b
    <3>1. DecodeGroup(v) = (<<x>> \o <<y>>) \o <<>>
      BY <2>5, <2>6, Zenon DEF DecodeGroup
    <3> QED
      BY <2>1, <3>1, Concatenated
  <2>8. Len(v) = Len(b) + 1
    BY <1>3, <2>6
  <2> QED
    BY <2>4, <2>6, <2>7, <2>8, Zenon DEF SextetsOf
<1>4. CASE Len(b) = 3
  <2>1. PICK x \in Byte, y \in Byte, z \in Byte :
          b = <<x, y, z>> /\ x = b[1] /\ y = b[2] /\ z = b[3]
    <3> HIDE DEF Byte
    <3> QED
      BY <1>4
  <2>2. PICK p, q, r, s : /\ p = x \div 4 /\ q = (x % 4) * 16 + y \div 16
                          /\ r = (y % 16) * 4 + z \div 64 /\ s = z % 64
    OBVIOUS
  <2>3. PICK v : v = <<p, q, r, s>>
    OBVIOUS
  <2>4. Sextets(b) = v
    <3>1. Len(b) # 1 /\ Len(b) # 2
      BY <1>4
    <3> QED
      BY <1>4, <2>1, <2>2, <2>3, <3>1, Zenon DEF Sextets
  <2>5. /\ p \in 0..63 /\ q \in 0..63 /\ r \in 0..63 /\ s \in 0..63
        /\ p * 4 + q \div 16 = x
        /\ ((q * 16) % 256) + r \div 4 = y /\ ((r * 64) % 256) + s = z
    <3>1. Shifted(x, y, z)
      BY <1>0, Shifts
    <3> QED
      BY <2>2, <3>1, Zenon DEF Shifted
  <2>6. /\ v \in Seq(0..63) /\ Len(v) = 4 /\ v[1] = p /\ v[2] = q /\ v[3] = r /\ v[4] = s
        /\ Len(v) > 2 /\ Len(v) > 3
    BY <2>3, <2>5
  <2>7. DecodeGroup(v) = b
    <3>1. DecodeGroup(v) = (<<x>> \o <<y>>) \o <<z>>
      BY <2>5, <2>6, Zenon DEF DecodeGroup
    <3> QED
      BY <2>1, <3>1, Concatenated
  <2>8. Len(v) = Len(b) + 1
    BY <1>4, <2>6
  <2> QED
    BY <2>4, <2>6, <2>7, <2>8, Zenon DEF SextetsOf
<1> QED
  BY <1>2, <1>3, <1>4

(* The letters of a group, then padding up to four. *)
Spells(c, v) ==
  /\ c \in Seq(Byte) /\ Len(c) = 4
  /\ \A i \in 1..4 : c[i] = IF i <= Len(v) THEN Char(v[i]) ELSE Pad

LEMMA GroupSpelt ==
  ASSUME NEW b \in Seq(Byte), Len(b) \in 1..3
  PROVE  Spells(EncodeGroup(b), Sextets(b))
<1>1. \A n \in 0..63 : Char(n) \in Byte
  BY LetterOf DEF Byte
<1>2. Pad \in Byte
  BY DEF Pad, Byte
<1>3. PICK v : v = Sextets(b)
  OBVIOUS
<1>4. v \in Seq(0..63) /\ Len(v) = Len(b) + 1
  BY <1>3, GroupBack DEF SextetsOf
<1>5. \A i \in 1..Len(v) : Char(v[i]) \in Byte
  <2> SUFFICES ASSUME NEW i \in 1..Len(v) PROVE Char(v[i]) \in Byte
    OBVIOUS
  <2>1. v[i] \in 0..63
    <3>1. v \in [1..Len(v) -> 0..63]
      BY <1>4, SequenceIs
    <3> QED
      BY <3>1
  <2> QED
    BY <1>1, <2>1, Zenon
<1>6. CASE Len(b) = 1
  <2>1. b[1] \in Byte /\ DOMAIN b = {1}
    BY <1>6
  <2>2. PICK p, q : p = b[1] \div 4 /\ q = (b[1] % 4) * 16
    OBVIOUS
  <2>3. v = <<p, q>>
    BY <1>3, <1>6, <2>2, Zenon DEF Sextets
  <2>4. (b[1] % 4) * 16 + 0 \div 16 = q
    BY <2>1, <2>2 DEF Byte
  <2>5. EncodeGroup(b) = <<Char(p), Char(q), Pad, Pad>>
    <3>1. ~(Len(b) > 1) /\ ~(Len(b) > 2) /\ 1 \in DOMAIN b /\ 2 \notin DOMAIN b
      BY <1>6, <2>1
    <3> QED
      BY <2>2, <2>4, <3>1, Zenon DEF EncodeGroup
  <2>6. Char(p) \in Byte /\ Char(q) \in Byte
    BY <1>5, <2>3
  <2>7. Spells(<<Char(p), Char(q), Pad, Pad>>, v)
    <3> HIDE DEF Byte
    <3> QED
      BY <1>2, <2>3, <2>6 DEF Spells
  <2> QED
    BY <1>3, <2>5, <2>7
<1>7. CASE Len(b) = 2
  <2>1. b[1] \in Byte /\ b[2] \in Byte /\ DOMAIN b = {1, 2}
    BY <1>7
  <2>2. PICK p, q, r : /\ p = b[1] \div 4 /\ q = (b[1] % 4) * 16 + b[2] \div 16
                       /\ r = (b[2] % 16) * 4
    OBVIOUS
  <2>3. v = <<p, q, r>>
    <3>1. Len(b) # 1 /\ Len(b) # 3
      BY <1>7
    <3> QED
      BY <1>3, <1>7, <2>2, <3>1, Zenon DEF Sextets
  <2>4. (b[2] % 16) * 4 + 0 \div 64 = r
    BY <2>1, <2>2 DEF Byte
  <2>5. EncodeGroup(b) = <<Char(p), Char(q), Char(r), Pad>>
    <3>1. /\ Len(b) > 1 /\ ~(Len(b) > 2)
          /\ 1 \in DOMAIN b /\ 2 \in DOMAIN b /\ 3 \notin DOMAIN b
      BY <1>7, <2>1
    <3> QED
      BY <2>2, <2>4, <3>1, Zenon DEF EncodeGroup
  <2>6. Char(p) \in Byte /\ Char(q) \in Byte /\ Char(r) \in Byte
    BY <1>5, <2>3
  <2>7. Spells(<<Char(p), Char(q), Char(r), Pad>>, v)
    <3> HIDE DEF Byte
    <3> QED
      BY <1>2, <2>3, <2>6 DEF Spells
  <2> QED
    BY <1>3, <2>5, <2>7
<1>8. CASE Len(b) = 3
  <2>1. DOMAIN b = {1, 2, 3}
    BY <1>8
  <2>2. PICK p, q, r, s : /\ p = b[1] \div 4 /\ q = (b[1] % 4) * 16 + b[2] \div 16
                          /\ r = (b[2] % 16) * 4 + b[3] \div 64 /\ s = b[3] % 64
    OBVIOUS
  <2>3. v = <<p, q, r, s>>
    <3>1. Len(b) # 1 /\ Len(b) # 2
      BY <1>8
    <3> QED
      BY <1>3, <1>8, <2>2, <3>1, Zenon DEF Sextets
  <2>4. EncodeGroup(b) = <<Char(p), Char(q), Char(r), Char(s)>>
    <3>1. Len(b) > 1 /\ Len(b) > 2 /\ 1 \in DOMAIN b /\ 2 \in DOMAIN b /\ 3 \in DOMAIN b
      BY <1>8, <2>1
    <3> QED
      BY <2>2, <3>1, Zenon DEF EncodeGroup
  <2>5. Char(p) \in Byte /\ Char(q) \in Byte /\ Char(r) \in Byte /\ Char(s) \in Byte
    BY <1>5, <2>3
  <2>6. Spells(<<Char(p), Char(q), Char(r), Char(s)>>, v)
    <3> HIDE DEF Byte
    <3> QED
      BY <1>2, <2>3, <2>5 DEF Spells
  <2> QED
    BY <1>3, <2>4, <2>6
<1> QED
  BY <1>6, <1>7, <1>8

(* A text in groups of four: the letters of each three bytes, then padding.  *)
EncodedAs(data, s, n, g) ==
  /\ InRows(data, 3, g, n) /\ s \in Seq(Byte) /\ Len(s) = 4 * n
  /\ \A j \in 1..n : /\ Len(g[j]) \in 1..3 /\ (j < n => Len(g[j]) = 3)
                     /\ HasAt(s, 4 * (j - 1), EncodeGroup(g[j]))

RowIs(s, k, g, n, j) ==
  /\ g[j] \in Seq(Byte) /\ Len(g[j]) \in 1..k /\ (j < n => Len(g[j]) = k)
  /\ (j = n => Len(g[j]) = Len(s) - k * (n - 1))
  /\ k * (j - 1) \in Nat /\ k * (j - 1) + Len(g[j]) <= Len(s)

LEMMA RowLengths ==
  ASSUME NEW s \in Seq(Byte), NEW k \in Nat \ {0}, NEW n, NEW g, InRows(s, k, g, n),
         NEW j \in 1..n
  PROVE  RowIs(s, k, g, n, j)
<1>1. /\ n \in Nat /\ g \in [1..n -> Seq(Byte)] /\ Len(s) <= k * n /\ k * (n - 1) < Len(s)
      /\ Len(g[j]) = (IF j < n THEN k * j ELSE Len(s)) - k * (j - 1)
  BY DEF InRows
<1>2. Len(s) \in Nat /\ g[j] \in Seq(Byte)
  BY <1>1
<1>3. PICK u, v, w, z, a :
        u = k * (j - 1) /\ v = k * j /\ w = k * (n - 1) /\ z = k * n /\ a = Len(g[j])
  OBVIOUS
<1>4. /\ u \in Nat /\ w \in Nat /\ v = u + k /\ z = w + k
      /\ (j < n => v <= w) /\ (j = n => u = w)
  BY <1>1, <1>3, SMT
<1>5. Len(s) <= z /\ w < Len(s) /\ a = (IF j < n THEN v ELSE Len(s)) - u
  BY <1>1, <1>3, Zenon
<1>6. j \in Int /\ n \in Int /\ j <= n
  BY <1>1
<1>7. CASE j < n
  <2>1. a = v - u /\ a = k
    BY <1>4, <1>5, <1>7
  <2>2. a \in 1..k /\ u + a <= Len(s)
    BY <1>2, <1>4, <1>5, <1>7, <2>1
  <2>3. j # n
    BY <1>6, <1>7
  <2> QED
    BY <1>2, <1>3, <1>4, <2>1, <2>2, <2>3, Zenon DEF RowIs
<1>8. CASE j = n
  <2>1. ~(j < n) /\ a = Len(s) - w /\ u = w
    BY <1>4, <1>5, <1>6, <1>8
  <2>2. a \in 1..k /\ u + a <= Len(s)
    BY <1>2, <1>4, <1>5, <2>1
  <2> QED
    BY <1>2, <1>3, <1>4, <2>1, <2>2, Zenon DEF RowIs
<1> QED
  BY <1>6, <1>7, <1>8

LEMMA LettersEncode ==
  ASSUME NEW data \in Seq(Byte)
  PROVE  \E n \in Nat : \E g : EncodedAs(data, Encode(data), n, g)
<1>1. PICK n \in Nat : InRows(data, 3, Groups(data, 3), n)
  BY Grouped
<1>2. PICK g : g = Groups(data, 3)
  OBVIOUS
<1>3. InRows(data, 3, g, n) /\ g \in [1..n -> Seq(Byte)]
  BY <1>1, <1>2 DEF InRows
<1>0. 3 \in Nat \ {0}
  OBVIOUS
<1>4. \A j \in 1..n : Len(g[j]) \in 1..3 /\ (j < n => Len(g[j]) = 3)
  <2> SUFFICES ASSUME NEW j \in 1..n
               PROVE  Len(g[j]) \in 1..3 /\ (j < n => Len(g[j]) = 3)
    OBVIOUS
  <2>1. RowIs(data, 3, g, n, j)
    BY <1>0, <1>3, RowLengths
  <2> QED
    BY <2>1, Zenon DEF RowIs
<1> DEFINE e == [j \in 1..n |-> EncodeGroup(g[j])]
<1>5. \A j \in 1..n : EncodeGroup(g[j]) \in Seq(Byte) /\ Len(EncodeGroup(g[j])) = 4
  <2> SUFFICES ASSUME NEW j \in 1..n
               PROVE  EncodeGroup(g[j]) \in Seq(Byte) /\ Len(EncodeGroup(g[j])) = 4
    OBVIOUS
  <2>1. g[j] \in Seq(Byte) /\ Len(g[j]) \in 1..3
    BY <1>3, <1>4
  <2> QED
    BY <2>1, GroupSpelt, Zenon DEF Spells
<1>6. e \in [1..n -> Seq(Byte)] /\ \A j \in 1..n : Len(e[j]) = 4 /\ e[j] = EncodeGroup(g[j])
  BY <1>5
<1>7. Encode(data) = FlattenSeq(e)
  <2>1. DOMAIN g = 1..n
    BY <1>3
  <2> QED
    BY <1>2, <2>1, Zenon DEF Encode
<1> HIDE DEF e
<1>8. LaidOut(e, n, 4, Encode(data))
  BY <1>6, <1>7, Evenly
<1>9. /\ Encode(data) \in Seq(Byte) /\ Len(Encode(data)) = 4 * n
      /\ \A j \in 1..n : HasAt(Encode(data), 4 * (j - 1), EncodeGroup(g[j]))
  <2>1. /\ Encode(data) \in Seq(Byte) /\ (n = 0 => Len(Encode(data)) = 0)
        /\ n > 0 => Len(Encode(data)) = 4 * (n - 1) + Len(e[n])
        /\ \A j \in 1..n : HasAt(Encode(data), 4 * (j - 1), e[j])
    BY <1>8, Zenon DEF LaidOut
  <2>2. n > 0 => Len(e[n]) = 4
    BY <1>6
  <2>3. Len(Encode(data)) = 4 * n
    <3>1. CASE n = 0
      BY <2>1, <3>1
    <3>2. CASE n > 0
      <4>1. Len(Encode(data)) = 4 * (n - 1) + 4
        BY <2>1, <2>2, <3>2, Zenon
      <4> QED
        BY <4>1
    <3> QED
      BY <3>1, <3>2
  <2>4. \A j \in 1..n : HasAt(Encode(data), 4 * (j - 1), EncodeGroup(g[j]))
    BY <1>6, <2>1, Zenon
  <2> QED
    BY <2>1, <2>3, <2>4
<1>10. EncodedAs(data, Encode(data), n, g)
  BY <1>3, <1>4, <1>9, Zenon DEF EncodedAs
<1> QED
  BY <1>10

(* Letters, then padding. *)
PaddedAfter(s, l) ==
  /\ l \in 0..Len(s)
  /\ \A p \in 1..l : s[p] \notin Whitespace /\ s[p] # Pad
  /\ \A p \in (l + 1)..Len(s) : s[p] = Pad

LEMMA EncodedIsPadded ==
  ASSUME NEW data \in Seq(Byte), NEW s, NEW n \in Nat, NEW g, EncodedAs(data, s, n, g)
  PROVE  PaddedAfter(s, Len(data) + n)
<1>1. /\ InRows(data, 3, g, n) /\ s \in Seq(Byte) /\ Len(s) = 4 * n
      /\ \A j \in 1..n : /\ Len(g[j]) \in 1..3 /\ (j < n => Len(g[j]) = 3)
                         /\ HasAt(s, 4 * (j - 1), EncodeGroup(g[j]))
  BY DEF EncodedAs
<1>2. /\ Len(data) \in Nat /\ Len(data) <= 3 * n /\ (n > 0 => 3 * (n - 1) < Len(data))
  BY <1>1 DEF InRows
<1>3. Len(data) + n \in 0..Len(s)
  BY <1>1, <1>2
<1>4. ASSUME NEW p \in 1..Len(s)
      PROVE  IF p <= Len(data) + n THEN s[p] \notin Whitespace /\ s[p] # Pad ELSE s[p] = Pad
  <2>1. PICK j \in 1..n, i \in 1..4 : p = 4 * (j - 1) + i
    <3>1. PICK q : q = (p - 1) \div 4
      OBVIOUS
    <3>2. q \in Nat /\ 4 * q <= p - 1 /\ p - 1 < 4 * q + 4
      BY <1>1, <3>1
    <3>3. q + 1 \in 1..n /\ p - 4 * q \in 1..4 /\ (q + 1) - 1 = q
      BY <1>1, <3>2
    <3>4. p = 4 * ((q + 1) - 1) + (p - 4 * q)
      BY <1>1, <3>2
    <3> QED
      BY <3>3, <3>4
  <2>2. PICK b : b = g[j]
    OBVIOUS
  <2>3. b \in Seq(Byte) /\ Len(b) \in 1..3 /\ (j = n => Len(b) = Len(data) - 3 * (n - 1))
    <3>1. 3 \in Nat \ {0}
      OBVIOUS
    <3>2. RowIs(data, 3, g, n, j)
      BY <1>1, <3>1, RowLengths
    <3> QED
      BY <2>2, <3>2, Zenon DEF RowIs
  <2>4. PICK c, v : c = EncodeGroup(b) /\ v = Sextets(b)
    OBVIOUS
  <2>5. Spells(c, v) /\ SextetsOf(v, b)
    BY <2>3, <2>4, GroupSpelt, GroupBack
  <2>6. /\ Len(c) = 4 /\ c[i] = IF i <= Len(v) THEN Char(v[i]) ELSE Pad
    BY <2>5 DEF Spells
  <2>7. v \in [1..Len(v) -> 0..63] /\ Len(v) = Len(b) + 1
    BY <2>5, SequenceIs DEF SextetsOf
  <2>8. s[p] = c[i]
    <3>1. HasAt(s, 4 * (j - 1), c)
      BY <1>1, <2>2, <2>4
    <3>2. i \in 1..Len(c)
      BY <2>6
    <3>3. s[4 * (j - 1) + i] = c[i]
      BY <3>1, <3>2 DEF HasAt
    <3> QED
      BY <2>1, <3>3
  <2>9. p <= Len(data) + n <=> i <= Len(v)
    <3>1. CASE j < n
      <4>1. Len(b) = 3
        BY <1>1, <2>2, <3>1, Zenon
      <4> QED
        BY <1>2, <2>1, <2>7, <3>1, <4>1
    <3>2. CASE j = n
      BY <1>2, <2>1, <2>3, <2>7, <3>2
    <3> QED
      BY <3>1, <3>2
  <2>10. CASE i <= Len(v)
    <3>1. v[i] \in 0..63
      <4>1. i \in 1..Len(v)
        BY <2>10
      <4> QED
        BY <2>7, <4>1, Zenon
    <3> QED
      BY <2>6, <2>8, <2>9, <2>10, <3>1, LetterOf, Zenon
  <2>11. CASE ~(i <= Len(v))
    BY <2>6, <2>8, <2>9, <2>11, Zenon
  <2> QED
    BY <2>10, <2>11
<1>5. Len(s) \in Nat
  BY <1>1
<1> QED
  BY <1>2, <1>3, <1>4, <1>5 DEF PaddedAfter

(* A text spread over a longer one, with line breaks between.                *)
Spread(t, s, pos) ==
  /\ pos \in [1..Len(s) -> 1..Len(t)]
  /\ \A i, j \in 1..Len(s) : i < j => pos[i] < pos[j]
  /\ \A k \in 1..Len(s) : t[pos[k]] = s[k]
  /\ \A p \in 1..Len(t) : t[p] = 10 \/ \E k \in 1..Len(s) : pos[k] = p

LEMMA SpreadLetters ==
  ASSUME NEW s \in Seq(Byte), NEW t \in Seq(Byte), NEW l, PaddedAfter(s, l),
         NEW pos, Spread(t, s, pos)
  PROVE  Letters(t) = [k \in 1..l |-> s[k]]
<1>1. /\ pos \in [1..Len(s) -> 1..Len(t)] /\ \A i, j \in 1..Len(s) : i < j => pos[i] < pos[j]
      /\ \A k \in 1..Len(s) : t[pos[k]] = s[k]
      /\ \A p \in 1..Len(t) : t[p] = 10 \/ \E k \in 1..Len(s) : pos[k] = p
  BY DEF Spread
<1>2. /\ l \in 0..Len(s) /\ \A p \in 1..l : s[p] \notin Whitespace /\ s[p] # Pad
      /\ \A p \in (l + 1)..Len(s) : s[p] = Pad
  BY DEF PaddedAfter
<1>3. Len(s) \in Nat /\ Len(t) \in Nat /\ l \in Nat /\ l <= Len(s)
  BY <1>2
<1> DEFINE at == [k \in 1..l |-> pos[k]]
<1>4. \A k \in 1..l : k \in 1..Len(s) /\ at[k] = pos[k]
  BY <1>3
<1>5. at \in [1..l -> 1..Len(t)] /\ \A i, j \in 1..l : i < j => at[i] < at[j]
  <2>1. \A k \in 1..l : at[k] \in 1..Len(t)
    BY <1>1, <1>4
  <2>2. \A i, j \in 1..l : i < j => at[i] < at[j]
    <3> SUFFICES ASSUME NEW i \in 1..l, NEW j \in 1..l, i < j PROVE at[i] < at[j]
      OBVIOUS
    <3>1. i \in 1..Len(s) /\ j \in 1..Len(s) /\ at[i] = pos[i] /\ at[j] = pos[j]
      BY <1>4
    <3>2. pos[i] < pos[j]
      BY <1>1, <3>1
    <3> HIDE DEF at
    <3> QED
      BY <3>1, <3>2
  <2> QED
    BY <2>1, <2>2
<1>6. 10 \in Whitespace /\ Pad # 10
  BY DEF Whitespace, Pad
<1> HIDE DEF at
<1>7. ASSUME NEW k \in 1..l PROVE IsLetter(t, at[k])
  <2>1. PICK p \in 1..Len(t) : p = pos[k] /\ p = at[k]
    BY <1>1, <1>4
  <2>2. t[p] = s[k] /\ s[k] \notin Whitespace
    BY <1>1, <1>2, <1>4, <2>1
  <2>3. ASSUME NEW r \in 1..p, t[r] = Pad PROVE FALSE
    <3>1. r \in 1..Len(t)
      BY <1>3
    <3>2. PICK m \in 1..Len(s) : pos[m] = r
      BY <1>1, <1>6, <2>3, <3>1
    <3>3. s[m] = Pad
      BY <1>1, <2>3, <3>2
    <3>4. ~(m \in 1..l)
      BY <1>2, <3>3
    <3>5. k < m /\ k \in 1..Len(s)
      BY <1>3, <3>4
    <3>6. pos[k] < pos[m]
      BY <1>1, <3>5
    <3> QED
      BY <2>1, <3>1, <3>2, <3>6
  <2> QED
    BY <2>1, <2>2, <2>3, Zenon DEF IsLetter
<1>8. ASSUME NEW p \in 1..Len(t), IsLetter(t, p) PROVE \E k \in 1..l : at[k] = p
  <2>1. p \in 1..p
    BY <1>3
  <2>2. t[p] # 10 /\ t[p] # Pad
    BY <1>6, <1>8, <2>1, Zenon DEF IsLetter
  <2>3. PICK k \in 1..Len(s) : pos[k] = p
    BY <1>1, <2>2
  <2>4. s[k] # Pad
    BY <1>1, <2>2, <2>3
  <2>5. ~(k \in (l + 1)..Len(s))
    BY <1>2, <2>4
  <2>6. k \in 1..l
    BY <1>3, <2>5
  <2> QED
    BY <1>4, <2>3, <2>6
<1>9. LettersAt(t, l, at)
  <2>1. \A p \in 1..Len(t) : IsLetter(t, p) <=> \E k \in 1..l : at[k] = p
    BY <1>7, <1>8, Zenon
  <2> QED
    BY <1>3, <1>5, <2>1 DEF LettersAt
<1>10. Letters(t) = [k \in 1..l |-> t[at[k]]]
  BY <1>3, <1>9, LettersAre
<1>11. \A k \in 1..l : t[at[k]] = s[k]
  BY <1>1, <1>4
<1> QED
  BY <1>10, <1>11

LEMMA PlainLetters ==
  ASSUME NEW s \in Seq(Byte), NEW l, PaddedAfter(s, l)
  PROVE  Letters(s) = [k \in 1..l |-> s[k]]
<1> DEFINE pos == [k \in 1..Len(s) |-> k]
<1>1. Len(s) \in Nat /\ pos \in [1..Len(s) -> 1..Len(s)] /\ \A k \in 1..Len(s) : pos[k] = k
  OBVIOUS
<1> HIDE DEF pos
<1>2. Spread(s, s, pos)
  BY <1>1 DEF Spread
<1> QED
  BY <1>2, SpreadLetters

LEMMA RowOf ==
  ASSUME NEW a \in Nat, NEW k \in Nat \ {0}
  PROVE  \E q \in Nat : q = a \div k /\ k * q <= a /\ a < k * q + k
  BY SMT

(* A line break after every w letters.                                       *)
LEMMA WrappedSpreads ==
  ASSUME NEW s \in Seq(Byte), NEW w \in Nat \ {0}
  PROVE  \E pos : Spread(Wrapped(s, w), s, pos) /\ Wrapped(s, w) \in Seq(Byte)
<1>1. PICK n \in Nat : InRows(s, w, Groups(s, w), n)
  BY Grouped
<1>2. PICK g, t, v : g = Groups(s, w) /\ t = Wrapped(s, w) /\ v = w + 1
  OBVIOUS
<1>3. InRows(s, w, g, n) /\ g \in [1..n -> Seq(Byte)]
  BY <1>1, <1>2 DEF InRows
<1>4. \A j \in 1..n : RowIs(s, w, g, n, j)
  BY <1>3, RowLengths
<1> DEFINE e == [j \in 1..n |-> g[j] \o <<10>>]
<1>5. ASSUME NEW j \in 1..n
      PROVE  /\ g[j] \in Seq(Byte) /\ Len(g[j]) \in Nat
             /\ e[j] \in Seq(Byte) /\ Len(e[j]) = Len(g[j]) + 1 /\ e[j][Len(g[j]) + 1] = 10
             /\ \A i \in 1..Len(g[j]) : e[j][i] = g[j][i]
  <2>1. PICK a, b : a = g[j] /\ b = <<10>>
    OBVIOUS
  <2>2. a \in Seq(Byte) /\ b \in Seq(Byte) /\ Len(b) = 1 /\ b[1] = 10
    BY <1>3, <2>1 DEF Byte
  <2>3. PICK c : c = a \o b
    OBVIOUS
  <2>4. Follows(Byte, c, a, b)
    BY <2>2, <2>3, Joined
  <2>5. /\ c \in Seq(Byte) /\ Len(c) = Len(a) + 1 /\ c[Len(a) + 1] = 10
        /\ \A i \in 1..Len(a) : c[i] = a[i]
    BY <2>2, <2>4 DEF Follows
  <2>6. e[j] = c
    BY <2>1, <2>3
  <2> HIDE DEF e
  <2> QED
    BY <2>1, <2>2, <2>5, <2>6
<1>6. e \in [1..n -> Seq(Byte)]
  BY <1>5
<1>7. t = FlattenSeq(e)
  <2>1. DOMAIN g = 1..n
    BY <1>3
  <2> QED
    BY <1>2, <2>1, Zenon DEF Wrapped
<1> HIDE DEF e
<1>8. \A j \in 1..n : j < n => Len(e[j]) = v
  <2> SUFFICES ASSUME NEW j \in 1..n, j < n PROVE Len(e[j]) = v
    OBVIOUS
  <2>1. Len(g[j]) = w
    BY <1>4, Zenon DEF RowIs
  <2> QED
    BY <1>2, <1>5, <2>1
<1>9. LaidOut(e, n, v, t)
  BY <1>2, <1>6, <1>7, <1>8, Evenly
<1>10. /\ t \in Seq(Byte) /\ \A j \in 1..n : HasAt(t, v * (j - 1), e[j])
       /\ (n = 0 => Len(t) = 0) /\ (n > 0 => Len(t) = v * (n - 1) + Len(e[n]))
  BY <1>9, Zenon DEF LaidOut
<1>11. Len(t) \in Nat /\ Len(s) \in Nat /\ v \in Nat \ {0} /\ Len(s) <= w * n
  BY <1>2, <1>3, <1>10 DEF InRows
<1> DEFINE P(k) == k + (k - 1) \div w
           pos == [k \in 1..Len(s) |-> P(k)]
           In(k, q) == /\ q \in 0..(n - 1) /\ q = (k - 1) \div w
                       /\ w * q <= k - 1 /\ k - 1 < w * q + w
(* A letter is in a row of its own.                                          *)
<1>12. ASSUME NEW k \in 1..Len(s) PROVE \E q \in Nat : In(k, q)
  <2>1. k - 1 \in Nat /\ k \in Nat
    BY <1>11
  <2>2. PICK q \in Nat : q = (k - 1) \div w /\ w * q <= k - 1 /\ k - 1 < w * q + w
    BY <2>1, RowOf
  <2>3. q >= n => w * n <= w * q
    BY SMT
  <2>4. w * n \in Nat /\ w * q \in Nat
    BY SMT
  <2>5. q < n
    BY <1>11, <2>1, <2>2, <2>3, <2>4
  <2>6. q \in 0..(n - 1)
    BY <2>5
  <2> QED
    BY <2>2, <2>6, Zenon
<1>13. ASSUME NEW k \in 1..Len(s), NEW q \in Nat, In(k, q)
       PROVE  P(k) = k + q /\ k + q \in 1..Len(t) /\ t[k + q] = s[k]
  <2>1. P(k) = k + q /\ q \in 0..(n - 1)
    BY <1>13
  <2>2. PICK j, u, x : j = q + 1 /\ u = w * q /\ x = v * q
    OBVIOUS
  <2>3. j \in 1..n /\ j - 1 = q /\ u \in Nat /\ x = u + q
    <3>1. w * q \in Nat /\ (w + 1) * q = w * q + q
      BY SMT
    <3> QED
      BY <1>2, <2>1, <2>2, <3>1
  <2>4. u <= k - 1 /\ k - 1 < u + w
    BY <1>13, <2>2
  <2>5. PICK b, m : b = g[j] /\ m = Len(b)
    OBVIOUS
  <2>6. m \in 1..w /\ (j < n => m = w) /\ (j = n => m = Len(s) - w * (n - 1))
    BY <1>4, <2>3, <2>5, Zenon DEF RowIs
  <2>7. k - u \in 1..m
    <3>1. CASE j < n
      BY <1>11, <2>3, <2>4, <2>6, <3>1
    <3>2. CASE j = n
      <4>1. n - 1 = q
        BY <2>3, <3>2
      <4>2. m = Len(s) - u
        BY <2>2, <2>6, <3>2, <4>1, Zenon
      <4> QED
        BY <1>11, <2>3, <2>4, <4>2
    <3> QED
      BY <2>3, <3>1, <3>2
  <2>8. b[k - u] = s[u + (k - u)]
    <3>1. \A i \in 1..Len(g[j]) : g[j][i] = s[w * (j - 1) + i]
      BY <1>3, <2>3, Zenon DEF InRows
    <3>2. w * (j - 1) = u
      BY <2>2, <2>3, Zenon
    <3> QED
      BY <2>5, <2>7, <3>1, <3>2, Zenon
  <2>9. u + (k - u) = k
    BY <1>11, <2>3
  <2>10. /\ x + Len(e[j]) <= Len(t) /\ t[x + (k - u)] = e[j][k - u]
         /\ Len(e[j]) = m + 1 /\ e[j][k - u] = b[k - u]
    <3>1. HasAt(t, x, e[j])
      BY <1>10, <2>2, <2>3, Zenon
    <3>2. Len(e[j]) = m + 1 /\ e[j][k - u] = b[k - u]
      BY <1>5, <2>3, <2>5, <2>7
    <3>3. k - u \in 1..Len(e[j])
      BY <2>6, <2>7, <3>2
    <3> QED
      BY <3>1, <3>2, <3>3 DEF HasAt
  <2>11. x + (k - u) = k + q
    BY <1>11, <2>3
  <2>12. k + q \in 1..Len(t)
    <3>1. k - u <= m /\ x + (m + 1) <= Len(t) /\ m \in Nat
      BY <2>6, <2>7, <2>10
    <3>2. k >= 1 /\ q >= 0 /\ u \in Nat /\ x \in Nat /\ k \in Nat
      BY <1>11, <2>3
    <3> HIDE DEF P, pos, In
    <3> QED
      BY <1>11, <2>11, <3>1, <3>2
  <2>13. t[k + q] = s[k]
    BY <2>8, <2>9, <2>10, <2>11, Zenon
  <2> QED
    BY <2>1, <2>12, <2>13, Zenon
<1>14. ASSUME NEW p \in 1..Len(t)
       PROVE  t[p] = 10 \/ \E k \in 1..Len(s) : \E q \in Nat : In(k, q) /\ p = k + q
  <2>1. p - 1 \in Nat
    BY <1>11
  <2>2. PICK q \in Nat : q = (p - 1) \div v /\ v * q <= p - 1 /\ p - 1 < v * q + v
    BY <1>11, <2>1, RowOf
  <2>3. PICK j, u, x : j = q + 1 /\ u = w * q /\ x = v * q
    OBVIOUS
  <2>4. u \in Nat /\ x = u + q /\ j - 1 = q
    <3>1. w * q \in Nat /\ (w + 1) * q = w * q + q
      BY SMT
    <3> QED
      BY <1>2, <2>3, <3>1
  <2>5. n > 0
    BY <1>10, <1>11
  <2>6. j \in 1..n
    <3>1. PICK y : y = v * (n - 1)
      OBVIOUS
    <3>2. y \in Nat /\ (q >= n => y + v <= x)
      <4>1. v * (n - 1) \in Nat /\ (q >= n => v * (n - 1) + v <= v * q)
        BY <1>11, <2>5, SMT
      <4> QED
        BY <2>3, <3>1, <4>1
    <3>3. Len(t) = y + Len(e[n])
      BY <1>10, <2>5, <3>1, Zenon
    <3>4. Len(e[n]) \in Nat /\ Len(e[n]) <= v
      <4>1. n \in 1..n
        BY <2>5
      <4>2. Len(g[n]) \in 1..w
        BY <1>4, <4>1, Zenon DEF RowIs
      <4>3. Len(e[n]) = Len(g[n]) + 1
        BY <1>5, <4>1
      <4> QED
        BY <1>2, <4>2, <4>3
    <3>5. x <= p - 1
      BY <2>2, <2>3
    <3> QED
      BY <1>11, <2>3, <2>4, <3>2, <3>3, <3>4, <3>5
  <2>7. PICK b, m : b = g[j] /\ m = Len(b)
    OBVIOUS
  <2>8. /\ m \in 1..w /\ (j < n => m = w) /\ (j = n => m = Len(s) - w * (n - 1))
        /\ w * (j - 1) + m <= Len(s)
    BY <1>4, <2>6, <2>7, Zenon DEF RowIs
  <2>9. /\ Len(e[j]) = m + 1 /\ e[j][m + 1] = 10
    BY <1>5, <2>6, <2>7
  <2>10. HasAt(t, x, e[j])
    BY <1>10, <2>3, <2>4, <2>6, Zenon
  <2>11. x <= p - 1 /\ p - 1 < x + v
    BY <2>2, <2>3
  <2>12. p - x \in 1..(m + 1)
    <3>1. CASE j < n
      BY <1>2, <1>11, <2>4, <2>8, <2>11, <3>1
    <3>2. CASE j = n
      <4>1. n - 1 = q
        BY <2>4, <3>2
      <4>2. Len(t) = x + (m + 1)
        BY <1>10, <2>3, <2>5, <2>9, <3>2, <4>1, Zenon
      <4> QED
        BY <1>11, <2>4, <2>8, <2>11, <4>2
    <3> QED
      BY <2>6, <3>1, <3>2
  <2>13. CASE p - x = m + 1
    <3>1. m + 1 \in 1..Len(e[j])
      BY <2>8, <2>9
    <3>2. t[x + (m + 1)] = 10
      BY <2>9, <2>10, <3>1 DEF HasAt
    <3>3. x + (m + 1) = p
      BY <1>11, <2>4, <2>8, <2>13
    <3> QED
      BY <3>2, <3>3
  <2>14. CASE p - x # m + 1
    <3>1. p - x \in 1..m
      BY <2>8, <2>12, <2>14
    <3>2. PICK k : k = u + (p - x)
      OBVIOUS
    <3>3. u + m <= Len(s)
      BY <2>3, <2>4, <2>8, Zenon
    <3>4. k \in 1..Len(s) /\ k - 1 \in Nat /\ u <= k - 1 /\ k - 1 < u + w /\ p = k + q
      BY <1>11, <2>4, <2>8, <3>1, <3>2, <3>3
    <3>5. PICK r \in Nat : In(k, r)
      BY <1>12, <3>4
    <3>6. r = q
      <4>1. w * r <= k - 1 /\ k - 1 < w * r + w /\ w * q <= k - 1 /\ k - 1 < w * q + w
        BY <2>3, <3>4, <3>5
      <4>2. /\ w * r \in Nat /\ w * q \in Nat
            /\ (r < q => w * r + w <= w * q) /\ (q < r => w * q + w <= w * r)
        BY SMT
      <4> QED
        BY <3>4, <4>1, <4>2
    <3> QED
      BY <3>4, <3>5, <3>6
  <2> QED
    BY <2>13, <2>14
<1>15. \A k \in 1..Len(s) : pos[k] = P(k)
  OBVIOUS
<1>16. ASSUME NEW i \in 1..Len(s), NEW j \in 1..Len(s), i < j PROVE P(i) < P(j)
  <2>1. PICK q \in Nat : In(i, q)
    BY <1>12
  <2>2. PICK r \in Nat : In(j, r)
    BY <1>12
  <2>3. w * q <= i - 1 /\ j - 1 < w * r + w
    BY <2>1, <2>2
  <2>4. w * r \in Nat /\ w * q \in Nat /\ (r < q => w * r + w <= w * q)
    BY SMT
  <2>5. q <= r
    BY <1>11, <1>16, <2>3, <2>4
  <2>6. P(i) = i + q /\ P(j) = j + r
    BY <1>13, <2>1, <2>2
  <2> HIDE DEF P
  <2> QED
    BY <1>11, <1>16, <2>5, <2>6
<1>17. ASSUME NEW k \in 1..Len(s) PROVE P(k) \in 1..Len(t) /\ t[P(k)] = s[k]
  <2>1. PICK q \in Nat : In(k, q)
    BY <1>12
  <2> HIDE DEF P, In
  <2> QED
    BY <1>13, <2>1
<1>18. ASSUME NEW p \in 1..Len(t) PROVE t[p] = 10 \/ \E k \in 1..Len(s) : P(k) = p
  <2>1. ASSUME NEW k \in 1..Len(s), NEW q \in Nat, In(k, q), p = k + q PROVE P(k) = p
    BY <1>13, <2>1
  <2> HIDE DEF P, In
  <2> QED
    BY <1>14, <2>1
<1>19. pos \in [1..Len(s) -> 1..Len(t)]
  <2> HIDE DEF P
  <2> QED
    BY <1>17
<1> HIDE DEF P, pos
<1>20. Spread(t, s, pos)
  BY <1>15, <1>16, <1>17, <1>18, <1>19 DEF Spread
<1> QED
  BY <1>2, <1>10, <1>20

LEMMA Regrouped ==
  ASSUME NEW s \in Seq(Byte), NEW n \in Nat, NEW g, InRows(s, 3, g, n)
  PROVE  FlattenSeq(g) = s
<1>0. 3 \in Nat \ {0}
  OBVIOUS
<1>1. g \in [1..n -> Seq(Byte)] /\ Len(s) <= 3 * n /\ (n > 0 => 3 * (n - 1) < Len(s))
  BY DEF InRows
<1>2. \A j \in 1..n : RowIs(s, 3, g, n, j)
  BY <1>0, RowLengths
<1>3. \A j \in 1..n : j < n => Len(g[j]) = 3
  BY <1>2, Zenon DEF RowIs
<1>4. PICK d : d = FlattenSeq(g)
  OBVIOUS
<1>5. LaidOut(g, n, 3, d)
  BY <1>0, <1>1, <1>3, <1>4, Evenly
<1>6. /\ d \in Seq(Byte) /\ \A j \in 1..n : HasAt(d, 3 * (j - 1), g[j])
      /\ (n = 0 => Len(d) = 0) /\ (n > 0 => Len(d) = 3 * (n - 1) + Len(g[n]))
  BY <1>5, Zenon DEF LaidOut
<1>7. Len(s) \in Nat /\ Len(d) \in Nat
  BY <1>6
<1>8. Len(d) = Len(s)
  <2>1. CASE n = 0
    BY <1>1, <1>6, <1>7, <2>1
  <2>2. CASE n > 0
    <3>1. n \in 1..n
      BY <2>2
    <3>2. Len(g[n]) = Len(s) - 3 * (n - 1)
      BY <1>2, <3>1, Zenon DEF RowIs
    <3> QED
      BY <1>6, <1>7, <2>2, <3>2
  <2> QED
    BY <2>1, <2>2
<1>9. ASSUME NEW p \in 1..Len(s) PROVE d[p] = s[p]
  <2>1. p - 1 \in Nat
    BY <1>7
  <2>2. PICK q \in Nat : 3 * q <= p - 1 /\ p - 1 < 3 * q + 3
    BY <1>0, <2>1, RowOf
  <2>3. PICK j : j = q + 1
    OBVIOUS
  <2>4. j \in 1..n /\ j - 1 = q /\ 3 * (j - 1) = 3 * q
    BY <1>1, <1>7, <2>2, <2>3
  <2>5. PICK b : b = g[j]
    OBVIOUS
  <2>6. Len(b) \in 1..3 /\ (j < n => Len(b) = 3) /\ (j = n => Len(b) = Len(s) - 3 * (n - 1))
    BY <1>2, <2>4, <2>5, Zenon DEF RowIs
  <2>7. p - 3 * q \in 1..Len(b)
    <3>1. CASE j < n
      <4>1. Len(b) = 3
        BY <2>6, <3>1, Zenon
      <4>2. p - 3 * q \in 1..3
        BY <2>1, <2>2
      <4> QED
        BY <4>1, <4>2, Zenon
    <3>2. CASE j = n
      BY <1>7, <2>2, <2>3, <2>6, <3>2
    <3> QED
      BY <2>4, <3>1, <3>2
  <2>8. PICK i : i = p - 3 * q
    OBVIOUS
  <2>9. d[3 * (j - 1) + i] = b[i]
    <3>1. HasAt(d, 3 * (j - 1), b)
      BY <1>6, <2>4, <2>5, Zenon
    <3> QED
      BY <2>7, <2>8, <3>1, Zenon DEF HasAt
  <2>10. b[i] = s[3 * (j - 1) + i]
    <3>1. \A x \in 1..Len(g[j]) : g[j][x] = s[3 * (j - 1) + x]
      BY <2>4, Zenon DEF InRows
    <3> QED
      BY <2>5, <2>7, <2>8, <3>1, Zenon
  <2>11. 3 * (j - 1) + i = p
    BY <1>7, <2>4, <2>8
  <2> QED
    BY <2>9, <2>10, <2>11, Zenon
<1>10. d = s
  <2> HIDE DEF Byte
  <2> QED
    BY <1>6, <1>7, <1>8, <1>9
<1> QED
  BY <1>4, <1>10

(* The sextets of the letters of a text.                                     *)
LEMMA LetterIs ==
  ASSUME NEW data \in Seq(Byte), NEW s, NEW n \in Nat, NEW g, EncodedAs(data, s, n, g),
         NEW j \in 1..n, NEW i \in 1..(Len(g[j]) + 1)
  PROVE  /\ 4 * (j - 1) + i \in 1..(Len(data) + n)
         /\ Sextets(g[j])[i] \in 0..63
         /\ s[4 * (j - 1) + i] = Char(Sextets(g[j])[i])
<1>0. 3 \in Nat \ {0}
  OBVIOUS
<1>1. /\ InRows(data, 3, g, n) /\ s \in Seq(Byte) /\ Len(s) = 4 * n
      /\ HasAt(s, 4 * (j - 1), EncodeGroup(g[j]))
  BY DEF EncodedAs
<1>2. /\ Len(data) \in Nat /\ Len(data) <= 3 * n /\ 3 * (n - 1) < Len(data)
  BY <1>1 DEF InRows
<1>3. RowIs(data, 3, g, n, j)
  BY <1>0, <1>1, RowLengths
<1>4. PICK b, c, v : b = g[j] /\ c = EncodeGroup(b) /\ v = Sextets(b)
  OBVIOUS
<1>5. /\ b \in Seq(Byte) /\ Len(b) \in 1..3 /\ (j < n => Len(b) = 3)
      /\ (j = n => Len(b) = Len(data) - 3 * (n - 1))
  BY <1>3, <1>4, Zenon DEF RowIs
<1>6. Spells(c, v) /\ SextetsOf(v, b)
  BY <1>4, <1>5, GroupSpelt, GroupBack
<1>7. v \in [1..Len(v) -> 0..63] /\ Len(v) = Len(b) + 1
  BY <1>6, SequenceIs DEF SextetsOf
<1>8. i \in 1..(Len(b) + 1) /\ i \in 1..4
  <2>1. i \in 1..(Len(b) + 1)
    BY <1>4, Zenon
  <2>2. PICK m : m = Len(b)
    OBVIOUS
  <2>3. m \in 1..3 /\ i \in 1..(m + 1)
    BY <1>5, <2>1, <2>2, Zenon
  <2>4. i \in 1..4
    BY <2>3
  <2> QED
    BY <2>1, <2>4
<1>9. 4 * (j - 1) + i \in 1..(Len(data) + n)
  <2>1. CASE j < n
    BY <1>2, <1>8, <2>1
  <2>2. CASE j = n
    BY <1>2, <1>5, <1>8, <2>2
  <2> QED
    BY <2>1, <2>2
<1>10. v[i] \in 0..63
  <2>1. i \in 1..Len(v)
    BY <1>7, <1>8
  <2> QED
    BY <1>7, <2>1, Zenon
<1>11. c[i] = Char(v[i]) /\ Len(c) = 4
  <2>1. i <= Len(v)
    BY <1>7, <1>8
  <2> QED
    BY <1>6, <1>8, <2>1, Zenon DEF Spells
<1>12. s[4 * (j - 1) + i] = c[i]
  <2>1. HasAt(s, 4 * (j - 1), c) /\ i \in 1..Len(c)
    BY <1>1, <1>4, <1>8, <1>11
  <2> QED
    BY <2>1, Zenon DEF HasAt
<1> QED
  BY <1>4, <1>9, <1>10, <1>11, <1>12, Zenon

LEMMA EveryLetterIs ==
  ASSUME NEW data \in Seq(Byte), NEW s, NEW n \in Nat, NEW g, EncodedAs(data, s, n, g),
         NEW k \in 1..(Len(data) + n)
  PROVE  \E x \in 0..63 : s[k] = Char(x)
<1>0. 3 \in Nat \ {0}
  OBVIOUS
<1>1. InRows(data, 3, g, n)
  BY DEF EncodedAs
<1>2. /\ Len(data) \in Nat /\ Len(data) <= 3 * n /\ (n > 0 => 3 * (n - 1) < Len(data))
  BY <1>1 DEF InRows
<1>3. PICK q : q = (k - 1) \div 4
  OBVIOUS
<1>4. q \in Nat /\ 4 * q <= k - 1 /\ k - 1 < 4 * q + 4
  BY <1>2, <1>3
<1>5. PICK j, i : j = q + 1 /\ i = k - 4 * q
  OBVIOUS
<1>6. j \in 1..n /\ j - 1 = q /\ 4 * (j - 1) + i = k /\ i \in 1..4
  BY <1>2, <1>4, <1>5
<1>7. PICK b : b = g[j]
  OBVIOUS
<1>8. Len(b) \in 1..3 /\ (j < n => Len(b) = 3) /\ (j = n => Len(b) = Len(data) - 3 * (n - 1))
  <2>1. RowIs(data, 3, g, n, j)
    BY <1>0, <1>1, <1>6, RowLengths
  <2> QED
    BY <1>7, <2>1, Zenon DEF RowIs
<1>9. i \in 1..(Len(b) + 1)
  <2>0. PICK m, a : m = Len(b) /\ a = Len(data)
    OBVIOUS
  <2>1. CASE j < n
    <3>1. m = 3
      BY <1>8, <2>0, <2>1, Zenon
    <3>2. i \in 1..(m + 1)
      BY <1>6, <3>1
    <3> QED
      BY <2>0, <3>2, Zenon
  <2>2. CASE j = n
    <3>1. m = a - 3 * (n - 1) /\ a \in Nat /\ k \in 1..(a + n)
      BY <1>2, <1>8, <2>0, <2>2, Zenon
    <3>2. i \in 1..(m + 1)
      BY <1>6, <2>2, <3>1
    <3> QED
      BY <2>0, <3>2, Zenon
  <2> QED
    BY <1>6, <2>1, <2>2
<1>10. Sextets(g[j])[i] \in 0..63 /\ s[4 * (j - 1) + i] = Char(Sextets(g[j])[i])
  BY <1>6, <1>7, <1>9, LetterIs
<1> QED
  BY <1>6, <1>10, Zenon

LEMMA LettersDecode ==
  ASSUME NEW data \in Seq(Byte), NEW s, NEW n \in Nat, NEW g, EncodedAs(data, s, n, g),
         NEW t, Letters(t) = [k \in 1..(Len(data) + n) |-> s[k]]
  PROVE  Decode(t) = data
<1>0. 3 \in Nat \ {0} /\ 4 \in Nat \ {0}
  OBVIOUS
<1>1. InRows(data, 3, g, n) /\ s \in Seq(Byte) /\ Len(s) = 4 * n
  BY DEF EncodedAs
<1>2. /\ Len(data) \in Nat /\ Len(data) <= 3 * n /\ (n > 0 => 3 * (n - 1) < Len(data))
      /\ g \in [1..n -> Seq(Byte)]
  BY <1>1 DEF InRows
<1>3. PICK l, letters : l = Len(data) + n /\ letters = Letters(t)
  OBVIOUS
<1>4. /\ l \in Nat /\ letters = [k \in 1..l |-> s[k]]
      /\ \A k \in 1..l : \E x \in 0..63 : s[k] = Char(x)
  BY <1>2, <1>3, EveryLetterIs
<1>5. Len(letters) = l /\ DOMAIN letters = 1..l /\ \A k \in 1..l : letters[k] = s[k]
  BY <1>4
<1>6. ASSUME NEW k \in 1..l PROVE s[k] \in Range(Alphabet) /\ Sextet(s[k]) \in 0..63
  <2>1. PICK x \in 0..63 : s[k] = Char(x)
    BY <1>4
  <2>2. Char(x) \in Range(Alphabet) /\ Sextet(Char(x)) = x
    BY LetterOf
  <2> QED
    BY <2>1, <2>2, Zenon
<1>7. ToSet(letters) \subseteq Range(Alphabet)
  <2> SUFFICES ASSUME NEW k \in 1..l PROVE letters[k] \in Range(Alphabet)
    BY <1>5, Zenon DEF ToSet
  <2> QED
    BY <1>5, <1>6
<1>8. l % 4 # 1
  <2>1. CASE n = 0
    BY <1>2, <1>3, <2>1
  <2>2. CASE n > 0
    <3>1. PICK r : r = l - 4 * (n - 1)
      OBVIOUS
    <3>2. PICK a, o : a = Len(data) /\ o = n - 1
      OBVIOUS
    <3>3. a \in Nat /\ o \in Nat /\ n = o + 1 /\ a <= 3 * n /\ 3 * o < a /\ l = a + n
      BY <1>2, <1>3, <2>2, <3>2
    <3>4. r \in 2..4 /\ l = 4 * o + r
      <4>1. r = l - 4 * o
        BY <3>1, <3>2, Zenon
      <4>2. l = a + o + 1 /\ a <= 3 * o + 3
        BY <3>3
      <4> QED
        BY <3>3, <4>1, <4>2
    <3> QED
      BY <3>3, <3>4
  <2> QED
    BY <2>1, <2>2
<1>9. PICK q : q = [i \in DOMAIN letters |-> Sextet(letters[i])]
  OBVIOUS
<1>10. /\ q \in Seq(Byte) /\ Len(q) = l /\ \A k \in 1..l : q[k] = Sextet(s[k])
  <2>1. q = [k \in 1..l |-> Sextet(s[k])]
    BY <1>5, <1>9
  <2>2. \A x \in 0..63 : x \in Byte
    BY DEF Byte
  <2>3. \A k \in 1..l : Sextet(s[k]) \in Byte
    BY <1>6, <2>2
  <2>4. q \in [1..l -> Byte]
    BY <2>1, <2>3
  <2> QED
    BY <1>4, <2>1, <2>4, BufferIs
<1>11. PICK m \in Nat : InRows(q, 4, Groups(q, 4), m)
  BY <1>0, <1>10, Grouped
<1>12. PICK h : h = Groups(q, 4)
  OBVIOUS
<1>13. /\ InRows(q, 4, h, m) /\ h \in [1..m -> Seq(Byte)]
       /\ l <= 4 * m /\ (m > 0 => 4 * (m - 1) < l)
  BY <1>10, <1>11, <1>12 DEF InRows
<1>14. m = n
  BY <1>2, <1>3, <1>13
<1>15. ASSUME NEW j \in 1..n PROVE DecodeGroup(h[j]) = g[j]
  <2>1. RowIs(q, 4, h, n, j) /\ RowIs(data, 3, g, n, j)
    BY <1>0, <1>1, <1>10, <1>13, <1>14, RowLengths
  <2>2. PICK b, c, v : b = g[j] /\ c = h[j] /\ v = Sextets(b)
    OBVIOUS
  <2>3. /\ b \in Seq(Byte) /\ Len(b) \in 1..3 /\ (j < n => Len(b) = 3)
        /\ (j = n => Len(b) = Len(data) - 3 * (n - 1))
        /\ c \in Seq(Byte) /\ Len(c) \in 1..4 /\ (j < n => Len(c) = 4)
        /\ (j = n => Len(c) = Len(q) - 4 * (n - 1))
    BY <2>1, <2>2, Zenon DEF RowIs
  <2>4. Len(c) = Len(b) + 1
    <3>1. CASE j < n
      <4>1. Len(c) = 4 /\ Len(b) = 3
        BY <2>3, <3>1, Zenon
      <4> QED
        BY <4>1
    <3>2. CASE j = n
      BY <1>2, <1>3, <1>10, <2>3, <3>2
    <3> QED
      BY <3>1, <3>2
  <2>5. SextetsOf(v, b)
    BY <2>2, <2>3, GroupBack
  <2>6. v \in [1..Len(v) -> 0..63] /\ Len(v) = Len(b) + 1 /\ DecodeGroup(v) = b
    BY <2>5, SequenceIs DEF SextetsOf
  <2>7. ASSUME NEW i \in 1..Len(c) PROVE c[i] = v[i]
    <3>1. i \in 1..(Len(g[j]) + 1)
      BY <2>2, <2>4
    <3>2. PICK k : k = 4 * (j - 1) + i
      OBVIOUS
    <3>3. k \in 1..l /\ v[i] \in 0..63 /\ s[k] = Char(v[i])
      <4>1. /\ 4 * (j - 1) + i \in 1..(Len(data) + n)
            /\ Sextets(g[j])[i] \in 0..63
            /\ s[4 * (j - 1) + i] = Char(Sextets(g[j])[i])
        BY <3>1, LetterIs
      <4> QED
        BY <1>3, <2>2, <3>2, <4>1, Zenon
    <3>4. c[i] = q[k]
      <4>1. \A x \in 1..Len(h[j]) : h[j][x] = q[4 * (j - 1) + x]
        BY <1>13, <1>14, Zenon DEF InRows
      <4> QED
        BY <2>2, <3>2, <4>1, Zenon
    <3>5. q[k] = Sextet(Char(v[i]))
      BY <1>10, <3>3
    <3> QED
      BY <3>3, <3>4, <3>5, LetterOf, Zenon
  <2>8. c = v
    <3>1. c \in [1..Len(c) -> Byte] /\ Len(v) = Len(c)
      BY <2>3, <2>4, <2>6, SequenceIs
    <3> HIDE DEF Byte
    <3> QED
      BY <2>6, <2>7, <3>1
  <2> QED
    BY <2>2, <2>6, <2>8
<1>16. [j \in DOMAIN h |-> DecodeGroup(h[j])] = g
  <2>1. DOMAIN h = 1..n
    BY <1>13, <1>14
  <2> QED
    BY <1>2, <1>15, <2>1
<1>17. Decode(t) = FlattenSeq([j \in DOMAIN h |-> DecodeGroup(h[j])])
  BY <1>3, <1>5, <1>7, <1>8, <1>9, <1>12, Zenon DEF Decode
<1>18. FlattenSeq(g) = data
  BY <1>1, Regrouped
<1> QED
  BY <1>16, <1>17, <1>18

(* Bytes written in base64 and read again are the bytes, whatever their      *)
(* number, and wherever line breaks come: the controller breaks the text     *)
(* after every so many letters (base64.rs, encode and decode).               *)
THEOREM Base64ReadsBack ==
  ASSUME NEW data \in Seq(Byte), NEW w \in Nat \ {0}
  PROVE  Decode(Encode(data)) = data /\ Decode(Wrapped(Encode(data), w)) = data
<1>1. PICK n \in Nat : \E g : EncodedAs(data, Encode(data), n, g)
  BY LettersEncode
<1>2. PICK g : EncodedAs(data, Encode(data), n, g)
  BY <1>1
<1>3. PICK s, l : s = Encode(data) /\ l = Len(data) + n
  OBVIOUS
<1>4. EncodedAs(data, s, n, g) /\ s \in Seq(Byte) /\ PaddedAfter(s, l)
  BY <1>2, <1>3, EncodedIsPadded DEF EncodedAs
<1>5. Letters(s) = [k \in 1..l |-> s[k]]
  BY <1>4, PlainLetters
<1>6. Letters(Wrapped(s, w)) = [k \in 1..l |-> s[k]]
  <2>1. PICK pos : Spread(Wrapped(s, w), s, pos) /\ Wrapped(s, w) \in Seq(Byte)
    BY <1>4, WrappedSpreads
  <2> QED
    BY <1>4, <2>1, SpreadLetters
<1>7. \A t : Letters(t) = [k \in 1..(Len(data) + n) |-> s[k]] => Decode(t) = data
  BY <1>4, LettersDecode
<1> QED
  BY <1>3, <1>5, <1>6, <1>7, Zenon

(* What the codecs promise, of any packets and any bytes (packets/, wire.rs,  *)
(* base64.rs).                                                                *)
THEOREM CodecsKeepTheirPromise == PacketsRoundTrip /\ Base64RoundTrip /\ CodecsRoundTrip
<1>1. PacketsRoundTrip
  BY CodecAssumption, EveryPacketRoundTrips DEF PacketsRoundTrip
<1>2. ASSUME NEW data \in SampleBytes
      PROVE  /\ Decode(Encode(data)) = data
             /\ \A width \in Widths : Decode(Wrapped(Encode(data), width)) = data
  <2>1. data \in Seq(Byte) /\ 1 \in Nat \ {0} /\ \A w \in Widths : w \in Nat \ {0}
    BY CodecAssumption DEF Byte
  <2> QED
    BY <2>1, Base64ReadsBack
<1> QED
  BY <1>1, <1>2 DEF CodecsRoundTrip, Base64RoundTrip

-----------------------------------------------------------------------------
(* Where fragments begin and end. *)
At(j) == Mtu * (j - 1)
Size(m) == Len(Body[m])
IsSequence(s) == \E S : s \in Seq(S)
BodyEnd(m, j) == IF j < FragmentCount(m) THEN Mtu * j ELSE Size(m)

LEMMA DivUp ==
  ASSUME NEW a \in Nat, NEW s \in Nat \ {0}, a > 0
  PROVE  LET c == (a + s - 1) \div s
         IN  c \in Nat /\ c > 0 /\ s * (c - 1) < a /\ a <= s * c
  BY SMT

LEMMA Steps ==
  ASSUME NEW s \in Nat \ {0}
  PROVE  /\ \A j \in Int : s * j \in Int /\ s * (j - 1) = s * j - s
         /\ \A i, j \in Int : i < j => s * i + s <= s * j
  BY SMT

LEMMA PayloadInBytes ==
  ASSUME NEW m \in Traffic
  PROVE  /\ Serialize(m.packet) \in Seq(0..255) /\ Len(Serialize(m.packet)) > 0
         /\ Serialize(m.packet)[1] = 5 => m.packet.kind = "telemetry"
<1>1. IsPacket(m.packet)
  BY CaptureAssumption
<1>2. Survives(m.packet)
  BY <1>1, PacketSurvives, Zenon
<1> QED
  BY <1>2, Zenon DEF Survives, Byte

LEMMA BodyIsBytes ==
  ASSUME NEW m \in Traffic
  PROVE  IsSequence(Body[m]) /\ Size(m) \in Nat /\ Size(m) >= 8
<1> DEFINE p == Serialize(m.packet)
<1>1. p \in Seq(0..255)
  BY PayloadInBytes
<1> HIDE DEF p
<1> DEFINE a == (m.sport \div 256) % 256
           b == m.sport % 256
           c == (m.dport \div 256) % 256
           d == m.dport % 256
           e == ((8 + Len(p)) \div 256) % 256
           f == (8 + Len(p)) % 256
           S == {a, b, c, d, e, f, 0} \cup 0..255
           s == <<a, b>> \o <<c, d>> \o <<e, f>> \o <<0, 0>> \o p
<1>2. Body[m] = s
  BY DEF Body, Udp, Bytes16, p
<1> HIDE DEF a, b, c, d, e, f
<1>3. s \in Seq(S) /\ Len(s) = 8 + Len(p)
  BY <1>1
<1>4. Len(p) \in Nat
  BY <1>1
<1> HIDE DEF S, s
<1>5. IsSequence(s)
  BY <1>3, Zenon DEF IsSequence
<1> QED
  BY <1>2, <1>3, <1>4, <1>5 DEF Size

LEMMA CountOfFragments ==
  ASSUME NEW m \in Traffic
  PROVE  /\ FragmentCount(m) \in Nat \ {0}
         /\ At(FragmentCount(m)) < Size(m) /\ Size(m) <= Mtu * FragmentCount(m)
<1>1. Size(m) \in Nat /\ Size(m) > 0
  BY BodyIsBytes
<1>2. Mtu \in Nat \ {0}
  BY CaptureAssumption
<1> DEFINE a == Size(m)
<1> HIDE DEF a
<1>3. LET c == (a + Mtu - 1) \div Mtu
      IN  c \in Nat /\ c > 0 /\ Mtu * (c - 1) < a /\ a <= Mtu * c
  BY <1>1, <1>2, DivUp DEF a
<1> QED
  BY <1>3 DEF a, FragmentCount, At, Size

LEMMA Offsets ==
  /\ \A j \in Int : At(j) \in Int /\ Mtu * j = At(j) + Mtu
  /\ \A i, j \in Int : i < j => At(i) + Mtu <= At(j)
  /\ At(1) = 0
<1>1. Mtu \in Nat \ {0}
  BY CaptureAssumption
<1>2. \A j \in Int : Mtu * j \in Int /\ Mtu * (j - 1) = Mtu * j - Mtu
  BY <1>1, Steps
<1>3. \A i, j \in Int : i < j => Mtu * i + Mtu <= Mtu * j
  BY <1>1, Steps
<1>4. Mtu * (1 - 1) = 0
  BY <1>1
<1> QED
  BY <1>1, <1>2, <1>3, <1>4 DEF At

LEMMA CutAt ==
  ASSUME NEW S, NEW w \in Seq(S), NEW a \in Nat, NEW e \in Nat, a < e, e <= Len(w)
  PROVE  LET v == SubSeq(w, a + 1, e)
             n == e - a
         IN  /\ v \in Seq(S) /\ Len(v) = n /\ DOMAIN v = 1..n
             /\ \A i \in 1..n : v[i] = w[a + i]
  OBVIOUS

(* What a fragment carries before the capture cuts it short. *)
PieceOf(m, j) == SubSeq(Body[m], At(j) + 1, BodyEnd(m, j))

LEMMA SliceCarries ==
  ASSUME NEW m \in Traffic, NEW j \in 1..FragmentCount(m)
  PROVE  LET b == PieceOf(m, j)
             n == BodyEnd(m, j) - At(j)
         IN  /\ \E S : b \in Seq(S)
             /\ Len(b) = n /\ n \in 1..Mtu /\ DOMAIN b = 1..n
             /\ \A i \in 1..n : b[i] = Body[m][At(j) + i]
<1> DEFINE b == SubSeq(Body[m], At(j) + 1, BodyEnd(m, j))
           n == BodyEnd(m, j) - At(j)
<1>1. Mtu \in Nat \ {0}
  BY CaptureAssumption
<1>2. /\ At(j) \in Nat /\ BodyEnd(m, j) \in Nat /\ BodyEnd(m, j) <= Size(m)
      /\ At(j) < BodyEnd(m, j) /\ BodyEnd(m, j) <= At(j) + Mtu
  <2> DEFINE c == FragmentCount(m)
  <2>1. j \in Nat /\ j >= 1 /\ c \in Nat /\ j <= c
    BY CountOfFragments
  <2>2. At(j) \in Int /\ Mtu * j = At(j) + Mtu /\ At(j) >= 0
    BY <1>1, <2>1, Offsets
  <2>3. Size(m) \in Nat /\ At(c) \in Int /\ At(c) < Size(m) /\ Size(m) <= At(c) + Mtu
    BY <2>1, BodyIsBytes, CountOfFragments, Offsets
  <2>4. CASE j < c
    <3>1. At(j) + Mtu <= At(c)
      BY <2>1, <2>4, Offsets
    <3>2. BodyEnd(m, j) = At(j) + Mtu
      BY <2>2, <2>4 DEF BodyEnd
    <3> HIDE DEF c
    <3> QED
      BY <1>1, <2>2, <2>3, <3>1, <3>2
  <2>5. CASE j = c
    <3>1. BodyEnd(m, j) = Size(m)
      BY <2>1, <2>5 DEF BodyEnd
    <3> HIDE DEF c
    <3> QED
      BY <1>1, <2>2, <2>3, <2>5, <3>1
  <2> QED
    BY <2>1, <2>4, <2>5
<1>3. PICK S : Body[m] \in Seq(S)
  BY BodyIsBytes DEF IsSequence
<1>4. Len(Body[m]) = Size(m) /\ Size(m) \in Nat
  BY BodyIsBytes DEF Size
<1>n. n \in 1..Mtu
  BY <1>1, <1>2
<1>5. /\ b \in Seq(S) /\ Len(b) = n /\ DOMAIN b = 1..n
      /\ \A i \in 1..n : b[i] = Body[m][At(j) + i]
  <2> DEFINE w == Body[m]
             a == At(j)
             e == BodyEnd(m, j)
  <2>1. w \in Seq(S) /\ a \in Nat /\ e \in Nat /\ a < e /\ e <= Len(w)
    BY <1>2, <1>3, <1>4
  <2> HIDE DEF w, a, e
  <2>2. LET v == SubSeq(w, a + 1, e)
        IN  /\ v \in Seq(S) /\ Len(v) = e - a /\ DOMAIN v = 1..(e - a)
            /\ \A i \in 1..(e - a) : v[i] = w[a + i]
    BY <2>1, CutAt
  <2> QED
    BY <2>2 DEF w, a, e
<1> HIDE DEF n, b
<1>6. \E T : b \in Seq(T)
  BY <1>5, Zenon
<1> QED
  BY <1>n, <1>5, <1>6 DEF n, b, PieceOf

LEMMA FragmentIs ==
  ASSUME NEW m, NEW j PROVE Fragment(m, j).body = Clipped(PieceOf(m, j))
  BY DEF Fragment, PieceOf, BodyEnd, At, Size

(* Frames may be cut short: what a fragment carries is where it was.        *)
LEMMA FragmentHead ==
  ASSUME NEW m \in Traffic, NEW j \in 1..FragmentCount(m), snap \in Nat
  PROVE  LET b == Fragment(m, j).body
             n == BodyEnd(m, j) - At(j)
             k == IF n < snap THEN n ELSE snap
         IN  /\ n \in 1..Mtu /\ k \in Nat /\ k <= n
             /\ \E S : b \in Seq(S)
             /\ Len(b) = k /\ DOMAIN b = 1..k
             /\ \A i \in 1..k : b[i] = Body[m][At(j) + i]
<1> DEFINE p == PieceOf(m, j)
           n == BodyEnd(m, j) - At(j)
           k == IF n < snap THEN n ELSE snap
           b == Fragment(m, j).body
<1>1. /\ \E S : p \in Seq(S)
      /\ Len(p) = n /\ n \in 1..Mtu /\ \A i \in 1..n : p[i] = Body[m][At(j) + i]
  BY SliceCarries
<1>2. b = Clipped(p)
  BY FragmentIs
<1>3. Mtu \in Nat
  BY CaptureAssumption
<1> HIDE DEF p, n, b
<1>4. PICK S : p \in Seq(S)
  BY <1>1
<1>5. k \in Nat /\ k <= n /\ b = SubSeq(p, 1, k)
  BY <1>1, <1>2, <1>3 DEF Clipped
<1> HIDE DEF k
<1>6. b \in Seq(S) /\ Len(b) = k /\ DOMAIN b = 1..k /\ \A i \in 1..k : b[i] = p[i]
  BY <1>1, <1>3, <1>4, <1>5
<1>7. \A i \in 1..k : i \in 1..n
  BY <1>1, <1>3, <1>5
<1> QED
  BY <1>1, <1>5, <1>6, <1>7 DEF n, k, b

(* With frames captured in full: what a fragment carries. *)
LEMMA FragmentCarries ==
  ASSUME NEW m \in Traffic, NEW j \in 1..FragmentCount(m),
         snap \in Nat, snap >= Mtu
  PROVE  LET b == Fragment(m, j).body
             n == BodyEnd(m, j) - At(j)
         IN  /\ IsSequence(b) /\ Len(b) = n /\ n \in 1..Mtu /\ DOMAIN b = 1..n
             /\ \A i \in 1..n : b[i] = Body[m][At(j) + i]
<1> DEFINE b == Fragment(m, j).body
           n == BodyEnd(m, j) - At(j)
           k == IF n < snap THEN n ELSE snap
<1>1. /\ n \in 1..Mtu
      /\ \E S : b \in Seq(S)
      /\ Len(b) = k /\ DOMAIN b = 1..k
      /\ \A i \in 1..k : b[i] = Body[m][At(j) + i]
  BY FragmentHead
<1>2. Mtu \in Nat
  BY CaptureAssumption
<1> HIDE DEF n, b
<1>3. k = n
  BY <1>1, <1>2
<1>4. IsSequence(b)
  BY <1>1, Zenon DEF IsSequence
<1> QED
  BY <1>1, <1>3, <1>4 DEF n, b

-----------------------------------------------------------------------------
(* What waits under a key: chunks cut from datagrams captured under it.     *)
Piece(m, j)     == [off |-> At(j), bytes |-> Fragment(m, j).body, of |-> m]
KeyOf(m)        == <<m.src, m.dst, sent[m]>>
Fragmented(m)   == m.version = 4 /\ FragmentCount(m) > 1
Waiting(key)    == IF key \in DOMAIN pending THEN pending[key].chunks ELSE <<>>
Waits(c, m, j)  == \E k \in DOMAIN c : c[k] = Piece(m, j)
IsEntry(e)      == e = [chunks |-> e.chunks, total |-> e.total, ts |-> e.ts]

(* The length is known once a last fragment is there, and is its datagram's. *)
LengthKnown(e) ==
  /\ e.total = Unknown \/ \E m \in DOMAIN sent : /\ e.total = Size(m)
                                               /\ Waits(e.chunks, m, FragmentCount(m))
  /\ \A m \in DOMAIN sent : Waits(e.chunks, m, FragmentCount(m)) => e.total # Unknown

EntryOK(key, e) ==
  /\ IsEntry(e) /\ IsSequence(e.chunks) /\ LengthKnown(e)
  /\ \A k \in DOMAIN e.chunks :
       \E m \in DOMAIN sent : \E j \in 1..FragmentCount(m) :
         /\ e.chunks[k] = Piece(m, j)
         /\ Fragmented(m) /\ KeyOf(m) = key /\ CapturedAt(m, j) # {}

TypesOK ==
  /\ DOMAIN sent \subseteq Traffic /\ snap \in Nat
  /\ IsSequence(captured) /\ IsSequence(out)
EntriesOK ==
  \A key \in DOMAIN pending : EntryOK(key, pending[key]) /\ ~Complete(pending[key])

(* Datagrams under a key follow one another, each captured in one go.       *)
Orderly(key) ==
  \A x, y \in DOMAIN sent :
    /\ x # y /\ KeyOf(x) = key /\ KeyOf(y) = key
    /\ CapturedOf(x) # {} /\ CapturedOf(y) # {}
    => InOneGo(x, y) \/ InOneGo(y, x)

NoneTwice(m)  == \A j \in 1..FragmentCount(m) : \A k, l \in CapturedAt(m, j) : k = l
AllCaptured(m) == \A j \in 1..FragmentCount(m) : CapturedAt(m, j) # {}

(* Then what waits is of one datagram, and what was captured of a datagram   *)
(* waits until all of it was.                                                *)
OneAtATime(key) ==
  /\ \A k, l \in DOMAIN Waiting(key) : Waiting(key)[k].of = Waiting(key)[l].of
  /\ \A m \in DOMAIN sent :
       Fragmented(m) /\ KeyOf(m) = key /\ NoneTwice(m) =>
         \A j \in 1..FragmentCount(m) :
           IF AllCaptured(m) THEN ~Waits(Waiting(key), m, j)
           ELSE CapturedAt(m, j) # {} => Waits(Waiting(key), m, j)

MixedIsDisorder ==
  \A d \in Range(out) : \A m, n \in d.of :
    m # n => /\ {m, n} \subseteq DOMAIN sent /\ KeyOf(m) = KeyOf(n)
             /\ ~Orderly(KeyOf(m))

OrderInv ==
  /\ TypesOK
  /\ snap >= Mtu => /\ EntriesOK /\ MixedIsDisorder
                    /\ \A key : Orderly(key) => OneAtATime(key)

-----------------------------------------------------------------------------
(* A datagram with a key of its own: each time it is decoded takes one       *)
(* capture of each of its fragments, and until then they all wait.           *)
OwnKey(m)       == m.version = 4 /\ \A n \in DOMAIN sent : SameKey(m, n) => m = n
Decoded(m)      == {i \in DOMAIN out : out[i].of = {m}}
WaitingAt(m, j) == {k \in DOMAIN Waiting(KeyOf(m)) : Waiting(KeyOf(m))[k] = Piece(m, j)}
Balance(decoded, waiting, caught) ==
  /\ Cardinality(decoded) + Cardinality(waiting) <= Cardinality(caught)
  /\ decoded = {} /\ caught # {} => waiting # {}
Accounted(m) ==
  \A j \in 1..FragmentCount(m) : Balance(Decoded(m), WaitingAt(m, j), CapturedAt(m, j))
CountInv ==
  snap >= Mtu => \A m \in DOMAIN sent : OwnKey(m) => Accounted(m)

-----------------------------------------------------------------------------
(* Chunks of one datagram are complete when all of its fragments are there. *)
LEMMA PieceHolds ==
  ASSUME NEW m \in Traffic, snap \in Nat, snap >= Mtu,
         NEW e, NEW k \in DOMAIN e.chunks, NEW j \in 1..FragmentCount(m),
         e.chunks[k] = Piece(m, j), NEW b \in Int
  PROVE  k \in Holding(e, b) <=> At(j) < b /\ b <= BodyEnd(m, j)
<1> DEFINE n == BodyEnd(m, j) - At(j)
           d == Fragment(m, j).body
<1>1. n \in 1..Mtu /\ DOMAIN d = 1..n
  BY FragmentCarries
<1>2. e.chunks[k].off = At(j) /\ e.chunks[k].bytes = d
  BY DEF Piece
<1>3. j \in Int /\ At(j) \in Int /\ Mtu \in Nat
  BY CountOfFragments, Offsets, CaptureAssumption
<1>4. BodyEnd(m, j) \in Int
  BY <1>3, BodyIsBytes, Offsets DEF BodyEnd
<1>5. k \in Holding(e, b) <=> b - At(j) \in 1..n
  BY <1>1, <1>2 DEF Holding
<1> HIDE DEF d
<1> QED
  BY <1>1, <1>3, <1>4, <1>5

LEMMA EndOfPiece ==
  ASSUME NEW m \in Traffic, NEW j \in 1..FragmentCount(m)
  PROVE  BodyEnd(m, j) \in Int /\ At(j) \in Int /\ BodyEnd(m, j) <= At(j) + Mtu
<1>1. /\ j \in Int /\ FragmentCount(m) \in Int /\ Mtu \in Nat
      /\ j = FragmentCount(m) \/ j < FragmentCount(m)
  BY CountOfFragments, CaptureAssumption
<1>2. At(j) \in Int /\ Mtu * j = At(j) + Mtu
  BY <1>1, Offsets
<1>3. Size(m) \in Nat /\ Size(m) <= Mtu * FragmentCount(m)
  BY BodyIsBytes, CountOfFragments
<1>4. CASE j < FragmentCount(m)
  BY <1>1, <1>2, <1>4 DEF BodyEnd
<1>5. CASE j = FragmentCount(m)
  <2>1. BodyEnd(m, j) = Size(m) /\ Size(m) <= At(j) + Mtu
    BY <1>1, <1>2, <1>3, <1>5 DEF BodyEnd
  <2> QED
    BY <1>2, <1>3, <2>1
<1> QED
  BY <1>1, <1>4, <1>5

LEMMA QuotientOf ==
  ASSUME NEW a \in Nat, NEW s \in Nat \ {0}
  PROVE  a \div s \in Nat /\ s * (a \div s) <= a /\ a < s * (a \div s) + s
  BY SMT

LEMMA ByteIsCarried ==
  ASSUME NEW m \in Traffic, NEW b \in 1..Size(m)
  PROVE  \E j \in 1..FragmentCount(m) : At(j) < b /\ b <= BodyEnd(m, j)
<1> DEFINE q == (b - 1) \div Mtu
           j == q + 1
           c == FragmentCount(m)
<1>0. /\ Size(m) \in Nat /\ Mtu \in Nat \ {0} /\ c \in Nat \ {0}
      /\ Size(m) <= Mtu * c /\ b \in Nat /\ b >= 1 /\ b <= Size(m)
  BY BodyIsBytes, CountOfFragments, CaptureAssumption
<1>1. q \in Nat /\ Mtu * q <= b - 1 /\ b - 1 < Mtu * q + Mtu
  BY <1>0, QuotientOf
<1> HIDE DEF q
<1>2. At(j) = Mtu * q /\ Mtu * j = Mtu * q + Mtu
  <2>1. Mtu * j = At(j) + Mtu
    BY <1>1, Offsets
  <2>2. j - 1 = q
    BY <1>1
  <2> QED
    BY <2>1, <2>2 DEF At
<1>3. j <= c
  <2>1. c < j => Mtu * c + Mtu <= Mtu * j
    BY <1>0, <1>1, Steps
  <2> QED
    BY <1>0, <1>1, <1>2, <2>1, Steps
<1>4. b <= BodyEnd(m, j)
  BY <1>0, <1>1, <1>2 DEF BodyEnd
<1> QED
  BY <1>0, <1>1, <1>2, <1>3, <1>4

LEMMA FirstByte ==
  ASSUME NEW m \in Traffic, NEW j \in 1..FragmentCount(m)
  PROVE  At(j) + 1 \in 1..Size(m)
<1> DEFINE c == FragmentCount(m)
<1>1. c \in Nat /\ j \in Int /\ 1 <= j /\ j <= c
  BY CountOfFragments
<1>2. Size(m) \in Nat /\ At(c) < Size(m) /\ Mtu \in Nat
  BY BodyIsBytes, CountOfFragments, CaptureAssumption
<1> HIDE DEF c
<1>3. At(j) \in Int /\ At(c) \in Int /\ At(1) = 0
  BY <1>1, Offsets
<1>4. j < c => At(j) + Mtu <= At(c)
  BY <1>1, Offsets
<1>5. 1 < j => At(1) + Mtu <= At(j)
  BY <1>1, Offsets
<1>6. j = 1 \/ 1 < j
  BY <1>1
<1>7. At(j) >= 0
  BY <1>2, <1>3, <1>5, <1>6
<1>8. At(j) <= At(c)
  <2>1. j < c \/ j = c
    BY <1>1
  <2> QED
    BY <1>2, <1>3, <1>4, <2>1
<1> QED
  BY <1>2, <1>3, <1>7, <1>8

LEMMA PiecesApart ==
  ASSUME NEW m \in Traffic, NEW i \in 1..FragmentCount(m), NEW j \in 1..FragmentCount(m),
         At(i) < At(j) + 1, At(j) + 1 <= BodyEnd(m, i)
  PROVE  i = j
<1>1. i \in Int /\ j \in Int /\ Mtu \in Nat \ {0}
  BY CountOfFragments, CaptureAssumption
<1>2. At(i) \in Int /\ At(j) \in Int /\ BodyEnd(m, i) \in Int /\ BodyEnd(m, i) <= At(i) + Mtu
  BY EndOfPiece
<1>3. (i < j => At(i) + Mtu <= At(j)) /\ (j < i => At(j) + Mtu <= At(i))
  BY <1>1, Offsets
<1>4. ~(i < j) /\ ~(j < i)
  BY <1>1, <1>2, <1>3
<1> QED
  BY <1>1, <1>4

LEMMA CompleteIffAll ==
  ASSUME NEW m \in Traffic, snap \in Nat, snap >= Mtu, NEW e,
         \A k \in DOMAIN e.chunks : \E j \in 1..FragmentCount(m) : e.chunks[k] = Piece(m, j),
         e.total # Unknown => e.total = Size(m),
         e.total = Unknown <=> ~Waits(e.chunks, m, FragmentCount(m))
  PROVE  Complete(e) <=> \A j \in 1..FragmentCount(m) : Waits(e.chunks, m, j)
<1> DEFINE c == FragmentCount(m)
<1>0. c \in Nat \ {0}
  BY CountOfFragments
<1>1. ASSUME \A j \in 1..c : Waits(e.chunks, m, j) PROVE Complete(e)
  <2>1. e.total = Size(m) /\ e.total # Unknown
    BY <1>0, <1>1
  <2>2. ASSUME NEW b \in 1..Size(m) PROVE Holding(e, b) # {}
    <3>1. \E j \in 1..c : At(j) < b /\ b <= BodyEnd(m, j)
      BY ByteIsCarried
    <3>2. PICK j \in 1..c : At(j) < b /\ b <= BodyEnd(m, j)
      BY <3>1
    <3>3. PICK k \in DOMAIN e.chunks : e.chunks[k] = Piece(m, j)
      BY <1>1 DEF Waits
    <3> QED
      BY <3>2, <3>3, PieceHolds
  <2> QED
    BY <2>1, <2>2 DEF Complete
<1>2. ASSUME Complete(e), NEW j \in 1..c PROVE Waits(e.chunks, m, j)
  <2>1. e.total = Size(m) /\ \A b \in 1..Size(m) : Holding(e, b) # {}
    BY <1>2 DEF Complete
  <2> DEFINE b == At(j) + 1
  <2>2. b \in 1..Size(m)
    BY FirstByte
  <2>3. PICK k \in Holding(e, b) : TRUE
    BY <2>1, <2>2
  <2>4. k \in DOMAIN e.chunks
    BY <2>3 DEF Holding
  <2>5. PICK i \in 1..c : e.chunks[k] = Piece(m, i)
    BY <2>4
  <2>6. At(i) < b /\ b <= BodyEnd(m, i)
    <3>1. b \in Int
      BY <2>2, BodyIsBytes
    <3> QED
      BY <2>3, <2>4, <2>5, <3>1, PieceHolds
  <2>7. i = j
    BY <2>6, PiecesApart
  <2> QED
    BY <2>4, <2>5, <2>7 DEF Waits
<1> QED
  BY <1>1, <1>2

LEMMA PieceIsOne ==
  ASSUME NEW m \in Traffic, NEW i \in 1..FragmentCount(m),
         NEW n \in Traffic, NEW j \in 1..FragmentCount(n), Piece(m, i) = Piece(n, j)
  PROVE  m = n /\ i = j
<1>1. m = n /\ At(i) = At(j)
  BY DEF Piece
<1>2. i \in Int /\ j \in Int /\ Mtu \in Nat \ {0}
  BY CountOfFragments, CaptureAssumption
<1>3. At(i) \in Int /\ (i < j => At(i) + Mtu <= At(j)) /\ (j < i => At(j) + Mtu <= At(i))
  BY <1>2, Offsets
<1>4. ~(i < j) /\ ~(j < i)
  BY <1>1, <1>2, <1>3
<1> QED
  BY <1>1, <1>2, <1>4

-----------------------------------------------------------------------------
(* Histories and chunks grow at the end. *)
LEMMA Appended ==
  ASSUME NEW c, IsSequence(c), NEW x
  PROVE  LET d == Append(c, x)
         IN  /\ IsSequence(d) /\ Len(c) \in Nat /\ DOMAIN c = 1..Len(c)
             /\ Len(d) = Len(c) + 1 /\ DOMAIN d = 1..(Len(c) + 1)
             /\ d[Len(c) + 1] = x /\ \A k \in 1..Len(c) : d[k] = c[k]
<1> DEFINE d == Append(c, x)
<1>1. PICK S : c \in Seq(S)
  BY DEF IsSequence
<1>2. /\ d \in Seq(S \cup {x}) /\ Len(c) \in Nat /\ DOMAIN c = 1..Len(c)
      /\ Len(d) = Len(c) + 1 /\ DOMAIN d = 1..(Len(c) + 1)
      /\ d[Len(c) + 1] = x /\ \A k \in 1..Len(c) : d[k] = c[k]
  BY <1>1
<1> HIDE DEF d
<1>3. IsSequence(d)
  BY <1>2, Zenon DEF IsSequence
<1> QED
  BY <1>2, <1>3 DEF d

LEMMA CapturedGrows ==
  ASSUME IsSequence(captured), NEW m, NEW j, captured' = Append(captured, <<m, j>>),
         NEW x, NEW i
  PROVE  /\ Len(captured) \in Nat /\ CapturedAt(x, i) \subseteq 1..Len(captured)
         /\ CapturedAt(x, i)' = IF x = m /\ i = j
                                THEN CapturedAt(x, i) \cup {Len(captured) + 1}
                                ELSE CapturedAt(x, i)
<1>1. /\ Len(captured) \in Nat /\ DOMAIN captured = 1..Len(captured)
      /\ DOMAIN captured' = 1..(Len(captured) + 1)
      /\ captured'[Len(captured) + 1] = <<m, j>>
      /\ \A k \in 1..Len(captured) : captured'[k] = captured[k]
  BY Appended
<1> QED
  BY <1>1 DEF CapturedAt

LEMMA PieceStays ==
  ASSUME UNCHANGED <<sent, snap>>, NEW m, NEW j
  PROVE  Piece(m, j)' = Piece(m, j) /\ KeyOf(m)' = KeyOf(m)
  BY DEF Piece, Fragment, Clipped, KeyOf, At

LEMMA EmptyIsSequence == IsSequence(<<>>)
<1> DEFINE S == {}
           c == <<>>
<1>1. c \in Seq(S)
  OBVIOUS
<1> HIDE DEF S, c
<1>2. IsSequence(c)
  BY <1>1, Zenon DEF IsSequence
<1> QED
  BY <1>2 DEF c

LEMMA TwoFields ==
  ASSUME NEW old, IsEntry(old), NEW a, NEW b, NEW e,
         e = [f \in DOMAIN old |-> IF f = "total" THEN b ELSE IF f = "chunks" THEN a ELSE old[f]]
  PROVE  e.chunks = a /\ e.total = b /\ e.ts = old.ts /\ IsEntry(e)
<1> DEFINE t == old.ts
<1>1. DOMAIN old = {"chunks", "total", "ts"}
  BY DEF IsEntry
<1>2. e = [chunks |-> a, total |-> b, ts |-> t]
  BY <1>1
<1> HIDE DEF t
<1> QED
  BY <1>2 DEF IsEntry

(* The entry a fragment makes. *)
OldEntry(key, ts) == IF key \in DOMAIN pending THEN pending[key] ELSE NoEntry(ts)

LEMMA EntryFrom ==
  ASSUME NEW m \in Traffic, NEW j \in 1..FragmentCount(m), NEW ts,
         IsEntry(OldEntry(KeyOf(m), ts))
  PROVE  LET old == OldEntry(KeyOf(m), ts)
             f   == Fragment(m, j)
             e   == Entry(pending, f, ts)
         IN  /\ Key(f) = KeyOf(m) /\ IsEntry(e) /\ e.ts = old.ts
             /\ e.chunks = Append(old.chunks, Piece(m, j))
             /\ e.total = IF j = FragmentCount(m) THEN At(j) + Len(f.body) ELSE old.total
<1> DEFINE f == Fragment(m, j)
           key == KeyOf(m)
           old == OldEntry(key, ts)
           e == Entry(pending, f, ts)
<1>1. /\ f.src = m.src /\ f.dst = m.dst /\ f.ident = sent[m] /\ f.offset = At(j)
      /\ f.of = m
  BY DEF Fragment, At
<1>2. Key(f) = key
  BY <1>1 DEF Key, KeyOf
<1>3. f.more <=> j # FragmentCount(m)
  <2>1. j < FragmentCount(m) <=> j # FragmentCount(m)
    BY CountOfFragments
  <2>2. f.more <=> j < FragmentCount(m)
    BY DEF Fragment
  <2> QED
    BY <2>1, <2>2, Zenon
<1> HIDE DEF f
<1> DEFINE a == Append(old.chunks, [off |-> f.offset, bytes |-> f.body, of |-> f.of])
           b == IF f.more THEN old.total ELSE f.offset + Len(f.body)
<1>4. e = [old EXCEPT !.chunks = Append(@, [off |-> f.offset, bytes |-> f.body, of |-> f.of]),
                      !.total  = IF f.more THEN @ ELSE f.offset + Len(f.body)]
  BY <1>2 DEF Entry, OldEntry
<1>5. e = [x \in DOMAIN old |->
              IF x = "total" THEN b ELSE IF x = "chunks" THEN a ELSE old[x]]
  BY <1>4, Zenon
<1>6. IsEntry(old)
  OBVIOUS
<1> HIDE DEF old, e, a, b
<1>7. e.chunks = a /\ e.total = b /\ e.ts = old.ts /\ IsEntry(e)
  BY <1>5, <1>6, TwoFields
<1>8. a = Append(old.chunks, Piece(m, j))
  BY <1>1 DEF a, Piece, f
<1>9. b = IF j = FragmentCount(m) THEN At(j) + Len(f.body) ELSE old.total
  BY <1>1, <1>3 DEF b
<1> QED
  BY <1>2, <1>7, <1>8, <1>9 DEF f, old, e

LEMMA EntryOf ==
  ASSUME TypesOK, EntriesOK, snap >= Mtu, NEW m \in DOMAIN sent,
         NEW j \in 1..FragmentCount(m), NEW ts
  PROVE  LET e == Entry(pending, Fragment(m, j), ts)
         IN  /\ Key(Fragment(m, j)) = KeyOf(m)
             /\ IsEntry(e) /\ IsSequence(Waiting(KeyOf(m)))
             /\ e.chunks = Append(Waiting(KeyOf(m)), Piece(m, j))
             /\ e.total = IF j = FragmentCount(m) THEN Size(m)
                          ELSE IF KeyOf(m) \in DOMAIN pending THEN pending[KeyOf(m)].total
                          ELSE Unknown
<1> DEFINE f == Fragment(m, j)
           key == KeyOf(m)
           old == OldEntry(key, ts)
           e == Entry(pending, f, ts)
<1>1. Len(f.body) = BodyEnd(m, j) - At(j) /\ m \in Traffic
  BY FragmentCarries DEF TypesOK
<1>2. j = FragmentCount(m) => At(j) + Len(f.body) = Size(m)
  <2>1. At(j) \in Int /\ Size(m) \in Int
    BY <1>1, EndOfPiece, BodyIsBytes
  <2>2. j = FragmentCount(m) => BodyEnd(m, j) = Size(m)
    BY <1>1, CountOfFragments DEF BodyEnd
  <2> QED
    BY <1>1, <2>1, <2>2
<1>3. IsEntry(old) /\ IsSequence(old.chunks) /\ old.chunks = Waiting(key)
  <2>1. CASE key \in DOMAIN pending
    BY <2>1 DEF EntriesOK, EntryOK, Waiting, OldEntry
  <2>2. CASE key \notin DOMAIN pending
    <3>1. old.chunks = <<>> /\ IsEntry(old)
      BY <2>2 DEF NoEntry, IsEntry, OldEntry
    <3>2. IsSequence(<<>>)
      BY EmptyIsSequence
    <3> QED
      BY <2>2, <3>1, <3>2 DEF Waiting
  <2> QED
    BY <2>1, <2>2
<1>4. old.total = IF key \in DOMAIN pending THEN pending[key].total ELSE Unknown
  BY DEF NoEntry, OldEntry
<1>5. /\ Key(f) = key /\ IsEntry(e)
      /\ e.chunks = Append(old.chunks, Piece(m, j))
      /\ e.total = IF j = FragmentCount(m) THEN At(j) + Len(f.body) ELSE old.total
  <2>1. IsEntry(OldEntry(KeyOf(m), ts))
    BY <1>3
  <2> QED
    BY <1>1, <2>1, EntryFrom
<1> HIDE DEF old, f, e
<1> QED
  BY <1>2, <1>3, <1>4, <1>5 DEF f, e

-----------------------------------------------------------------------------
(* What a frame does. *)
Grows(of) == \E d : d.of = of /\ out' = Append(out, d)

Advances(m, j) ==
  /\ m \in DOMAIN sent /\ j \in 1..FragmentCount(m)
  /\ UNCHANGED <<sent, snap>> /\ captured' = Append(captured, <<m, j>>)

Passes(m) ==
  /\ ~Fragmented(m) /\ pending' = pending
  /\ (FragmentCount(m) = 1 /\ Grows({m})) \/ (FragmentCount(m) # 1 /\ out' = out)

Extends(m, j, e) ==
  /\ Fragmented(m) /\ IsEntry(e) /\ e.chunks = Append(Waiting(KeyOf(m)), Piece(m, j))
  /\ e.total = IF j = FragmentCount(m) THEN Size(m)
               ELSE IF KeyOf(m) \in DOMAIN pending THEN pending[KeyOf(m)].total
               ELSE Unknown
  /\ DOMAIN pending' = IF Complete(e) THEN DOMAIN pending \ {KeyOf(m)}
                       ELSE DOMAIN pending \cup {KeyOf(m)}
  /\ \A key \in DOMAIN pending' :
       pending'[key] = IF key = KeyOf(m) THEN e ELSE pending[key]

Decodes(e) == IF Complete(e) THEN Grows(Origins(e)) ELSE out' = out

LEMMA Parsed ==
  ASSUME NEW ts, NEW f, NEW body, NEW fragmented, NEW of
  PROVE  IF Len(body) < 8 THEN ParseUdp(ts, f, body, fragmented, of) = <<>>
         ELSE \E d : d.of = of /\ ParseUdp(ts, f, body, fragmented, of) = <<d>>
<1>1. CASE Len(body) < 8
  BY <1>1, Zenon DEF ParseUdp
<1>2. CASE ~(Len(body) < 8)
  <2> DEFINE end == IF Number(Slice(body, 4, 2)) \in 8..Len(body)
                    THEN Number(Slice(body, 4, 2)) ELSE Len(body)
             sp == Number(Slice(body, 0, 2))
             dp == Number(Slice(body, 2, 2))
             pk == Parse(SubSeq(body, 9, end))
             d == [ts |-> ts, src |-> f.src, dst |-> f.dst, sport |-> sp, dport |-> dp,
                   packet |-> pk, fragmented |-> fragmented, of |-> of]
  <2>1. ParseUdp(ts, f, body, fragmented, of) = <<d>>
    BY <1>2, Zenon DEF ParseUdp
  <2> HIDE DEF sp, dp, pk
  <2>2. d.of = of
    OBVIOUS
  <2> HIDE DEF d
  <2> QED
    BY <1>2, <2>1, <2>2
<1> QED
  BY <1>1, <1>2

LEMMA ParsedIsOne ==
  ASSUME IsSequence(out), NEW ts, NEW f, NEW body, NEW fragmented, NEW of,
         Len(body) \in Nat, Len(body) >= 8,
         out' = out \o ParseUdp(ts, f, body, fragmented, of)
  PROVE  Grows(of)
<1>1. ~(Len(body) < 8)
  OBVIOUS
<1>2. PICK d : d.of = of /\ ParseUdp(ts, f, body, fragmented, of) = <<d>>
  BY <1>1, Parsed
<1>3. PICK S : out \in Seq(S)
  BY DEF IsSequence
<1>4. out' = Append(out, d)
  BY <1>2, <1>3
<1> QED
  BY <1>2, <1>4 DEF Grows

LEMMA ParsedIsSequence ==
  ASSUME NEW s, IsSequence(s), NEW ts, NEW f, NEW body, NEW fragmented, NEW of
  PROVE  IsSequence(s \o ParseUdp(ts, f, body, fragmented, of))
<1> DEFINE p == ParseUdp(ts, f, body, fragmented, of)
<1>1. p = <<>> \/ \E d : p = <<d>>
  BY Parsed
<1> HIDE DEF p
<1>2. PICK S : s \in Seq(S)
  BY DEF IsSequence
<1>3. CASE p = <<>>
  <2>1. s \o p = s
    BY <1>2, <1>3
  <2> QED
    BY <2>1 DEF p
<1>4. CASE \E d : p = <<d>>
  <2>1. PICK d : p = <<d>>
    BY <1>4
  <2>2. s \o p = Append(s, d)
    BY <1>2, <2>1
  <2> QED
    BY <2>2, Appended DEF p
<1> QED
  BY <1>1, <1>3, <1>4

LEMMA PassesWhole ==
  ASSUME TypesOK, snap >= Mtu, NEW m \in DOMAIN sent, NEW j \in 1..FragmentCount(m), NEW ts,
         CaptureWhole(m, ts) \/ CaptureIgnored(m)
  PROVE  Passes(m)
<1>1. m \in Traffic /\ snap \in Nat /\ IsSequence(out)
  BY DEF TypesOK
<1>2. CASE CaptureIgnored(m)
  <2>1. FragmentCount(m) # 1 /\ ~Fragmented(m)
    BY <1>1, <1>2, CountOfFragments DEF CaptureIgnored, Fragmented
  <2> QED
    BY <1>2, <2>1 DEF CaptureIgnored, Passes
<1>3. CASE CaptureWhole(m, ts)
  <2> DEFINE b == Fragment(m, 1).body
  <2>1. FragmentCount(m) = 1
    BY <1>3 DEF CaptureWhole
  <2>2. Len(b) = BodyEnd(m, 1) - At(1) /\ At(1) = 0 /\ BodyEnd(m, 1) = Size(m)
    <3>1. 1 \in 1..FragmentCount(m)
      BY <2>1
    <3> QED
      BY <1>1, <2>1, <3>1, FragmentCarries, Offsets DEF BodyEnd
  <2>3. Len(b) \in Nat /\ Len(b) >= 8
    BY <1>1, <2>2, BodyIsBytes
  <2>4. out' = out \o ParseUdp(ts, Fragment(m, 1), b, FALSE, {m})
    BY <1>3, Zenon DEF CaptureWhole
  <2> HIDE DEF b
  <2>5. Grows({m})
    BY <1>1, <2>3, <2>4, ParsedIsOne
  <2>6. pending' = pending /\ ~Fragmented(m)
    BY <1>3, <2>1 DEF CaptureWhole, Fragmented
  <2> QED
    BY <2>1, <2>5, <2>6 DEF Passes
<1> QED
  BY <1>2, <1>3

LEMMA ExtendsEntry ==
  ASSUME TypesOK, EntriesOK, snap >= Mtu, NEW m \in DOMAIN sent,
         NEW j \in 1..FragmentCount(m), NEW ts, CaptureFragment(m, j, ts)
  PROVE  \E e : /\ Extends(m, j, e)
               /\ out' = IF Complete(e)
                         THEN out \o ParseUdp(e.ts, Fragment(m, j), Assembled(e), TRUE, Origins(e))
                         ELSE out
<1> DEFINE f == Fragment(m, j)
<1>1. PICK e : e = Entry(pending, f, ts)
  OBVIOUS
<1>2. /\ Key(f) = KeyOf(m) /\ IsEntry(e)
      /\ e.chunks = Append(Waiting(KeyOf(m)), Piece(m, j))
      /\ e.total = IF j = FragmentCount(m) THEN Size(m)
                   ELSE IF KeyOf(m) \in DOMAIN pending THEN pending[KeyOf(m)].total
                   ELSE Unknown
  BY <1>1, EntryOf
<1>3. /\ m.version = 4 /\ FragmentCount(m) > 1
      /\ pending' = Remaining(pending, f, e)
      /\ out' = IF Complete(e)
                THEN out \o ParseUdp(e.ts, f, Assembled(e), TRUE, Origins(e)) ELSE out
  BY <1>1, Zenon DEF CaptureFragment
<1> HIDE DEF f
<1>4. /\ DOMAIN pending' = IF Complete(e) THEN DOMAIN pending \ {KeyOf(m)}
                           ELSE DOMAIN pending \cup {KeyOf(m)}
      /\ \A key \in DOMAIN pending' :
           pending'[key] = IF key = KeyOf(m) THEN e ELSE pending[key]
  BY <1>2, <1>3 DEF Remaining
<1>5. Extends(m, j, e)
  BY <1>2, <1>3, <1>4 DEF Extends, Fragmented
<1> QED
  BY <1>3, <1>5, Zenon DEF f

-----------------------------------------------------------------------------
(* What waits after a fragment came. *)
LEMMA ChunksOf ==
  ASSUME TypesOK, EntriesOK, NEW key
  PROVE  /\ IsSequence(Waiting(key))
         /\ \A k \in DOMAIN Waiting(key) :
              \E m \in DOMAIN sent : \E j \in 1..FragmentCount(m) :
                /\ Waiting(key)[k] = Piece(m, j)
                /\ Fragmented(m) /\ KeyOf(m) = key /\ CapturedAt(m, j) # {}
<1>1. CASE key \in DOMAIN pending
  BY <1>1 DEF EntriesOK, EntryOK, Waiting
<1>2. CASE key \notin DOMAIN pending
  BY <1>2, EmptyIsSequence DEF Waiting
<1> QED
  BY <1>1, <1>2

LEMMA WaitsGrow ==
  ASSUME TypesOK, EntriesOK, NEW m, NEW j, m \in DOMAIN sent, j \in 1..FragmentCount(m),
         NEW e, Extends(m, j, e)
  PROVE  LET w == Waiting(KeyOf(m))
         IN  /\ IsSequence(e.chunks) /\ Len(w) \in Nat /\ DOMAIN w = 1..Len(w)
             /\ DOMAIN e.chunks = 1..(Len(w) + 1)
             /\ e.chunks[Len(w) + 1] = Piece(m, j)
             /\ \A k \in 1..Len(w) : e.chunks[k] = w[k]
             /\ \A x \in DOMAIN sent : \A i \in 1..FragmentCount(x) :
                  Waits(e.chunks, x, i) <=> Waits(w, x, i) \/ (x = m /\ i = j)
<1> DEFINE w == Waiting(KeyOf(m))
<1>1. IsSequence(w) /\ e.chunks = Append(w, Piece(m, j))
  BY ChunksOf DEF Extends
<1> HIDE DEF w
<1>2. /\ IsSequence(e.chunks) /\ Len(w) \in Nat /\ DOMAIN w = 1..Len(w)
      /\ DOMAIN e.chunks = 1..(Len(w) + 1)
      /\ e.chunks[Len(w) + 1] = Piece(m, j)
      /\ \A k \in 1..Len(w) : e.chunks[k] = w[k]
  BY <1>1, Appended
<1>3. ASSUME NEW x \in DOMAIN sent, NEW i \in 1..FragmentCount(x)
      PROVE  Waits(e.chunks, x, i) <=> Waits(w, x, i) \/ (x = m /\ i = j)
  <2>1. Piece(x, i) = Piece(m, j) <=> x = m /\ i = j
    BY PieceIsOne DEF TypesOK
  <2> QED
    BY <1>2, <2>1 DEF Waits
<1> QED
  BY <1>2, <1>3 DEF w

LEMMA EntryGrows ==
  ASSUME TypesOK, EntriesOK, NEW m, NEW j, Advances(m, j), NEW e, Extends(m, j, e)
  PROVE  LengthKnown(e) /\ EntryOK(KeyOf(m), e)'
<1> DEFINE w == Waiting(KeyOf(m))
           key == KeyOf(m)
<1>0. /\ m \in DOMAIN sent /\ j \in 1..FragmentCount(m) /\ DOMAIN sent \subseteq Traffic
      /\ UNCHANGED <<sent, snap>>
  BY DEF Advances, TypesOK
<1>1. /\ IsSequence(e.chunks) /\ Len(w) \in Nat /\ DOMAIN w = 1..Len(w)
      /\ DOMAIN e.chunks = 1..(Len(w) + 1)
      /\ e.chunks[Len(w) + 1] = Piece(m, j)
      /\ \A k \in 1..Len(w) : e.chunks[k] = w[k]
      /\ \A x \in DOMAIN sent : \A i \in 1..FragmentCount(x) :
            Waits(e.chunks, x, i) <=> Waits(w, x, i) \/ (x = m /\ i = j)
  BY <1>0, WaitsGrow
<1>2. \A x \in DOMAIN sent : FragmentCount(x) \in 1..FragmentCount(x) /\ Size(x) \in Nat
  BY <1>0, CountOfFragments, BodyIsBytes
<1>3. LengthKnown(e)
  <2>1. CASE j = FragmentCount(m)
    <3>1. e.total = Size(m)
      BY <2>1 DEF Extends
    <3>2. e.total # Unknown
      BY <3>1, <1>0, <1>2 DEF Unknown
    <3> QED
      BY <1>0, <1>1, <1>2, <2>1, <3>1, <3>2 DEF LengthKnown
  <2>2. CASE j # FragmentCount(m) /\ key \in DOMAIN pending
    <3>1. e.total = pending[key].total /\ w = pending[key].chunks
      BY <2>2 DEF Extends, Waiting
    <3>2. LengthKnown(pending[key])
      BY <2>2 DEF EntriesOK, EntryOK
    <3>3. \A x \in DOMAIN sent :
             Waits(e.chunks, x, FragmentCount(x)) <=> Waits(w, x, FragmentCount(x))
      BY <1>1, <1>2, <2>2
    <3> HIDE DEF w, key
    <3> QED
      BY <3>1, <3>2, <3>3 DEF LengthKnown
  <2>3. CASE j # FragmentCount(m) /\ key \notin DOMAIN pending
    <3>1. e.total = Unknown /\ w = <<>>
      BY <2>3 DEF Extends, Waiting
    <3>2. \A x \in DOMAIN sent : ~Waits(e.chunks, x, FragmentCount(x))
      <4>1. \A x, i : ~Waits(w, x, i)
        BY <3>1 DEF Waits
      <4> HIDE DEF w
      <4> QED
        BY <1>1, <1>2, <2>3, <4>1
    <3> QED
      BY <3>1, <3>2 DEF LengthKnown
  <2> QED
    BY <2>1, <2>2, <2>3
<1>4. LengthKnown(e)'
  <2>1. \A x, i : Piece(x, i)' = Piece(x, i)
    BY <1>0, PieceStays
  <2>2. sent' = sent
    BY <1>0
  <2> QED
    BY <1>3, <2>1, <2>2 DEF LengthKnown, Waits
<1>5. ASSUME NEW k \in DOMAIN e.chunks
      PROVE  \E x \in DOMAIN sent : \E i \in 1..FragmentCount(x) :
               /\ e.chunks[k] = Piece(x, i)
               /\ Fragmented(x) /\ KeyOf(x) = key /\ CapturedAt(x, i)' # {}
  <2>0. IsSequence(captured) /\ captured' = Append(captured, <<m, j>>)
    BY DEF TypesOK, Advances
  <2>1. CASE k = Len(w) + 1
    <3>1. CapturedAt(m, j)' # {}
      BY <2>0, CapturedGrows
    <3> QED
      BY <1>0, <1>1, <2>1, <3>1 DEF Extends
  <2>2. CASE k \in DOMAIN w
    <3>1. PICK x \in DOMAIN sent : \E i \in 1..FragmentCount(x) :
                /\ w[k] = Piece(x, i)
                /\ Fragmented(x) /\ KeyOf(x) = key /\ CapturedAt(x, i) # {}
      BY <2>2, ChunksOf
    <3>2. PICK i \in 1..FragmentCount(x) :
                /\ w[k] = Piece(x, i)
                /\ Fragmented(x) /\ KeyOf(x) = key /\ CapturedAt(x, i) # {}
      BY <3>1
    <3>3. CapturedAt(x, i)' # {}
      BY <2>0, <3>2, CapturedGrows
    <3>4. e.chunks[k] = w[k]
      BY <1>1, <2>2
    <3> HIDE DEF w
    <3> QED
      BY <3>2, <3>3, <3>4
  <2> QED
    BY <1>1, <2>1, <2>2
<1>6. EntryOK(KeyOf(m), e)'
  <2>1. \A x : KeyOf(x)' = KeyOf(x) /\ \A i : Piece(x, i)' = Piece(x, i)
    BY <1>0, PieceStays
  <2>2. sent' = sent /\ IsEntry(e)
    BY <1>0 DEF Extends
  <2>3. \A k \in DOMAIN e.chunks :
          \E x \in DOMAIN sent' : \E i \in 1..FragmentCount(x) :
               /\ e.chunks[k] = Piece(x, i)'
               /\ Fragmented(x) /\ KeyOf(x)' = KeyOf(m)' /\ CapturedAt(x, i)' # {}
    BY <1>5, <2>1, <2>2
  <2> QED
    BY <1>1, <1>4, <2>2, <2>3 DEF EntryOK
<1> QED
  BY <1>3, <1>6

LEMMA EntryStays ==
  ASSUME TypesOK, NEW m, NEW j, Advances(m, j), NEW key, NEW e, EntryOK(key, e)
  PROVE  EntryOK(key, e)'
<1>1. /\ UNCHANGED <<sent, snap>> /\ IsSequence(captured)
      /\ captured' = Append(captured, <<m, j>>)
  BY DEF Advances, TypesOK
<1>2. \A x : KeyOf(x)' = KeyOf(x) /\ \A i : Piece(x, i)' = Piece(x, i)
  BY <1>1, PieceStays
<1>3. \A x, i : CapturedAt(x, i) # {} => CapturedAt(x, i)' # {}
  BY <1>1, CapturedGrows
<1>4. IsEntry(e) /\ IsSequence(e.chunks) /\ LengthKnown(e)'
  BY <1>1, <1>2 DEF EntryOK, LengthKnown, Waits
<1>5. \A k \in DOMAIN e.chunks :
        \E x \in DOMAIN sent' : \E i \in 1..FragmentCount(x) :
          /\ e.chunks[k] = Piece(x, i)'
          /\ Fragmented(x) /\ KeyOf(x)' = key /\ CapturedAt(x, i)' # {}
  BY <1>1, <1>2, <1>3 DEF EntryOK
<1> QED
  BY <1>4, <1>5 DEF EntryOK

LEMMA EntriesStay ==
  ASSUME TypesOK, EntriesOK, NEW m, NEW j, Advances(m, j),
         pending' = pending \/ \E e : Extends(m, j, e)
  PROVE  EntriesOK'
<1> SUFFICES ASSUME NEW key \in DOMAIN pending', NEW c, c = pending'[key]
             PROVE  EntryOK(key, c)' /\ ~Complete(c)
  BY Zenon DEF EntriesOK
<1>1. CASE pending' = pending
  BY <1>1, EntryStays DEF EntriesOK
<1>2. ASSUME NEW e, Extends(m, j, e) PROVE EntryOK(key, c)' /\ ~Complete(c)
  <2>1. CASE key = KeyOf(m)
    <3>1. c = e /\ ~Complete(e)
      BY <1>2, <2>1 DEF Extends
    <3>2. EntryOK(KeyOf(m), e)'
      BY <1>2, EntryGrows
    <3>3. KeyOf(m)' = KeyOf(m)
      BY PieceStays DEF Advances
    <3> QED
      BY <2>1, <3>1, <3>2, <3>3 DEF EntryOK
  <2>2. CASE key # KeyOf(m)
    <3>1. key \in DOMAIN pending /\ c = pending[key]
      BY <1>2, <2>2 DEF Extends
    <3> QED
      BY <3>1, EntryStays DEF EntriesOK
  <2> QED
    BY <2>1, <2>2
<1> QED
  BY <1>1, <1>2

(* What is complete is long enough for a UDP header. *)
LEMMA CompleteDecodes ==
  ASSUME TypesOK, EntriesOK, NEW m, NEW j, Advances(m, j), NEW e, Extends(m, j, e), NEW ts, NEW f,
         out' = IF Complete(e) THEN out \o ParseUdp(ts, f, Assembled(e), TRUE, Origins(e)) ELSE out
  PROVE  Decodes(e)
<1>1. CASE ~Complete(e)
  BY <1>1 DEF Decodes
<1>2. CASE Complete(e)
  <2>1. PICK x \in DOMAIN sent : e.total = Size(x)
    BY <1>2, EntryGrows DEF LengthKnown, Complete
  <2>2. e.total \in Nat /\ e.total >= 8
    BY <2>1, BodyIsBytes DEF TypesOK
  <2> DEFINE s == Assembled(e)
  <2>3. Len(s) = e.total
    <3>1. s = [b \in 1..e.total |-> Kept(e, b).bytes[b - Kept(e, b).off]]
      BY DEF Assembled
    <3> HIDE DEF s
    <3> QED
      BY <2>2, <3>1
  <2>4. out' = out \o ParseUdp(ts, f, s, TRUE, Origins(e))
    BY <1>2
  <2> HIDE DEF s
  <2>5. Grows(Origins(e))
    BY <2>2, <2>3, <2>4, ParsedIsOne DEF TypesOK
  <2> QED
    BY <1>2, <2>5 DEF Decodes
<1> QED
  BY <1>1, <1>2

(* Every step captures a fragment, which passes or extends what waits. *)
LEMMA StepIs ==
  ASSUME TypesOK, snap >= Mtu => EntriesOK, CaptureNext
  PROVE  \E m, j : /\ Advances(m, j) /\ TypesOK'
                   /\ snap >= Mtu => Passes(m) \/ \E e : Extends(m, j, e) /\ Decodes(e)
<1>1. PICK m \in DOMAIN sent : \E j \in 1..FragmentCount(m) : CaptureFrame(m, j)
  BY DEF CaptureNext
<1>2. PICK j \in 1..FragmentCount(m) : CaptureFrame(m, j)
  BY <1>1
<1>3. Advances(m, j)
  BY <1>2 DEF CaptureFrame, Advances
<1> DEFINE ts == Len(captured) + 1
<1>4. CaptureWhole(m, ts) \/ CaptureFragment(m, j, ts) \/ CaptureIgnored(m)
  BY <1>2 DEF CaptureFrame
<1> HIDE DEF ts
<1>5. ASSUME snap >= Mtu PROVE Passes(m) \/ \E e : Extends(m, j, e) /\ Decodes(e)
  <2>1. CASE CaptureWhole(m, ts) \/ CaptureIgnored(m)
    BY <1>5, <2>1, PassesWhole
  <2>2. CASE CaptureFragment(m, j, ts)
    <3>1. PICK e : /\ Extends(m, j, e)
                   /\ out' = IF Complete(e)
                             THEN out \o ParseUdp(e.ts, Fragment(m, j), Assembled(e), TRUE, Origins(e))
                             ELSE out
      BY <1>5, <2>2, ExtendsEntry
    <3>2. Decodes(e)
      BY <1>3, <1>5, <3>1, CompleteDecodes
    <3> QED
      BY <3>1, <3>2
  <2> QED
    BY <1>4, <2>1, <2>2
<1>6. TypesOK'
  <2>1. IsSequence(captured')
    BY <1>3, Appended DEF Advances, TypesOK
  <2>2. IsSequence(out')
    <3>1. IsSequence(out)
      BY DEF TypesOK
    <3>2. out' = out \/ \E t, f, b, fr, of : out' = out \o ParseUdp(t, f, b, fr, of)
      BY <1>4, Zenon DEF CaptureWhole, CaptureFragment, CaptureIgnored
    <3> QED
      BY <3>1, <3>2, ParsedIsSequence
  <2> QED
    BY <1>3, <2>1, <2>2 DEF TypesOK, Advances, IsSequence
<1> QED
  BY <1>3, <1>5, <1>6

LEMMA OriginIsThere ==
  ASSUME TypesOK, EntriesOK, NEW m, NEW j, m \in DOMAIN sent, j \in 1..FragmentCount(m),
         NEW e, Extends(m, j, e)
  PROVE  m \in Origins(e)
<1>1. /\ Len(Waiting(KeyOf(m))) \in Nat
      /\ DOMAIN e.chunks = 1..(Len(Waiting(KeyOf(m))) + 1)
      /\ e.chunks[Len(Waiting(KeyOf(m))) + 1] = Piece(m, j)
  BY WaitsGrow
<1>2. Piece(m, j).of = m
  BY DEF Piece
<1> QED
  BY <1>1, <1>2 DEF Origins, Range

(* If what waits is all of one datagram, it is complete once that is. *)
LEMMA OneIsWhole ==
  ASSUME TypesOK, snap >= Mtu, NEW m \in DOMAIN sent, NEW e, LengthKnown(e),
         \A k \in DOMAIN e.chunks :
           /\ e.chunks[k].of = m
           /\ \E x \in DOMAIN sent : \E i \in 1..FragmentCount(x) : e.chunks[k] = Piece(x, i)
  PROVE  Complete(e) <=> \A i \in 1..FragmentCount(m) : Waits(e.chunks, m, i)
<1>0. m \in Traffic /\ snap \in Nat
  BY DEF TypesOK
<1>1. \A k \in DOMAIN e.chunks : \E i \in 1..FragmentCount(m) : e.chunks[k] = Piece(m, i)
  <2>1. \A x, i : Piece(x, i).of = x
    BY DEF Piece
  <2> QED
    BY <2>1
<1>2. ASSUME NEW x \in DOMAIN sent, Waits(e.chunks, x, FragmentCount(x)) PROVE x = m
  <2>1. \A i : Piece(x, i).of = x
    BY DEF Piece
  <2> QED
    BY <1>2, <2>1 DEF Waits
<1>3. e.total # Unknown => e.total = Size(m)
  BY <1>2 DEF LengthKnown
<1>4. e.total = Unknown <=> ~Waits(e.chunks, m, FragmentCount(m))
  BY <1>2 DEF LengthKnown
<1> QED
  BY <1>0, <1>1, <1>3, <1>4, CompleteIffAll

LEMMA PiecesOfOne ==
  ASSUME TypesOK, EntriesOK, NEW m, NEW j, Advances(m, j), NEW e, Extends(m, j, e),
         \A k \in DOMAIN e.chunks : e.chunks[k].of = m
  PROVE  \A k \in DOMAIN e.chunks :
           m \in DOMAIN sent /\ \E i \in 1..FragmentCount(m) : e.chunks[k] = Piece(m, i)
<1>1. m \in DOMAIN sent /\ UNCHANGED <<sent, snap>>
  BY DEF Advances
<1> SUFFICES ASSUME NEW k \in DOMAIN e.chunks
             PROVE  \E i \in 1..FragmentCount(m) : e.chunks[k] = Piece(m, i)
  BY <1>1
<1>2. PICK x \in DOMAIN sent' : \E i \in 1..FragmentCount(x) : e.chunks[k] = Piece(x, i)'
  BY EntryGrows DEF EntryOK
<1>3. \E i \in 1..FragmentCount(x) : e.chunks[k] = Piece(x, i)
  BY <1>1, <1>2, PieceStays
<1>4. x = m
  <2>1. \A i : Piece(x, i).of = x
    BY DEF Piece
  <2> QED
    BY <1>3, <2>1
<1> QED
  BY <1>3, <1>4

LEMMA AllOfOne ==
  ASSUME TypesOK, EntriesOK, snap >= Mtu, NEW m, NEW j, Advances(m, j),
         NEW e, Extends(m, j, e), \A k \in DOMAIN e.chunks : e.chunks[k].of = m
  PROVE  /\ Complete(e) <=> \A i \in 1..FragmentCount(m) : Waits(e.chunks, m, i)
         /\ Origins(e) = {m}
<1>0. /\ m \in DOMAIN sent /\ j \in 1..FragmentCount(m) /\ UNCHANGED <<sent, snap>>
  BY DEF Advances
<1>1. LengthKnown(e)
  BY EntryGrows
<1>2. \A k \in DOMAIN e.chunks :
        \E x \in DOMAIN sent : \E i \in 1..FragmentCount(x) : e.chunks[k] = Piece(x, i)
  BY PiecesOfOne
<1>3. Complete(e) <=> \A i \in 1..FragmentCount(m) : Waits(e.chunks, m, i)
  BY <1>0, <1>1, <1>2, OneIsWhole
<1>4. Origins(e) = {m}
  <2>1. m \in Origins(e)
    BY <1>0, OriginIsThere
  <2>2. Origins(e) \subseteq {m}
    BY DEF Origins, Range
  <2> QED
    BY <2>1, <2>2
<1> QED
  BY <1>3, <1>4

(* What waits under a key afterwards. *)
LEMMA WaitingAfter ==
  ASSUME NEW m, NEW key
  PROVE  /\ Passes(m) => Waiting(key)' = Waiting(key)
         /\ \A j, e : Extends(m, j, e) =>
              Waiting(key)' = IF key # KeyOf(m) THEN Waiting(key)
                              ELSE IF Complete(e) THEN <<>> ELSE e.chunks
<1>1. Passes(m) => Waiting(key)' = Waiting(key)
  BY DEF Passes, Waiting
<1>2. ASSUME NEW j, NEW e, Extends(m, j, e)
      PROVE  Waiting(key)' = IF key # KeyOf(m) THEN Waiting(key)
                             ELSE IF Complete(e) THEN <<>> ELSE e.chunks
  BY <1>2 DEF Extends, Waiting
<1> QED
  BY <1>1, <1>2

LEMMA DecodedGrows ==
  ASSUME IsSequence(out), NEW of, Grows(of), NEW x
  PROVE  /\ Len(out) \in Nat /\ Decoded(x) \subseteq 1..Len(out)
         /\ Decoded(x)' = IF of = {x} THEN Decoded(x) \cup {Len(out) + 1} ELSE Decoded(x)
<1>1. PICK d : d.of = of /\ out' = Append(out, d)
  BY DEF Grows
<1>2. /\ Len(out) \in Nat /\ DOMAIN out = 1..Len(out)
      /\ DOMAIN out' = 1..(Len(out) + 1)
      /\ out'[Len(out) + 1] = d /\ \A k \in 1..Len(out) : out'[k] = out[k]
  BY <1>1, Appended
<1> QED
  BY <1>1, <1>2 DEF Decoded

LEMMA AddedOne ==
  ASSUME NEW n \in Nat, NEW S, S \subseteq 1..n
  PROVE  /\ IsFiniteSet(S) /\ Cardinality(S) \in Nat
         /\ Cardinality(S \cup {n + 1}) = Cardinality(S) + 1
         /\ S # {} => Cardinality(S) >= 1
<1>1. IsFiniteSet(1..n)
  BY FS_Interval
<1>2. IsFiniteSet(S) /\ Cardinality(S) \in Nat
  BY <1>1, FS_Subset, FS_CardinalityType
<1>3. n + 1 \notin S
  OBVIOUS
<1>4. Cardinality(S \cup {n + 1}) = Cardinality(S) + 1
  BY <1>2, <1>3, FS_AddElement
<1>5. S # {} => Cardinality(S) # 0
  BY <1>2, FS_EmptySet
<1> QED
  BY <1>2, <1>4, <1>5

-----------------------------------------------------------------------------
(* A datagram with a key of its own. *)
LEMMA OwnKeyApart ==
  ASSUME NEW x, OwnKey(x), NEW m \in DOMAIN sent, x # m
  PROVE  KeyOf(x) # KeyOf(m)
  BY DEF OwnKey, SameKey, KeyOf

LEMMA OthersCount ==
  ASSUME TypesOK, EntriesOK, NEW m, NEW j, Advances(m, j),
         Passes(m) \/ \E e : Extends(m, j, e) /\ Decodes(e),
         NEW x, KeyOf(x) # KeyOf(m)
  PROVE  /\ Decoded(x)' = Decoded(x)
         /\ \A i : CapturedAt(x, i)' = CapturedAt(x, i) /\ WaitingAt(x, i)' = WaitingAt(x, i)
<1>0. /\ m \in DOMAIN sent /\ j \in 1..FragmentCount(m) /\ UNCHANGED <<sent, snap>>
      /\ IsSequence(captured) /\ IsSequence(out)
      /\ captured' = Append(captured, <<m, j>>) /\ x # m
  BY DEF Advances, TypesOK
<1>1. Decoded(x)' = Decoded(x)
  <2>1. CASE out' = out
    BY <2>1 DEF Decoded
  <2>2. ASSUME NEW of, Grows(of), m \in of PROVE Decoded(x)' = Decoded(x)
    BY <1>0, <2>2, DecodedGrows
  <2>3. \A e : Extends(m, j, e) => m \in Origins(e)
    BY <1>0, OriginIsThere
  <2> QED
    BY <2>1, <2>2, <2>3 DEF Passes, Decodes
<1>2. \A i : CapturedAt(x, i)' = CapturedAt(x, i)
  BY <1>0, CapturedGrows
<1>3. Waiting(KeyOf(x))' = Waiting(KeyOf(x))
  <2> DEFINE key == KeyOf(x)
  <2>1. PICK k : k = KeyOf(x)
    OBVIOUS
  <2>2. Waiting(k)' = Waiting(k)
    BY <2>1, WaitingAfter
  <2>3. KeyOf(x)' = k
    BY <1>0, <2>1, PieceStays
  <2> QED
    BY <2>1, <2>2, <2>3 DEF Waiting
<1>4. \A i : Piece(x, i)' = Piece(x, i)
  BY <1>0, PieceStays
<1>5. \A i : WaitingAt(x, i)' = WaitingAt(x, i)
  BY <1>3, <1>4 DEF WaitingAt
<1> QED
  BY <1>1, <1>2, <1>5

LEMMA WaitingAtAfter ==
  ASSUME TypesOK, EntriesOK, snap >= Mtu, NEW m, NEW j, Advances(m, j),
         NEW e, Extends(m, j, e), NEW i \in 1..FragmentCount(m)
  PROVE  LET n == Len(Waiting(KeyOf(m)))
         IN  /\ n \in Nat /\ WaitingAt(m, i) \subseteq 1..n
             /\ WaitingAt(m, i)' = IF Complete(e) THEN {}
                                   ELSE IF i = j THEN WaitingAt(m, i) \cup {n + 1}
                                   ELSE WaitingAt(m, i)
             /\ Waits(e.chunks, m, i) => i = j \/ WaitingAt(m, i) # {}
<1>0. /\ m \in DOMAIN sent /\ m \in Traffic /\ j \in 1..FragmentCount(m)
      /\ UNCHANGED <<sent, snap>>
  BY DEF Advances, TypesOK
<1>1. PICK w : w = Waiting(KeyOf(m))
  OBVIOUS
<1>2. PICK n : n = Len(w)
  OBVIOUS
<1>3. /\ n \in Nat /\ DOMAIN w = 1..n /\ DOMAIN e.chunks = 1..(n + 1)
      /\ e.chunks[n + 1] = Piece(m, j) /\ \A k \in 1..n : e.chunks[k] = w[k]
      /\ Waits(e.chunks, m, i) <=> Waits(w, m, i) \/ i = j
  BY <1>0, <1>1, <1>2, WaitsGrow
<1>4. WaitingAt(m, i) = {k \in 1..n : w[k] = Piece(m, i)}
  BY <1>1, <1>3 DEF WaitingAt
<1>5. Waits(e.chunks, m, i) => i = j \/ WaitingAt(m, i) # {}
  BY <1>3, <1>4 DEF Waits
<1>6. WaitingAt(m, i)' = LET c == IF Complete(e) THEN <<>> ELSE e.chunks
                         IN  {k \in DOMAIN c : c[k] = Piece(m, i)}
  <2>1. PICK key : key = KeyOf(m)
    OBVIOUS
  <2>2. KeyOf(m)' = key /\ Piece(m, i)' = Piece(m, i)
    BY <1>0, <2>1, PieceStays
  <2>3. Waiting(key)' = IF Complete(e) THEN <<>> ELSE e.chunks
    BY <2>1, WaitingAfter
  <2>4. Waiting(KeyOf(m))' = IF Complete(e) THEN <<>> ELSE e.chunks
    BY <2>2, <2>3 DEF Waiting
  <2> QED
    BY <2>2, <2>4 DEF WaitingAt
<1>7. Piece(m, i) = Piece(m, j) <=> i = j
  BY <1>0, PieceIsOne
<1>8. ~Complete(e) => WaitingAt(m, i)' = IF i = j THEN WaitingAt(m, i) \cup {n + 1}
                                         ELSE WaitingAt(m, i)
  BY <1>3, <1>4, <1>6, <1>7
<1>9. Complete(e) => WaitingAt(m, i)' = {}
  BY <1>6
<1>10. WaitingAt(m, i) \subseteq 1..n
  BY <1>4
<1> QED
  BY <1>1, <1>2, <1>3, <1>5, <1>8, <1>9, <1>10

LEMMA CountsAdd ==
  ASSUME NEW d \in Nat, NEW S, NEW D, NEW W, NEW S1, NEW D1, NEW W1,
         NEW n \in Nat, NEW l \in Nat,
         S \subseteq 1..d, D \subseteq 1..n, W \subseteq 1..l,
         Balance(D, W, S),
         \/ S1 = S /\ D1 = D /\ W1 = W
         \/ S1 = S \cup {d + 1} /\ D1 = D /\ W1 = W \cup {l + 1}
         \/ S1 = S \cup {d + 1} /\ D1 = D \cup {n + 1} /\ W1 = {}
         \/ S1 = S /\ D1 = D \cup {n + 1} /\ W1 = {} /\ W # {}
  PROVE  Balance(D1, W1, S1)
<1>1. /\ Cardinality(S) \in Nat /\ Cardinality(S \cup {d + 1}) = Cardinality(S) + 1
  BY AddedOne
<1>2. /\ Cardinality(D) \in Nat /\ Cardinality(D \cup {n + 1}) = Cardinality(D) + 1
  BY AddedOne
<1>3. /\ Cardinality(W) \in Nat /\ Cardinality(W \cup {l + 1}) = Cardinality(W) + 1
      /\ W # {} => Cardinality(W) >= 1
  BY AddedOne
<1>4. Cardinality({}) = 0
  BY FS_EmptySet
<1>5. CASE S1 = S /\ D1 = D /\ W1 = W
  BY <1>5 DEF Balance
<1>6. CASE S1 = S \cup {d + 1} /\ D1 = D /\ W1 = W \cup {l + 1}
  BY <1>1, <1>2, <1>3, <1>6 DEF Balance
<1>7. CASE S1 = S \cup {d + 1} /\ D1 = D \cup {n + 1} /\ W1 = {}
  BY <1>1, <1>2, <1>3, <1>4, <1>7 DEF Balance
<1>8. CASE S1 = S /\ D1 = D \cup {n + 1} /\ W1 = {} /\ W # {}
  BY <1>1, <1>2, <1>3, <1>4, <1>8 DEF Balance
<1> QED
  BY <1>5, <1>6, <1>7, <1>8

LEMMA CountStep ==
  ASSUME TypesOK, EntriesOK, snap >= Mtu, NEW m, NEW j, Advances(m, j),
         Passes(m) \/ \E e : Extends(m, j, e) /\ Decodes(e),
         NEW x \in DOMAIN sent, OwnKey(x), Accounted(x)
  PROVE  Accounted(x)'
<1>0. /\ m \in DOMAIN sent /\ m \in Traffic /\ j \in 1..FragmentCount(m)
      /\ UNCHANGED <<sent, snap>> /\ IsSequence(captured) /\ IsSequence(out)
      /\ captured' = Append(captured, <<m, j>>)
  BY DEF Advances, TypesOK
<1>1. CASE x # m
  <2>1. /\ Decoded(x)' = Decoded(x)
        /\ \A i : CapturedAt(x, i)' = CapturedAt(x, i) /\ WaitingAt(x, i)' = WaitingAt(x, i)
    BY <1>0, <1>1, OwnKeyApart, OthersCount
  <2> QED
    BY <2>1 DEF Accounted
<1>2. CASE x = m
  <2> SUFFICES ASSUME NEW i \in 1..FragmentCount(m)
               PROVE  Balance(Decoded(m)', WaitingAt(m, i)', CapturedAt(m, i)')
    BY <1>2, Zenon DEF Accounted, Balance
  <2>1. PICK S, D, W : S = CapturedAt(m, i) /\ D = Decoded(m) /\ W = WaitingAt(m, i)
    OBVIOUS
  <2>s. PICK S1, D1, W1 : /\ S1 = CapturedAt(m, i)' /\ D1 = Decoded(m)'
                          /\ W1 = WaitingAt(m, i)'
    OBVIOUS
  <2>2. Balance(D, W, S)
    BY <1>2, <2>1, Zenon DEF Accounted
  <2>3. PICK d \in Nat : /\ S \subseteq 1..d
                         /\ CapturedAt(m, i)' = IF i = j THEN S \cup {d + 1} ELSE S
    BY <1>0, <2>1, CapturedGrows
  <2>4. CASE Passes(m)
    <3>1. FragmentCount(m) = 1 /\ Grows({m})
      <4>1. m.version = 4 /\ ~Fragmented(m) /\ FragmentCount(m) \in Nat \ {0}
        BY <1>0, <1>2, <2>4, CountOfFragments DEF OwnKey, Passes
      <4>2. FragmentCount(m) = 1
        BY <4>1 DEF Fragmented
      <4> QED
        BY <4>2, <2>4 DEF Passes
    <3>2. PICK n \in Nat : D \subseteq 1..n /\ Decoded(m)' = D \cup {n + 1}
      BY <1>0, <2>1, <3>1, DecodedGrows
    <3>3. WaitingAt(m, i)' = W
      <4>1. PICK key : key = KeyOf(m)
        OBVIOUS
      <4>2. KeyOf(m)' = key /\ Piece(m, i)' = Piece(m, i)
        BY <1>0, <4>1, PieceStays
      <4>3. Waiting(key)' = Waiting(key)
        BY <2>4, WaitingAfter
      <4>4. Waiting(KeyOf(m))' = Waiting(KeyOf(m))
        BY <4>1, <4>2, <4>3 DEF Waiting
      <4> QED
        BY <2>1, <4>2, <4>4 DEF WaitingAt
    <3>4. i = 1 /\ j = 1
      BY <1>0, <3>1
    <3>5. PICK l \in Nat : W \subseteq 1..l
      <4>1. \E q \in Nat : DOMAIN Waiting(KeyOf(m)) = 1..q
        <5>1. PICK w : w = Waiting(KeyOf(m))
          OBVIOUS
        <5>2. IsSequence(w)
          BY <5>1, ChunksOf
        <5> QED
          BY <5>1, <5>2, Appended
      <4> QED
        BY <2>1, <4>1 DEF WaitingAt
    <3>6. CapturedAt(m, i)' = S \cup {d + 1}
      BY <2>3, <3>4
    <3>7. S1 = S \cup {d + 1} /\ D1 = D \cup {n + 1} /\ W1 = W
      BY <2>s, <3>2, <3>3, <3>6
    <3>8. Balance(D1, W1, S1)
      <4>1. Cardinality(S) \in Nat /\ Cardinality(S1) = Cardinality(S) + 1
        BY <2>3, <3>7, AddedOne
      <4>2. Cardinality(D) \in Nat /\ Cardinality(D1) = Cardinality(D) + 1 /\ D1 # {}
        BY <3>2, <3>7, AddedOne
      <4>3. Cardinality(W) \in Nat
        BY <3>5, AddedOne
      <4> QED
        BY <2>2, <3>7, <4>1, <4>2, <4>3 DEF Balance
    <3> QED
      BY <2>s, <3>8
  <2>5. ASSUME NEW e, Extends(m, j, e), Decodes(e)
        PROVE  Balance(Decoded(m)', WaitingAt(m, i)', CapturedAt(m, i)')
    <3>1. \A k \in DOMAIN e.chunks : e.chunks[k].of = m
      <4> SUFFICES ASSUME NEW k \in DOMAIN e.chunks PROVE e.chunks[k].of = m
        OBVIOUS
      <4>1. PICK y \in DOMAIN sent' : \E i1 \in 1..FragmentCount(y) :
                e.chunks[k] = Piece(y, i1)' /\ KeyOf(y)' = KeyOf(m)'
        BY <2>5, EntryGrows DEF EntryOK
      <4>2. KeyOf(y) = KeyOf(m) /\ y \in DOMAIN sent
        BY <1>0, <4>1, PieceStays
      <4>3. y = m
        BY <1>2, <4>2, OwnKeyApart
      <4>4. \A i1 : Piece(m, i1)'.of = m
        BY DEF Piece
      <4> QED
        BY <4>1, <4>3, <4>4
    <3>2. /\ Complete(e) <=> \A i1 \in 1..FragmentCount(m) : Waits(e.chunks, m, i1)
          /\ Origins(e) = {m}
      BY <2>5, <3>1, AllOfOne
    <3>3. PICK l \in Nat : /\ W \subseteq 1..l
                           /\ WaitingAt(m, i)' = IF Complete(e) THEN {}
                                                 ELSE IF i = j THEN W \cup {l + 1} ELSE W
                           /\ Waits(e.chunks, m, i) => i = j \/ W # {}
      BY <2>1, <2>5, WaitingAtAfter
    <3>4. CASE Complete(e)
      <4>1. Grows({m})
        BY <2>5, <3>2, <3>4 DEF Decodes
      <4>2. PICK q \in Nat : D \subseteq 1..q /\ Decoded(m)' = D \cup {q + 1}
        BY <1>0, <2>1, <4>1, DecodedGrows
      <4>3. i = j \/ W # {}
        BY <3>2, <3>3, <3>4
      <4>4. \/ S1 = S \cup {d + 1} /\ D1 = D \cup {q + 1} /\ W1 = {}
            \/ S1 = S /\ D1 = D \cup {q + 1} /\ W1 = {} /\ W # {}
        BY <2>3, <2>s, <3>3, <3>4, <4>2, <4>3
      <4>5. Balance(D1, W1, S1)
        BY <2>2, <2>3, <3>3, <4>2, <4>4, CountsAdd, Zenon
      <4> QED
        BY <2>s, <4>5
    <3>5. CASE ~Complete(e)
      <4>1. Decoded(m)' = D
        BY <2>1, <2>5, <3>5 DEF Decodes, Decoded
      <4>2. PICK q \in Nat : D \subseteq 1..q
        <5>1. Len(out) \in Nat /\ DOMAIN out = 1..Len(out)
          BY <1>0, Appended
        <5> QED
          BY <2>1, <5>1 DEF Decoded
      <4>3. \/ S1 = S /\ D1 = D /\ W1 = W
            \/ S1 = S \cup {d + 1} /\ D1 = D /\ W1 = W \cup {l + 1}
        BY <2>3, <2>s, <3>3, <3>5, <4>1
      <4>4. Balance(D1, W1, S1)
        BY <2>2, <2>3, <3>3, <4>2, <4>3, CountsAdd, Zenon
      <4> QED
        BY <2>s, <4>4
    <3> QED
      BY <3>4, <3>5
  <2> QED
    BY <2>4, <2>5
<1> QED
  BY <1>1, <1>2

LEMMA CountsFollow ==
  ASSUME TypesOK, EntriesOK, snap >= Mtu, NEW m \in DOMAIN sent, OwnKey(m), Accounted(m)
  PROVE  LET decoded == Cardinality(Decoded(m))
             rarest  == Min({Cardinality(CapturedAt(m, j)) : j \in 1..FragmentCount(m)})
         IN  decoded <= rarest /\ (rarest > 0 => decoded > 0)
<1> DEFINE c == FragmentCount(m)
           T == {Cardinality(CapturedAt(m, j)) : j \in 1..c}
<1>0. c \in Nat \ {0}
  BY CountOfFragments DEF TypesOK
<1>1. ASSUME NEW j \in 1..c
      PROVE  /\ Cardinality(CapturedAt(m, j)) \in Nat
             /\ Cardinality(CapturedAt(m, j)) > 0 => CapturedAt(m, j) # {}
  <2>1. PICK S : S = CapturedAt(m, j)
    OBVIOUS
  <2>2. Len(captured) \in Nat /\ DOMAIN captured = 1..Len(captured)
    BY Appended DEF TypesOK
  <2>3. S \subseteq 1..Len(captured)
    BY <2>1, <2>2 DEF CapturedAt
  <2>4. Cardinality(S) \in Nat /\ Cardinality({}) = 0
    BY <2>2, <2>3, AddedOne, FS_EmptySet
  <2>5. Cardinality(S) > 0 => S # {}
    BY <2>4
  <2> QED
    BY <2>1, <2>4, <2>5
<1>2. PICK D : D = Decoded(m)
  OBVIOUS
<1>3. Cardinality(D) \in Nat /\ (D # {} => Cardinality(D) >= 1)
  <2>1. Len(out) \in Nat /\ DOMAIN out = 1..Len(out)
    BY Appended DEF TypesOK
  <2>2. D \subseteq 1..Len(out)
    BY <1>2, <2>1 DEF Decoded
  <2> QED
    BY <2>1, <2>2, AddedOne
<1>4. ASSUME NEW j \in 1..c
      PROVE  /\ Cardinality(D) <= Cardinality(CapturedAt(m, j))
             /\ D = {} /\ CapturedAt(m, j) # {} => WaitingAt(m, j) # {}
  <2>1. PICK S, W : S = CapturedAt(m, j) /\ W = WaitingAt(m, j)
    OBVIOUS
  <2>2. Balance(D, W, S)
    BY <1>2, <2>1, Zenon DEF Accounted
  <2>3. PICK l \in Nat : W \subseteq 1..l
    <3>1. PICK w : w = Waiting(KeyOf(m))
      OBVIOUS
    <3>2. IsSequence(w)
      BY <3>1, ChunksOf
    <3>3. Len(w) \in Nat /\ DOMAIN w = 1..Len(w)
      BY <3>2, Appended
    <3>4. W \subseteq DOMAIN w
      BY <2>1, <3>1 DEF WaitingAt
    <3> QED
      BY <3>3, <3>4
  <2>4. Cardinality(W) \in Nat
    BY <2>3, AddedOne
  <2>5. Cardinality(S) \in Nat
    BY <1>1, <2>1
  <2>6. Cardinality(D) <= Cardinality(S) /\ (D = {} /\ S # {} => W # {})
    BY <1>3, <2>2, <2>4, <2>5 DEF Balance
  <2> QED
    BY <2>1, <2>6
<1>5. D = {} => \E j \in 1..c : CapturedAt(m, j) = {}
  <2> SUFFICES ASSUME D = {}, \A j \in 1..c : CapturedAt(m, j) # {} PROVE FALSE
    OBVIOUS
  <2>1. \A j \in 1..c : WaitingAt(m, j) # {}
    BY <1>4
  <2>2. PICK key : key = KeyOf(m)
    OBVIOUS
  <2>3. key \in DOMAIN pending
    <3>1. WaitingAt(m, 1) # {}
      BY <1>0, <2>1
    <3>2. Waiting(key) # <<>>
      BY <2>2, <3>1 DEF WaitingAt
    <3> QED
      BY <3>2 DEF Waiting
  <2>4. PICK e : e = pending[key]
    OBVIOUS
  <2>5. Waiting(key) = e.chunks /\ EntryOK(key, e) /\ ~Complete(e)
    BY <2>3, <2>4 DEF Waiting, EntriesOK
  <2>6. ASSUME NEW k \in DOMAIN e.chunks
        PROVE  /\ e.chunks[k].of = m
               /\ \E x \in DOMAIN sent : \E i \in 1..FragmentCount(x) : e.chunks[k] = Piece(x, i)
    <3>1. PICK x \in DOMAIN sent : \E i \in 1..FragmentCount(x) :
              e.chunks[k] = Piece(x, i) /\ KeyOf(x) = key
      BY <2>5 DEF EntryOK
    <3>2. x = m
      BY <2>2, <3>1, OwnKeyApart
    <3>3. \A i : Piece(m, i).of = m
      BY DEF Piece
    <3> QED
      BY <3>1, <3>2, <3>3
  <2>7. \A j \in 1..c : Waits(e.chunks, m, j)
    BY <2>1, <2>2, <2>5 DEF WaitingAt, Waits
  <2>8. LengthKnown(e)
    BY <2>5 DEF EntryOK
  <2> QED
    BY <2>5, <2>6, <2>7, <2>8, OneIsWhole
<1>6. PICK r \in T : \A n \in T : r <= n
  <2>1. T \subseteq Nat /\ T # {}
    BY <1>0, <1>1
  <2> HIDE DEF T
  <2> QED
    BY <2>1, LeastNat
<1>7. Min(T) \in T /\ \A n \in T : Min(T) <= n
  <2> HIDE DEF T
  <2> QED
    BY <1>6 DEF Min
<1>8. Cardinality(D) <= Min(T) /\ (Min(T) > 0 => Cardinality(D) > 0)
  <2>1. PICK j \in 1..c : Min(T) = Cardinality(CapturedAt(m, j))
    BY <1>7
  <2>2. PICK q : q = Min(T)
    OBVIOUS
  <2>3. Cardinality(D) <= q /\ q \in Nat
    BY <1>1, <1>4, <2>1, <2>2
  <2>4. ASSUME q > 0 PROVE D # {}
    <3>1. ASSUME NEW i \in 1..c PROVE CapturedAt(m, i) # {}
      <4>1. Cardinality(CapturedAt(m, i)) \in T
        OBVIOUS
      <4>2. q <= Cardinality(CapturedAt(m, i))
        BY <1>7, <2>2, <4>1
      <4> HIDE DEF T, c
      <4> QED
        BY <1>1, <2>3, <2>4, <4>2
    <3> QED
      BY <1>5, <3>1
  <2> HIDE DEF T
  <2> QED
    BY <1>3, <2>2, <2>3, <2>4
<1> HIDE DEF T
<1> QED
  BY <1>2, <1>8 DEF T

BaseInv == TypesOK /\ (snap >= Mtu => EntriesOK)

LEMMA BaseStart == CaptureInit => BaseInv
<1> SUFFICES ASSUME CaptureInit PROVE BaseInv
  OBVIOUS
<1>1. DOMAIN sent \subseteq Traffic
  BY DEF CaptureInit
<1>2. snap \in Nat
  BY CaptureAssumption DEF CaptureInit
<1>3. IsSequence(captured) /\ IsSequence(out)
  BY EmptyIsSequence DEF CaptureInit
<1>4. EntriesOK
  BY DEF CaptureInit, EntriesOK
<1> QED
  BY <1>1, <1>2, <1>3, <1>4 DEF BaseInv, TypesOK

LEMMA BaseStep == BaseInv /\ [CaptureNext]_captureVars => BaseInv'
<1> SUFFICES ASSUME BaseInv, [CaptureNext]_captureVars PROVE BaseInv'
  OBVIOUS
<1>1. CASE CaptureNext
  <2>1. PICK m, j : /\ Advances(m, j) /\ TypesOK'
                    /\ snap >= Mtu => Passes(m) \/ \E e : Extends(m, j, e) /\ Decodes(e)
    BY <1>1, StepIs DEF BaseInv
  <2>2. snap' = snap
    BY <2>1 DEF Advances
  <2>3. snap >= Mtu => EntriesOK'
    BY <2>1, EntriesStay DEF BaseInv, Passes
  <2> QED
    BY <2>1, <2>2, <2>3 DEF BaseInv
<1>2. CASE UNCHANGED captureVars
  <2>1. UNCHANGED <<sent, snap, captured, pending, out>>
    BY <1>2 DEF captureVars
  <2>2. \A x : KeyOf(x)' = KeyOf(x) /\ \A i : Piece(x, i)' = Piece(x, i)
    BY <2>1, PieceStays
  <2>3. \A x, i : CapturedAt(x, i)' = CapturedAt(x, i)
    BY <2>1 DEF CapturedAt
  <2>4. TypesOK' = TypesOK /\ EntriesOK' = EntriesOK
    BY <2>1, <2>2, <2>3 DEF TypesOK, EntriesOK, EntryOK, LengthKnown, Waits
  <2> QED
    BY <2>1, <2>4 DEF BaseInv
<1> QED
  BY <1>1, <1>2

LEMMA CountStart == CaptureInit => CountInv
<1> SUFFICES ASSUME CaptureInit, NEW m, NEW j
             PROVE  Balance(Decoded(m), WaitingAt(m, j), CapturedAt(m, j))
  BY DEF CountInv, Accounted
<1>1. Decoded(m) = {} /\ CapturedAt(m, j) = {}
  BY DEF CaptureInit, Decoded, CapturedAt
<1>2. WaitingAt(m, j) = {}
  BY DEF CaptureInit, WaitingAt, Waiting
<1>3. Cardinality({}) = 0
  BY FS_EmptySet
<1> QED
  BY <1>1, <1>2, <1>3 DEF Balance

LEMMA CountInvStep == BaseInv /\ CountInv /\ [CaptureNext]_captureVars => CountInv'
<1> SUFFICES ASSUME BaseInv, CountInv, [CaptureNext]_captureVars PROVE CountInv'
  OBVIOUS
<1>1. CASE CaptureNext
  <2>1. PICK m, j : /\ Advances(m, j)
                    /\ snap >= Mtu => Passes(m) \/ \E e : Extends(m, j, e) /\ Decodes(e)
    BY <1>1, StepIs DEF BaseInv
  <2>2. UNCHANGED <<sent, snap>>
    BY <2>1 DEF Advances
  <2>3. ASSUME snap >= Mtu, NEW x \in DOMAIN sent, OwnKey(x) PROVE Accounted(x)'
    <3>1. TypesOK /\ EntriesOK /\ Accounted(x)
      BY <2>3 DEF BaseInv, CountInv
    <3> QED
      BY <2>1, <2>3, <3>1, CountStep
  <2>4. \A x : OwnKey(x)' = OwnKey(x)
    BY <2>2 DEF OwnKey, SameKey
  <2> QED
    BY <2>2, <2>3, <2>4 DEF CountInv
<1>2. CASE UNCHANGED captureVars
  <2>1. UNCHANGED <<sent, snap, captured, pending, out>>
    BY <1>2 DEF captureVars
  <2>2. \A x, i : Piece(x, i)' = Piece(x, i) /\ KeyOf(x)' = KeyOf(x)
    BY <2>1, PieceStays
  <2>3. \A x : Waiting(KeyOf(x))' = Waiting(KeyOf(x))
    BY <2>1, <2>2 DEF Waiting
  <2>4. \A x, i : /\ CapturedAt(x, i)' = CapturedAt(x, i) /\ Decoded(x)' = Decoded(x)
                  /\ WaitingAt(x, i)' = WaitingAt(x, i)
    BY <2>1, <2>2, <2>3 DEF CapturedAt, Decoded, WaitingAt
  <2>5. \A x : OwnKey(x)' = OwnKey(x)
    BY <2>1 DEF OwnKey, SameKey
  <2> QED
    BY <2>1, <2>4, <2>5 DEF CountInv, Accounted
<1> QED
  BY <1>1, <1>2

LEMMA CountsAreAccounted == BaseInv /\ CountInv => CountsAreExact
<1> SUFFICES ASSUME BaseInv, CountInv, snap >= Mtu, NEW m \in DOMAIN sent,
                    m.version = 4, \A n \in DOMAIN sent : SameKey(m, n) => m = n
             PROVE  LET decoded == Cardinality({i \in DOMAIN out : out[i].of = {m}})
                        rarest  == Min({Cardinality(CapturedAt(m, j)) : j \in 1..FragmentCount(m)})
                    IN  decoded <= rarest /\ (rarest > 0 => decoded > 0)
  BY Zenon DEF CountsAreExact
<1>1. TypesOK /\ EntriesOK /\ OwnKey(m) /\ Accounted(m)
  BY DEF BaseInv, CountInv, OwnKey
<1> QED
  BY <1>1, CountsFollow, Zenon DEF Decoded

(* A datagram with an identification of its own is decoded as often as its   *)
(* rarest fragment was captured at most, and once at least if each was,      *)
(* whatever the order and whatever else was captured (net.rs, Reassembler).  *)
THEOREM CountsStayExact == CaptureSpec => []CountsAreExact
<1>1. CaptureInit => BaseInv /\ CountInv
  BY BaseStart, CountStart
<1>2. (BaseInv /\ CountInv) /\ [CaptureNext]_captureVars => (BaseInv /\ CountInv)'
  BY BaseStep, CountInvStep
<1>3. BaseInv /\ CountInv => CountsAreExact
  BY CountsAreAccounted
<1> QED
  BY <1>1, <1>2, <1>3, PTL DEF CaptureSpec

-----------------------------------------------------------------------------
(* Datagrams that share a key. *)
LEMMA InOneGoBack ==
  ASSUME TypesOK, NEW m, NEW j, Advances(m, j), NEW x, NEW y,
         CapturedOf(y) # {}, InOneGo(x, y)'
  PROVE  x # m /\ InOneGo(x, y)
<1>0. IsSequence(captured) /\ captured' = Append(captured, <<m, j>>) /\ j \in 1..FragmentCount(m)
  BY DEF Advances, TypesOK
<1>1. PICK n : n = Len(captured)
  OBVIOUS
<1>2. n \in Nat /\ \A z, i : CapturedAt(z, i) \subseteq 1..n
  BY <1>0, <1>1, CapturedGrows
<1>3. \A z, i : CapturedAt(z, i)' = IF z = m /\ i = j THEN CapturedAt(z, i) \cup {n + 1}
                                    ELSE CapturedAt(z, i)
  BY <1>0, <1>1, CapturedGrows
<1>4. PICK l \in CapturedOf(y) : l \in CapturedOf(y)'
  BY <1>3 DEF CapturedOf
<1>5. l < n + 1 /\ l \in Int
  <2>1. PICK i : l \in CapturedAt(y, i)
    BY <1>4 DEF CapturedOf
  <2> QED
    BY <1>2, <2>1
<1>6. x # m
  <2> SUFFICES ASSUME x = m PROVE FALSE
    OBVIOUS
  <2>1. n + 1 \in CapturedOf(x)'
    BY <1>0, <1>3 DEF CapturedOf
  <2>2. n + 1 < l
    BY <1>4, <2>1 DEF InOneGo
  <2> QED
    BY <1>2, <1>5, <2>2
<1>7. \A i : CapturedAt(x, i)' = CapturedAt(x, i)
  BY <1>3, <1>6
<1>8. CapturedOf(x)' = CapturedOf(x) /\ CapturedOf(y) \subseteq CapturedOf(y)'
  BY <1>3, <1>7 DEF CapturedOf
<1>9. InOneGo(x, y)
  BY <1>7, <1>8 DEF InOneGo
<1> QED
  BY <1>6, <1>9

LEMMA OrderlyBack ==
  ASSUME TypesOK, NEW m, NEW j, Advances(m, j), NEW key, Orderly(key)'
  PROVE  Orderly(key)
<1> SUFFICES ASSUME NEW x \in DOMAIN sent, NEW y \in DOMAIN sent, x # y,
                    KeyOf(x) = key, KeyOf(y) = key, CapturedOf(x) # {}, CapturedOf(y) # {}
             PROVE  InOneGo(x, y) \/ InOneGo(y, x)
  BY DEF Orderly
<1>1. /\ UNCHANGED <<sent, snap>> /\ IsSequence(captured)
      /\ captured' = Append(captured, <<m, j>>)
  BY DEF Advances, TypesOK
<1>2. \A z : CapturedOf(z) \subseteq CapturedOf(z)'
  <2>1. \A z, i : CapturedAt(z, i) \subseteq CapturedAt(z, i)'
    BY <1>1, CapturedGrows
  <2> QED
    BY <2>1 DEF CapturedOf
<1>3. InOneGo(x, y)' \/ InOneGo(y, x)'
  <2>1. KeyOf(x)' = key /\ KeyOf(y)' = key
    BY <1>1, PieceStays
  <2>2. CapturedOf(x)' # {} /\ CapturedOf(y)' # {}
    BY <1>2
  <2> QED
    BY <1>1, <2>1, <2>2 DEF Orderly
<1> QED
  BY <1>3, InOneGoBack

(* Whoever shares the key was captured whole, and is gone. *)
LEMMA WaitsForOne ==
  ASSUME TypesOK, EntriesOK, snap >= Mtu, NEW m, NEW j, Advances(m, j),
         NEW e, Extends(m, j, e), OneAtATime(KeyOf(m)), Orderly(KeyOf(m))'
  PROVE  \A k \in DOMAIN e.chunks : e.chunks[k].of = m
<1>0. /\ m \in DOMAIN sent /\ j \in 1..FragmentCount(m) /\ UNCHANGED <<sent, snap>>
      /\ IsSequence(captured) /\ captured' = Append(captured, <<m, j>>)
  BY DEF Advances, TypesOK
<1>1. PICK key, w : key = KeyOf(m) /\ w = Waiting(key)
  OBVIOUS
<1>2. ASSUME NEW k \in DOMAIN w PROVE w[k].of = m
  <2>1. PICK y \in DOMAIN sent : \E i \in 1..FragmentCount(y) :
          w[k] = Piece(y, i) /\ Fragmented(y) /\ KeyOf(y) = key /\ CapturedAt(y, i) # {}
    BY <1>1, <1>2, ChunksOf
  <2>2. PICK i \in 1..FragmentCount(y) :
          w[k] = Piece(y, i) /\ Fragmented(y) /\ KeyOf(y) = key /\ CapturedAt(y, i) # {}
    BY <2>1
  <2>3. w[k].of = y
    BY <2>2 DEF Piece
  <2> SUFFICES ASSUME y # m PROVE FALSE
    BY <2>3
  <2>4. CapturedOf(y) # {} /\ CapturedOf(y)' # {} /\ CapturedOf(m)' # {}
    <3>1. CapturedAt(y, i)' # {} /\ CapturedAt(m, j)' # {}
      BY <1>0, <2>2, CapturedGrows
    <3> QED
      BY <1>0, <2>2, <3>1 DEF CapturedOf
  <2>5. InOneGo(y, m)' \/ InOneGo(m, y)'
    <3>1. KeyOf(y)' = KeyOf(m)'
      BY <1>0, <1>1, <2>2, PieceStays
    <3> QED
      BY <1>0, <2>4, <3>1 DEF Orderly
  <2>6. InOneGo(y, m)'
    BY <2>4, <2>5, InOneGoBack
  <2>7. ASSUME NEW q \in 1..FragmentCount(y)
        PROVE  /\ CapturedAt(y, q) # {}
               /\ \A k1, l \in CapturedAt(y, q) : k1 = l
    <3>1. PICK S : S = CapturedAt(y, q)
      OBVIOUS
    <3>2. CapturedAt(y, q)' = S /\ Len(captured) \in Nat /\ S \subseteq 1..Len(captured)
      BY <1>0, <3>1, CapturedGrows
    <3>3. Cardinality(S) = 1
      BY <2>6, <3>2 DEF InOneGo
    <3>4. IsFiniteSet(S)
      BY <3>2, AddedOne
    <3>5. \E z : S = {z}
      BY <3>3, <3>4, FS_Singleton
    <3> QED
      BY <3>1, <3>5
  <2>8. NoneTwice(y) /\ AllCaptured(y)
    BY <2>7 DEF NoneTwice, AllCaptured
  <2>9. ~Waits(w, y, i)
    BY <1>1, <2>2, <2>8 DEF OneAtATime
  <2> QED
    BY <1>2, <2>2, <2>9 DEF Waits
<1>3. /\ Len(w) \in Nat /\ DOMAIN w = 1..Len(w) /\ DOMAIN e.chunks = 1..(Len(w) + 1)
      /\ e.chunks[Len(w) + 1] = Piece(m, j) /\ \A k \in 1..Len(w) : e.chunks[k] = w[k]
  BY <1>0, <1>1, WaitsGrow
<1>4. Piece(m, j).of = m
  BY DEF Piece
<1> QED
  BY <1>2, <1>3, <1>4

LEMMA OneElsewhere ==
  ASSUME TypesOK, NEW m, NEW j, Advances(m, j), NEW key, OneAtATime(key),
         Waiting(key)' = Waiting(key), ~(Fragmented(m) /\ KeyOf(m) = key)
  PROVE  OneAtATime(key)'
<1>0. /\ UNCHANGED <<sent, snap>> /\ IsSequence(captured)
      /\ captured' = Append(captured, <<m, j>>)
  BY DEF Advances, TypesOK
<1>1. \A x : KeyOf(x)' = KeyOf(x) /\ \A i : Piece(x, i)' = Piece(x, i)
  BY <1>0, PieceStays
<1>2. \A x : x # m => \A i : CapturedAt(x, i)' = CapturedAt(x, i)
  BY <1>0, CapturedGrows
<1>3. PICK w : w = Waiting(key) /\ w = Waiting(key)'
  OBVIOUS
<1>4. ASSUME NEW x \in DOMAIN sent, Fragmented(x), KeyOf(x) = key, NoneTwice(x)',
             NEW i \in 1..FragmentCount(x)
      PROVE  IF AllCaptured(x)' THEN ~Waits(w, x, i)
             ELSE CapturedAt(x, i)' # {} => Waits(w, x, i)
  <2>1. \A q : CapturedAt(x, q)' = CapturedAt(x, q)
    BY <1>2, <1>4
  <2>2. NoneTwice(x) /\ (AllCaptured(x)' <=> AllCaptured(x))
    BY <1>4, <2>1 DEF NoneTwice, AllCaptured
  <2> QED
    BY <1>3, <1>4, <2>1, <2>2 DEF OneAtATime
<1>5. \A x, i : Waits(w, x, i)' = Waits(w, x, i)
  BY <1>1 DEF Waits
<1>6. \A k, l \in DOMAIN w : w[k].of = w[l].of
  BY <1>3 DEF OneAtATime
<1>7. \A x \in DOMAIN sent' :
        Fragmented(x) /\ KeyOf(x)' = key /\ NoneTwice(x)' =>
          \A i \in 1..FragmentCount(x) :
            IF AllCaptured(x)' THEN ~Waits(w, x, i)'
            ELSE CapturedAt(x, i)' # {} => Waits(w, x, i)'
  BY <1>0, <1>1, <1>4, <1>5
<1> QED
  BY <1>3, <1>6, <1>7 DEF OneAtATime, Waits

LEMMA OneExtended ==
  ASSUME TypesOK, EntriesOK, snap >= Mtu, NEW m, NEW j, Advances(m, j),
         NEW e, Extends(m, j, e), OneAtATime(KeyOf(m)), Orderly(KeyOf(m))'
  PROVE  OneAtATime(KeyOf(m))'
<1>0. /\ m \in DOMAIN sent /\ m \in Traffic /\ j \in 1..FragmentCount(m)
      /\ UNCHANGED <<sent, snap>> /\ IsSequence(captured)
      /\ captured' = Append(captured, <<m, j>>)
  BY DEF Advances, TypesOK
<1>1. \A x : KeyOf(x)' = KeyOf(x) /\ \A i : Piece(x, i)' = Piece(x, i)
  BY <1>0, PieceStays
<1>2. PICK key, w : key = KeyOf(m) /\ w = Waiting(key)
  OBVIOUS
<1>3. /\ Len(w) \in Nat /\ DOMAIN w = 1..Len(w) /\ DOMAIN e.chunks = 1..(Len(w) + 1)
      /\ \A k \in 1..Len(w) : e.chunks[k] = w[k]
      /\ \A x \in DOMAIN sent : \A i \in 1..FragmentCount(x) :
           Waits(e.chunks, x, i) <=> Waits(w, x, i) \/ (x = m /\ i = j)
  BY <1>0, <1>2, WaitsGrow
<1>4. \A k \in DOMAIN e.chunks : e.chunks[k].of = m
  BY WaitsForOne
<1>5. Complete(e) <=> \A i \in 1..FragmentCount(m) : Waits(e.chunks, m, i)
  BY <1>4, AllOfOne
<1>6. PICK c : c = (IF Complete(e) THEN <<>> ELSE e.chunks) /\ Waiting(key)' = c
  BY <1>2, WaitingAfter
<1>7. \A k \in DOMAIN c : c[k].of = m
  BY <1>4, <1>6
<1>8. \A x, i : Piece(x, i).of = x
  BY DEF Piece
<1>9. PICK n : /\ n \in Nat /\ \A z, i : CapturedAt(z, i) \subseteq 1..n
               /\ \A z, i : CapturedAt(z, i)' = IF z = m /\ i = j THEN CapturedAt(z, i) \cup {n + 1}
                                                ELSE CapturedAt(z, i)
  <2>1. PICK n : n = Len(captured)
    OBVIOUS
  <2>2. n \in Nat /\ \A z, i : CapturedAt(z, i) \subseteq 1..n
    BY <1>0, <2>1, CapturedGrows
  <2>3. \A z, i : CapturedAt(z, i)' = IF z = m /\ i = j THEN CapturedAt(z, i) \cup {n + 1}
                                      ELSE CapturedAt(z, i)
    BY <1>0, <2>1, CapturedGrows
  <2> QED
    BY <2>2, <2>3
<1>10. ASSUME NEW x \in DOMAIN sent, Fragmented(x), KeyOf(x) = key, NoneTwice(x)', x # m,
              NEW i \in 1..FragmentCount(x)
       PROVE  IF AllCaptured(x)' THEN ~Waits(c, x, i)
              ELSE CapturedAt(x, i)' # {} => Waits(c, x, i)
  <2>1. \A q : CapturedAt(x, q)' = CapturedAt(x, q)
    BY <1>9, <1>10
  <2>2. NoneTwice(x) /\ (AllCaptured(x)' <=> AllCaptured(x))
    BY <1>10, <2>1 DEF NoneTwice, AllCaptured
  <2>3. ~Waits(c, x, i)
    BY <1>7, <1>8, <1>10 DEF Waits
  <2>4. ~Waits(w, x, i)
    <3>1. \A k \in DOMAIN w : w[k].of = m
      BY <1>3, <1>4
    <3> QED
      BY <1>8, <1>10, <3>1 DEF Waits
  <2>5. AllCaptured(x) \/ CapturedAt(x, i) = {}
    BY <1>2, <1>10, <2>2, <2>4 DEF OneAtATime
  <2> QED
    BY <2>1, <2>2, <2>3, <2>5
<1>11. ASSUME NoneTwice(m)', NEW i \in 1..FragmentCount(m)
       PROVE  IF AllCaptured(m)' THEN ~Waits(c, m, i)
              ELSE CapturedAt(m, i)' # {} => Waits(c, m, i)
  <2>1. CapturedAt(m, j) = {}
    <3> SUFFICES ASSUME NEW k \in CapturedAt(m, j) PROVE FALSE
      OBVIOUS
    <3>1. k \in CapturedAt(m, j)' /\ n + 1 \in CapturedAt(m, j)'
      BY <1>9
    <3>2. k = n + 1
      BY <1>0, <1>11, <3>1 DEF NoneTwice
    <3> QED
      BY <1>9, <3>2
  <2>2. NoneTwice(m) /\ ~AllCaptured(m)
    <3>1. NoneTwice(m)
      BY <1>9, <1>11 DEF NoneTwice
    <3> QED
      BY <1>0, <2>1, <3>1 DEF AllCaptured
  <2>3. Fragmented(m)
    BY DEF Extends
  <2>4. ASSUME NEW q \in 1..FragmentCount(m)
        PROVE  Waits(e.chunks, m, q) <=> CapturedAt(m, q)' # {}
    <3>1. CapturedAt(m, q)' # {} <=> CapturedAt(m, q) # {} \/ q = j
      BY <1>9
    <3>2. CapturedAt(m, q) # {} => Waits(w, m, q)
      BY <1>0, <1>2, <2>2, <2>3 DEF OneAtATime
    <3>3. Waits(w, m, q) => CapturedAt(m, q) # {}
      <4> SUFFICES ASSUME NEW k \in DOMAIN w, w[k] = Piece(m, q) PROVE CapturedAt(m, q) # {}
        BY DEF Waits
      <4>1. PICK y \in DOMAIN sent : \E p \in 1..FragmentCount(y) :
              w[k] = Piece(y, p) /\ CapturedAt(y, p) # {}
        BY <1>2, ChunksOf
      <4>2. PICK p \in 1..FragmentCount(y) : w[k] = Piece(y, p) /\ CapturedAt(y, p) # {}
        BY <4>1
      <4>3. y = m /\ p = q
        <5>1. y \in Traffic /\ Piece(m, q) = Piece(y, p)
          BY <4>2 DEF TypesOK
        <5> QED
          BY <1>0, <5>1, PieceIsOne
      <4> QED
        BY <4>2, <4>3
    <3> QED
      BY <1>0, <1>3, <3>1, <3>2, <3>3
  <2>5. Complete(e) <=> AllCaptured(m)'
    BY <1>5, <2>4 DEF AllCaptured
  <2>6. CASE Complete(e)
    BY <1>6, <2>5, <2>6 DEF Waits
  <2>7. CASE ~Complete(e)
    BY <1>6, <2>4, <2>5, <2>7
  <2> QED
    BY <2>6, <2>7
<1>12. \A x, i : Waits(c, x, i)' = Waits(c, x, i)
  BY <1>1 DEF Waits
<1>13. \A x \in DOMAIN sent' :
         Fragmented(x) /\ KeyOf(x)' = key /\ NoneTwice(x)' =>
           \A i \in 1..FragmentCount(x) :
             IF AllCaptured(x)' THEN ~Waits(c, x, i)'
             ELSE CapturedAt(x, i)' # {} => Waits(c, x, i)'
  BY <1>0, <1>1, <1>10, <1>11, <1>12
<1>14. OneAtATime(key)'
  BY <1>6, <1>7, <1>13 DEF OneAtATime, Waits
<1>15. KeyOf(m)' = key
  BY <1>1, <1>2
<1> QED
  BY <1>14, <1>15 DEF OneAtATime

LEMMA OneStep ==
  ASSUME TypesOK, EntriesOK, snap >= Mtu, NEW m, NEW j, Advances(m, j),
         Passes(m) \/ \E e : Extends(m, j, e) /\ Decodes(e),
         NEW key, OneAtATime(key), Orderly(key)'
  PROVE  OneAtATime(key)'
<1>1. CASE Passes(m)
  <2>1. Waiting(key)' = Waiting(key) /\ ~Fragmented(m)
    BY <1>1, WaitingAfter DEF Passes
  <2> QED
    BY <2>1, OneElsewhere
<1>2. ASSUME NEW e, Extends(m, j, e), key # KeyOf(m) PROVE OneAtATime(key)'
  <2>1. Waiting(key)' = Waiting(key)
    BY <1>2, WaitingAfter
  <2> QED
    BY <1>2, <2>1, OneElsewhere
<1>3. ASSUME NEW e, Extends(m, j, e), key = KeyOf(m) PROVE OneAtATime(key)'
  <2>1. KeyOf(m)' = key
    BY <1>3, PieceStays DEF Advances
  <2>2. Orderly(KeyOf(m))' /\ OneAtATime(KeyOf(m))
    BY <1>3, <2>1 DEF Orderly
  <2>3. OneAtATime(KeyOf(m))'
    BY <1>3, <2>2, OneExtended
  <2> QED
    BY <2>1, <2>3 DEF OneAtATime
<1> QED
  BY <1>1, <1>2, <1>3

LEMMA MixedStep ==
  ASSUME TypesOK, EntriesOK, snap >= Mtu, NEW m, NEW j, Advances(m, j),
         Passes(m) \/ \E e : Extends(m, j, e) /\ Decodes(e),
         MixedIsDisorder, \A key : Orderly(key) => OneAtATime(key)
  PROVE  MixedIsDisorder'
<1>0. /\ m \in DOMAIN sent /\ j \in 1..FragmentCount(m) /\ UNCHANGED <<sent, snap>>
      /\ IsSequence(out)
  BY DEF Advances, TypesOK
<1>1. \A x : KeyOf(x)' = KeyOf(x) /\ \A i : Piece(x, i)' = Piece(x, i)
  BY <1>0, PieceStays
<1>2. \A key : Orderly(key)' => Orderly(key)
  BY OrderlyBack
<1> DEFINE Mixed(of) ==
      \A x, y \in of :
        x # y => {x, y} \subseteq DOMAIN sent /\ KeyOf(x) = KeyOf(y) /\ ~Orderly(KeyOf(x))'
<1>3. \A d \in Range(out) : Mixed(d.of)
  <2> SUFFICES ASSUME NEW d \in Range(out), NEW x \in d.of, NEW y \in d.of, x # y
               PROVE  /\ {x, y} \subseteq DOMAIN sent /\ KeyOf(x) = KeyOf(y)
                      /\ ~Orderly(KeyOf(x))'
    OBVIOUS
  <2>1. PICK key : key = KeyOf(x)
    OBVIOUS
  <2>2. {x, y} \subseteq DOMAIN sent /\ KeyOf(x) = KeyOf(y) /\ ~Orderly(key)
    BY <2>1 DEF MixedIsDisorder
  <2>3. ~Orderly(key)'
    BY <1>2, <2>2
  <2>4. KeyOf(x)' = key
    BY <1>1, <2>1
  <2> QED
    BY <2>2, <2>3, <2>4 DEF Orderly
<1>4. Mixed({m})
  OBVIOUS
<1>5. ASSUME NEW e, Extends(m, j, e) PROVE Mixed(Origins(e))
  <2>1. ASSUME NEW x \in Origins(e) PROVE x \in DOMAIN sent /\ KeyOf(x) = KeyOf(m)
    <3>1. PICK k \in DOMAIN e.chunks : e.chunks[k].of = x
      BY <2>1 DEF Origins, Range
    <3>2. PICK y \in DOMAIN sent' : \E i \in 1..FragmentCount(y) :
            e.chunks[k] = Piece(y, i)' /\ KeyOf(y)' = KeyOf(m)'
      BY <1>5, EntryGrows DEF EntryOK
    <3>3. \A i : Piece(y, i).of = y
      BY DEF Piece
    <3> QED
      BY <1>0, <1>1, <3>1, <3>2, <3>3
  <2>2. ASSUME Orderly(KeyOf(m))' PROVE Origins(e) \subseteq {m}
    <3>1. PICK key : key = KeyOf(m)
      OBVIOUS
    <3>2. Orderly(key)'
      BY <1>1, <2>2, <3>1 DEF Orderly
    <3>3. OneAtATime(KeyOf(m))
      BY <1>2, <3>1, <3>2
    <3> QED
      BY <1>5, <2>2, <3>3, WaitsForOne DEF Origins, Range
  <2> SUFFICES ASSUME NEW x \in Origins(e), NEW y \in Origins(e), x # y
               PROVE  /\ {x, y} \subseteq DOMAIN sent /\ KeyOf(x) = KeyOf(y)
                      /\ ~Orderly(KeyOf(x))'
    OBVIOUS
  <2>3. ~Orderly(KeyOf(m))'
    BY <2>2
  <2>4. KeyOf(x)' = KeyOf(m)'
    BY <1>1, <2>1
  <2> QED
    BY <2>1, <2>3, <2>4 DEF Orderly
<1>6. ASSUME NEW of, Grows(of), Mixed(of) PROVE \A d \in Range(out') : Mixed(d.of)
  <2>1. PICK d : d.of = of /\ out' = Append(out, d)
    BY <1>6 DEF Grows
  <2>2. \A x \in Range(out') : x \in Range(out) \/ x = d
    <3>1. /\ Len(out) \in Nat /\ DOMAIN out = 1..Len(out)
          /\ DOMAIN out' = 1..(Len(out) + 1)
          /\ out'[Len(out) + 1] = d /\ \A k \in 1..Len(out) : out'[k] = out[k]
      BY <1>0, <2>1, Appended
    <3> QED
      BY <3>1 DEF Range
  <2> HIDE DEF Mixed
  <2> QED
    BY <1>3, <1>6, <2>1, <2>2
<1>7. \A d \in Range(out') : Mixed(d.of)
  <2>1. CASE out' = out
    <3> HIDE DEF Mixed
    <3> QED
      BY <1>3, <2>1
  <2>2. CASE \E of : Grows(of) /\ Mixed(of)
    <3> HIDE DEF Mixed
    <3> QED
      BY <1>6, <2>2
  <2> HIDE DEF Mixed
  <2> QED
    BY <1>4, <1>5, <2>1, <2>2 DEF Passes, Decodes
<1>8. \A x, y \in DOMAIN sent : KeyOf(x) = KeyOf(y) => KeyOf(x)' = KeyOf(y)'
  BY <1>1
<1> QED
  BY <1>0, <1>7, <1>8, Zenon DEF MixedIsDisorder, Range

LEMMA OrderStart == CaptureInit => OrderInv
<1> SUFFICES ASSUME CaptureInit PROVE OrderInv
  OBVIOUS
<1>1. TypesOK /\ EntriesOK
  <2>1. BaseInv
    BY BaseStart
  <2>2. EntriesOK
    BY DEF CaptureInit, EntriesOK
  <2> QED
    BY <2>1, <2>2 DEF BaseInv
<1>2. MixedIsDisorder
  BY DEF CaptureInit, MixedIsDisorder, Range
<1>3. ASSUME NEW key PROVE OneAtATime(key)
  <2>1. Waiting(key) = <<>>
    BY DEF CaptureInit, Waiting
  <2>2. \A x, j : ~Waits(Waiting(key), x, j) /\ CapturedAt(x, j) = {}
    BY <2>1 DEF CaptureInit, Waits, CapturedAt
  <2> QED
    BY <2>1, <2>2 DEF OneAtATime
<1> QED
  BY <1>1, <1>2, <1>3 DEF OrderInv

LEMMA OrderInvStep == OrderInv /\ [CaptureNext]_captureVars => OrderInv'
<1> SUFFICES ASSUME OrderInv, [CaptureNext]_captureVars PROVE OrderInv'
  OBVIOUS
<1>0. BaseInv'
  BY BaseStep DEF OrderInv, BaseInv
<1>1. CASE CaptureNext
  <2>1. PICK m, j : /\ Advances(m, j)
                    /\ snap >= Mtu => Passes(m) \/ \E e : Extends(m, j, e) /\ Decodes(e)
    BY <1>1, StepIs DEF OrderInv
  <2>2. snap' = snap
    BY <2>1 DEF Advances
  <2>3. ASSUME snap >= Mtu PROVE MixedIsDisorder' /\ \A key : Orderly(key)' => OneAtATime(key)'
    <3>1. /\ TypesOK /\ EntriesOK /\ MixedIsDisorder /\ \A key : Orderly(key) => OneAtATime(key)
      BY <2>3 DEF OrderInv
    <3>2. MixedIsDisorder'
      BY <2>1, <2>3, <3>1, MixedStep
    <3>3. ASSUME NEW key, Orderly(key)' PROVE OneAtATime(key)'
      <4>1. OneAtATime(key)
        BY <2>1, <3>1, <3>3, OrderlyBack
      <4> QED
        BY <2>1, <2>3, <3>1, <3>3, <4>1, OneStep
    <3> QED
      BY <3>2, <3>3
  <2> QED
    BY <1>0, <2>2, <2>3 DEF OrderInv, BaseInv
<1>2. CASE UNCHANGED captureVars
  <2>1. UNCHANGED <<sent, snap, captured, pending, out>>
    BY <1>2 DEF captureVars
  <2>2. \A x, i : Piece(x, i)' = Piece(x, i) /\ KeyOf(x)' = KeyOf(x)
    BY <2>1, PieceStays
  <2>3. \A x, i : CapturedAt(x, i)' = CapturedAt(x, i)
    BY <2>1 DEF CapturedAt
  <2>4. \A x : CapturedOf(x)' = CapturedOf(x)
    BY <2>3 DEF CapturedOf
  <2>5. \A key : Orderly(key)' <=> Orderly(key)
    BY <2>1, <2>2, <2>3, <2>4 DEF Orderly, InOneGo
  <2>6. \A key : Waiting(key)' = Waiting(key)
    BY <2>1 DEF Waiting
  <2>7. \A key : OneAtATime(key) => OneAtATime(key)'
    BY <2>1, <2>2, <2>3, <2>6 DEF OneAtATime, NoneTwice, AllCaptured, Waits
  <2>8. MixedIsDisorder => MixedIsDisorder'
    <3>1. \A x, y : KeyOf(x) = KeyOf(y) => KeyOf(x)' = KeyOf(y)'
      BY <2>2
    <3>2. \A x : ~Orderly(KeyOf(x)) => ~Orderly(KeyOf(x))'
      BY <2>2, <2>5 DEF Orderly
    <3> QED
      BY <2>1, <3>1, <3>2 DEF MixedIsDisorder
  <2> QED
    BY <1>0, <2>1, <2>5, <2>7, <2>8 DEF OrderInv, BaseInv
<1> QED
  BY <1>1, <1>2

(* Fragments of two datagrams under one identification are put together only *)
(* if two datagrams under it were both captured in part, twice or into each  *)
(* other: reuse in good order is harmless (net.rs, Reassembler).             *)
THEOREM OrderlyReuse == CaptureSpec => []OrderlyReuseIsHarmless
<1>1. OrderInv => OrderlyReuseIsHarmless
  <2> SUFFICES ASSUME MixedIsDisorder, NEW d \in Range(out), NEW m \in d.of, NEW n \in d.of, m # n
               PROVE  \E x, y \in DOMAIN sent :
                        /\ x # y /\ SameKey(x, m) /\ SameKey(y, m)
                        /\ CapturedOf(x) # {} /\ CapturedOf(y) # {}
                        /\ ~InOneGo(x, y) /\ ~InOneGo(y, x)
    BY Zenon DEF OrderInv, OrderlyReuseIsHarmless
  <2>1. ~Orderly(KeyOf(m))
    BY DEF MixedIsDisorder
  <2>2. \A x : SameKey(x, m) <=> KeyOf(x) = KeyOf(m)
    BY DEF SameKey, KeyOf
  <2> QED
    BY <2>1, <2>2 DEF Orderly
<1> QED
  BY <1>1, OrderStart, OrderInvStep, PTL DEF CaptureSpec

-----------------------------------------------------------------------------
Payload(m) == Serialize(m.packet)

Adds(S, s, h, n, x, y) ==
  /\ s \in Seq(S) /\ Len(s) = n + 2 /\ s[n + 1] = x /\ s[n + 2] = y
  /\ \A i \in 1..n : s[i] = h[i]

LEMMA AndTwo ==
  ASSUME NEW S, NEW h \in Seq(S), NEW n \in Nat, Len(h) = n, NEW x \in S, NEW y \in S
  PROVE  Adds(S, h \o <<x, y>>, h, n, x, y)
  BY DEF Adds

(* Three words, a checksum and the rest. *)
Headed(s, u, v, w, p) ==
  /\ Len(s) = 8 + Len(p)
  /\ Slice(s, 0, 2) = u /\ Slice(s, 2, 2) = v /\ Slice(s, 4, 2) = w
  /\ SubSeq(s, 9, 8 + Len(p)) = p

LEMMA HeaderThenRest ==
  ASSUME NEW a, NEW b, NEW c, NEW d, NEW e, NEW f, NEW S, NEW p \in Seq(S)
  PROVE  Headed(<<a, b>> \o <<c, d>> \o <<e, f>> \o <<0, 0>> \o p,
                <<a, b>>, <<c, d>>, <<e, f>>, p)
<1> DEFINE T == {a, b, c, d, e, f, 0} \cup S
           h2 == <<a, b>>
           h4 == h2 \o <<c, d>>
           h6 == h4 \o <<e, f>>
           h8 == h6 \o <<0, 0>>
           s == h8 \o p
<1>1. /\ h2 \in Seq(T) /\ Len(h2) = 2 /\ h2[1] = a /\ h2[2] = b /\ p \in Seq(T)
      /\ c \in T /\ d \in T /\ e \in T /\ f \in T /\ 0 \in T
      /\ 2 \in Nat /\ 4 \in Nat /\ 6 \in Nat
  OBVIOUS
<1> HIDE DEF T, h2
<1>2. /\ h4 \in Seq(T) /\ Len(h4) = 4
      /\ h4[1] = a /\ h4[2] = b /\ h4[3] = c /\ h4[4] = d
  <2>1. Adds(T, h4, h2, 2, c, d)
    BY <1>1, AndTwo, Zenon
  <2> HIDE DEF h4
  <2> QED
    BY <1>1, <2>1 DEF Adds
<1> HIDE DEF h4
<1>3. /\ h6 \in Seq(T) /\ Len(h6) = 6
      /\ h6[1] = a /\ h6[2] = b /\ h6[3] = c /\ h6[4] = d /\ h6[5] = e /\ h6[6] = f
  <2>1. Adds(T, h6, h4, 4, e, f)
    BY <1>1, <1>2, AndTwo, Zenon
  <2> HIDE DEF h6
  <2> QED
    BY <1>2, <2>1 DEF Adds
<1> HIDE DEF h6
<1>4. /\ h8 \in Seq(T) /\ Len(h8) = 8
      /\ h8[1] = a /\ h8[2] = b /\ h8[3] = c /\ h8[4] = d /\ h8[5] = e /\ h8[6] = f
  <2>1. Adds(T, h8, h6, 6, 0, 0)
    BY <1>1, <1>3, AndTwo, Zenon
  <2> HIDE DEF h8
  <2> QED
    BY <1>3, <2>1 DEF Adds
<1> HIDE DEF h8
<1>5. /\ s \in Seq(T) /\ Len(p) \in Nat /\ Len(s) = 8 + Len(p)
      /\ s[1] = a /\ s[2] = b /\ s[3] = c /\ s[4] = d /\ s[5] = e /\ s[6] = f
      /\ \A i \in 1..Len(p) : s[8 + i] = p[i]
  <2>1. Follows(T, s, h8, p)
    BY <1>1, <1>4, Joined, Zenon
  <2> HIDE DEF s
  <2> QED
    BY <1>4, <2>1 DEF Follows
<1> HIDE DEF s
<1>6. /\ Slice(s, 0, 2) = <<a, b>> /\ Slice(s, 2, 2) = <<c, d>> /\ Slice(s, 4, 2) = <<e, f>>
  <2>1. Slice(s, 0, 2) = <<s[0 + 1], s[0 + 2]>>
    BY <1>5, TwoOf
  <2>2. Slice(s, 2, 2) = <<s[2 + 1], s[2 + 2]>>
    BY <1>5, TwoOf
  <2>3. Slice(s, 4, 2) = <<s[4 + 1], s[4 + 2]>>
    BY <1>5, TwoOf
  <2> QED
    BY <1>5, <2>1, <2>2, <2>3
<1>7. SubSeq(s, 8 + 1, 8 + Len(p)) = p
  BY <1>1, <1>5, RestOf
<1> QED
  BY <1>5, <1>6, <1>7 DEF s, h8, h6, h4, h2, Headed

LEMMA UdpIs ==
  ASSUME NEW m \in Traffic
  PROVE  LET b == Body[m]
         IN  /\ Len(b) = 8 + Len(Payload(m)) /\ Len(b) \in Nat /\ Len(b) >= 8
             /\ Number(Slice(b, 0, 2)) = m.sport /\ Number(Slice(b, 2, 2)) = m.dport
             /\ Number(Slice(b, 4, 2)) = Len(b) /\ SubSeq(b, 9, Len(b)) = Payload(m)
<1> DEFINE p == Payload(m)
           n == 8 + Len(p)
           b == Body[m]
<1>1. /\ p \in Seq(0..255) /\ m.sport \in Nat /\ m.sport < 65536
      /\ m.dport \in Nat /\ m.dport < 65536 /\ n \in Nat /\ n < 65536
  BY CaptureAssumption, PayloadInBytes DEF Payload
<1>2. b = Bytes16(m.sport) \o Bytes16(m.dport) \o Bytes16(n) \o <<0, 0>> \o p
  BY Zenon DEF Body, Udp, Payload
<1>3. Len(p) \in Nat
  BY <1>1
<1> HIDE DEF n, p, b
<1>4. /\ Len(b) = 8 + Len(p) /\ Slice(b, 0, 2) = Bytes16(m.sport)
      /\ Slice(b, 2, 2) = Bytes16(m.dport) /\ Slice(b, 4, 2) = Bytes16(n)
      /\ SubSeq(b, 9, 8 + Len(p)) = p
  <2>1. \A q : \E x, y : Bytes16(q) = <<x, y>>
    BY Zenon DEF Bytes16
  <2>2. PICK u, v, w, x, y, z : /\ Bytes16(m.sport) = <<u, v>> /\ Bytes16(m.dport) = <<w, x>>
                                /\ Bytes16(n) = <<y, z>>
    BY <2>1
  <2>3. Headed(<<u, v>> \o <<w, x>> \o <<y, z>> \o <<0, 0>> \o p,
               <<u, v>>, <<w, x>>, <<y, z>>, p)
    <3>1. PICK S : p \in Seq(S)
      BY <1>1
    <3> QED
      BY <3>1, HeaderThenRest, ZenonT(60)
  <2>4. Headed(b, Bytes16(m.sport), Bytes16(m.dport), Bytes16(n), p)
    BY <1>2, <2>2, <2>3, Zenon
  <2> QED
    BY <2>4, Zenon DEF Headed
<1>5. /\ Number(Slice(b, 0, 2)) = m.sport /\ Number(Slice(b, 2, 2)) = m.dport
      /\ Number(Slice(b, 4, 2)) = n
  BY <1>1, <1>4, NumberOfBytes16
<1>6. n = 8 + Len(p)
  BY DEF n
<1>7. Len(b) = n /\ n >= 8
  BY <1>1, <1>3, <1>4, <1>6
<1> QED
  BY <1>1, <1>4, <1>5, <1>6, <1>7 DEF b, p

(* Read back from its datagram's bytes. *)
Faithful(d, m) ==
  /\ <<d.src, d.sport, d.dst, d.dport>> = <<m.src, m.sport, m.dst, m.dport>>
  /\ d.packet = Parse(Payload(m))

ReadFrom(u, of, m) == \E d : u = <<d>> /\ d.of = of /\ Faithful(d, m)

LEMMA ParsedFaithfully ==
  ASSUME NEW m \in Traffic, NEW ts, NEW f, f.src = m.src, f.dst = m.dst,
         NEW fragmented, NEW of
  PROVE  ReadFrom(ParseUdp(ts, f, Body[m], fragmented, of), of, m)
<1> DEFINE b == Body[m]
           end == IF Number(Slice(b, 4, 2)) \in 8..Len(b) THEN Number(Slice(b, 4, 2)) ELSE Len(b)
           sp == Number(Slice(b, 0, 2))
           dp == Number(Slice(b, 2, 2))
           pk == Parse(SubSeq(b, 9, end))
           d == [ts |-> ts, src |-> f.src, dst |-> f.dst, sport |-> sp, dport |-> dp,
                 packet |-> pk, fragmented |-> fragmented, of |-> of]
<1>1. /\ Len(b) \in Nat /\ Len(b) >= 8 /\ sp = m.sport /\ dp = m.dport
      /\ Number(Slice(b, 4, 2)) = Len(b) /\ SubSeq(b, 9, Len(b)) = Payload(m)
  BY UdpIs
<1>2. end = Len(b)
  BY <1>1
<1>3. pk = Parse(Payload(m))
  BY <1>1, <1>2
<1>4. ~(Len(b) < 8)
  BY <1>1
<1>5. ParseUdp(ts, f, b, fragmented, of) = <<d>>
  BY <1>4, Zenon DEF ParseUdp
<1> HIDE DEF sp, dp, pk
<1>6. d.of = of /\ Faithful(d, m)
  BY <1>1, <1>3 DEF Faithful
<1> HIDE DEF d
<1> QED
  BY <1>5, <1>6, Zenon DEF ReadFrom

LEMMA BodyIsItsBytes ==
  ASSUME NEW m \in Traffic, NEW s, s = [b \in 1..Size(m) |-> Body[m][b]]
  PROVE  s = Body[m]
<1>1. PICK S : Body[m] \in Seq(S)
  BY BodyIsBytes DEF IsSequence
<1> QED
  BY <1>1 DEF Size

LEMMA AssembledIsBody ==
  ASSUME NEW m \in Traffic, snap \in Nat, snap >= Mtu,
         NEW e, IsSequence(e.chunks), Complete(e), e.total = Size(m),
         \A k \in DOMAIN e.chunks : \E j \in 1..FragmentCount(m) : e.chunks[k] = Piece(m, j)
  PROVE  Assembled(e) = Body[m]
<1>1. ASSUME NEW b \in 1..Size(m) PROVE Kept(e, b).bytes[b - Kept(e, b).off] = Body[m][b]
  <2>1. PICK k : k = Max(Holding(e, b))
    OBVIOUS
  <2>2. k \in Holding(e, b)
    <3>1. Holding(e, b) # {}
      BY DEF Complete
    <3>2. Len(e.chunks) \in Nat /\ DOMAIN e.chunks = 1..Len(e.chunks)
      BY Appended
    <3>3. Holding(e, b) \subseteq 1..Len(e.chunks)
      BY <3>2 DEF Holding
    <3> QED
      BY <2>1, <3>1, <3>2, <3>3, MaxIsThere
  <2>3. k \in DOMAIN e.chunks /\ Kept(e, b) = e.chunks[k]
    BY <2>1, <2>2 DEF Holding, Kept
  <2>4. PICK j \in 1..FragmentCount(m) : e.chunks[k] = Piece(m, j)
    BY <2>3
  <2>5. b \in Int /\ At(j) \in Int /\ BodyEnd(m, j) \in Int
    BY BodyIsBytes, EndOfPiece
  <2>6. At(j) < b /\ b <= BodyEnd(m, j)
    BY <2>2, <2>3, <2>4, <2>5, PieceHolds
  <2>7. \A i \in 1..(BodyEnd(m, j) - At(j)) : Fragment(m, j).body[i] = Body[m][At(j) + i]
    BY FragmentCarries
  <2>8. PICK i : i = b - At(j)
    OBVIOUS
  <2>9. i \in 1..(BodyEnd(m, j) - At(j)) /\ At(j) + i = b
    BY <2>5, <2>6, <2>8
  <2>10. Kept(e, b).off = At(j) /\ Kept(e, b).bytes = Fragment(m, j).body
    BY <2>3, <2>4 DEF Piece
  <2> QED
    BY <2>7, <2>8, <2>9, <2>10
<1>2. Assembled(e) = [b \in 1..Size(m) |-> Body[m][b]]
  BY <1>1 DEF Assembled
<1> QED
  BY <1>2, BodyIsItsBytes

LEMMA WholeIsBody ==
  ASSUME NEW m \in Traffic, snap \in Nat, snap >= Mtu, FragmentCount(m) = 1
  PROVE  Fragment(m, 1).body = Body[m]
<1> DEFINE b == Fragment(m, 1).body
<1>1. /\ BodyEnd(m, 1) = Size(m) /\ At(1) = 0 /\ Size(m) \in Nat
      /\ IsSequence(b) /\ Len(b) = Size(m) - 0 /\ DOMAIN b = 1..(Size(m) - 0)
      /\ \A i \in 1..(Size(m) - 0) : b[i] = Body[m][0 + i]
  <2>1. 1 \in 1..FragmentCount(m)
    OBVIOUS
  <2>2. BodyEnd(m, 1) = Size(m) /\ At(1) = 0 /\ Size(m) \in Nat
    BY BodyIsBytes, Offsets DEF BodyEnd
  <2> HIDE DEF b
  <2>3. LET n == BodyEnd(m, 1) - At(1)
        IN  /\ IsSequence(b) /\ Len(b) = n /\ DOMAIN b = 1..n
            /\ \A i \in 1..n : b[i] = Body[m][At(1) + i]
    BY <2>1, FragmentCarries DEF b
  <2> QED
    BY <2>2, <2>3
<1> HIDE DEF b
<1>2. PICK S : b \in Seq(S)
  BY <1>1 DEF IsSequence
<1>3. b = [i \in 1..Size(m) |-> Body[m][i]]
  BY <1>1, <1>2
<1> QED
  BY <1>3, BodyIsItsBytes DEF b

-----------------------------------------------------------------------------
(* What is decoded of one datagram, frames captured in full. *)
DecodedInFull ==
  snap >= Mtu =>
    \A d \in Range(out), m \in DOMAIN sent : d.of = {m} => Faithful(d, m)

Reads(m) ==
  \E d : /\ out' = Append(out, d) /\ m \in d.of
         /\ d.of = {m} => Faithful(d, m)

LEMMA AppendsOne ==
  ASSUME IsSequence(out), NEW d PROVE out \o <<d>> = Append(out, d)
<1>1. PICK S : out \in Seq(S)
  BY DEF IsSequence
<1> QED
  BY <1>1

LEMMA StepReads ==
  ASSUME TypesOK, EntriesOK, snap >= Mtu, CaptureNext
  PROVE  out' = out \/ \E m \in DOMAIN sent : Reads(m)
<1>1. PICK m \in DOMAIN sent : \E j \in 1..FragmentCount(m) : CaptureFrame(m, j)
  BY DEF CaptureNext
<1>2. PICK j \in 1..FragmentCount(m) : CaptureFrame(m, j)
  BY <1>1
<1>3. Advances(m, j) /\ m \in Traffic /\ snap \in Nat /\ IsSequence(out)
  BY <1>2 DEF CaptureFrame, Advances, TypesOK
<1>4. PICK ts : CaptureWhole(m, ts) \/ CaptureFragment(m, j, ts) \/ CaptureIgnored(m)
  BY <1>2 DEF CaptureFrame
<1>5. CASE CaptureIgnored(m)
  BY <1>5 DEF CaptureIgnored
<1>6. CASE CaptureWhole(m, ts)
  <2>1. /\ FragmentCount(m) = 1
        /\ out' = out \o ParseUdp(ts, Fragment(m, 1), Fragment(m, 1).body, FALSE, {m})
    BY <1>6, Zenon DEF CaptureWhole
  <2>2. Fragment(m, 1).body = Body[m] /\ Fragment(m, 1).src = m.src /\ Fragment(m, 1).dst = m.dst
    <3>1. Fragment(m, 1).src = m.src /\ Fragment(m, 1).dst = m.dst
      BY DEF Fragment
    <3> QED
      BY <1>3, <2>1, <3>1, WholeIsBody
  <2>3. PICK d : /\ ParseUdp(ts, Fragment(m, 1), Body[m], FALSE, {m}) = <<d>>
                 /\ d.of = {m} /\ Faithful(d, m)
    <3>1. PICK f, of, fr : f = Fragment(m, 1) /\ of = {m} /\ fr = FALSE
      OBVIOUS
    <3>2. m \in Traffic
      BY <1>3
    <3>3. f.src = m.src
      BY <2>2, <3>1
    <3>4. f.dst = m.dst
      BY <2>2, <3>1
    <3>5. ReadFrom(ParseUdp(ts, f, Body[m], fr, of), of, m)
      BY <3>2, <3>3, <3>4, ParsedFaithfully
    <3> QED
      BY <3>1, <3>5, Zenon DEF ReadFrom
  <2>4. out' = Append(out, d)
    BY <1>3, <2>1, <2>2, <2>3, AppendsOne
  <2> QED
    BY <2>3, <2>4 DEF Reads
<1>7. CASE CaptureFragment(m, j, ts)
  <2>1. PICK e : /\ Extends(m, j, e)
                 /\ out' = IF Complete(e)
                           THEN out \o ParseUdp(e.ts, Fragment(m, j), Assembled(e), TRUE, Origins(e))
                           ELSE out
    BY <1>7, ExtendsEntry
  <2>2. CASE ~Complete(e)
    BY <2>1, <2>2
  <2>3. CASE Complete(e) /\ Origins(e) # {m}
    <3>1. Grows(Origins(e))
      BY <1>3, <2>1, <2>3, CompleteDecodes DEF Decodes
    <3>2. m \in Origins(e)
      BY <2>1, OriginIsThere
    <3> QED
      BY <2>3, <3>1, <3>2 DEF Grows, Reads
  <2>4. CASE Complete(e) /\ Origins(e) = {m}
    <3>1. \A k \in DOMAIN e.chunks : e.chunks[k].of = m
      BY <2>4 DEF Origins, Range
    <3>2. IsSequence(e.chunks) /\ LengthKnown(e)
      BY <1>3, <2>1, WaitsGrow, EntryGrows
    <3>3. \A k \in DOMAIN e.chunks : \E i \in 1..FragmentCount(m) : e.chunks[k] = Piece(m, i)
      BY <1>3, <2>1, <3>1, PiecesOfOne
    <3>4. e.total = Size(m)
      <4>1. \A x, i : Piece(x, i).of = x
        BY DEF Piece
      <4> QED
        BY <2>4, <3>1, <3>2, <4>1 DEF LengthKnown, Waits, Complete
    <3>5. Assembled(e) = Body[m]
      BY <1>3, <2>4, <3>2, <3>3, <3>4, AssembledIsBody
    <3>6. Fragment(m, j).src = m.src /\ Fragment(m, j).dst = m.dst
      BY DEF Fragment
    <3>7. PICK d : /\ ParseUdp(e.ts, Fragment(m, j), Body[m], TRUE, Origins(e)) = <<d>>
                   /\ d.of = Origins(e) /\ Faithful(d, m)
      <4>1. PICK f, of, t, fr : f = Fragment(m, j) /\ of = Origins(e) /\ t = e.ts /\ fr = TRUE
        OBVIOUS
      <4>2. m \in Traffic
        BY <1>3
      <4>3. f.src = m.src
        BY <3>6, <4>1
      <4>4. f.dst = m.dst
        BY <3>6, <4>1
      <4>5. ReadFrom(ParseUdp(t, f, Body[m], fr, of), of, m)
        BY <4>2, <4>3, <4>4, ParsedFaithfully
      <4> QED
        BY <4>1, <4>5, Zenon DEF ReadFrom
    <3>8. out' = Append(out, d)
      BY <1>3, <2>1, <2>4, <3>5, <3>7, AppendsOne
    <3> QED
      BY <2>4, <3>7, <3>8 DEF Reads
  <2> QED
    BY <2>2, <2>3, <2>4
<1> QED
  BY <1>4, <1>5, <1>6, <1>7

LEMMA FullStep == BaseInv /\ DecodedInFull /\ [CaptureNext]_captureVars => DecodedInFull'
<1> SUFFICES ASSUME BaseInv, DecodedInFull, [CaptureNext]_captureVars, snap' >= Mtu
             PROVE  \A d \in Range(out'), m \in DOMAIN sent' : d.of = {m} => Faithful(d, m)
  BY Zenon DEF DecodedInFull, Range
<1>1. CASE CaptureNext
  <2>1. UNCHANGED <<sent, snap>>
    BY <1>1 DEF CaptureNext, CaptureFrame
  <2>2. TypesOK /\ EntriesOK
    BY <2>1 DEF BaseInv
  <2>3. \A d \in Range(out), m \in DOMAIN sent : d.of = {m} => Faithful(d, m)
    BY <2>1 DEF DecodedInFull
  <2>4. CASE out' = out
    BY <2>1, <2>3, <2>4
  <2>5. ASSUME NEW m \in DOMAIN sent, Reads(m)
        PROVE  \A d \in Range(out'), x \in DOMAIN sent' : d.of = {x} => Faithful(d, x)
    <3>1. PICK d : out' = Append(out, d) /\ m \in d.of /\ (d.of = {m} => Faithful(d, m))
      BY <2>5 DEF Reads
    <3>2. \A x \in Range(out') : x \in Range(out) \/ x = d
      <4>1. /\ Len(out) \in Nat /\ DOMAIN out = 1..Len(out)
            /\ DOMAIN out' = 1..(Len(out) + 1)
            /\ out'[Len(out) + 1] = d /\ \A k \in 1..Len(out) : out'[k] = out[k]
        BY <2>2, <3>1, Appended DEF TypesOK
      <4> QED
        BY <4>1 DEF Range
    <3>3. \A x : d.of = {x} => x = m
      BY <3>1
    <3> QED
      BY <2>1, <2>3, <3>1, <3>2, <3>3
  <2> QED
    BY <1>1, <2>1, <2>2, <2>4, <2>5, StepReads
<1>2. CASE UNCHANGED captureVars
  <2>1. UNCHANGED <<sent, snap, out>>
    BY <1>2 DEF captureVars
  <2> QED
    BY <2>1 DEF DecodedInFull
<1> QED
  BY <1>1, <1>2

(* What is put together of one datagram's fragments, captured in full, are    *)
(* that datagram's bytes, whatever order they came in and however often, and  *)
(* reads as those bytes do (net.rs, Reassembler and parse_udp).               *)
THEOREM ReassemblyIsExact == CaptureSpec => []DecodedInFull
<1>1. CaptureInit => BaseInv /\ DecodedInFull
  <2>1. CaptureInit => DecodedInFull
    BY DEF CaptureInit, DecodedInFull, Range
  <2> QED
    BY <2>1, BaseStart
<1>2. (BaseInv /\ DecodedInFull) /\ [CaptureNext]_captureVars => (BaseInv /\ DecodedInFull)'
  BY BaseStep, FullStep
<1> QED
  BY <1>1, <1>2, PTL DEF CaptureSpec

-----------------------------------------------------------------------------
(* Whatever was mixed or cut short: what is put together begins with the     *)
(* first bytes of one datagram captured under the key.                       *)
HeadOK(key, e) ==
  /\ IsEntry(e) /\ IsSequence(e.chunks) /\ e.ts \in Nat
  /\ e.total = Unknown \/ (e.total \in Nat /\ e.total >= Mtu)
  /\ \A k \in DOMAIN e.chunks :
       \E m \in DOMAIN sent : \E j \in 1..FragmentCount(m) :
         e.chunks[k] = Piece(m, j) /\ Fragmented(m) /\ KeyOf(m) = key
HeadsOK == \A key \in DOMAIN pending : HeadOK(key, pending[key])

LEMMA BodyInBytes ==
  ASSUME NEW m \in Traffic
  PROVE  Body[m] \in Seq(0..255)
<1> DEFINE p == Serialize(m.packet)
<1>1. \A n \in Nat : \E x, y : /\ Bytes16(n) = <<x, y>>
                              /\ x \in 0..255 /\ y \in 0..255
  <2>1. \A n \in Nat : (n \div 256) % 256 \in 0..255 /\ n % 256 \in 0..255
    BY SMT
  <2>2. \A n : Bytes16(n) = <<(n \div 256) % 256, n % 256>>
    BY DEF Bytes16
  <2> QED
    BY <2>1, <2>2, Zenon
<1>2. p \in Seq(0..255) /\ m.sport \in Nat /\ m.dport \in Nat /\ 8 + Len(p) \in Nat
  BY CaptureAssumption, PayloadInBytes
<1> HIDE DEF p
<1>3. PICK u, v : Bytes16(m.sport) = <<u, v>> /\ u \in 0..255 /\ v \in 0..255
  BY <1>1, <1>2
<1>6. PICK w, x : Bytes16(m.dport) = <<w, x>> /\ w \in 0..255 /\ x \in 0..255
  BY <1>1, <1>2
<1>7. PICK y, z : Bytes16(8 + Len(p)) = <<y, z>> /\ y \in 0..255 /\ z \in 0..255
  BY <1>1, <1>2
<1>4. <<u, v>> \o <<w, x>> \o <<y, z>> \o <<0, 0>> \o p \in Seq(0..255)
  BY <1>2, <1>3, <1>6, <1>7
<1>5. Body[m] = Bytes16(m.sport) \o Bytes16(m.dport) \o Bytes16(8 + Len(p)) \o <<0, 0>> \o p
  BY Zenon DEF Body, Udp, p
<1> QED
  BY <1>3, <1>4, <1>5, <1>6, <1>7, Zenon

LEMMA FirstPieceHolds ==
  ASSUME NEW m \in Traffic, FragmentCount(m) > 1, snap \in Nat, NEW j \in 1..FragmentCount(m),
         NEW e, NEW k \in DOMAIN e.chunks, e.chunks[k] = Piece(m, j), NEW b \in 1..Mtu
  PROVE  k \in Holding(e, b) <=> j = 1 /\ b <= snap
<1> DEFINE n == BodyEnd(m, j) - At(j)
           c == IF n < snap THEN n ELSE snap
           d == Fragment(m, j).body
<1>1. Mtu \in Nat /\ Mtu >= 9 /\ j \in Nat /\ j >= 1
  BY CaptureAssumption, CountOfFragments
<1>2. n \in 1..Mtu /\ DOMAIN d = 1..c
  BY FragmentHead
<1>3. e.chunks[k].off = At(j) /\ e.chunks[k].bytes = d
  BY DEF Piece
<1>4. k \in Holding(e, b) <=> b - At(j) \in 1..c
  BY <1>2, <1>3 DEF Holding
<1>5. CASE j = 1
  <2>1. At(j) = 0 /\ BodyEnd(m, j) = Mtu
    <3>1. At(1) = 0 /\ Mtu * 1 = Mtu
      BY <1>1, Offsets
    <3> QED
      BY <1>5, <3>1, CountOfFragments DEF BodyEnd
  <2> HIDE DEF d
  <2> QED
    BY <1>1, <1>4, <1>5, <2>1
<1>6. CASE j # 1
  <2>1. At(1) + Mtu <= At(j) /\ At(1) = 0 /\ At(j) \in Int
    BY <1>1, <1>6, Offsets
  <2> HIDE DEF d, c
  <2> QED
    BY <1>1, <1>4, <1>6, <2>1
<1> QED
  BY <1>5, <1>6

LEMMA HeadIsOfOne ==
  ASSUME TypesOK, NEW key, NEW e, HeadOK(key, e), Complete(e)
  PROVE  \E m \in DOMAIN sent :
           /\ Fragmented(m) /\ KeyOf(m) = key
           /\ \A b \in 1..9 : Assembled(e)[b] = Body[m][b]
<1>1. /\ DOMAIN sent \subseteq Traffic /\ snap \in Nat /\ IsSequence(e.chunks)
      /\ e.total \in Nat /\ e.total >= 9 /\ \A b \in 1..e.total : Holding(e, b) # {}
  BY CaptureAssumption DEF TypesOK, HeadOK, Complete
<1>2. \A k \in DOMAIN e.chunks :
        \E m \in DOMAIN sent : \E j \in 1..FragmentCount(m) :
          e.chunks[k] = Piece(m, j) /\ Fragmented(m) /\ KeyOf(m) = key
  BY DEF HeadOK
<1>3. Len(e.chunks) \in Nat /\ DOMAIN e.chunks = 1..Len(e.chunks)
  BY <1>1, Appended
<1>4. PICK k : k = Max(Holding(e, 9))
  OBVIOUS
<1>5. k \in Holding(e, 9)
  <2>1. Holding(e, 9) # {}
    BY <1>1
  <2>2. Holding(e, 9) \subseteq 1..Len(e.chunks)
    BY <1>3 DEF Holding
  <2> QED
    BY <1>3, <1>4, <2>1, <2>2, MaxIsThere
<1>6. k \in DOMAIN e.chunks
  BY <1>5 DEF Holding
<1>7. PICK m, j :
        /\ m \in DOMAIN sent /\ j \in 1..FragmentCount(m)
        /\ e.chunks[k] = Piece(m, j) /\ Fragmented(m) /\ KeyOf(m) = key
  BY <1>2, <1>6
<1>8. m \in Traffic /\ FragmentCount(m) > 1
  BY <1>1, <1>7 DEF Fragmented
<1>9. j = 1 /\ 9 <= snap
  <2>1. 9 \in 1..Mtu
    BY CaptureAssumption
  <2> QED
    BY <1>1, <1>5, <1>6, <1>7, <1>8, <2>1, FirstPieceHolds
<1>0. \A b \in 1..9 : b \in 1..Mtu
  BY CaptureAssumption
<1>10. ASSUME NEW b \in 1..9 PROVE Holding(e, b) = Holding(e, 9)
  <2>1. ASSUME NEW l \in DOMAIN e.chunks PROVE l \in Holding(e, b) <=> l \in Holding(e, 9)
    <3>1. PICK x, i :
            /\ x \in DOMAIN sent /\ i \in 1..FragmentCount(x)
            /\ e.chunks[l] = Piece(x, i) /\ Fragmented(x) /\ KeyOf(x) = key
      BY <1>2
    <3>2. x \in Traffic /\ FragmentCount(x) > 1
      BY <1>1, <3>1 DEF Fragmented
    <3>3. l \in Holding(e, b) <=> i = 1 /\ b <= snap
      BY <1>0, <1>1, <3>1, <3>2, FirstPieceHolds
    <3>4. l \in Holding(e, 9) <=> i = 1 /\ 9 <= snap
      BY <1>0, <1>1, <3>1, <3>2, FirstPieceHolds
    <3> QED
      BY <1>1, <1>9, <3>3, <3>4
  <2>2. Holding(e, b) \subseteq DOMAIN e.chunks /\ Holding(e, 9) \subseteq DOMAIN e.chunks
    BY DEF Holding
  <2> QED
    BY <2>1, <2>2
<1>11. ASSUME NEW b \in 1..9 PROVE Assembled(e)[b] = Body[m][b]
  <2>1. Kept(e, b) = Piece(m, 1)
    BY <1>4, <1>7, <1>9, <1>10 DEF Kept
  <2>2. b \in 1..e.total
    BY <1>1
  <2>3. Assembled(e)[b] = Piece(m, 1).bytes[b - At(1)]
    <3>1. Assembled(e)[b] = Kept(e, b).bytes[b - Kept(e, b).off]
      BY <2>2 DEF Assembled
    <3>2. Piece(m, 1).off = At(1)
      BY DEF Piece
    <3> QED
      BY <2>1, <3>1, <3>2
  <2>4. b - At(1) = b /\ At(1) + b = b /\ At(1) = 0
    BY Offsets
  <2>5. b \in DOMAIN Fragment(m, 1).body
    <3>1. k \in Holding(e, b)
      BY <1>5, <1>10
    <3> QED
      BY <1>7, <1>9, <2>4, <3>1 DEF Holding, Piece
  <2>6. Fragment(m, 1).body[b] = Body[m][At(1) + b]
    <3>1. 1 \in 1..FragmentCount(m)
      BY <1>7, <1>9
    <3> QED
      BY <1>1, <1>8, <2>5, <3>1, FragmentHead
  <2>7. Piece(m, 1).bytes = Fragment(m, 1).body
    BY DEF Piece
  <2> QED
    BY <2>3, <2>4, <2>6, <2>7
<1> QED
  BY <1>7, <1>11

-----------------------------------------------------------------------------
(* What is read of bytes that begin as a datagram does. *)
HeaderOf(d, m) ==
  <<d.src, d.sport, d.dst, d.dport>> = <<m.src, m.sport, m.dst, m.dport>>
KindOf(d, m) ==
  /\ d.packet.kind = "telemetry" => m.packet.kind = "telemetry"
  /\ d.packet.kind = "command" => Len(d.packet.extra) \in Nat
BeginsAs(b, m) ==
  /\ b \in Seq(Byte) /\ Len(b) >= 8
  /\ \A i \in 1..Len(b) : i <= 9 => b[i] = Body[m][i]
UdpEnd(b) == IF Number(Slice(b, 4, 2)) \in 8..Len(b) THEN Number(Slice(b, 4, 2)) ELSE Len(b)
ReadsHead(u, ts, of, m, b) ==
  \E d : /\ u = <<d>> /\ d.ts = ts /\ d.of = of /\ HeaderOf(d, m) /\ KindOf(d, m)
         /\ d.packet = Parse(SubSeq(b, 9, UdpEnd(b)))

LEMMA HeaderBytes ==
  ASSUME NEW m \in Traffic, NEW b, BeginsAs(b, m)
  PROVE  /\ Slice(b, 0, 2) = Slice(Body[m], 0, 2) /\ Slice(b, 2, 2) = Slice(Body[m], 2, 2)
         /\ Slice(b, 4, 2) = Slice(Body[m], 4, 2)
<1>1. PICK w : w = Body[m]
  OBVIOUS
<1>2. w \in Seq(Byte) /\ Len(w) \in Nat /\ Len(w) >= 8
  BY <1>1, BodyInBytes, UdpIs, Zenon DEF Byte
<1>3. b \in Seq(Byte) /\ Len(b) \in Nat /\ Len(b) >= 8
  BY SequenceIs DEF BeginsAs
<1>4. b[1] = w[1] /\ b[2] = w[2] /\ b[3] = w[3] /\ b[4] = w[4] /\ b[5] = w[5] /\ b[6] = w[6]
  BY <1>1, <1>3 DEF BeginsAs
<1>5. ASSUME NEW k \in {0, 2, 4}
      PROVE  Slice(b, k, 2) = <<b[k + 1], b[k + 2]>> /\ Slice(w, k, 2) = <<w[k + 1], w[k + 2]>>
  <2>1. k \in Nat /\ k + 2 <= Len(b) /\ k + 2 <= Len(w)
    BY <1>2, <1>3
  <2> QED
    BY <1>2, <1>3, <2>1, TwoOf
<1>6. /\ Slice(b, 0, 2) = <<b[1], b[2]>> /\ Slice(w, 0, 2) = <<w[1], w[2]>>
      /\ Slice(b, 2, 2) = <<b[3], b[4]>> /\ Slice(w, 2, 2) = <<w[3], w[4]>>
      /\ Slice(b, 4, 2) = <<b[5], b[6]>> /\ Slice(w, 4, 2) = <<w[5], w[6]>>
  <2>1. Slice(b, 0, 2) = <<b[0 + 1], b[0 + 2]>> /\ Slice(w, 0, 2) = <<w[0 + 1], w[0 + 2]>>
    BY <1>5
  <2>2. Slice(b, 2, 2) = <<b[2 + 1], b[2 + 2]>> /\ Slice(w, 2, 2) = <<w[2 + 1], w[2 + 2]>>
    BY <1>5
  <2>3. Slice(b, 4, 2) = <<b[4 + 1], b[4 + 2]>> /\ Slice(w, 4, 2) = <<w[4 + 1], w[4 + 2]>>
    BY <1>5
  <2>4. /\ 0 + 1 = 1 /\ 0 + 2 = 2 /\ 2 + 1 = 3 /\ 2 + 2 = 4 /\ 4 + 1 = 5 /\ 4 + 2 = 6
    OBVIOUS
  <2> QED
    BY <2>1, <2>2, <2>3, <2>4, Zenon
<1> QED
  BY <1>1, <1>4, <1>6, Zenon

(* The payload that is parsed. *)
LEMMA PayloadRead ==
  ASSUME NEW b \in Seq(Byte), Len(b) >= 8
  PROVE  /\ UdpEnd(b) \in 8..Len(b) /\ SubSeq(b, 9, UdpEnd(b)) \in Seq(Byte)
         /\ Len(SubSeq(b, 9, UdpEnd(b))) = UdpEnd(b) - 8
         /\ \A i \in 1..(UdpEnd(b) - 8) : SubSeq(b, 9, UdpEnd(b))[i] = b[8 + i]
<1>1. Len(b) \in Nat
  BY SequenceIs
<1>2. PICK end : end = UdpEnd(b)
  OBVIOUS
<1>3. end \in 8..Len(b)
  BY <1>1, <1>2 DEF UdpEnd
<1>4. PICK n : n = end - 8
  OBVIOUS
<1>5. n \in Nat /\ end = 8 + n /\ Holds(b, 8, n)
  BY <1>1, <1>3, <1>4 DEF Holds
<1>6. Slice(b, 8, n) = SubSeq(b, 9, end)
  <2>1. 8 + 1 = 9
    OBVIOUS
  <2> QED
    BY <1>5, <2>1, Zenon DEF Slice
<1>7. /\ Slice(b, 8, n) \in Seq(Byte) /\ Len(Slice(b, 8, n)) = n
      /\ \A i \in 1..n : Slice(b, 8, n)[i] = b[8 + i]
  <2>1. 8 \in Nat
    OBVIOUS
  <2> QED
    BY <1>5, <2>1, SliceIs
<1> QED
  BY <1>2, <1>3, <1>4, <1>6, <1>7, Zenon

LEMMA FirstOfPayload ==
  ASSUME NEW m \in Traffic
  PROVE  Body[m][9] = Payload(m)[1] /\ Len(Body[m]) >= 9
<1>1. PICK w, p : w = Body[m] /\ p = Payload(m)
  OBVIOUS
<1>2. w \in Seq(Byte) /\ Len(w) \in Nat
  BY <1>1, BodyInBytes, SequenceIs, Zenon DEF Byte
<1>3. Len(w) = 8 + Len(p) /\ SubSeq(w, 9, Len(w)) = p
  BY <1>1, UdpIs, Zenon
<1>4. Len(p) \in Nat /\ Len(p) > 0
  <2>1. p \in Seq(Byte) /\ Len(p) > 0
    BY <1>1, PayloadInBytes, Zenon DEF Payload, Byte
  <2> QED
    BY <2>1, SequenceIs, Zenon
<1>5. PICK n : n = Len(p)
  OBVIOUS
<1>6. 8 \in Nat /\ n \in Nat /\ 1 \in 1..n /\ 8 + 1 = 9 /\ Holds(w, 8, n)
  BY <1>3, <1>4, <1>5 DEF Holds
<1>7. \A i \in 1..n : Slice(w, 8, n)[i] = w[8 + i]
  BY <1>2, <1>6, SliceIs
<1>8. Slice(w, 8, n) = p
  BY <1>3, <1>5, <1>6, Zenon DEF Slice
<1>9. p[1] = w[9]
  BY <1>6, <1>7, <1>8, Zenon
<1>10. Len(w) >= 9
  BY <1>3, <1>4
<1> QED
  BY <1>1, <1>9, <1>10

LEMMA HeadReads ==
  ASSUME NEW m \in Traffic, NEW b, BeginsAs(b, m), NEW ts, NEW f, f.src = m.src, f.dst = m.dst,
         NEW fragmented, NEW of
  PROVE  ReadsHead(ParseUdp(ts, f, b, fragmented, of), ts, of, m, b)
<1> DEFINE sp == Number(Slice(b, 0, 2))
           dp == Number(Slice(b, 2, 2))
           s  == SubSeq(b, 9, UdpEnd(b))
           pk == Parse(s)
           d == [ts |-> ts, src |-> f.src, dst |-> f.dst, sport |-> sp, dport |-> dp,
                 packet |-> pk, fragmented |-> fragmented, of |-> of]
<1>1. b \in Seq(Byte) /\ Len(b) \in Nat /\ Len(b) >= 8
  BY SequenceIs DEF BeginsAs
<1>2. sp = m.sport /\ dp = m.dport
  BY HeaderBytes, UdpIs, Zenon
<1>3. ParseUdp(ts, f, b, fragmented, of) = <<d>>
  <2>1. ~(Len(b) < 8)
    BY <1>1
  <2> QED
    BY <2>1, Zenon DEF ParseUdp, UdpEnd
<1>4. /\ UdpEnd(b) \in 8..Len(b) /\ s \in Seq(Byte) /\ Len(s) = UdpEnd(b) - 8
      /\ \A i \in 1..(UdpEnd(b) - 8) : s[i] = b[8 + i]
  BY <1>1, PayloadRead
<1> HIDE DEF s
<1>5. ReadWell(pk, s)
  BY <1>4, KindIsRead, Zenon
<1>6. s # <<>> => s[1] = b[9] /\ b[9] = Body[m][9]
  <2>1. s # <<>> => Len(s) > 0
    <3> HIDE DEF Byte
    <3> QED
      BY <1>4
  <2>2. PICK n : n = UdpEnd(b) - 8
    OBVIOUS
  <2>3. n \in Nat /\ n + 8 <= Len(b)
    BY <1>1, <1>4, <2>2
  <2>4. n > 0 => 1 \in 1..n /\ 8 + 1 = 9 /\ 9 \in 1..Len(b)
    BY <1>1, <2>3
  <2>5. n > 0 => s[1] = b[9]
    BY <1>4, <2>2, <2>4
  <2>6. n > 0 => b[9] = Body[m][9]
    BY <2>4 DEF BeginsAs
  <2> QED
    BY <1>4, <2>1, <2>2, <2>5, <2>6
<1>7. pk.kind = "telemetry" => m.packet.kind = "telemetry"
  BY <1>5, <1>6, FirstOfPayload, PayloadInBytes, Zenon DEF ReadWell, Payload
<1>8. pk.kind = "command" => Len(pk.extra) \in Nat
  BY <1>5, Zenon DEF ReadWell
<1> HIDE DEF sp, dp, pk
<1>9. /\ d.ts = ts /\ d.of = of /\ d.packet = pk /\ d.sport = sp /\ d.dport = dp
      /\ d.src = f.src /\ d.dst = f.dst
  OBVIOUS
<1> HIDE DEF d
<1>10. HeaderOf(d, m) /\ KindOf(d, m)
  BY <1>2, <1>7, <1>8, <1>9, Zenon DEF HeaderOf, KindOf
<1> QED
  BY <1>3, <1>9, <1>10, Zenon DEF ReadsHead, pk, s

-----------------------------------------------------------------------------
(* Cut short, the fragments of a datagram never make it whole. *)
LEMMA CutShortStays ==
  ASSUME TypesOK, snap < Mtu, NEW key, NEW e, HeadOK(key, e)
  PROVE  ~Complete(e)
<1> SUFFICES ASSUME Complete(e) PROVE FALSE
  OBVIOUS
<1>1. /\ DOMAIN sent \subseteq Traffic /\ snap \in Nat /\ Mtu \in Nat
      /\ e.total \in Nat /\ e.total >= Mtu /\ \A b \in 1..e.total : Holding(e, b) # {}
  BY CaptureAssumption DEF TypesOK, HeadOK, Complete
<1>2. PICK b : b = snap + 1
  OBVIOUS
<1>3. b \in 1..Mtu /\ b \in 1..e.total /\ ~(b <= snap)
  BY <1>1, <1>2
<1>4. PICK k : k \in Holding(e, b)
  BY <1>1, <1>3
<1>5. k \in DOMAIN e.chunks
  BY <1>4 DEF Holding
<1>6. PICK m, j :
        /\ m \in DOMAIN sent /\ j \in 1..FragmentCount(m)
        /\ e.chunks[k] = Piece(m, j) /\ Fragmented(m)
  BY <1>5 DEF HeadOK
<1>7. m \in Traffic /\ FragmentCount(m) > 1
  BY <1>1, <1>6 DEF Fragmented
<1> QED
  BY <1>1, <1>3, <1>4, <1>5, <1>6, <1>7, FirstPieceHolds

LEMMA PieceWithin ==
  ASSUME NEW m \in Traffic, NEW j \in 1..FragmentCount(m)
  PROVE  At(j) \in Nat /\ BodyEnd(m, j) \in Int /\ BodyEnd(m, j) <= Size(m)
<1>1. At(j) + 1 \in 1..Size(m) /\ Size(m) \in Nat
  BY FirstByte, BodyIsBytes
<1>2. At(j) \in Int /\ BodyEnd(m, j) \in Int
  BY EndOfPiece
<1>3. At(j) \in Nat
  BY <1>1, <1>2
<1>4. FragmentCount(m) \in Nat /\ j \in Nat
  BY CountOfFragments
<1>5. CASE j = FragmentCount(m)
  <2>1. BodyEnd(m, j) = Size(m)
    BY <1>4, <1>5 DEF BodyEnd
  <2> QED
    BY <1>1, <1>2, <1>3, <2>1
<1>6. CASE j # FragmentCount(m)
  <2>1. j + 1 \in 1..FragmentCount(m) /\ j + 1 \in Int /\ j < FragmentCount(m)
    BY <1>4, <1>6
  <2>2. PICK i : i = j + 1
    OBVIOUS
  <2>3. At(i) + 1 \in 1..Size(m)
    BY <2>1, <2>2, FirstByte
  <2>4. At(j) + Mtu <= At(i) /\ At(i) \in Int /\ Mtu * j = At(j) + Mtu
    BY <1>4, <2>1, <2>2, Offsets
  <2>5. BodyEnd(m, j) = Mtu * j
    BY <2>1 DEF BodyEnd
  <2>6. Mtu \in Nat
    BY CaptureAssumption
  <2> QED
    BY <1>1, <1>2, <1>3, <2>3, <2>4, <2>5, <2>6
<1> QED
  BY <1>5, <1>6

LEMMA PieceInBytes ==
  ASSUME NEW m \in Traffic, NEW j \in 1..FragmentCount(m), snap \in Nat,
         NEW i \in DOMAIN Fragment(m, j).body
  PROVE  Fragment(m, j).body[i] \in Byte
<1>1. PICK n, k, b : /\ n = BodyEnd(m, j) - At(j) /\ k = (IF n < snap THEN n ELSE snap)
                     /\ b = Fragment(m, j).body
  OBVIOUS
<1>2. n \in 1..Mtu /\ k \in Nat /\ k <= n /\ DOMAIN b = 1..k
      /\ \A l \in 1..k : b[l] = Body[m][At(j) + l]
  BY <1>1, FragmentHead
<1>3. /\ At(j) \in Nat /\ BodyEnd(m, j) \in Int /\ BodyEnd(m, j) <= Size(m)
      /\ Mtu \in Nat /\ Size(m) \in Nat
  BY PieceWithin, CaptureAssumption, BodyIsBytes
<1>4. i \in 1..k
  BY <1>1, <1>2
<1>5. At(j) + i \in 1..Size(m)
  BY <1>1, <1>2, <1>3, <1>4
<1>6. Body[m] \in Seq(Byte)
  BY BodyInBytes, Zenon DEF Byte
<1>7. \A l \in 1..Size(m) : Body[m][l] \in Byte
  <2>1. PICK w : w = Body[m]
    OBVIOUS
  <2>2. \A l \in 1..Len(w) : w[l] \in Byte
    <3> HIDE DEF Byte
    <3> QED
      BY <1>6, <2>1
  <2> QED
    BY <2>1, <2>2 DEF Size
<1> QED
  BY <1>1, <1>2, <1>4, <1>5, <1>7

LEMMA AssembledInBytes ==
  ASSUME TypesOK, NEW key, NEW e, HeadOK(key, e), Complete(e)
  PROVE  Assembled(e) \in Seq(Byte) /\ Len(Assembled(e)) = e.total
<1>1. /\ DOMAIN sent \subseteq Traffic /\ snap \in Nat /\ IsSequence(e.chunks)
      /\ e.total \in Nat /\ \A b \in 1..e.total : Holding(e, b) # {}
  BY CaptureAssumption DEF TypesOK, HeadOK, Complete
<1>2. Len(e.chunks) \in Nat /\ DOMAIN e.chunks = 1..Len(e.chunks)
  BY <1>1, Appended
<1>3. ASSUME NEW b \in 1..e.total PROVE Kept(e, b).bytes[b - Kept(e, b).off] \in Byte
  <2>1. PICK k : k = Max(Holding(e, b))
    OBVIOUS
  <2>2. k \in Holding(e, b)
    <3>1. Holding(e, b) # {}
      BY <1>1
    <3>2. Holding(e, b) \subseteq 1..Len(e.chunks)
      BY <1>2 DEF Holding
    <3> QED
      BY <1>2, <2>1, <3>1, <3>2, MaxIsThere
  <2>3. k \in DOMAIN e.chunks /\ Kept(e, b) = e.chunks[k]
        /\ b - e.chunks[k].off \in DOMAIN e.chunks[k].bytes
    BY <2>1, <2>2 DEF Holding, Kept
  <2>4. PICK m, j : /\ m \in DOMAIN sent /\ j \in 1..FragmentCount(m)
                    /\ e.chunks[k] = Piece(m, j)
    BY <2>3 DEF HeadOK
  <2>5. e.chunks[k].bytes = Fragment(m, j).body
    BY <2>4 DEF Piece
  <2>6. m \in Traffic
    BY <1>1, <2>4
  <2>7. PICK i : i = b - e.chunks[k].off
    OBVIOUS
  <2>8. Fragment(m, j).body[i] \in Byte
    BY <1>1, <2>3, <2>4, <2>5, <2>6, <2>7, PieceInBytes
  <2> QED
    BY <2>3, <2>5, <2>7, <2>8
<1>4. PICK n : n = e.total
  OBVIOUS
<1>5. Assembled(e) \in [1..n -> Byte]
  <2> HIDE DEF Byte
  <2> QED
    BY <1>3, <1>4 DEF Assembled
<1> QED
  BY <1>1, <1>4, <1>5, BufferIs

-----------------------------------------------------------------------------
(* What each frame adds to what waits and to what was decoded. *)
LEMMA HeadGrows ==
  ASSUME TypesOK, HeadsOK, NEW m \in DOMAIN sent, NEW j \in 1..FragmentCount(m),
         Fragmented(m), NEW ts \in Nat
  PROVE  LET f == Fragment(m, j)
         IN  Key(f) = KeyOf(m) /\ HeadOK(KeyOf(m), Entry(pending, f, ts))
<1> DEFINE key == KeyOf(m)
           old == OldEntry(key, ts)
           e == Entry(pending, Fragment(m, j), ts)
<1>1. m \in Traffic /\ snap \in Nat /\ Mtu \in Nat
  BY CaptureAssumption DEF TypesOK
<1>2. HeadOK(key, old)
  <2>1. CASE key \in DOMAIN pending
    BY <2>1 DEF HeadsOK, OldEntry
  <2>2. CASE key \notin DOMAIN pending
    <3>1. old = NoEntry(ts)
      BY <2>2, Zenon DEF OldEntry
    <3>2. old.chunks = <<>> /\ old.total = Unknown /\ old.ts = ts /\ IsEntry(old)
      BY <3>1 DEF NoEntry, IsEntry
    <3> HIDE DEF old
    <3>3. IsSequence(old.chunks)
      BY <3>2, EmptyIsSequence
    <3>4. DOMAIN old.chunks = {}
      BY <3>2
    <3> QED
      BY <3>2, <3>3, <3>4 DEF HeadOK
  <2> QED
    BY <2>1, <2>2
<1>3. /\ Key(Fragment(m, j)) = key /\ IsEntry(e) /\ e.ts = old.ts
      /\ e.chunks = Append(old.chunks, Piece(m, j))
      /\ e.total = IF j = FragmentCount(m) THEN At(j) + Len(Fragment(m, j).body) ELSE old.total
  <2>1. IsEntry(OldEntry(KeyOf(m), ts))
    BY <1>2 DEF HeadOK
  <2> QED
    BY <1>1, <2>1, EntryFrom
<1> HIDE DEF old, e, key
<1>4. e.ts \in Nat /\ IsSequence(old.chunks) /\ IsSequence(e.chunks)
  <2>1. e.ts \in Nat /\ IsSequence(old.chunks)
    BY <1>2, <1>3 DEF HeadOK
  <2> QED
    BY <1>3, <2>1, Appended
<1>5. e.total = Unknown \/ (e.total \in Nat /\ e.total >= Mtu)
  <2>1. CASE j = FragmentCount(m)
    <3>1. j \in Int /\ 1 < j
      BY <1>1, <2>1, CountOfFragments DEF Fragmented
    <3>2. At(1) + Mtu <= At(j) /\ At(1) = 0 /\ At(j) \in Int
      BY <3>1, Offsets
    <3>3. Len(Fragment(m, j).body) \in Nat
      <4>1. PICK b, n : b = Fragment(m, j).body /\ n = BodyEnd(m, j) - At(j)
        OBVIOUS
      <4>2. Len(b) = (IF n < snap THEN n ELSE snap)
            /\ (IF n < snap THEN n ELSE snap) \in Nat
        BY <1>1, <4>1, FragmentHead
      <4> QED
        BY <4>1, <4>2
    <3>4. e.total = At(j) + Len(Fragment(m, j).body)
      BY <1>3, <2>1
    <3> QED
      BY <1>1, <3>2, <3>3, <3>4
  <2>2. CASE j # FragmentCount(m)
    BY <1>2, <1>3, <2>2 DEF HeadOK
  <2> QED
    BY <2>1, <2>2
<1>6. ASSUME NEW k \in DOMAIN e.chunks
      PROVE  \E x \in DOMAIN sent : \E i \in 1..FragmentCount(x) :
               e.chunks[k] = Piece(x, i) /\ Fragmented(x) /\ KeyOf(x) = key
  <2>1. PICK w : w = old.chunks
    OBVIOUS
  <2>2. /\ IsSequence(w) /\ e.chunks = Append(w, Piece(m, j))
        /\ \A l \in DOMAIN w : \E x \in DOMAIN sent : \E i \in 1..FragmentCount(x) :
             w[l] = Piece(x, i) /\ Fragmented(x) /\ KeyOf(x) = key
    BY <1>2, <1>3, <1>4, <2>1 DEF HeadOK
  <2>3. /\ Len(w) \in Nat /\ DOMAIN w = 1..Len(w) /\ DOMAIN e.chunks = 1..(Len(w) + 1)
        /\ e.chunks[Len(w) + 1] = Piece(m, j) /\ \A l \in 1..Len(w) : e.chunks[l] = w[l]
    BY <2>2, Appended
  <2>4. CASE k = Len(w) + 1
    BY <2>3, <2>4 DEF key
  <2>5. CASE k # Len(w) + 1
    <3>1. k \in DOMAIN w /\ e.chunks[k] = w[k]
      BY <2>3, <2>5
    <3> QED
      BY <2>2, <3>1
  <2> QED
    BY <2>4, <2>5
<1> QED
  BY <1>3, <1>4, <1>5, <1>6 DEF HeadOK, key, e

LEMMA HeadStays ==
  ASSUME UNCHANGED <<sent, snap>>, NEW key, NEW e, HeadOK(key, e)
  PROVE  HeadOK(key, e)'
<1>1. \A x : KeyOf(x)' = KeyOf(x) /\ \A i : Piece(x, i)' = Piece(x, i)
  BY PieceStays
<1>2. sent' = sent
  OBVIOUS
<1>3. \A k \in DOMAIN e.chunks :
        \E x \in DOMAIN sent' : \E i \in 1..FragmentCount(x) :
          e.chunks[k] = Piece(x, i)' /\ Fragmented(x) /\ KeyOf(x)' = key
  BY <1>1, <1>2 DEF HeadOK
<1> QED
  BY <1>3 DEF HeadOK

(* What is read of a whole datagram, clipped or not. *)
ReadsWhole(u, ts, of, m) ==
  \/ u = <<>>
  \/ \E d : /\ u = <<d>> /\ d.ts = ts /\ d.of = of /\ HeaderOf(d, m) /\ KindOf(d, m)
            /\ CutOrSame(d.packet, Parse(Payload(m)))

LEMMA WholeReads ==
  ASSUME snap \in Nat, NEW m \in Traffic, FragmentCount(m) = 1, NEW ts, NEW fragmented, NEW of,
         NEW f, f = Fragment(m, 1)
  PROVE  ReadsWhole(ParseUdp(ts, f, f.body, fragmented, of), ts, of, m)
<1>1. PICK b, w : b = f.body /\ w = Body[m]
  OBVIOUS
<1>2. PICK k : k = IF Size(m) < snap THEN Size(m) ELSE snap
  OBVIOUS
<1>3. /\ k \in Nat /\ k <= Size(m) /\ Len(b) = k /\ DOMAIN b = 1..k
      /\ IsSequence(b) /\ \A i \in 1..k : b[i] = w[i]
  <2>1. BodyEnd(m, 1) = Size(m) /\ At(1) = 0 /\ Size(m) \in Nat /\ 1 \in 1..FragmentCount(m)
    BY BodyIsBytes, Offsets DEF BodyEnd
  <2>2. PICK n : n = BodyEnd(m, 1) - At(1)
    OBVIOUS
  <2>3. n = Size(m)
    BY <2>1, <2>2
  <2>4. LET c == IF n < snap THEN n ELSE snap
        IN  /\ c \in Nat /\ c <= n /\ \E S : b \in Seq(S)
            /\ Len(b) = c /\ DOMAIN b = 1..c /\ \A i \in 1..c : b[i] = w[At(1) + i]
    BY <1>1, <2>1, <2>2, FragmentHead
  <2>5. \A i \in 1..k : At(1) + i = i
    BY <2>1
  <2>6. IsSequence(b)
    BY <2>4, Zenon DEF IsSequence
  <2> QED
    BY <1>2, <2>3, <2>4, <2>5, <2>6
<1>4. w \in Seq(Byte) /\ Len(w) = Size(m) /\ Size(m) \in Nat /\ DOMAIN w = 1..Size(m)
      /\ \A i \in 1..Size(m) : w[i] \in Byte
  <2>1. w \in Seq(Byte)
    BY <1>1, BodyInBytes, Zenon DEF Byte
  <2>2. Len(w) = Size(m)
    BY <1>1 DEF Size
  <2> HIDE DEF Byte
  <2> QED
    BY <2>1, <2>2
<1>5. b \in Seq(Byte)
  <2>1. PICK S : b \in Seq(S)
    BY <1>3 DEF IsSequence
  <2>2. \A i \in 1..k : b[i] \in Byte
    BY <1>3, <1>4
  <2> HIDE DEF Byte
  <2>3. b \in [1..k -> Byte]
    BY <1>3, <2>1, <2>2
  <2> QED
    BY <1>3, <2>3, BufferIs
<1>6. PICK u : u = ParseUdp(ts, f, b, fragmented, of)
  OBVIOUS
<1>7. CASE Len(b) < 8
  <2>1. u = <<>>
    BY <1>6, <1>7, Zenon DEF ParseUdp
  <2> QED
    BY <1>1, <1>6, <2>1, Zenon DEF ReadsWhole
<1>8. CASE ~(Len(b) < 8)
  <2>1. Len(b) >= 8 /\ Len(b) \in Nat /\ Len(b) <= Len(w)
    BY <1>3, <1>4, <1>8
  <2>2. BeginsAs(b, m)
    BY <1>1, <1>3, <1>5, <2>1 DEF BeginsAs
  <2>3. f.src = m.src /\ f.dst = m.dst
    BY DEF Fragment
  <2>4. ReadsHead(u, ts, of, m, b)
    BY <1>6, <2>2, <2>3, HeadReads
  <2>5. PICK d : /\ u = <<d>> /\ d.ts = ts /\ d.of = of /\ HeaderOf(d, m) /\ KindOf(d, m)
                 /\ d.packet = Parse(SubSeq(b, 9, UdpEnd(b)))
    BY <2>4, Zenon DEF ReadsHead
  <2>6. PICK s, p, end : s = SubSeq(b, 9, UdpEnd(b)) /\ p = Payload(m) /\ end = UdpEnd(b)
    OBVIOUS
  <2>7. /\ end \in 8..Len(b) /\ s \in Seq(Byte) /\ Len(s) = end - 8
        /\ \A i \in 1..(end - 8) : s[i] = b[8 + i]
    BY <1>5, <2>1, <2>6, PayloadRead
  <2>8. p \in Seq(Byte)
    BY <2>6, PayloadInBytes, Zenon DEF Payload, Byte
  <2>9. Len(w) = 8 + Len(p) /\ SubSeq(w, 9, Len(w)) = p /\ Len(p) \in Nat
    <3>1. Len(p) \in Nat
      BY <2>8, SequenceIs, Zenon
    <3> QED
      BY <1>1, <2>6, <3>1, UdpIs, Zenon
  <2>10. \A i \in 1..Len(p) : p[i] = w[8 + i]
    <3>1. PICK n : n = Len(p)
      OBVIOUS
    <3>2. 8 \in Nat /\ n \in Nat /\ Holds(w, 8, n) /\ 8 + 1 = 9
      BY <2>9, <3>1 DEF Holds
    <3>3. \A i \in 1..n : Slice(w, 8, n)[i] = w[8 + i]
      BY <1>4, <3>2, SliceIs
    <3>4. Slice(w, 8, n) = p
      BY <2>9, <3>1, <3>2, Zenon DEF Slice
    <3> QED
      BY <3>1, <3>3, <3>4
  <2>11. Len(s) \in Nat /\ Len(s) <= Len(p)
    BY <2>1, <2>7, <2>9
  <2>12. \A i \in 1..Len(s) : s[i] = p[i]
    <3> SUFFICES ASSUME NEW i \in 1..Len(s) PROVE s[i] = p[i]
      OBVIOUS
    <3>1. i \in 1..(end - 8) /\ i \in 1..Len(p) /\ 8 + i \in 1..k
      BY <1>3, <2>1, <2>7, <2>11, <2>9
    <3> QED
      BY <1>3, <2>7, <2>10, <3>1
  <2>13. Begins(s, p)
    BY <2>7, <2>8, <2>11, <2>12, Zenon DEF Begins
  <2>14. CutOrSame(Parse(s), Parse(p))
    BY <2>13, ParseCut, Zenon
  <2> QED
    BY <1>1, <1>6, <2>5, <2>6, <2>14, Zenon DEF ReadsWhole
<1> QED
  BY <1>7, <1>8

(* Where what was decoded comes from: the addresses, ports and kind of one    *)
(* datagram that was sent, all of it if frames are cut short.                 *)
ComesFrom(d, m) ==
  /\ HeaderOf(d, m) /\ KindOf(d, m)
  /\ snap < Mtu => d.of = {m} /\ CutOrSame(d.packet, Parse(Payload(m)))
OutOK == \A d \in Range(out) : d.ts \in Nat /\ \E m \in DOMAIN sent : ComesFrom(d, m)
AddsFrom(m, d) == out' = Append(out, d) /\ d.ts \in Nat /\ ComesFrom(d, m)

LEMMA WholeDecodes ==
  ASSUME TypesOK, NEW m \in DOMAIN sent, NEW ts \in Nat, CaptureWhole(m, ts)
  PROVE  out' = out \/ \E d : AddsFrom(m, d)
<1>1. m \in Traffic /\ snap \in Nat /\ IsSequence(out)
  BY DEF TypesOK
<1>2. PICK f, u, of, fr : /\ f = Fragment(m, 1) /\ of = {m} /\ fr = FALSE
                          /\ u = ParseUdp(ts, f, f.body, fr, of)
  OBVIOUS
<1>3. FragmentCount(m) = 1 /\ out' = out \o u
  BY <1>2, Zenon DEF CaptureWhole
<1>4. ReadsWhole(u, ts, of, m)
  <2>1. ReadsWhole(ParseUdp(ts, f, f.body, fr, of), ts, of, m)
    BY <1>1, <1>2, <1>3, WholeReads
  <2> QED
    BY <1>2, <2>1, Zenon
<1>5. CASE u = <<>>
  <2>1. PICK S : out \in Seq(S)
    BY <1>1 DEF IsSequence
  <2> QED
    BY <1>3, <1>5, <2>1
<1>6. ASSUME NEW d, u = <<d>>, d.ts = ts, d.of = of, HeaderOf(d, m), KindOf(d, m),
             CutOrSame(d.packet, Parse(Payload(m)))
      PROVE  AddsFrom(m, d)
  <2>1. out' = Append(out, d)
    BY <1>1, <1>3, <1>6, AppendsOne
  <2> QED
    BY <1>2, <1>6, <2>1, Zenon DEF AddsFrom, ComesFrom
<1> QED
  BY <1>4, <1>5, <1>6, Zenon DEF ReadsWhole

LEMMA FragmentDecodes ==
  ASSUME TypesOK, HeadsOK, NEW m \in DOMAIN sent, NEW j \in 1..FragmentCount(m), NEW ts \in Nat,
         CaptureFragment(m, j, ts)
  PROVE  /\ \A key \in DOMAIN pending' : HeadOK(key, pending'[key])
         /\ out' = out \/ \E x \in DOMAIN sent : \E d : AddsFrom(x, d)
<1>1. PICK f, e, key : f = Fragment(m, j) /\ e = Entry(pending, f, ts) /\ key = KeyOf(m)
  OBVIOUS
<1>2. Fragmented(m) /\ pending' = Remaining(pending, f, e)
  BY <1>1, Zenon DEF CaptureFragment, Fragmented
<1>3. Key(f) = key /\ HeadOK(key, e)
  <2>1. Key(Fragment(m, j)) = KeyOf(m) /\ HeadOK(KeyOf(m), Entry(pending, Fragment(m, j), ts))
    BY <1>2, HeadGrows
  <2> QED
    BY <1>1, <2>1, Zenon
<1>4. \A k \in DOMAIN pending' : HeadOK(k, pending'[k])
  <2>1. \A k \in DOMAIN pending' : \/ k = key /\ pending'[k] = e
                                   \/ k \in DOMAIN pending /\ pending'[k] = pending[k]
    BY <1>2, <1>3 DEF Remaining
  <2> SUFFICES ASSUME NEW k \in DOMAIN pending' PROVE HeadOK(k, pending'[k])
    OBVIOUS
  <2>2. CASE k = key /\ pending'[k] = e
    BY <1>3, <2>2, Zenon
  <2>3. CASE k \in DOMAIN pending /\ pending'[k] = pending[k]
    BY <2>3, Zenon DEF HeadsOK
  <2> QED
    BY <2>1, <2>2, <2>3
<1>5. CASE ~Complete(e)
  <2>1. out' = out
    BY <1>1, <1>5, Zenon DEF CaptureFragment
  <2> QED
    BY <1>4, <2>1
<1>6. CASE Complete(e)
  <2>1. PICK b, of, t, fr : b = Assembled(e) /\ of = Origins(e) /\ t = e.ts /\ fr = TRUE
    OBVIOUS
  <2>2. out' = out \o ParseUdp(t, f, b, fr, of)
    BY <1>1, <1>6, <2>1, Zenon DEF CaptureFragment
  <2>3. ~(snap < Mtu)
    BY <1>3, <1>6, CutShortStays
  <2>4. PICK x \in DOMAIN sent : /\ KeyOf(x) = key
                                 /\ \A i \in 1..9 : b[i] = Body[x][i]
    BY <1>3, <1>6, <2>1, HeadIsOfOne
  <2>5. x \in Traffic /\ IsSequence(out)
    BY DEF TypesOK
  <2>6. f.src = x.src /\ f.dst = x.dst
    <3>1. f.src = m.src /\ f.dst = m.dst
      BY <1>1 DEF Fragment
    <3>2. x.src = m.src /\ x.dst = m.dst
      BY <1>1, <2>4 DEF KeyOf
    <3> QED
      BY <3>1, <3>2
  <2>7. b \in Seq(Byte) /\ Len(b) = e.total
    BY <1>3, <1>6, <2>1, AssembledInBytes
  <2>8. e.total \in Nat /\ e.total >= 9
    BY <1>3, <1>6, CaptureAssumption DEF HeadOK, Complete
  <2>9. BeginsAs(b, x)
    <3>1. \A i \in 1..Len(b) : i <= 9 => i \in 1..9
      OBVIOUS
    <3>2. Len(b) >= 8
      BY <2>7, <2>8
    <3>3. \A i \in 1..9 : b[i] = Body[x][i]
      BY <2>4
    <3> QED
      BY <2>7, <3>1, <3>2, <3>3, Zenon DEF BeginsAs
  <2>10. ReadsHead(ParseUdp(t, f, b, fr, of), t, of, x, b)
    BY <2>5, <2>6, <2>9, HeadReads
  <2>11. PICK d : /\ ParseUdp(t, f, b, fr, of) = <<d>> /\ d.ts = t
                  /\ HeaderOf(d, x) /\ KindOf(d, x)
    BY <2>10, Zenon DEF ReadsHead
  <2>12. out' = Append(out, d)
    BY <2>2, <2>5, <2>11, AppendsOne
  <2>13. t \in Nat
    BY <1>3, <2>1 DEF HeadOK
  <2>14. AddsFrom(x, d)
    BY <2>3, <2>11, <2>12, <2>13, Zenon DEF AddsFrom, ComesFrom
  <2> QED
    BY <1>4, <2>14
<1> QED
  BY <1>5, <1>6

LEMMA StepDecodes ==
  ASSUME TypesOK, HeadsOK, CaptureNext
  PROVE  /\ HeadsOK' /\ UNCHANGED <<sent, snap>>
         /\ out' = out \/ \E m \in DOMAIN sent : \E d : AddsFrom(m, d)
<1>1. PICK m \in DOMAIN sent : \E j \in 1..FragmentCount(m) : CaptureFrame(m, j)
  BY DEF CaptureNext
<1>2. PICK j \in 1..FragmentCount(m) : CaptureFrame(m, j)
  BY <1>1
<1>3. UNCHANGED <<sent, snap>>
  BY <1>2 DEF CaptureFrame
<1>4. PICK ts : ts = Len(captured) + 1
  OBVIOUS
<1>5. ts \in Nat
  <2>1. Len(captured) \in Nat
    BY Appended DEF TypesOK
  <2> QED
    BY <1>4, <2>1
<1>6. CaptureWhole(m, ts) \/ CaptureFragment(m, j, ts) \/ CaptureIgnored(m)
  BY <1>2, <1>4, Zenon DEF CaptureFrame
<1>7. /\ \A key \in DOMAIN pending' : HeadOK(key, pending'[key])
      /\ out' = out \/ \E x \in DOMAIN sent : \E d : AddsFrom(x, d)
  <2>1. CASE CaptureWhole(m, ts)
    <3>1. pending' = pending
      BY <2>1 DEF CaptureWhole
    <3>2. out' = out \/ \E d : AddsFrom(m, d)
      BY <1>5, <2>1, WholeDecodes
    <3> QED
      BY <3>1, <3>2, Zenon DEF HeadsOK
  <2>2. CASE CaptureFragment(m, j, ts)
    BY <1>5, <2>2, FragmentDecodes
  <2>3. CASE CaptureIgnored(m)
    <3>1. pending' = pending /\ out' = out
      BY <2>3 DEF CaptureIgnored
    <3> QED
      BY <3>1, Zenon DEF HeadsOK
  <2> QED
    BY <1>6, <2>1, <2>2, <2>3
<1>8. HeadsOK'
  <2> SUFFICES ASSUME NEW key \in DOMAIN pending', NEW c, c = pending'[key]
               PROVE  HeadOK(key, c)'
    BY Zenon DEF HeadsOK
  <2>1. HeadOK(key, c)
    BY <1>7, Zenon
  <2> QED
    BY <1>3, <2>1, HeadStays
<1> QED
  BY <1>3, <1>7, <1>8

SourceInv == TypesOK /\ HeadsOK /\ OutOK

LEMMA SourceStart == CaptureInit => SourceInv
<1> SUFFICES ASSUME CaptureInit PROVE SourceInv
  OBVIOUS
<1>1. TypesOK
  BY BaseStart DEF BaseInv
<1>2. HeadsOK /\ OutOK
  BY DEF CaptureInit, HeadsOK, OutOK, Range
<1> QED
  BY <1>1, <1>2 DEF SourceInv

LEMMA ComesStill ==
  ASSUME UNCHANGED <<sent, snap>>, NEW d, NEW m, ComesFrom(d, m)
  PROVE  ComesFrom(d, m)'
  BY DEF ComesFrom, HeaderOf, KindOf, Payload

LEMMA SourceStep ==
  SourceInv /\ TypesOK' /\ [CaptureNext]_captureVars => SourceInv'
<1> SUFFICES ASSUME TypesOK, HeadsOK, OutOK, TypesOK', [CaptureNext]_captureVars
             PROVE  HeadsOK' /\ OutOK'
  BY DEF SourceInv
<1>1. CASE CaptureNext
  <2>1. /\ HeadsOK' /\ UNCHANGED <<sent, snap>>
        /\ out' = out \/ \E m \in DOMAIN sent : \E d : AddsFrom(m, d)
    BY <1>1, StepDecodes
  <2>2. \A d \in Range(out') : d.ts \in Nat /\ \E m \in DOMAIN sent : ComesFrom(d, m)
    <3>1. CASE out' = out
      BY <3>1, Zenon DEF OutOK
    <3>2. CASE \E m \in DOMAIN sent : \E d : AddsFrom(m, d)
      <4>1. PICK m \in DOMAIN sent : \E d : AddsFrom(m, d)
        BY <3>2
      <4>2. PICK d : AddsFrom(m, d)
        BY <4>1
      <4>3. /\ Len(out) \in Nat /\ DOMAIN out = 1..Len(out)
            /\ DOMAIN out' = 1..(Len(out) + 1)
            /\ out'[Len(out) + 1] = d /\ \A k \in 1..Len(out) : out'[k] = out[k]
        BY <4>2, Appended DEF TypesOK, AddsFrom
      <4>4. \A x \in Range(out') : x \in Range(out) \/ x = d
        BY <4>3 DEF Range
      <4> QED
        BY <4>2, <4>4, Zenon DEF OutOK, AddsFrom
    <3> QED
      BY <2>1, <3>1, <3>2
  <2>3. \A d \in Range(out') : d.ts \in Nat /\ \E m \in DOMAIN sent' : ComesFrom(d, m)'
    BY <2>1, <2>2, ComesStill
  <2> QED
    BY <2>1, <2>3, Zenon DEF OutOK, Range
<1>2. CASE UNCHANGED captureVars
  <2>1. UNCHANGED <<sent, snap, pending, out>>
    BY <1>2 DEF captureVars
  <2>2. HeadsOK'
    <3> SUFFICES ASSUME NEW key \in DOMAIN pending', NEW c, c = pending'[key]
                 PROVE  HeadOK(key, c)'
      BY Zenon DEF HeadsOK
    <3>1. HeadOK(key, c)
      BY <2>1, Zenon DEF HeadsOK
    <3> QED
      BY <2>1, <3>1, HeadStays
  <2>3. \A d \in Range(out') : d.ts \in Nat /\ \E m \in DOMAIN sent' : ComesFrom(d, m)'
    BY <2>1, ComesStill DEF OutOK
  <2> QED
    BY <2>2, <2>3, Zenon DEF OutOK, Range
<1> QED
  BY <1>1, <1>2

LEMMA SourceHolds == CaptureSpec => [](BaseInv /\ SourceInv)
<1>1. BaseInv => TypesOK
  BY DEF BaseInv
<1>2. BaseInv' => TypesOK'
  BY DEF BaseInv
<1>3. (BaseInv /\ SourceInv) /\ [CaptureNext]_captureVars => (BaseInv /\ SourceInv)'
  BY <1>2, BaseStep, SourceStep
<1> QED
  BY <1>3, BaseStart, SourceStart, PTL DEF CaptureSpec

(* What the capture holds of a datagram, in any order, doubled or cut short,  *)
(* is read as that datagram with its addresses, ports and packet, or, cut     *)
(* short, as nothing, never as another packet: for all packets whose parts    *)
(* fit their length prefixes (net.rs, Reassembler, parse_udp; packets/).      *)
THEOREM DecodedStaysSent ==
  ASSUME \A m \in Traffic : Encodable(m.packet)
  PROVE  CaptureSpec => []DecodedIsSent
<1>1. ASSUME NEW m \in Traffic PROVE Parse(Payload(m)) = m.packet
  <2>1. IsPacket(m.packet) /\ Encodable(m.packet)
    BY CaptureAssumption
  <2>2. Survives(m.packet)
    BY <2>1, PacketSurvives, Zenon
  <2> QED
    BY <2>1, <2>2, Zenon DEF Survives, Payload
<1>2. BaseInv /\ SourceInv /\ DecodedInFull => DecodedIsSent
  <2> SUFFICES ASSUME TypesOK, OutOK, DecodedInFull,
                      NEW d \in Range(out), NEW m \in DOMAIN sent, d.of = {m}
               PROVE  SentAs(d, m) \/ (snap < Mtu /\ d.packet = Undecodable)
    BY DEF SourceInv, BaseInv, DecodedIsSent
  <2>1. m \in Traffic /\ snap \in Nat /\ Mtu \in Nat
    BY CaptureAssumption DEF TypesOK
  <2>2. Parse(Payload(m)) = m.packet
    BY <1>1, <2>1
  <2>3. CASE snap >= Mtu
    <3>1. Faithful(d, m)
      BY <2>3 DEF DecodedInFull
    <3> QED
      BY <2>2, <3>1, Zenon DEF Faithful, SentAs
  <2>4. CASE snap < Mtu
    <3>1. PICK x \in DOMAIN sent : ComesFrom(d, x)
      BY DEF OutOK
    <3>2. d.of = {x}
      BY <2>4, <3>1, Zenon DEF ComesFrom
    <3>3. x = m
      BY <3>2
    <3> QED
      BY <2>2, <2>4, <3>1, <3>3, Zenon DEF ComesFrom, HeaderOf, SentAs, CutOrSame
  <2> QED
    BY <2>1, <2>3, <2>4
<1> QED
  BY <1>2, SourceHolds, ReassemblyIsExact, PTL

-----------------------------------------------------------------------------
(* The report: the datagrams it looks at are datagrams that were decoded. *)
Decodings(ds) ==
  /\ Len(ds) \in Nat /\ DOMAIN ds = 1..Len(ds)
  /\ \A i \in DOMAIN ds : ds[i] \in Range(out)

LEMMA RobocolIs ==
  ASSUME TypesOK, OutOK, NEW port
  PROVE  Decodings(Robocol(port))
<1> DEFINE K == OnPort(port)
           R == {p \in K \X K : \/ out[p[1]].ts < out[p[2]].ts
                                \/ (out[p[1]].ts = out[p[2]].ts /\ p[1] < p[2])}
           Pos(i) == Cardinality(Upto(K, i))
           N == Cardinality(K)
           ds == Robocol(port)
<1>1. Len(out) \in Nat /\ DOMAIN out = 1..Len(out)
  BY Appended DEF TypesOK
<1>2. K \subseteq 1..Len(out) /\ IsFiniteSet(K)
  <2>1. K \subseteq 1..Len(out)
    BY <1>1 DEF OnPort
  <2>2. IsFiniteSet(1..Len(out))
    BY <1>1, FS_Interval
  <2> HIDE DEF K
  <2> QED
    BY <2>1, <2>2, FS_Subset
<1>3. \A i \in K : i \in Nat /\ out[i].ts \in Nat
  <2>1. \A i \in K : i \in 1..Len(out) /\ out[i] \in Range(out)
    BY <1>1, <1>2 DEF Range
  <2> HIDE DEF K
  <2> QED
    BY <2>1 DEF OutOK
<1> HIDE DEF K
<1>4. \A j, i \in K : <<j, i>> \in R <=>
                       (out[j].ts < out[i].ts \/ (out[j].ts = out[i].ts /\ j < i))
  BY DEF R
<1> HIDE DEF R
<1> HIDE DEF R
<1>5. Orders(R, K)
  BY <1>3, <1>4 DEF Orders
<1>6. ASSUME NEW i \in K PROVE Pos(i) = RankIn(R, K, i) + 1 /\ i \in Upto(K, i)
  <2> DEFINE S == {l \in K : <<l, i>> \in R}
  <2>1. Upto(K, i) = S \cup {i} /\ i \notin S
    BY <1>3, <1>4 DEF Upto
  <2>2. IsFiniteSet(S)
    BY <1>2, FS_Subset
  <2>3. RankIn(R, K, i) = Cardinality(S)
    BY DEF RankIn
  <2> HIDE DEF S
  <2>4. Cardinality(S \cup {i}) = Cardinality(S) + 1
    BY <2>1, <2>2, FS_AddElement
  <2> QED
    BY <2>1, <2>3, <2>4
<1> HIDE DEF Pos
<1>7. N \in Nat /\ \A n \in 0..(N - 1) : \E i \in K : RankIn(R, K, i) = n
  <2>1. IsFiniteSet(K) /\ Orders(R, K)
    BY <1>2, <1>5
  <2> HIDE DEF ds
  <2>2. /\ N \in Nat
        /\ \A k \in K : RankIn(R, K, k) \in 0..(N - 1)
        /\ \A k, l \in K : RankIn(R, K, k) = RankIn(R, K, l) => k = l
        /\ \A i \in 0..(N - 1) : \E k \in K : RankIn(R, K, k) = i
    BY <2>1, RanksAreAll
  <2> QED
    BY <2>2
<1> HIDE DEF N
<1>8. ASSUME NEW n \in 1..N PROVE (CHOOSE i \in K : Pos(i) = n) \in K
  <2>1. n - 1 \in 0..(N - 1) /\ (n - 1) + 1 = n
    BY <1>7
  <2>2. PICK i \in K : RankIn(R, K, i) = n - 1
    BY <1>7, <2>1
  <2>3. Pos(i) = n
    BY <1>6, <2>1, <2>2
  <2> QED
    BY <2>3
<1>9. ds = [n \in 1..N |-> out[CHOOSE i \in K : Pos(i) = n]]
  BY Zenon DEF Robocol, K, N, Pos
<1>10. \A n \in 1..N : ds[n] \in Range(out)
  <2>1. \A i \in K : out[i] \in Range(out)
    BY <1>1, <1>2 DEF Range
  <2> SUFFICES ASSUME NEW n \in 1..N PROVE ds[n] \in Range(out)
    OBVIOUS
  <2>2. PICK i : i = CHOOSE x \in K : Pos(x) = n
    OBVIOUS
  <2>3. i \in K
    BY <1>8, <2>2
  <2>4. ds[n] = out[i]
    BY <1>9, <2>2
  <2> QED
    BY <2>1, <2>3, <2>4
<1>11. Len(ds) = N /\ DOMAIN ds = 1..N
  <2>1. \A f : [n \in 1..N |-> f[n]] \in [1..N -> {f[n] : n \in 1..N}]
    OBVIOUS
  <2>2. DOMAIN ds = 1..N
    BY <1>9
  <2>3. ds \in [1..N -> Range(out)]
    BY <1>9, <1>10
  <2> HIDE DEF ds
  <2>4. ds \in Seq(Range(out))
    BY <1>7, <2>3
  <2> QED
    BY <1>7, <2>2, <2>4
<1> QED
  BY <1>7, <1>10, <1>11 DEF Decodings, ds

LEMMA TelemetryIsRc ==
  ASSUME TypesOK, OutOK, NEW d \in Range(out)
  PROVE  /\ IsTelemetry(d) => SentByRc(d)
         /\ SentByRc(d) => <<d.dst, d.dport>> \notin RcEndpoints
         /\ d.packet.kind = "command" => Len(d.packet.extra) \in Nat
<1>1. PICK m \in DOMAIN sent : HeaderOf(d, m) /\ KindOf(d, m)
  BY Zenon DEF OutOK, ComesFrom
<1>2. m \in Traffic
  BY DEF TypesOK
<1>3. /\ m.packet.kind = "telemetry" => <<m.src, m.sport>> \in RcEndpoints
      /\ <<m.src, m.sport>> \in RcEndpoints => <<m.dst, m.dport>> \notin RcEndpoints
  BY <1>2, ControllerAssumption
<1>4. d.src = m.src /\ d.sport = m.sport /\ d.dst = m.dst /\ d.dport = m.dport
  BY <1>1 DEF HeaderOf
<1>5. Source(d) = <<m.src, m.sport>> /\ <<d.dst, d.dport>> = <<m.dst, m.dport>>
  BY <1>4 DEF Source
<1> QED
  BY <1>1, <1>3, <1>5, Zenon DEF IsTelemetry, SentByRc, KindOf

LEMMA ControllersAreInferred ==
  ASSUME TypesOK, OutOK, NEW ds, Decodings(ds), \E d \in Range(ds) : IsTelemetry(d)
  PROVE  InferRc(ds) \subseteq RcEndpoints
<1>1. InferRc(ds) = {Source(d) : d \in {x \in Range(ds) : IsTelemetry(x)}}
  BY Zenon DEF InferRc
<1>2. \A d \in Range(ds) : d \in Range(out)
  BY DEF Decodings, Range
<1>3. \A d \in Range(ds) : IsTelemetry(d) => Source(d) \in RcEndpoints
  BY <1>2, TelemetryIsRc, Zenon DEF SentByRc
<1> QED
  BY <1>1, <1>3

LEMMA RowsAreOneSided ==
  ASSUME TypesOK, OutOK, NEW ds, Decodings(ds), InferRc(ds) \subseteq RcEndpoints,
         NEW row \in DOMAIN Commands(ds), row[2] # "unlabelled"
  PROVE  Commands(ds)[row] <=
           Cardinality({i \in Requests(ds) : /\ ds[i].packet.name = row[1]
                                             /\ SentByRc(ds[i]) <=> row[2] = "RC->DS"})
<1> DEFINE A == {i \in Requests(ds) : Row(ds, i) = row}
           B == {i \in Requests(ds) : /\ ds[i].packet.name = row[1]
                                      /\ SentByRc(ds[i]) <=> row[2] = "RC->DS"}
<1>1. Requests(ds) \subseteq 1..Len(ds) /\ IsFiniteSet(Requests(ds))
  <2>1. Requests(ds) \subseteq 1..Len(ds) /\ Len(ds) \in Nat
    BY DEF Requests, Decodings
  <2>2. IsFiniteSet(1..Len(ds))
    BY <2>1, FS_Interval
  <2> QED
    BY <2>1, <2>2, FS_Subset
<1>2. Commands(ds)[row] = Cardinality(A)
  BY DEF Commands
<1>3. ASSUME NEW i \in A PROVE i \in B
  <2>1. i \in Requests(ds) /\ Row(ds, i) = row /\ ds[i] \in Range(out)
    BY <1>1 DEF Decodings
  <2>2. PICK d : d = ds[i]
    OBVIOUS
  <2>3. row = <<d.packet.name, Direction(d, InferRc(ds))>>
    BY <2>1, <2>2, Zenon DEF Row
  <2>4. PICK x, n : x = Direction(d, InferRc(ds)) /\ n = d.packet.name
    OBVIOUS
  <2>5. row[1] = n /\ row[2] = x
    BY <2>3, <2>4
  <2>6. SentByRc(d) => <<d.dst, d.dport>> \notin RcEndpoints
    BY <2>1, <2>2, TelemetryIsRc
  <2>7. CASE Source(d) \in InferRc(ds)
    <3>1. x = "RC->DS" /\ SentByRc(d)
      BY <2>4, <2>7 DEF Direction, SentByRc
    <3> QED
      BY <2>1, <2>2, <2>4, <2>5, <3>1
  <2>8. CASE Source(d) \notin InferRc(ds)
    <3>1. x = "DS->RC" /\ <<d.dst, d.dport>> \in InferRc(ds)
      BY <2>4, <2>5, <2>8 DEF Direction
    <3>2. ~SentByRc(d) /\ x # "RC->DS"
      BY <2>6, <3>1
    <3> QED
      BY <2>1, <2>2, <2>4, <2>5, <3>2
  <2> QED
    BY <2>7, <2>8
<1>4. A \subseteq B /\ B \subseteq Requests(ds)
  BY <1>3
<1> HIDE DEF A, B
<1>5. Cardinality(A) <= Cardinality(B)
  BY <1>1, <1>4, FS_Subset
<1> QED
  BY <1>2, <1>5 DEF B

(* Once telemetry was seen, whoever is labelled a robot controller is one,    *)
(* and no row counts a command of the other side, whatever was mixed, doubled *)
(* or lost on the way (main.rs:101-168, report.rs).                           *)
THEOREM RcStaysTheController == CaptureSpec => []RcIsTheController
<1>1. BaseInv /\ SourceInv => RcIsTheController
  <2> SUFFICES ASSUME TypesOK, OutOK, NEW port \in Ports,
                      NEW ds, ds = Robocol(port), \E d \in Range(ds) : IsTelemetry(d)
               PROVE  /\ InferRc(ds) \subseteq RcEndpoints
                      /\ \A row \in DOMAIN Commands(ds) :
                           row[2] # "unlabelled" =>
                             Commands(ds)[row] <=
                               Cardinality({i \in Requests(ds) :
                                              /\ ds[i].packet.name = row[1]
                                              /\ SentByRc(ds[i]) <=> row[2] = "RC->DS"})
    BY Zenon DEF SourceInv, RcIsTheController
  <2>1. Decodings(ds)
    BY RobocolIs
  <2>2. InferRc(ds) \subseteq RcEndpoints
    BY <2>1, ControllersAreInferred
  <2> QED
    BY <2>1, <2>2, RowsAreOneSided
<1> QED
  BY <1>1, SourceHolds, PTL

-----------------------------------------------------------------------------
(* The longest of finitely many lists. *)
LEMMA HasBound ==
  ASSUME NEW N \in Nat, NEW f \in [1..N -> Nat]
  PROVE  \E b \in Nat : \A i \in 1..N : f[i] <= b
<1> DEFINE T == {n \in 0..N : \E b \in Nat : \A i \in 1..n : f[i] <= b}
<1>1. 0 \in T
  OBVIOUS
<1>2. ASSUME NEW n \in 0..N, n \in T, n < N PROVE n + 1 \in T
  <2>1. PICK b \in Nat : \A i \in 1..n : f[i] <= b
    BY <1>2
  <2>2. n + 1 \in 1..N /\ n + 1 \in 0..N
    BY <1>2
  <2>3. f[n + 1] \in Nat /\ \A i \in 1..N : f[i] \in Nat
    BY <2>2
  <2>4. PICK c : c = IF b < f[n + 1] THEN f[n + 1] ELSE b
    OBVIOUS
  <2>5. c \in Nat /\ b <= c /\ f[n + 1] <= c
    BY <2>3, <2>4
  <2>6. \A i \in 1..(n + 1) : f[i] <= c
    <3> SUFFICES ASSUME NEW i \in 1..(n + 1) PROVE f[i] <= c
      OBVIOUS
    <3>1. CASE i = n + 1
      BY <2>5, <3>1
    <3>2. CASE i # n + 1
      <4>1. i \in 1..n /\ i \in 1..N
        BY <1>2, <3>2
      <4> QED
        BY <2>1, <2>3, <2>5, <4>1
    <3> QED
      BY <3>1, <3>2
  <2> QED
    BY <2>2, <2>5, <2>6
<1>3. \A n \in 0..N : n \in T
  <2> HIDE DEF T
  <2> QED
    BY <1>1, <1>2, UpFrom
<1>4. N \in T
  <2> HIDE DEF T
  <2> QED
    BY <1>3
<1> QED
  BY <1>4

IsLargest(x, T) == x \in T /\ \A y \in T : y <= x

LEMMA MaxIsLargest ==
  ASSUME NEW B \in Nat, NEW T, T \subseteq 0..B, T # {}
  PROVE  IsLargest(Max(T), T)
<1> DEFINE U == {B - x : x \in T}
<1>1. U \subseteq Nat /\ U # {}
  <2>1. \A x \in T : B - x \in Nat
    OBVIOUS
  <2> QED
    BY <2>1
<1>2. PICK u \in U : \A v \in U : u <= v
  <2> HIDE DEF U
  <2> QED
    BY <1>1, LeastNat
<1>3. PICK x \in T : u = B - x
  BY <1>2
<1>4. \A y \in T : x >= y
  <2> SUFFICES ASSUME NEW y \in T PROVE x >= y
    OBVIOUS
  <2>1. B - y \in U
    OBVIOUS
  <2>2. u <= B - y
    BY <1>2, <2>1
  <2> HIDE DEF U
  <2> QED
    BY <1>3, <2>2
<1>5. Max(T) \in T /\ \A y \in T : Max(T) >= y
  BY <1>4 DEF Max
<1> QED
  BY <1>5 DEF IsLargest

(* Lists as the report collects them, and how long they are. *)
LEMMA ListsAreBounded ==
  ASSUME TypesOK, OutOK, NEW ds, Decodings(ds)
  PROVE  \E b \in Nat : \A l \in OpModeLists(ds) : Len(l) \in Nat /\ Len(l) <= b
<1> DEFINE X(i) == ds[i].packet.extra
           N == Len(ds)
           f == [i \in 1..N |-> IF i \in Requests(ds) THEN Len(X(i)) ELSE 0]
<1>1. N \in Nat /\ DOMAIN ds = 1..N /\ \A i \in 1..N : ds[i] \in Range(out)
  BY DEF Decodings
<1>2. \A i \in Requests(ds) : i \in 1..N /\ ds[i].packet.kind = "command"
  BY <1>1 DEF Requests
<1>3. \A i \in Requests(ds) : Len(X(i)) \in Nat
  BY <1>1, <1>2, TelemetryIsRc
<1> HIDE DEF X, N
<1>4. f \in [1..N -> Nat]
  BY <1>3
<1>5. PICK b \in Nat : \A i \in 1..N : f[i] <= b
  <2> HIDE DEF f
  <2> QED
    BY <1>1, <1>4, HasBound
<1>6. \A i \in Requests(ds) : Len(X(i)) <= b
  BY <1>2, <1>5
<1>7. \A l \in OpModeLists(ds) : \E i \in Requests(ds) : l = X(i)
  BY DEF OpModeLists, X
<1> QED
  BY <1>3, <1>5, <1>6, <1>7

Lost(l) == Len(ParseOpModeList(l)) < Len(l)

LEMMA AllOrNothing ==
  ASSUME NEW l, Len(l) \in Nat
  PROVE  /\ Len(ParseOpModeList(l)) \in Nat /\ Len(ParseOpModeList(l)) <= Len(l)
         /\ Lost(l) => Len(ParseOpModeList(l)) = 0 /\ Len(l) > 0
<1>1. ParseOpModeList(l) = l \/ ParseOpModeList(l) = <<>>
  BY Zenon DEF ParseOpModeList
<1>2. Len(<<>>) = 0
  OBVIOUS
<1>3. PICK n : n = Len(ParseOpModeList(l))
  OBVIOUS
<1>4. n = Len(l) \/ n = 0
  BY <1>1, <1>2, <1>3
<1> QED
  BY <1>3, <1>4 DEF Lost

LEMMA LossIsSeen ==
  ASSUME TypesOK, OutOK, NEW ds, Decodings(ds)
  PROVE  /\ ParseLoss(ds) => \E l \in OpModeLists(ds) : Lost(l)
         /\ OpModeLists(ds) # {} /\ (\A l \in OpModeLists(ds) : Lost(l)) => ParseLoss(ds)
<1> DEFINE L == OpModeLists(ds)
           J == {0} \cup {Len(l) : l \in L}
           P == {0} \cup {Len(ParseOpModeList(l)) : l \in L}
<1>1. PICK b \in Nat : \A l \in L : Len(l) \in Nat /\ Len(l) <= b
  BY ListsAreBounded
<1> HIDE DEF L
<1>2. ASSUME NEW l \in L
      PROVE  /\ Len(ParseOpModeList(l)) \in Nat /\ Len(ParseOpModeList(l)) <= Len(l)
             /\ Lost(l) => Len(ParseOpModeList(l)) = 0 /\ Len(l) > 0
  BY <1>1, AllOrNothing
<1>3. J \subseteq 0..b /\ J # {} /\ P \subseteq 0..b /\ P # {}
  BY <1>1, <1>2
<1>4. PICK j, p : j = Max(J) /\ p = Max(P)
  OBVIOUS
<1>5. IsLargest(j, J) /\ IsLargest(p, P)
  <2> HIDE DEF J, P
  <2> QED
    BY <1>3, <1>4, MaxIsLargest
<1>6. ParseLoss(ds) <=> p < j
  BY <1>4, Zenon DEF ParseLoss, ParsedEntries, JsonEntries, L
<1>7. ASSUME \A l \in L : ~Lost(l) PROVE ~(p < j)
  <2>1. \A l \in L : Len(ParseOpModeList(l)) = Len(l)
    BY <1>1, <1>2, <1>7 DEF Lost
  <2>2. J = P
    BY <2>1
  <2>3. j = p
    BY <1>4, <2>2
  <2>4. j \in Nat
    BY <1>3, <1>5 DEF IsLargest
  <2> QED
    BY <2>3, <2>4
<1>8. ASSUME NEW l \in L, \A k \in L : Lost(k) PROVE p < j
  <2>1. \A k \in L : Len(ParseOpModeList(k)) = 0
    BY <1>2, <1>8
  <2>2. p = 0
    <3>1. P = {0}
      BY <2>1
    <3> QED
      BY <1>5, <3>1 DEF IsLargest
  <2>3. Len(l) > 0 /\ Len(l) \in J /\ Len(l) \in Nat
    BY <1>1, <1>2, <1>8
  <2>4. Len(l) <= j /\ j \in Nat
    BY <1>3, <1>5, <2>3 DEF IsLargest
  <2> QED
    BY <2>2, <2>3, <2>4
<1>9. L # {} => \E l \in L : TRUE
  OBVIOUS
<1> QED
  BY <1>6, <1>7, <1>8, <1>9 DEF L

(* The report warns of OpModes lost only if a list it saw was not understood, *)
(* and always if none of the lists was, whatever was captured (cmd.rs and     *)
(* report.rs, parse_loss).                                                    *)
THEOREM LossStaysShown == CaptureSpec => []LossIsShown
<1>1. BaseInv /\ SourceInv => LossIsShown
  <2> SUFFICES ASSUME TypesOK, OutOK, NEW port \in Ports
               PROVE  LET lists == OpModeLists(Robocol(port))
                          lost(l) == Len(ParseOpModeList(l)) < Len(l)
                      IN  /\ ParseLoss(Robocol(port)) => \E l \in lists : lost(l)
                          /\ lists # {} /\ (\A l \in lists : lost(l)) => ParseLoss(Robocol(port))
    BY Zenon DEF SourceInv, LossIsShown
  <2>1. PICK ds : ds = Robocol(port)
    OBVIOUS
  <2>2. Decodings(ds)
    BY <2>1, RobocolIs
  <2>3. /\ ParseLoss(ds) => \E l \in OpModeLists(ds) : Lost(l)
        /\ OpModeLists(ds) # {} /\ (\A l \in OpModeLists(ds) : Lost(l)) => ParseLoss(ds)
    BY <2>2, LossIsSeen
  <2> QED
    BY <2>1, <2>3, Zenon DEF Lost
<1> QED
  BY <1>1, SourceHolds, PTL
=============================================================================
