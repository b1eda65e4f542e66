------------------------- MODULE FrameAssemblyProofs -------------------------
(***************************************************************************)
(* What handle_frame_begin and handle_frame_chunk preserve of the frames   *)
(* under assembly, whatever the packet: their type, their number, and that *)
(* none of them is complete.                                               *)
(*                                                                         *)
(* The first part is about the operations of VecOps.  Vec::retain is       *)
(* defined by rank, without recursion; the lemmas show that a rank picks   *)
(* out each retained element exactly once, in order.  Induction is avoided *)
(* throughout: every argument takes the least or the greatest element of a *)
(* finite set.                                                             *)
(***************************************************************************)
EXTENDS FrameAssembly, VecOps, FiniteSetTheorems, WellFoundedInduction, TLAPS

LEMMA LeastElement ==
  ASSUME NEW F \in SUBSET Int, IsFiniteSet(F), F # {}
  PROVE  \E n \in F : \A m \in F : n <= m
<1> DEFINE UpTo(n) == {m \in F : m <= n}
           G == {UpTo(n) : n \in F}
<1>1. G \subseteq FiniteSubsetsOf(F)
  <2>1. ASSUME NEW n \in F PROVE UpTo(n) \in SUBSET F /\ IsFiniteSet(UpTo(n))
    BY FS_Subset
  <2> QED BY <2>1 DEF FiniteSubsetsOf
<1>2. G # {}
  OBVIOUS
<1>3. IsWellFoundedOn(StrictSubsetOrdering(F), FiniteSubsetsOf(F))
  BY FS_StrictSubsetOrderingWellFounded
<1>4. PICK x \in G : \A y \in G : ~(<<y, x>> \in StrictSubsetOrdering(F))
  <2> HIDE DEF G
  <2> QED BY <1>1, <1>2, <1>3, WFMin
<1>5. PICK n \in F : x = UpTo(n)
  OBVIOUS
<1>6. ASSUME NEW m \in F, ~(n <= m) PROVE FALSE
  <2>1. UpTo(m) \in G
    OBVIOUS
  <2>2. UpTo(m) \subseteq UpTo(n) /\ UpTo(m) # UpTo(n)
        /\ UpTo(m) \subseteq F /\ UpTo(n) \subseteq F
    <3>1. n \in Int /\ m \in Int
      OBVIOUS
    <3>2. n \in UpTo(n) /\ n \notin UpTo(m)
      BY <1>6, <3>1
    <3>3. ASSUME NEW j \in UpTo(m) PROVE j \in UpTo(n)
      <4>1. j \in Int /\ j <= m
        OBVIOUS
      <4> QED BY <1>6, <3>1, <4>1
    <3> QED BY <3>2, <3>3
  <2> HIDE DEF UpTo, G
  <2> QED BY <2>1, <2>2, <1>4, <1>5 DEF StrictSubsetOrdering
<1> QED BY <1>6

LEMMA GreatestElement ==
  ASSUME NEW F \in SUBSET Int, IsFiniteSet(F), F # {}
  PROVE  \E n \in F : \A m \in F : m <= n
<1> DEFINE From(n) == {m \in F : n <= m}
           G == {From(n) : n \in F}
<1>1. G \subseteq FiniteSubsetsOf(F)
  <2>1. ASSUME NEW n \in F PROVE From(n) \in SUBSET F /\ IsFiniteSet(From(n))
    BY FS_Subset
  <2> QED BY <2>1 DEF FiniteSubsetsOf
<1>2. G # {}
  OBVIOUS
<1>3. IsWellFoundedOn(StrictSubsetOrdering(F), FiniteSubsetsOf(F))
  BY FS_StrictSubsetOrderingWellFounded
<1>4. PICK x \in G : \A y \in G : ~(<<y, x>> \in StrictSubsetOrdering(F))
  <2> HIDE DEF G
  <2> QED BY <1>1, <1>2, <1>3, WFMin
<1>5. PICK n \in F : x = From(n)
  OBVIOUS
<1>6. ASSUME NEW m \in F, ~(m <= n) PROVE FALSE
  <2>1. From(m) \in G
    OBVIOUS
  <2>2. From(m) \subseteq From(n) /\ From(m) # From(n)
        /\ From(m) \subseteq F /\ From(n) \subseteq F
    <3>1. n \in Int /\ m \in Int
      OBVIOUS
    <3>2. n \in From(n) /\ n \notin From(m)
      BY <1>6, <3>1
    <3>3. ASSUME NEW j \in From(m) PROVE j \in From(n)
      <4>1. j \in Int /\ m <= j
        OBVIOUS
      <4> QED BY <1>6, <3>1, <4>1
    <3> QED BY <3>2, <3>3
  <2> HIDE DEF From, G
  <2> QED BY <2>1, <2>2, <1>4, <1>5 DEF StrictSubsetOrdering
<1> QED BY <1>6

-----------------------------------------------------------------------------
LEMMA RankType ==
  ASSUME NEW K \in SUBSET Int, IsFiniteSet(K), NEW i \in K
  PROVE  Rank(K, i) \in 1..Cardinality(K)
<1> DEFINE L == {j \in K : j <= i}
<1>1. IsFiniteSet(L) /\ Cardinality(L) <= Cardinality(K)
  BY FS_Subset
<1>2. L # {}
  OBVIOUS
<1>3. Cardinality(L) \in Nat /\ Cardinality(K) \in Nat /\ Cardinality(L) # 0
  <2> HIDE DEF L
  <2> QED BY <1>1, <1>2, FS_CardinalityType, FS_EmptySet
<1> HIDE DEF L
<1> QED BY <1>1, <1>3 DEF Rank, L

LEMMA RankMonotone ==
  ASSUME NEW K \in SUBSET Int, IsFiniteSet(K), NEW i \in K, NEW j \in K, i < j
  PROVE  Rank(K, i) < Rank(K, j)
<1> DEFINE A == {k \in K : k <= i}
           B == {k \in K : k <= j}
<1>1. A \subseteq B /\ A # B
  <2>1. i \in Int /\ j \in Int /\ j \in B /\ j \notin A
    OBVIOUS
  <2>2. ASSUME NEW k \in A PROVE k \in B
    <3>1. k \in Int /\ k <= i
      OBVIOUS
    <3> QED BY <2>1, <3>1
  <2> QED BY <2>1, <2>2
<1>2. IsFiniteSet(B)
  BY FS_Subset
<1>3. Cardinality(A) < Cardinality(B)
  <2> HIDE DEF A, B
  <2> QED BY <1>1, <1>2, FS_Subset, FS_CardinalityType
<1> QED BY <1>3 DEF Rank

(* Every position up to the number of elements is the rank of one of them.  *)
LEMMA RankOnto ==
  ASSUME NEW K \in SUBSET Int, IsFiniteSet(K), NEW k \in 1..Cardinality(K)
  PROVE  \E i \in K : Rank(K, i) = k
<1> DEFINE T == {i \in K : Rank(K, i) >= k}
<1>1. K # {}
  BY FS_EmptySet, FS_CardinalityType
<1>2. T # {}
  <2>1. PICK g \in K : \A m \in K : m <= g
    BY <1>1, GreatestElement
  <2>2. {j \in K : j <= g} = K
    BY <2>1
  <2>3. Rank(K, g) = Cardinality(K)
    BY <2>2 DEF Rank
  <2> QED BY <2>3, FS_CardinalityType
<1>3. IsFiniteSet(T) /\ T \subseteq Int
  BY FS_Subset
<1>4. PICK i \in T : \A m \in T : i <= m
  <2> HIDE DEF T
  <2> QED BY <1>2, <1>3, LeastElement
<1> DEFINE P == {j \in K : j < i}
<1>5. IsFiniteSet(P) /\ P \subseteq Int
  BY FS_Subset
<1>6. Rank(K, i) = Cardinality(P) + 1
  <2>1. {j \in K : j <= i} = P \cup {i}
    <3>1. i \in Int /\ i \in K
      OBVIOUS
    <3>2. ASSUME NEW j \in K PROVE j <= i <=> j < i \/ j = i
      <4>1. j \in Int
        OBVIOUS
      <4> QED BY <3>1, <4>1
    <3> QED BY <3>1, <3>2
  <2>2. i \notin P
    OBVIOUS
  <2> HIDE DEF P
  <2>3. Cardinality(P \cup {i}) = Cardinality(P) + 1
    BY <1>5, <2>2, FS_AddElement
  <2> QED BY <2>1, <2>3 DEF Rank
<1>7. Cardinality(P) < k
  <2>1. CASE P = {}
    BY <2>1, FS_EmptySet
  <2>2. CASE P # {}
    <3>1. PICK p \in P : \A m \in P : m <= p
      <4> HIDE DEF P
      <4> QED BY <1>5, <2>2, GreatestElement
    <3>2. {j \in K : j <= p} = P
      <4>1. p \in Int /\ i \in Int /\ p < i
        OBVIOUS
      <4>2. ASSUME NEW j \in K PROVE j <= p <=> j < i
        <5>1. j \in Int
          OBVIOUS
        <5> QED BY <3>1, <4>1, <5>1
      <4> QED BY <4>2
    <3>3. Rank(K, p) = Cardinality(P)
      BY <3>2 DEF Rank
    <3>4. p \notin T /\ p \in K
      BY <1>4
    <3> QED BY <3>3, <3>4, <1>5, FS_CardinalityType
  <2> QED BY <2>1, <2>2
<1>8. Cardinality(P) \in Nat
  <2> HIDE DEF P
  <2> QED BY <1>5, FS_CardinalityType
<1>9. Rank(K, i) >= k /\ i \in K
  OBVIOUS
<1> HIDE DEF P, T
<1> QED BY <1>6, <1>7, <1>8, <1>9

LEMMA RankInjective ==
  ASSUME NEW K \in SUBSET Int, IsFiniteSet(K), NEW i \in K, NEW j \in K,
         Rank(K, i) = Rank(K, j)
  PROVE  i = j
<1>1. Rank(K, i) \in Int /\ Rank(K, j) \in Int
  BY RankType
<1>2. CASE i < j
  BY <1>1, <1>2, RankMonotone
<1>3. CASE j < i
  BY <1>1, <1>3, RankMonotone
<1> QED BY <1>2, <1>3

-----------------------------------------------------------------------------
LEMMA IndicesFinite ==
  ASSUME NEW S, NEW s \in Seq(S), NEW K \in SUBSET DOMAIN s
  PROVE  /\ K \in SUBSET Int /\ IsFiniteSet(K)
         /\ Cardinality(K) \in Nat /\ Cardinality(K) <= Len(s)
<1>1. DOMAIN s = 1..Len(s) /\ Len(s) \in Nat
  OBVIOUS
<1>2. IsFiniteSet(1..Len(s)) /\ Cardinality(1..Len(s)) = Len(s)
  <2> DEFINE l == Len(s)
  <2>1. l \in Nat
    OBVIOUS
  <2> HIDE DEF l
  <2>2. IsFiniteSet(1..l) /\ Cardinality(1..l) = l
    BY <2>1, FS_Interval
  <2> QED BY <2>2 DEF l
<1> QED BY <1>1, <1>2, FS_Subset, FS_CardinalityType

(* What is retained stands at its rank.                                     *)
LEMMA RetainAt ==
  ASSUME NEW S, NEW s \in Seq(S), NEW K \in SUBSET DOMAIN s, NEW i \in K
  PROVE  /\ Rank(K, i) \in DOMAIN Retain(s, K)
         /\ Retain(s, K)[Rank(K, i)] = s[i]
<1>1. K \in SUBSET Int /\ IsFiniteSet(K)
  BY IndicesFinite
<1>2. Rank(K, i) \in 1..Cardinality(K)
  BY <1>1, RankType
<1>3. (CHOOSE j \in K : Rank(K, j) = Rank(K, i)) = i
  <2>1. \A j \in K : Rank(K, j) = Rank(K, i) => j = i
    BY <1>1, RankInjective
  <2> QED BY <2>1
<1> QED BY <1>2, <1>3 DEF Retain

(* Vec::retain leaves nothing but elements of s, each at its rank.          *)
LEMMA RetainFrom ==
  ASSUME NEW S, NEW s \in Seq(S), NEW K \in SUBSET DOMAIN s,
         NEW k \in DOMAIN Retain(s, K)
  PROVE  \E i \in K : Rank(K, i) = k /\ Retain(s, K)[k] = s[i]
<1>1. K \in SUBSET Int /\ IsFiniteSet(K)
  BY IndicesFinite
<1>2. k \in 1..Cardinality(K)
  BY DEF Retain
<1>3. PICK i \in K : Rank(K, i) = k
  BY <1>1, <1>2, RankOnto
<1> QED BY <1>3, RetainAt

(* Vec::retain yields a sequence no longer than s.                          *)
LEMMA RetainType ==
  ASSUME NEW S, NEW s \in Seq(S), NEW K \in SUBSET DOMAIN s
  PROVE  /\ Retain(s, K) \in Seq(S)
         /\ Len(Retain(s, K)) = Cardinality(K)
         /\ Len(Retain(s, K)) <= Len(s)
<1> DEFINE r == Retain(s, K)
<1>1. Cardinality(K) \in Nat /\ Cardinality(K) <= Len(s)
  BY IndicesFinite
<1>2. DOMAIN r = 1..Cardinality(K)
  BY DEF Retain
<1>3. \A k \in DOMAIN r : r[k] \in S
  <2> TAKE k \in DOMAIN r
  <2>1. PICK i \in K : r[k] = s[i]
    BY RetainFrom
  <2> QED BY <2>1
<1>4. r = [k \in 1..Cardinality(K) |-> r[k]]
  BY DEF Retain
<1> HIDE DEF r
<1>5. r \in Seq(S) /\ Len(r) = Cardinality(K)
  BY <1>1, <1>2, <1>3, <1>4
<1> QED BY <1>1, <1>5 DEF r

(* The elements of a queue that has dropped its oldest.                     *)
LEMMA NewestType ==
  ASSUME NEW S, NEW s \in Seq(S), NEW n \in Nat
  PROVE  /\ Newest(s, n) \in Seq(S)
         /\ Len(Newest(s, n)) <= n
         /\ Len(Newest(s, n)) <= Len(s)
         /\ \A i \in DOMAIN Newest(s, n) :
              i + Excess(s, n) \in DOMAIN s /\ Newest(s, n)[i] = s[i + Excess(s, n)]
<1> DEFINE e == Excess(s, n)
<1>1. e \in 0..Len(s) /\ Len(s) - e <= n
  BY DEF Excess
<1> HIDE DEF e
<1>2. /\ SubSeq(s, e + 1, Len(s)) \in Seq(S)
      /\ Len(SubSeq(s, e + 1, Len(s))) = Len(s) - e
      /\ \A i \in 1..(Len(s) - e) : SubSeq(s, e + 1, Len(s))[i] = s[e + i]
  BY <1>1
<1> QED BY <1>1, <1>2 DEF Newest, e

-----------------------------------------------------------------------------
FramesBounded(fr) ==
  /\ DOMAIN fr \in SUBSET Int /\ IsFiniteSet(DOMAIN fr)
  /\ Cardinality(DOMAIN fr) <= MaxConcurrentFrames

FramesTyped(fr) == fr \in [DOMAIN fr -> PartialFrame]

Chunks(f) == 0..(ChunkCount(Len(f.data)) - 1)
Incomplete(f) ==
  /\ f.received \subseteq Chunks(f)
  /\ Chunks(f) # {} => f.received # Chunks(f)
NoneComplete(fr) == \A n \in DOMAIN fr : Incomplete(fr[n])

-----------------------------------------------------------------------------
(* Eviction leaves at most as many frames as are allowed.                   *)
LEMMA LatestBounded ==
  ASSUME NEW F \in SUBSET Int, IsFiniteSet(F)
  PROVE  /\ Latest(F) \in SUBSET Int /\ IsFiniteSet(Latest(F))
         /\ Cardinality(Latest(F)) <= MaxConcurrentFrames
<1> USE FrameAssumption
<1> DEFINE L == Latest(F)
<1>1. L \in SUBSET Int /\ L \subseteq F /\ IsFiniteSet(L)
  BY FS_Subset DEF Latest
<1>2. CASE L = {}
  BY <1>1, <1>2, FS_EmptySet
<1>3. CASE L # {}
  <2>1. PICK n \in L : \A m \in L : n <= m
    <3> HIDE DEF L
    <3> QED BY <1>1, <1>3, LeastElement
  <2> DEFINE A == {m \in F : m > n}
  <2>2. IsFiniteSet(A) /\ Cardinality(A) < MaxConcurrentFrames
    BY FS_Subset DEF Latest
  <2>3. n \in Int /\ n \notin A
    BY <1>1
  <2>4. L \subseteq A \cup {n}
    <3>1. ASSUME NEW m \in L PROVE m \in A \cup {n}
      <4>1. m \in Int /\ m \in F /\ n <= m
        BY <1>1, <2>1
      <4> QED BY <2>3, <4>1
    <3> QED BY <3>1
  <2> HIDE DEF A, L
  <2>5. IsFiniteSet(A \cup {n}) /\ Cardinality(A \cup {n}) = Cardinality(A) + 1
    BY <2>2, <2>3, FS_AddElement
  <2>6. Cardinality(L) <= Cardinality(A \cup {n})
    BY <2>4, <2>5, FS_Subset
  <2> QED BY <1>1, <2>2, <2>5, <2>6, FS_CardinalityType DEF L
<1> QED BY <1>2, <1>3

LEMMA KeepingBounded ==
  ASSUME NEW fr, FramesBounded(fr), NEW S \in SUBSET DOMAIN fr
  PROVE  FramesBounded(Keeping(fr, S))
<1>1. DOMAIN Keeping(fr, S) = S
  BY DEF Keeping
<1>2. IsFiniteSet(S) /\ Cardinality(S) <= Cardinality(DOMAIN fr)
  BY FS_Subset DEF FramesBounded
<1>3. Cardinality(S) \in Nat /\ Cardinality(DOMAIN fr) \in Nat
  BY <1>2, FS_CardinalityType DEF FramesBounded
<1> QED BY <1>1, <1>2, <1>3, FrameAssumption DEF FramesBounded

LEMMA NoFramesOK ==
  FramesBounded(NoFrames) /\ FramesTyped(NoFrames) /\ NoneComplete(NoFrames)
<1>1. DOMAIN NoFrames = {}
  BY DEF NoFrames
<1> QED BY <1>1, FS_EmptySet, FrameAssumption
        DEF FramesBounded, FramesTyped, NoneComplete, NoFrames

(* The bytes of a frame that begins are all blank, and none of its chunks   *)
(* has come.                                                                *)
LEMMA FreshFrame ==
  ASSUME NEW length \in Nat
  PROVE  LET f == [data |-> [i \in 1..length |-> Blank], received |-> {}]
         IN  f \in PartialFrame /\ Incomplete(f)
<1> DEFINE d == [i \in 1..length |-> Blank]
<1>1. d \in Seq(Byte \cup {Blank})
  OBVIOUS
<1> HIDE DEF d
<1> QED BY <1>1 DEF PartialFrame, Incomplete, Chunks

LEMMA BeginFrameOK ==
  ASSUME NEW fr, NEW num \in Int, NEW length \in Int
  PROVE  LET new == BeginFrame(fr, num, length)
         IN  /\ FramesBounded(fr) => FramesBounded(new)
             /\ FramesTyped(fr) => FramesTyped(new)
             /\ NoneComplete(fr) => NoneComplete(new)
<1> DEFINE f == [data |-> [i \in 1..length |-> Blank], received |-> {}]
           begun == [n \in DOMAIN fr \cup {num} |-> IF n = num THEN f ELSE fr[n]]
           new == BeginFrame(fr, num, length)
<1>1. CASE length \notin 0..MaxFrameBytes
  BY <1>1 DEF BeginFrame
<1>2. CASE length \in 0..MaxFrameBytes
  <2>1. length \in Nat
    BY <1>2, FrameAssumption
  <2>2. f \in PartialFrame /\ Incomplete(f)
    BY <2>1, FreshFrame
  <2>3. new = Keeping(begun, Latest(DOMAIN begun))
    BY <1>2 DEF BeginFrame
  <2> HIDE DEF f, new
  <2>4. DOMAIN new = Latest(DOMAIN begun) /\ DOMAIN new \subseteq DOMAIN begun
        /\ \A n \in DOMAIN new : new[n] = begun[n]
    BY <2>3 DEF Keeping, Latest
  <2>5. FramesBounded(fr) => FramesBounded(new)
    <3> SUFFICES ASSUME FramesBounded(fr) PROVE FramesBounded(new)
      OBVIOUS
    <3>1. DOMAIN begun = DOMAIN fr \cup {num}
      OBVIOUS
    <3>2. DOMAIN begun \in SUBSET Int /\ IsFiniteSet(DOMAIN begun)
      BY <3>1, FS_AddElement DEF FramesBounded
    <3> HIDE DEF begun
    <3> QED BY <2>4, <3>2, LatestBounded DEF FramesBounded
  <2>6. FramesTyped(fr) => FramesTyped(new)
    <3> SUFFICES ASSUME FramesTyped(fr) PROVE FramesTyped(new)
      OBVIOUS
    <3>1. \A n \in DOMAIN new : new[n] \in PartialFrame
      BY <2>2, <2>4 DEF FramesTyped
    <3>2. new = [n \in DOMAIN new |-> new[n]]
      BY <2>3 DEF Keeping
    <3> QED BY <3>1, <3>2 DEF FramesTyped
  <2>7. NoneComplete(fr) => NoneComplete(new)
    BY <2>2, <2>4 DEF NoneComplete
  <2> QED BY <2>5, <2>6, <2>7 DEF new
<1> QED BY <1>1, <1>2

-----------------------------------------------------------------------------
(* Chunks, as Packet has them. *)
IsChunk(c) == c.num \in Int /\ c.index \in Int /\ c.bytes \in Seq(Byte)

LEMMA WrittenType ==
  ASSUME NEW fr, FramesTyped(fr), NEW c, IsChunk(c), Accepts(fr, c)
  PROVE  Written(fr, c) \in PartialFrame
<1> DEFINE f == fr[c.num]
           w == Written(fr, c)
           off == c.index * FrameChunkSize
           l == Len(f.data)
<1>1. f \in PartialFrame
  BY DEF FramesTyped, Accepts
<1>2. f.data \in Seq(Byte \cup {Blank}) /\ l \in Nat /\ f.received \in SUBSET Nat
  BY <1>1 DEF PartialFrame
<1>3. c.index \in Nat /\ off \in Nat
  BY ChunkAssumption DEF Accepts
<1>4. c.bytes \in Seq(Byte)
  BY DEF IsChunk
<1>5. /\ w.received = f.received \cup {c.index}
      /\ w.data = [i \in 1..l |-> IF i \in (off + 1)..(off + Len(c.bytes))
                                  THEN c.bytes[i - off] ELSE f.data[i]]
      /\ w = [data |-> w.data, received |-> w.received]
  BY DEF Written
<1> HIDE DEF w, off, f
<1>6. ASSUME NEW i \in 1..l
      PROVE  (IF i \in (off + 1)..(off + Len(c.bytes))
              THEN c.bytes[i - off] ELSE f.data[i]) \in Byte \cup {Blank}
  <2>1. CASE i \in (off + 1)..(off + Len(c.bytes))
    <3>1. i - off \in 1..Len(c.bytes)
      BY <1>3, <1>4, <2>1
    <3> QED BY <1>4, <2>1, <3>1
  <2>2. CASE i \notin (off + 1)..(off + Len(c.bytes))
    BY <1>2, <2>2
  <2> QED BY <2>1, <2>2
<1> HIDE DEF l
<1>7. w.data \in Seq(Byte \cup {Blank})
  BY <1>2, <1>5, <1>6
<1>8. w.received \in SUBSET Nat
  BY <1>2, <1>3, <1>5
<1> QED BY <1>5, <1>7, <1>8 DEF PartialFrame, w

LEMMA WrittenIncomplete ==
  ASSUME NEW fr, FramesTyped(fr), NoneComplete(fr), NEW c,
         Accepts(fr, c), ~Completes(fr, c)
  PROVE  Incomplete(Written(fr, c))
<1> DEFINE f == fr[c.num]
           w == Written(fr, c)
<1>1. Incomplete(f) /\ f \in PartialFrame
  BY DEF NoneComplete, Accepts, FramesTyped
<1>2. Len(f.data) \in Nat
  BY <1>1 DEF PartialFrame
<1>3. w.received = f.received \cup {c.index}
      /\ DOMAIN w.data = 1..Len(f.data) /\ w.data = [i \in 1..Len(f.data) |-> w.data[i]]
  BY DEF Written
<1>4. Len(w.data) = Len(f.data)
  BY <1>2, <1>3
<1>5. Chunks(w) = Chunks(f)
  BY <1>4 DEF Chunks
<1>6. c.index \in Chunks(f)
  BY DEF Accepts, Chunks
<1>7. ~(\A i \in Chunks(f) : i \in w.received)
  BY DEF Completes, Chunks
<1> HIDE DEF w, f
<1> QED BY <1>1, <1>3, <1>5, <1>6, <1>7 DEF Incomplete, w

LEMMA AddChunkOK ==
  ASSUME NEW fr, FramesTyped(fr), NEW c, IsChunk(c)
  PROVE  LET new == AddChunk(fr, c)
         IN  /\ FramesBounded(fr) => FramesBounded(new)
             /\ FramesTyped(new)
             /\ NoneComplete(fr) => NoneComplete(new)
<1>1. CASE Completes(fr, c)
  <2> DEFINE S == {n \in DOMAIN fr : n > c.num}
  <2>1. AddChunk(fr, c) = Keeping(fr, S)
    BY <1>1 DEF AddChunk
  <2>2. FramesTyped(Keeping(fr, S)) /\ (NoneComplete(fr) => NoneComplete(Keeping(fr, S)))
    BY DEF Keeping, FramesTyped, NoneComplete
  <2> HIDE DEF S
  <2>3. S \in SUBSET DOMAIN fr
    BY DEF S
  <2> QED BY <2>1, <2>2, <2>3, KeepingBounded
<1>2. CASE Accepts(fr, c) /\ ~Completes(fr, c)
  <2>1. AddChunk(fr, c) = [fr EXCEPT ![c.num] = Written(fr, c)]
    BY <1>2 DEF AddChunk
  <2>2. Written(fr, c) \in PartialFrame
    BY <1>2, WrittenType
  <2>3. NoneComplete(fr) => Incomplete(Written(fr, c))
    BY <1>2, WrittenIncomplete
  <2> DEFINE new == [fr EXCEPT ![c.num] = Written(fr, c)]
  <2>4. DOMAIN new = DOMAIN fr
    OBVIOUS
  <2>5. FramesTyped(new) /\ (NoneComplete(fr) => NoneComplete(new))
    BY <2>2, <2>3 DEF FramesTyped, NoneComplete
  <2> QED BY <2>1, <2>4, <2>5 DEF FramesBounded
<1>3. CASE ~Accepts(fr, c)
  BY <1>3 DEF AddChunk, Completes
<1> QED BY <1>1, <1>2, <1>3
=============================================================================
