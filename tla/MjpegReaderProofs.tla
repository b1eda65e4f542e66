-------------------------- MODULE MjpegReaderProofs --------------------------
(***************************************************************************)
(* The reader of bytes implements the control of VideoStream, and what the *)
(* owner is told is right, for every server, boundary, picture and limit:  *)
(* no picture outlives its connection, and none is cleared that was not    *)
(* there.  The search for a boundary is exact and holds a bounded part.    *)
(*                                                                         *)
(* The argument of the first part: while the owner listens, a picture on   *)
(* the pane was delivered over the connection at hand, so the report that  *)
(* ends the connection clears it; and between a connection's opening and   *)
(* its report whatever was delivered is still on the pane.                 *)
(*                                                                         *)
(* The second part is the theory of the search, in terms of borders: a     *)
(* prefix of the boundary that some longer prefix of it ends with.  The    *)
(* table of fallbacks holds the longest of them, and following it from one *)
(* to the next meets every match there may be, longest first.  Induction   *)
(* takes the form of a least counterexample.                               *)
(*                                                                         *)
(* The third part says what the reader has yet to see: the bytes it holds, *)
(* those on the wire taken out of their chunks, and those not sent         *)
(* (Pending).  As long as no read failed they are the rest of what the     *)
(* server set out to send, from the place the reader is at (Expected), or  *)
(* the connection was cut short.  Each step of the server adds a part at   *)
(* the end or moves bytes along; each step of the reader takes the next    *)
(* byte and moves the place; so a boundary is met where a picture ends and *)
(* nowhere else.                                                           *)
(***************************************************************************)
EXTENDS MjpegReader, SequenceTheorems, WellFoundedInduction, TLAPS

VideoTypeOK ==
  /\ pc \in {"loop", "open", "check", "part", "report", "nap", "returned"}
  /\ stop \in BOOLEAN /\ receiving \in BOOLEAN
  /\ delivered \in BOOLEAN /\ pane \in BOOLEAN

ShownWasDelivered == receiving /\ pane => delivered
DeliveredIsShown ==
  receiving /\ delivered /\ pc \in {"check", "part", "report"} => pane

VideoInv == VideoTypeOK /\ ShownWasDelivered /\ DeliveredIsShown /\ PaneIsLive

Video == VideoInit /\ [][VideoNext]_videoVars

-----------------------------------------------------------------------------
(* Every step on the bytes is a step of VideoStream or none at all.         *)
LEMMA StepRefines ==
  ASSUME MjpegNext
  PROVE  [VideoNext]_videoVars
<1>1. CASE Owner
  BY <1>1 DEF Owner, VideoNext
<1>2. CASE Server
  BY <1>2 DEF Server, NextPicture, ServerSends, ServerEnds, ServerGoesAway
<1>3. CASE (Loop \/ Nap \/ Wake) /\ UNCHANGED conn
  BY <1>3 DEF VideoNext, RunStream
<1>4. CASE NotServed \/ NoFirstBoundary
  BY <1>4 DEF NotServed, NoFirstBoundary, VideoNext, RunStream
<1>5. CASE HangUp \/ FirstBoundary \/ NextPart
  BY <1>5 DEF HangUp, FirstBoundary, NextPart, VideoNext, RunStream
<1>6. CASE Connect \/ Fill \/ InLine \/ HeaderLine \/ BodyByte \/ Boundary
  BY <1>6 DEF Connect, Fill, InLine, HeaderLine, BodyByte, Boundary
<1>7. CASE NoHeader \/ OverCap \/ BodyEnds
  BY <1>7 DEF NoHeader, OverCap, BodyEnds, VideoNext, RunStream
<1>8. CASE Deliver
  BY <1>8 DEF Deliver, VideoNext, RunStream
<1> QED
  BY <1>1, <1>2, <1>3, <1>4, <1>5, <1>6, <1>7, <1>8 DEF MjpegNext, Reader

(* The bytes of a response change nothing of what VideoStream promises of   *)
(* connecting, reporting and stopping: the reader implements it.            *)
THEOREM ReaderImplementsVideo == MjpegSpec => Video
<1>1. MjpegInit => VideoInit
  BY DEF MjpegInit
<1>2. [MjpegNext]_mjpegVars => [VideoNext]_videoVars
  BY StepRefines DEF mjpegVars, videoVars
<1> QED
  BY <1>1, <1>2, PTL DEF MjpegSpec, Video

-----------------------------------------------------------------------------
LEMMA VideoBegins == VideoInit => VideoInv
  BY DEF VideoInit, VideoInv, VideoTypeOK, ShownWasDelivered, DeliveredIsShown,
         PaneIsLive

LEMMA VideoSteps ==
  ASSUME VideoInv, [VideoNext]_videoVars
  PROVE  VideoInv'
<1> USE DEF VideoInv, VideoTypeOK, ShownWasDelivered, DeliveredIsShown, PaneIsLive,
            Silent, owner
<1>1. CASE SetStop
  BY <1>1 DEF SetStop
<1>2. CASE DropEvents
  BY <1>2 DEF DropEvents
<1>3. CASE Loop
  BY <1>3 DEF Loop
<1>4. CASE OpenFails \/ Open
  <2>1. CASE OpenFails
    BY <2>1 DEF OpenFails
  <2>2. CASE Open
    BY <2>2 DEF Open
  <2> QED
    BY <1>4, <2>1, <2>2
<1>5. CASE Check
  BY <1>5 DEF Check
<1>6. CASE PartFails
  BY <1>6 DEF PartFails
<1>7. CASE Frame
  <2>1. CASE receiving
    BY <1>7, <2>1 DEF Frame
  <2>2. CASE ~receiving
    BY <1>7, <2>2 DEF Frame
  <2> QED
    BY <2>1, <2>2
<1>8. CASE Report
  <2>1. CASE delivered /\ receiving
    BY <1>8, <2>1 DEF Report
  <2>2. CASE ~(delivered /\ receiving)
    BY <1>8, <2>2 DEF Report
  <2> QED
    BY <2>1, <2>2
<1>9. CASE Nap \/ Wake
  <2>1. CASE Nap
    BY <2>1 DEF Nap
  <2>2. CASE Wake
    BY <2>2 DEF Wake
  <2> QED
    BY <1>9, <2>1, <2>2
<1>10. CASE UNCHANGED videoVars
  BY <1>10 DEF videoVars
<1> QED
  BY <1>1, <1>2, <1>3, <1>4, <1>5, <1>6, <1>7, <1>8, <1>9, <1>10
     DEF VideoNext, RunStream

LEMMA VideoInvariant == Video => []VideoInv
<1>1. VideoInv /\ [VideoNext]_videoVars => VideoInv'
  BY VideoSteps
<1> QED
  BY VideoBegins, <1>1, PTL DEF Video

(* A picture is on the pane only while its connection lasts, whatever the   *)
(* server sends and wherever the stream, a read or the flag ends it.        *)
THEOREM PaneStaysLive == MjpegSpec => []PaneIsLive
<1>1. VideoInv => PaneIsLive
  BY DEF VideoInv
<1> QED
  BY ReaderImplementsVideo, VideoInvariant, <1>1, PTL

(* The pane is cleared only of a picture: two reports of a lost stream have *)
(* a frame between them.                                                    *)
THEOREM OnlyPicturesAreCleared == MjpegSpec => ClearsAPicture
<1>1. VideoInv /\ [VideoNext]_videoVars
        => [event' = "Disconnected" => pane]_videoVars
  <2> SUFFICES ASSUME VideoInv, VideoNext, event' = "Disconnected"
               PROVE  pane
    OBVIOUS
  <2>1. Report
    BY DEF VideoNext, RunStream, SetStop, DropEvents, Loop, OpenFails, Open, Check,
           PartFails, Frame, Nap, Wake, Silent, Send
  <2>2. delivered /\ receiving
    BY <2>1 DEF Report, Silent, Send
  <2> QED
    BY <2>1, <2>2 DEF Report, VideoInv, DeliveredIsShown
<1> QED
  BY ReaderImplementsVideo, VideoInvariant, <1>1, PTL DEF Video, ClearsAPicture

-----------------------------------------------------------------------------
(* Every set of numbers has a least one: induction, as this prover can use  *)
(* it.  A bounded one has a greatest.                                       *)
LEMMA LeastNat ==
  ASSUME NEW T \in SUBSET Nat, T # {}
  PROVE  \E n \in T : \A m \in T : n <= m
<1>1. PICK n \in T : \A m \in T : ~(<<m, n>> \in OpToRel(<, Nat))
  BY NatLessThanWellFounded, WFMin
<1>2. \A m \in T : ~(m < n)
  BY <1>1 DEF OpToRel
<1> QED
  BY <1>2

LEMMA GreatestNat ==
  ASSUME NEW N \in Nat, NEW T \in SUBSET (0..N), T # {}
  PROVE  \E n \in T : \A m \in T : m <= n
<1> DEFINE Above == {u \in Nat : \A m \in T : m <= u}
<1>1. N \in Above
  OBVIOUS
<1>2. PICK u \in Above : \A v \in Above : u <= v
  BY <1>1, LeastNat
<1>3. CASE u \in T
  BY <1>2, <1>3
<1>4. CASE u \notin T
  <2>1. \A m \in T : m \in Nat /\ m <= u /\ m # u
    BY <1>4
  <2>2. u \in Nat /\ u > 0
    <3>1. PICK m \in T : TRUE
      OBVIOUS
    <3>2. u \in Nat
      OBVIOUS
    <3> HIDE DEF Above
    <3> QED
      BY <2>1, <3>1, <3>2
  <2>3. u - 1 \in Nat /\ \A m \in T : m <= u - 1
    BY <2>1, <2>2
  <2> QED
    BY <1>2, <2>2, <2>3
<1> QED
  BY <1>3, <1>4

-----------------------------------------------------------------------------
(* The theory of the search.  A border of the first k bytes of d is a       *)
(* prefix of d they end with, by its length.                                *)
Border(d, r, k) == r \in 0..k /\ \A x \in 1..r : d[x] = d[k - r + x]

(* The longest border of the first i bytes that is not all of them: what    *)
(* kmp_failure is to find.                                                  *)
IsFallback(d, i, v) ==
  /\ v \in 0..(i - 1) /\ Border(d, v, i)
  /\ \A r \in 0..(i - 1) : Border(d, r, i) => r <= v

(* The longest prefix of d that the first k bytes of d and then c end with. *)
IsBest(d, k, c, v) ==
  /\ v \in 0..(k + 1)
  /\ v > 0 => Border(d, v - 1, k) /\ d[v] = c
  /\ \A r \in 0..k : Border(d, r, k) /\ d[r + 1] = c => r + 1 <= v

LEMMA BorderTransitive ==
  ASSUME NEW d, NEW k \in Nat, NEW m \in Nat, NEW r, Border(d, m, k), Border(d, r, m)
  PROVE  Border(d, r, k)
<1>1. r \in 0..k /\ r \in Nat /\ r <= m
  BY DEF Border
<1>2. ASSUME NEW x \in 1..r PROVE d[x] = d[k - r + x]
  <2>1. m - r + x \in 1..m /\ k - m + (m - r + x) = k - r + x
    BY <1>1
  <2>2. d[x] = d[m - r + x]
    BY DEF Border
  <2>3. d[m - r + x] = d[k - m + (m - r + x)]
    BY <2>1 DEF Border
  <2> QED
    BY <2>1, <2>2, <2>3
<1> QED
  BY <1>1, <1>2 DEF Border

LEMMA BorderOfBorder ==
  ASSUME NEW d, NEW k \in Nat, NEW m \in Nat, NEW r \in Nat,
         Border(d, m, k), Border(d, r, k), r <= m
  PROVE  Border(d, r, m)
<1>1. ASSUME NEW x \in 1..r PROVE d[x] = d[m - r + x]
  <2>1. m - r + x \in 1..m /\ k - m + (m - r + x) = k - r + x
    OBVIOUS
  <2>2. d[x] = d[k - r + x]
    BY DEF Border
  <2>3. d[m - r + x] = d[k - m + (m - r + x)]
    BY <2>1 DEF Border
  <2> QED
    BY <2>1, <2>2, <2>3
<1> QED
  BY <1>1 DEF Border

LEMMA BorderExtends ==
  ASSUME NEW d, NEW k \in Nat, NEW r \in 0..k
  PROVE  Border(d, r + 1, k + 1) <=> Border(d, r, k) /\ d[r + 1] = d[k + 1]
<1>1. ASSUME Border(d, r + 1, k + 1)
      PROVE  Border(d, r, k) /\ d[r + 1] = d[k + 1]
  <2>1. \A x \in 1..(r + 1) : d[x] = d[k - r + x]
    <3> SUFFICES ASSUME NEW x \in 1..(r + 1) PROVE d[x] = d[k - r + x]
      OBVIOUS
    <3>1. (k + 1) - (r + 1) + x = k - r + x
      OBVIOUS
    <3> QED
      BY <1>1, <3>1 DEF Border
  <2>2. r + 1 \in 1..(r + 1) /\ k - r + (r + 1) = k + 1
    OBVIOUS
  <2>3. d[r + 1] = d[k + 1]
    BY <2>1, <2>2
  <2> QED
    BY <2>1, <2>3 DEF Border
<1>2. ASSUME Border(d, r, k), d[r + 1] = d[k + 1]
      PROVE  Border(d, r + 1, k + 1)
  <2>1. ASSUME NEW x \in 1..(r + 1) PROVE d[x] = d[(k + 1) - (r + 1) + x]
    <3>1. (k + 1) - (r + 1) + x = k - r + x
      OBVIOUS
    <3>2. CASE x \in 1..r
      BY <1>2, <3>1, <3>2 DEF Border
    <3>3. CASE x = r + 1
      <4>1. k - r + x = k + 1
        BY <3>3
      <4> QED
        BY <1>2, <3>1, <3>3, <4>1
    <3> QED
      BY <3>2, <3>3
  <2> QED
    BY <2>1 DEF Border
<1> QED
  BY <1>1, <1>2

-----------------------------------------------------------------------------
LEMMA FallbackExists ==
  ASSUME NEW d, NEW i \in Nat \ {0}
  PROVE  \E v \in 0..(i - 1) : IsFallback(d, i, v)
<1> DEFINE T == {r \in 0..(i - 1) : Border(d, r, i)}
<1>1. 0 \in T
  BY DEF Border
<1>2. PICK v \in T : \A m \in T : m <= v
  <2>1. i - 1 \in Nat /\ T \in SUBSET (0..(i - 1)) /\ T # {}
    BY <1>1
  <2> QED
    BY <2>1, GreatestNat
<1> QED
  BY <1>2 DEF IsFallback

LEMMA FallbackUnique ==
  ASSUME NEW d, NEW i \in Nat \ {0}, NEW v, NEW w,
         IsFallback(d, i, v), IsFallback(d, i, w)
  PROVE  v = w
BY DEF IsFallback

LEMMA BestExists ==
  ASSUME NEW d, NEW k \in Nat, NEW c
  PROVE  \E v \in 0..(k + 1) : IsBest(d, k, c, v)
<1> DEFINE T == {r \in 0..k : Border(d, r, k) /\ d[r + 1] = c}
<1>1. CASE T = {}
  <2>1. \A r \in 0..k : ~(Border(d, r, k) /\ d[r + 1] = c)
    BY <1>1
  <2>2. IsBest(d, k, c, 0)
    BY <2>1 DEF IsBest
  <2> QED
    BY <2>2
<1>2. CASE T # {}
  <2>1. T \in SUBSET (0..k)
    OBVIOUS
  <2>2. PICK v \in T : \A m \in T : m <= v
    BY <1>2, <2>1, GreatestNat
  <2>3. v \in 0..k /\ v + 1 \in 0..(k + 1) /\ (v + 1) - 1 = v
    OBVIOUS
  <2>4. \A r \in 0..k : Border(d, r, k) /\ d[r + 1] = c => r + 1 <= v + 1
    BY <2>2
  <2>5. IsBest(d, k, c, v + 1)
    BY <2>2, <2>3, <2>4 DEF IsBest
  <2> QED
    BY <2>3, <2>5
<1> QED
  BY <1>1, <1>2

LEMMA BestUnique ==
  ASSUME NEW d, NEW k \in Nat, NEW c, NEW v, NEW w,
         IsBest(d, k, c, v), IsBest(d, k, c, w)
  PROVE  v = w
<1>1. v \in Nat /\ w \in Nat
  BY DEF IsBest
<1>2. v > 0 => v - 1 \in 0..k /\ v <= w
  <2> SUFFICES ASSUME v > 0 PROVE v - 1 \in 0..k /\ v <= w
    OBVIOUS
  <2>1. (v - 1) + 1 = v /\ v - 1 \in 0..k
    BY <1>1 DEF IsBest
  <2>2. Border(d, v - 1, k) /\ d[(v - 1) + 1] = c
    BY <2>1 DEF IsBest
  <2>3. (v - 1) + 1 <= w
    BY <2>1, <2>2 DEF IsBest
  <2> QED
    BY <2>1, <2>3
<1>3. w > 0 => w - 1 \in 0..k /\ w <= v
  <2> SUFFICES ASSUME w > 0 PROVE w - 1 \in 0..k /\ w <= v
    OBVIOUS
  <2>1. (w - 1) + 1 = w /\ w - 1 \in 0..k
    BY <1>1 DEF IsBest
  <2>2. Border(d, w - 1, k) /\ d[(w - 1) + 1] = c
    BY <2>1 DEF IsBest
  <2>3. (w - 1) + 1 <= v
    BY <2>1, <2>2 DEF IsBest
  <2> QED
    BY <2>1, <2>3
<1> QED
  BY <1>1, <1>2, <1>3

(* What the next byte makes of k matched bytes: one more, or what it makes  *)
(* of the fallback of k.                                                    *)
LEMMA BestIfNext ==
  ASSUME NEW d, NEW k \in Nat, NEW c, d[k + 1] = c
  PROVE  IsBest(d, k, c, k + 1)
<1>1. Border(d, k, k)
  BY DEF Border
<1>2. (k + 1) - 1 = k
  OBVIOUS
<1> QED
  BY <1>1, <1>2 DEF IsBest

LEMMA BestOfNone ==
  ASSUME NEW d, NEW c, d[1] # c
  PROVE  IsBest(d, 0, c, 0)
BY DEF IsBest

LEMMA BestOfFallback ==
  ASSUME NEW d, NEW k \in Nat \ {0}, NEW c, d[k + 1] # c,
         NEW p, IsFallback(d, k, p), NEW v, IsBest(d, p, c, v)
  PROVE  IsBest(d, k, c, v)
<1>1. p \in Nat /\ p < k /\ Border(d, p, k)
  BY DEF IsFallback
<1>2. v \in 0..(k + 1)
  BY <1>1 DEF IsBest
<1>3. v > 0 => Border(d, v - 1, k) /\ d[v] = c
  BY <1>1, BorderTransitive DEF IsBest
<1>4. ASSUME NEW r \in 0..k, Border(d, r, k), d[r + 1] = c
      PROVE  r + 1 <= v
  <2>1. r # k
    BY <1>4
  <2>2. r \in 0..(k - 1)
    BY <2>1
  <2>3. r <= p
    BY <1>4, <2>2 DEF IsFallback
  <2>4. Border(d, r, p)
    BY <1>1, <1>4, <2>3, BorderOfBorder
  <2>5. r \in 0..p
    BY <1>1, <2>3
  <2> QED
    BY <1>4, <2>4, <2>5 DEF IsBest
<1> QED
  BY <1>2, <1>3, <1>4 DEF IsBest

(* The fallback of i is the best there is for byte i after that of i - 1.   *)
LEMMA FallbackFromBest ==
  ASSUME NEW d, NEW i \in Nat, i >= 2, NEW p, IsFallback(d, i - 1, p),
         NEW v, IsBest(d, p, d[i], v)
  PROVE  IsFallback(d, i, v)
<1> DEFINE j == i - 1
<1>1. j \in Nat /\ j + 1 = i /\ p \in Nat /\ p < j /\ Border(d, p, j)
  BY DEF IsFallback
<1>2. v \in 0..(i - 1) /\ v \in Nat
  BY <1>1 DEF IsBest
<1>3. Border(d, v, i)
  <2>1. CASE v = 0
    BY <2>1 DEF Border
  <2>2. CASE v > 0
    <3>1. Border(d, v - 1, p) /\ d[v] = d[i]
      BY <2>2 DEF IsBest
    <3>2. v - 1 \in Nat /\ v - 1 \in 0..j
      BY <1>1, <1>2, <2>2
    <3>3. Border(d, v - 1, j)
      BY <1>1, <3>1, <3>2, BorderTransitive
    <3>4. (v - 1) + 1 = v
      BY <1>2
    <3>5. Border(d, (v - 1) + 1, j + 1)
      <4> HIDE DEF j
      <4> QED
        BY <1>1, <3>1, <3>2, <3>3, <3>4, BorderExtends
    <3> QED
      BY <1>1, <3>4, <3>5
  <2> QED
    BY <1>2, <2>1, <2>2
<1>4. ASSUME NEW r \in 0..(i - 1), Border(d, r, i)
      PROVE  r <= v
  <2>1. CASE r = 0
    BY <1>2, <2>1
  <2>2. CASE r > 0
    <3>1. r - 1 \in 0..j /\ (r - 1) + 1 = r /\ r - 1 \in 0..(j - 1)
      BY <2>2
    <3>2. Border(d, r - 1, j) /\ d[r] = d[i]
      <4> HIDE DEF j
      <4>1. Border(d, (r - 1) + 1, j + 1)
        BY <1>1, <1>4, <3>1
      <4> QED
        BY <1>1, <3>1, <4>1, BorderExtends
    <3>3. r - 1 <= p
      BY <3>1, <3>2 DEF IsFallback
    <3>4. Border(d, r - 1, p)
      <4>1. r - 1 \in Nat
        BY <3>1
      <4> HIDE DEF j
      <4> QED
        BY <1>1, <3>2, <3>3, <4>1, BorderOfBorder
    <3>5. r - 1 \in 0..p
      BY <1>1, <3>1, <3>3
    <3>6. (r - 1) + 1 <= v
      BY <3>1, <3>2, <3>4, <3>5 DEF IsBest
    <3> QED
      BY <3>1, <3>6
  <2> QED
    BY <2>1, <2>2
<1> QED
  BY <1>2, <1>3, <1>4 DEF IsFallback

-----------------------------------------------------------------------------
(* The recursive functions of Failure and Scan, as what they are: some      *)
(* function that solves the equation.                                       *)
LongerOf(d, f, i, h) ==
  [k \in 0..(i - 1) |->
     IF d[i] = d[k + 1] THEN k + 1 ELSE IF k = 0 THEN 0 ELSE h[f[k]]]
Longer(d, f, i) == CHOOSE h : h = LongerOf(d, f, i, h)

FailureOf(d, f) ==
  [i \in DOMAIN d |-> IF i = 1 THEN 0 ELSE Longer(d, f, i)[f[i - 1]]]

LEMMA FailureIsChosen ==
  ASSUME NEW d
  PROVE  Failure(d) = CHOOSE f : f = FailureOf(d, f)
BY DEF Failure, FailureOf, Longer, LongerOf

(* Following fallbacks that are right up to i finds the best of each.       *)
LEMMA LongerSolves ==
  ASSUME NEW d, NEW f, NEW i \in Nat, i >= 2,
         \A k \in 1..(i - 1) : IsFallback(d, k, f[k])
  PROVE  \E h : h = LongerOf(d, f, i, h)
<1> DEFINE h == [k \in 0..(i - 1) |-> CHOOSE v \in 0..(k + 1) : IsBest(d, k, d[i], v)]
<1>1. \A k \in 0..(i - 1) : IsBest(d, k, d[i], h[k])
  <2> SUFFICES ASSUME NEW k \in 0..(i - 1) PROVE IsBest(d, k, d[i], h[k])
    OBVIOUS
  <2>1. k \in Nat
    OBVIOUS
  <2> QED
    BY <2>1, BestExists
<1>2. ASSUME NEW k \in 0..(i - 1)
      PROVE  h[k] = IF d[i] = d[k + 1] THEN k + 1 ELSE IF k = 0 THEN 0 ELSE h[f[k]]
  <2> HIDE DEF h
  <2>0. k \in Nat /\ IsBest(d, k, d[i], h[k])
    BY <1>1
  <2>1. CASE d[i] = d[k + 1]
    <3>1. IsBest(d, k, d[i], k + 1)
      BY <2>0, <2>1, BestIfNext
    <3> QED
      BY <2>0, <2>1, <3>1, BestUnique
  <2>2. CASE d[i] # d[k + 1] /\ k = 0
    <3>1. IsBest(d, k, d[i], 0)
      BY <2>2, BestOfNone
    <3>2. h[k] = 0
      BY <2>0, <3>1, BestUnique
    <3> QED
      BY <2>2, <3>2
  <2>3. CASE d[i] # d[k + 1] /\ k > 0
    <3>1. k \in 1..(i - 1) /\ IsFallback(d, k, f[k])
      BY <2>3
    <3>2. f[k] \in 0..(i - 1)
      BY <3>1 DEF IsFallback
    <3>3. IsBest(d, k, d[i], h[f[k]])
      BY <1>1, <2>3, <3>1, <3>2, BestOfFallback
    <3>4. h[k] = h[f[k]]
      BY <2>0, <3>3, BestUnique
    <3> QED
      BY <2>3, <3>4
  <2> QED
    BY <2>0, <2>1, <2>2, <2>3
<1>3. h = [k \in 0..(i - 1) |-> h[k]]
  OBVIOUS
<1>4. h = LongerOf(d, f, i, h)
  <2> HIDE DEF h
  <2> QED
    BY <1>2, <1>3 DEF LongerOf
<1> QED
  BY <1>4

LEMMA LongerIsBest ==
  ASSUME NEW d, NEW f, NEW i \in Nat, i >= 2,
         \A k \in 1..(i - 1) : IsFallback(d, k, f[k])
  PROVE  \A k \in 0..(i - 1) : IsBest(d, k, d[i], Longer(d, f, i)[k])
<1> DEFINE h == Longer(d, f, i)
<1>1. h = LongerOf(d, f, i, h)
  <2> DEFINE Solves(g) == g = LongerOf(d, f, i, g)
  <2>1. \E g : Solves(g)
    BY LongerSolves
  <2>2. Solves(CHOOSE g : Solves(g))
    <3> HIDE DEF Solves
    <3> QED
      BY <2>1, Zenon
  <2>3. h = CHOOSE g : Solves(g)
    BY DEF Longer
  <2>4. Solves(h)
    <3> HIDE DEF Solves, h
    <3> QED
      BY <2>2, <2>3
  <2> QED
    BY <2>4
<1> HIDE DEF h
<1>2. \A k \in 0..(i - 1) :
        h[k] = IF d[i] = d[k + 1] THEN k + 1 ELSE IF k = 0 THEN 0 ELSE h[f[k]]
  BY <1>1 DEF LongerOf
<1> DEFINE Wrong == {k \in 0..(i - 1) : ~IsBest(d, k, d[i], h[k])}
<1>3. Wrong = {}
  <2> SUFFICES ASSUME Wrong # {} PROVE FALSE
    OBVIOUS
  <2>1. Wrong \in SUBSET Nat
    OBVIOUS
  <2>2. PICK k \in Wrong : \A m \in Wrong : k <= m
    BY <2>1, LeastNat
  <2>3. k \in 0..(i - 1) /\ k \in Nat /\ ~IsBest(d, k, d[i], h[k])
    OBVIOUS
  <2>4. CASE d[i] = d[k + 1]
    BY <1>2, <2>3, <2>4, BestIfNext
  <2>5. CASE d[i] # d[k + 1] /\ k = 0
    BY <1>2, <2>3, <2>5, BestOfNone
  <2>6. CASE d[i] # d[k + 1] /\ k > 0
    <3>1. k \in 1..(i - 1) /\ IsFallback(d, k, f[k])
      BY <2>3, <2>6
    <3>2. f[k] \in 0..(i - 1) /\ f[k] < k
      BY <3>1 DEF IsFallback
    <3>3. f[k] \notin Wrong
      BY <2>2, <2>3, <3>2
    <3>4. IsBest(d, f[k], d[i], h[f[k]])
      BY <3>2, <3>3
    <3>5. IsBest(d, k, d[i], h[f[k]])
      BY <2>3, <2>6, <3>1, <3>4, BestOfFallback
    <3> QED
      BY <1>2, <2>3, <2>6, <3>5
  <2> QED
    BY <2>3, <2>4, <2>5, <2>6
<1>4. \A k \in 0..(i - 1) : IsBest(d, k, d[i], h[k])
  BY <1>3
<1> QED
  BY <1>4 DEF h

LEMMA FirstFallback ==
  ASSUME NEW d
  PROVE  IsFallback(d, 1, 0)
BY DEF IsFallback, Border

LEMMA FailureSolves ==
  ASSUME NEW d, NEW L \in Nat, DOMAIN d = 1..L
  PROVE  \E f : f = FailureOf(d, f)
<1> DEFINE f == [i \in 1..L |-> CHOOSE v \in 0..(i - 1) : IsFallback(d, i, v)]
<1>1. \A i \in 1..L : IsFallback(d, i, f[i])
  <2> SUFFICES ASSUME NEW i \in 1..L PROVE IsFallback(d, i, f[i])
    OBVIOUS
  <2>1. i \in Nat \ {0}
    OBVIOUS
  <2> QED
    BY <2>1, FallbackExists
<1>2. ASSUME NEW i \in 1..L
      PROVE  f[i] = IF i = 1 THEN 0 ELSE Longer(d, f, i)[f[i - 1]]
  <2> HIDE DEF f
  <2>1. CASE i = 1
    BY <1>1, <2>1, FirstFallback, FallbackUnique
  <2>2. CASE i # 1
    <3>1. i \in Nat /\ i >= 2 /\ i - 1 \in 1..L
      BY <2>2
    <3>2. \A k \in 1..(i - 1) : IsFallback(d, k, f[k])
      BY <1>1, <3>1
    <3>3. IsFallback(d, i - 1, f[i - 1])
      BY <1>1, <3>1
    <3>4. f[i - 1] \in 0..(i - 1)
      BY <3>1, <3>3 DEF IsFallback
    <3>5. IsBest(d, f[i - 1], d[i], Longer(d, f, i)[f[i - 1]])
      BY <3>1, <3>2, <3>4, LongerIsBest
    <3>6. IsFallback(d, i, Longer(d, f, i)[f[i - 1]])
      BY <3>1, <3>3, <3>5, FallbackFromBest
    <3>7. i \in Nat \ {0} /\ IsFallback(d, i, f[i])
      BY <1>1, <3>1
    <3> QED
      BY <2>2, <3>6, <3>7, FallbackUnique
  <2> QED
    BY <2>1, <2>2
<1>3. f = [i \in 1..L |-> f[i]]
  OBVIOUS
<1>4. f = FailureOf(d, f)
  <2> HIDE DEF f
  <2> QED
    BY <1>2, <1>3 DEF FailureOf
<1> QED
  BY <1>4

(* kmp_failure is right: each entry is the longest proper border.           *)
THEOREM FailureIsLongestBorder ==
  ASSUME NEW d, NEW L \in Nat, DOMAIN d = 1..L
  PROVE  \A i \in 1..L : IsFallback(d, i, Failure(d)[i])
<1> DEFINE f == Failure(d)
<1>1. f = FailureOf(d, f)
  <2> DEFINE Solves(g) == g = FailureOf(d, g)
  <2>1. f = CHOOSE g : Solves(g)
    BY FailureIsChosen
  <2>2. \E g : Solves(g)
    BY FailureSolves
  <2>3. Solves(CHOOSE g : Solves(g))
    <3> HIDE DEF Solves
    <3> QED
      BY <2>2, Zenon
  <2>4. Solves(f)
    <3> HIDE DEF Solves, f
    <3> QED
      BY <2>1, <2>3
  <2> QED
    BY <2>4
<1> HIDE DEF f
<1>2. \A i \in 1..L : f[i] = IF i = 1 THEN 0 ELSE Longer(d, f, i)[f[i - 1]]
  BY <1>1 DEF FailureOf
<1> DEFINE Wrong == {i \in 1..L : ~IsFallback(d, i, f[i])}
<1>3. Wrong = {}
  <2> SUFFICES ASSUME Wrong # {} PROVE FALSE
    OBVIOUS
  <2>1. Wrong \in SUBSET Nat
    OBVIOUS
  <2>2. PICK i \in Wrong : \A m \in Wrong : i <= m
    BY <2>1, LeastNat
  <2>3. i \in 1..L /\ i \in Nat \ {0} /\ ~IsFallback(d, i, f[i])
    OBVIOUS
  <2>4. CASE i = 1
    BY <1>2, <2>3, <2>4, FirstFallback
  <2>5. CASE i # 1
    <3>1. i \in Nat /\ i >= 2 /\ i - 1 \in 1..L
      BY <2>3, <2>5
    <3>2. \A k \in 1..(i - 1) : IsFallback(d, k, f[k])
      <4> SUFFICES ASSUME NEW k \in 1..(i - 1) PROVE IsFallback(d, k, f[k])
        OBVIOUS
      <4>1. k \in 1..L /\ k \notin Wrong
        BY <2>2, <2>3
      <4> QED
        BY <4>1
    <3>3. IsFallback(d, i - 1, f[i - 1])
      BY <3>1, <3>2
    <3>4. f[i - 1] \in 0..(i - 1)
      BY <3>1, <3>3 DEF IsFallback
    <3>5. IsBest(d, f[i - 1], d[i], Longer(d, f, i)[f[i - 1]])
      BY <3>1, <3>2, <3>4, LongerIsBest
    <3>6. IsFallback(d, i, Longer(d, f, i)[f[i - 1]])
      BY <3>1, <3>3, <3>5, FallbackFromBest
    <3> QED
      BY <1>2, <2>3, <2>5, <3>6
  <2> QED
    BY <2>4, <2>5
<1> QED
  BY <1>3 DEF f

-----------------------------------------------------------------------------
(* Scan finds the longest match, and passes the bytes before it.            *)
Passed(d, k, c, v) == [x \in 1..(k + 1 - v) |-> IF x <= k THEN d[x] ELSE c]
Scanned(d, k, c, v) == [matched |-> v, passed |-> Passed(d, k, c, v)]

PassMore(r, s) == [r EXCEPT !.passed = s \o @]
ScanOf(d, c, g) ==
  [k \in 0..(Len(d) - 1) |->
     IF c = d[k + 1] THEN [matched |-> k + 1, passed |-> <<>>]
     ELSE IF k = 0 THEN [matched |-> 0, passed |-> <<c>>]
     ELSE PassMore(g[Failure(d)[k]], SubSeq(d, 1, k - Failure(d)[k]))]

LEMMA ScanIsChosen ==
  ASSUME NEW b
  PROVE  Scan(b) = (CHOOSE g : g = ScanOf(delim, b, g))[matched]
BY DEF Scan, ScanOf, PassMore

(* What a byte passes on is bytes, as many as it leaves unmatched.          *)
PassedFits(S, d, k, c, v) ==
  Passed(d, k, c, v) \in Seq(S) /\ Len(Passed(d, k, c, v)) = k + 1 - v

LEMMA PassedType ==
  ASSUME NEW S, NEW d \in Seq(S), NEW k \in Nat, k <= Len(d), NEW c \in S,
         NEW v \in Nat, v <= k + 1
  PROVE  PassedFits(S, d, k, c, v)
<1>1. k + 1 - v \in Nat
  OBVIOUS
<1>2. \A x \in 1..(k + 1 - v) : (IF x <= k THEN d[x] ELSE c) \in S
  OBVIOUS
<1> QED
  BY <1>1, <1>2 DEF Passed, PassedFits

LEMMA PassedOnMatch ==
  ASSUME NEW d, NEW k \in Nat, NEW c
  PROVE  Passed(d, k, c, k + 1) = <<>>
BY DEF Passed

LEMMA PassedOnNone ==
  ASSUME NEW d, NEW c
  PROVE  Passed(d, 0, c, 0) = <<c>>
<1>1. Passed(d, 0, c, 0) = [x \in 1..1 |-> c]
  BY DEF Passed
<1> QED
  BY <1>1

(* Falling back gives up the bytes the shorter match does not start with.   *)
PassesThrough(d, k, p, c, v) ==
  SubSeq(d, 1, k - p) \o Passed(d, p, c, v) = Passed(d, k, c, v)

LEMMA PassedOnFallback ==
  ASSUME NEW S, NEW d \in Seq(S), NEW k \in Nat, 0 < k, k <= Len(d),
         NEW c \in S, NEW p \in Nat, IsFallback(d, k, p), NEW v \in Nat, v <= p + 1
  PROVE  PassesThrough(d, k, p, c, v)
<1> DEFINE a == SubSeq(d, 1, k - p)
           b == Passed(d, p, c, v)
           r == Passed(d, k, c, v)
<1>0. Len(d) \in Nat
  OBVIOUS
<1>1. p \in 0..(k - 1) /\ \A x \in 1..p : d[x] = d[k - p + x]
  BY DEF IsFallback, Border
<1>2. /\ k \in Nat /\ p \in Nat /\ v \in Nat /\ p < k /\ v <= p + 1
      /\ p <= Len(d) /\ k <= Len(d) /\ v <= k + 1
  BY <1>0, <1>1
<1>3. a \in Seq(S) /\ Len(a) = k - p /\ \A x \in 1..(k - p) : a[x] = d[x]
  <2>1. \A x \in 1..(k - p) : d[x] \in S
    BY <1>0, <1>2
  <2>2. k - p \in Int /\ 1 <= k - p
    BY <1>2
  <2> QED
    BY <2>1, <2>2, SubSeqProperties
<1>4. b \in Seq(S) /\ Len(b) = p + 1 - v
  <2>1. p <= Len(d) /\ v <= p + 1
    BY <1>2
  <2>2. Passed(d, p, c, v) \in Seq(S) /\ Len(Passed(d, p, c, v)) = p + 1 - v
    <3>1. p + 1 - v \in Nat
      BY <2>1
    <3>2. \A x \in 1..(p + 1 - v) : (IF x <= p THEN d[x] ELSE c) \in S
      BY <2>1
    <3> QED
      BY <3>1, <3>2 DEF Passed
  <2> QED
    BY <2>2
<1>5. \A x \in 1..(p + 1 - v) : b[x] = IF x <= p THEN d[x] ELSE c
  BY DEF Passed
<1>6. r \in Seq(S) /\ Len(r) = k + 1 - v
  <2>1. k \in Nat /\ k <= Len(d) /\ v \in Nat /\ v <= k + 1
    BY <1>2
  <2>2. d \in Seq(S) /\ c \in S
    OBVIOUS
  <2>3. PassedFits(S, d, k, c, v)
    BY <2>1, <2>2, PassedType, Zenon
  <2> QED
    BY <2>3 DEF PassedFits
<1>7. \A x \in 1..(k + 1 - v) : r[x] = IF x <= k THEN d[x] ELSE c
  BY DEF Passed
<1> HIDE DEF a, b, r
<1>8. /\ a \o b \in Seq(S) /\ Len(a \o b) = Len(a) + Len(b)
      /\ \A x \in 1..(Len(a) + Len(b)) :
           (a \o b)[x] = IF x <= Len(a) THEN a[x] ELSE b[x - Len(a)]
  BY <1>3, <1>4, ConcatProperties
<1>9. Len(a) + Len(b) = k + 1 - v
  BY <1>1, <1>3, <1>4
<1>10. ASSUME NEW x \in 1..(k + 1 - v) PROVE (a \o b)[x] = r[x]
  <2>1. CASE x <= k - p
    <3>1. x \in 1..(k - p) /\ x <= k
      BY <1>1, <2>1
    <3>2. (a \o b)[x] = a[x]
      BY <1>3, <1>8, <1>9, <2>1
    <3> QED
      BY <1>3, <1>7, <3>1, <3>2
  <2>2. CASE x > k - p
    <3>1. x - (k - p) \in 1..(p + 1 - v)
      BY <1>1, <2>2
    <3>2. (a \o b)[x] = b[x - (k - p)]
      BY <1>1, <1>3, <1>8, <1>9, <2>2
    <3>3. CASE x <= k
      <4>1. x - (k - p) \in 1..p /\ k - p + (x - (k - p)) = x
        BY <1>1, <3>1, <3>3
      <4>2. b[x - (k - p)] = d[x]
        BY <1>1, <1>5, <3>1, <4>1
      <4> QED
        BY <1>7, <3>2, <3>3, <4>2
    <3>4. CASE x > k
      <4>1. x - (k - p) > p /\ ~(x - (k - p) <= p) /\ ~(x <= k)
        BY <1>2, <3>4
      <4> QED
        BY <1>2, <1>5, <1>7, <3>1, <3>2, <3>4, <4>1
    <3>5. x <= k \/ x > k
      BY <1>2
    <3> QED
      BY <3>3, <3>4, <3>5
  <2>3. x <= k - p \/ x > k - p
    BY <1>2
  <2> QED
    BY <2>1, <2>2, <2>3
<1>11. a \o b = r
  BY <1>6, <1>8, <1>9, <1>10, SeqEqual
<1> QED
  BY <1>11 DEF a, b, r, PassesThrough

ScansThrough(d, k, p, c, v) ==
  PassMore(Scanned(d, p, c, v), SubSeq(d, 1, k - p)) = Scanned(d, k, c, v)

LEMMA ScanFallback ==
  ASSUME NEW S, NEW d \in Seq(S), NEW k \in Nat, 0 < k, k <= Len(d),
         NEW c \in S, NEW p \in Nat, IsFallback(d, k, p), NEW v \in Nat, v <= p + 1
  PROVE  ScansThrough(d, k, p, c, v)
<1> DEFINE r == Scanned(d, p, c, v)
           t == SubSeq(d, 1, k - p)
<1>1. t \o Passed(d, p, c, v) = Passed(d, k, c, v)
  <2>1. PassesThrough(d, k, p, c, v)
    BY PassedOnFallback, Zenon
  <2> QED
    BY <2>1, Zenon DEF PassesThrough
<1>2. r.passed = Passed(d, p, c, v)
  BY DEF Scanned
<1>3. \A u : [r EXCEPT !.passed = u] = [matched |-> v, passed |-> u]
  BY DEF Scanned
<1>4. [r EXCEPT !.passed = t \o @] = [matched |-> v, passed |-> t \o r.passed]
  <2> HIDE DEF r, t
  <2> QED
    BY <1>3, Zenon
<1> QED
  BY <1>1, <1>2, <1>4, Zenon DEF Scanned, PassMore, ScansThrough

LEMMA ScanSolves ==
  ASSUME NEW S, NEW d \in Seq(S), NEW c \in S
  PROVE  \E g : g = ScanOf(d, c, g)
<1> DEFINE best(k) == CHOOSE v \in 0..(k + 1) : IsBest(d, k, c, v)
           g == [k \in 0..(Len(d) - 1) |-> Scanned(d, k, c, best(k))]
<1>1. \A k \in Nat : best(k) \in 0..(k + 1) /\ IsBest(d, k, c, best(k))
  BY BestExists
<1>2. \A k \in 0..(Len(d) - 1) : g[k] = Scanned(d, k, c, best(k))
  OBVIOUS
<1>3. g = [k \in 0..(Len(d) - 1) |-> g[k]]
  OBVIOUS
<1> HIDE DEF best, g
<1>4. ASSUME NEW k \in 0..(Len(d) - 1)
      PROVE  g[k] = IF c = d[k + 1] THEN [matched |-> k + 1, passed |-> <<>>]
                    ELSE IF k = 0 THEN [matched |-> 0, passed |-> <<c>>]
                    ELSE PassMore(g[Failure(d)[k]], SubSeq(d, 1, k - Failure(d)[k]))
  <2>0. k \in Nat /\ Len(d) \in Nat
    OBVIOUS
  <2>1. CASE c = d[k + 1]
    <3>1. best(k) = k + 1
      BY <1>1, <2>0, <2>1, BestIfNext, BestUnique
    <3> QED
      BY <1>2, <2>0, <2>1, <3>1, PassedOnMatch DEF Scanned
  <2>2. CASE c # d[k + 1] /\ k = 0
    <3>1. best(0) = 0
      <4>1. d[1] # c
        BY <2>2
      <4>2. IsBest(d, 0, c, 0)
        BY <4>1, BestOfNone, Zenon
      <4>3. 0 \in Nat /\ IsBest(d, 0, c, best(0))
        BY <1>1
      <4> QED
        BY <4>2, <4>3, BestUnique, Zenon
    <3> QED
      BY <1>2, <2>2, <3>1, PassedOnNone DEF Scanned
  <2>3. CASE c # d[k + 1] /\ k # 0
    <3> DEFINE p == Failure(d)[k]
    <3>1. k \in 1..Len(d) /\ IsFallback(d, k, p)
      BY <2>0, <2>3, FailureIsLongestBorder
    <3> HIDE DEF p
    <3>2. p \in 0..(Len(d) - 1) /\ p \in Nat
      BY <2>0, <3>1 DEF IsFallback
    <3>3. best(p) \in 0..(p + 1) /\ best(p) \in Nat /\ best(p) <= p + 1 /\ IsBest(d, k, c, best(p))
      <4>1. best(p) \in 0..(p + 1) /\ best(p) \in Nat /\ best(p) <= p + 1 /\ IsBest(d, p, c, best(p))
        <5>1. best(p) \in 0..(p + 1) /\ IsBest(d, p, c, best(p))
          BY <1>1, <3>2, Zenon
        <5> QED
          BY <3>2, <5>1
      <4>2. k \in Nat \ {0} /\ d[k + 1] # c
        BY <2>0, <2>3
      <4> QED
        BY <3>1, <4>1, <4>2, BestOfFallback, Zenon
    <3>4. best(k) = best(p)
      BY <1>1, <2>0, <3>3, BestUnique
    <3>5. g[k] = PassMore(g[p], SubSeq(d, 1, k - p))
      <4>1. g[k] = Scanned(d, k, c, best(p)) /\ g[p] = Scanned(d, p, c, best(p))
        BY <1>2, <3>2, <3>4
      <4>2. 0 < k /\ k <= Len(d)
        BY <2>0, <2>3
      <4> DEFINE v == best(p)
      <4>3. PassMore(Scanned(d, p, c, v), SubSeq(d, 1, k - p)) = Scanned(d, k, c, v)
        <5>1. d \in Seq(S) /\ c \in S
          OBVIOUS
        <5>2. k \in Nat /\ p \in Nat /\ v \in Nat /\ v <= p + 1 /\ IsFallback(d, k, p)
          BY <2>0, <3>1, <3>2, <3>3
        <5> HIDE DEF v
        <5>3. ScansThrough(d, k, p, c, v)
          BY <4>2, <5>1, <5>2, ScanFallback, Zenon
        <5> QED
          BY <5>3, Zenon DEF ScansThrough
      <4> QED
        BY <4>1, <4>3, Zenon
    <3> QED
      BY <2>3, <3>5 DEF p
  <2> QED
    BY <2>1, <2>2, <2>3
<1>5. g = ScanOf(d, c, g)
  BY <1>3, <1>4 DEF ScanOf
<1> QED
  BY <1>5

(* Whatever byte comes next: the longest match there is, and the bytes that *)
(* are then not part of it.                                                 *)
THEOREM ScanIsExact ==
  ASSUME NEW S, delim \in Seq(S), NEW b \in S, matched \in 0..(Len(delim) - 1)
  PROVE  \E v \in 0..(matched + 1) :
           IsBest(delim, matched, b, v) /\ Scan(b) = Scanned(delim, matched, b, v)
<1> DEFINE d == delim
           Solves(g) == g = ScanOf(d, b, g)
           g == CHOOSE h : Solves(h)
<1>1. Solves(g)
  <2>1. \E h : Solves(h)
    BY ScanSolves
  <2> HIDE DEF Solves
  <2> QED
    BY <2>1, Zenon
<1>2. Scan(b) = g[matched]
  BY ScanIsChosen
<1>3. g = ScanOf(d, b, g)
  <2> HIDE DEF g
  <2> QED
    BY <1>1
<1> HIDE DEF g
<1>4. \A k \in 0..(Len(d) - 1) :
        g[k] = IF b = d[k + 1] THEN [matched |-> k + 1, passed |-> <<>>]
               ELSE IF k = 0 THEN [matched |-> 0, passed |-> <<b>>]
               ELSE PassMore(g[Failure(d)[k]], SubSeq(d, 1, k - Failure(d)[k]))
  BY <1>3 DEF ScanOf
<1> DEFINE Right(k) ==
      \E v \in 0..(k + 1) : IsBest(d, k, b, v) /\ g[k] = Scanned(d, k, b, v)
           Wrong == {k \in 0..(Len(d) - 1) : ~Right(k)}
<1>5. Wrong = {}
  <2> SUFFICES ASSUME Wrong # {} PROVE FALSE
    OBVIOUS
  <2>1. Wrong \in SUBSET Nat
    OBVIOUS
  <2> HIDE DEF Right
  <2>2. PICK k \in Wrong : \A m \in Wrong : k <= m
    BY <2>1, LeastNat
  <2>3. k \in 0..(Len(d) - 1) /\ k \in Nat /\ ~Right(k) /\ Len(d) \in Nat
    OBVIOUS
  <2>4. CASE b = d[k + 1]
    <3>1. IsBest(d, k, b, k + 1)
      BY <2>3, <2>4, BestIfNext
    <3>2. g[k] = Scanned(d, k, b, k + 1)
      BY <1>4, <2>3, <2>4, PassedOnMatch DEF Scanned
    <3>3. k + 1 \in 0..(k + 1)
      BY <2>3
    <3> QED
      BY <2>3, <3>1, <3>2, <3>3, Zenon DEF Right
  <2>5. CASE b # d[k + 1] /\ k = 0
    <3>1. d[1] # b
      BY <2>5
    <3>2. IsBest(d, 0, b, 0)
      BY <3>1, BestOfNone, Zenon
    <3>3. g[k] = Scanned(d, 0, b, 0)
      BY <1>4, <2>3, <2>5, PassedOnNone DEF Scanned
    <3>4. 0 \in 0..(k + 1)
      BY <2>3
    <3> QED
      BY <2>3, <2>5, <3>2, <3>3, <3>4, Zenon DEF Right
  <2>6. CASE b # d[k + 1] /\ k # 0
    <3> DEFINE p == Failure(d)[k]
    <3>1. k \in 1..Len(d) /\ IsFallback(d, k, p)
      BY <2>3, <2>6, FailureIsLongestBorder
    <3> HIDE DEF p
    <3>2. p \in 0..(Len(d) - 1) /\ p \in Nat /\ p < k
      BY <2>3, <3>1 DEF IsFallback
    <3>3. Right(p)
      BY <2>2, <2>3, <3>2
    <3>4. PICK v \in 0..(p + 1) : IsBest(d, p, b, v) /\ g[p] = Scanned(d, p, b, v)
      BY <3>3 DEF Right
    <3>5. v \in Nat /\ v <= p + 1 /\ v \in 0..(k + 1)
      BY <2>3, <3>2
    <3>6. IsBest(d, k, b, v)
      <4>1. k \in Nat \ {0} /\ d[k + 1] # b
        BY <2>3, <2>6
      <4> QED
        BY <3>1, <3>4, <4>1, BestOfFallback, Zenon
    <3>7. PassMore(Scanned(d, p, b, v), SubSeq(d, 1, k - p)) = Scanned(d, k, b, v)
      <4>1. 0 < k /\ k <= Len(d) /\ k \in Nat
        BY <2>3, <2>6
      <4>2. d \in Seq(S) /\ b \in S
        OBVIOUS
      <4>3. p \in Nat /\ v \in Nat /\ v <= p + 1 /\ IsFallback(d, k, p)
        BY <3>1, <3>2, <3>5
      <4>4. ScansThrough(d, k, p, b, v)
        BY <4>1, <4>2, <4>3, ScanFallback, Zenon
      <4> QED
        BY <4>4, Zenon DEF ScansThrough
    <3>8. g[k] = PassMore(g[p], SubSeq(d, 1, k - p))
      BY <1>4, <2>3, <2>6 DEF p
    <3> QED
      BY <2>3, <3>4, <3>5, <3>6, <3>7, <3>8, Zenon DEF Right
  <2> QED
    BY <2>4, <2>5, <2>6
<1> QED
  BY <1>2, <1>5

-----------------------------------------------------------------------------
(* The place of the search: the bytes taken end with the first k of d.      *)
Ends(d, k, t) == k <= Len(t) /\ \A x \in 1..k : d[x] = t[Len(t) - k + x]
LongestMatch(d, m, t) == \A k \in 0..Len(d) : Ends(d, k, t) => k <= m

LEMMA PrefixElements ==
  ASSUME NEW S, NEW d \in Seq(S), NEW m \in Nat, m <= Len(d)
  PROVE  /\ SubSeq(d, 1, m) \in Seq(S) /\ Len(SubSeq(d, 1, m)) = m
         /\ \A x \in 1..m : SubSeq(d, 1, m)[x] = d[x]
<1>1. Len(d) \in Nat /\ \A x \in 1..Len(d) : d[x] \in S
  OBVIOUS
<1>2. \A x \in 1..m : d[x] \in S
  BY <1>1
<1>3. m \in Int /\ 1 \in Int /\ m - 1 + 1 = m
  OBVIOUS
<1>4. /\ SubSeq(d, 1, m) \in Seq(S)
      /\ Len(SubSeq(d, 1, m)) = IF 1 <= m THEN m - 1 + 1 ELSE 0
      /\ \A x \in 1..(m - 1 + 1) : SubSeq(d, 1, m)[x] = d[1 + x - 1]
  BY <1>2, <1>3, SubSeqProperties
<1>5. \A x \in 1..m : 1 + x - 1 = x
  OBVIOUS
<1> QED
  BY <1>3, <1>4, <1>5

(* Whatever a byte does to the match, out and the match make up what was    *)
(* taken.                                                                   *)
KeepsTaken(o, d, m, b, v) ==
  Append(o \o SubSeq(d, 1, m), b) = (o \o Passed(d, m, b, v)) \o SubSeq(d, 1, v)

LEMMA ScanKeepsTaken ==
  ASSUME NEW S, NEW d \in Seq(S), NEW m \in Nat, m < Len(d), NEW b \in S,
         NEW o \in Seq(S), NEW v \in Nat, v <= m + 1, IsBest(d, m, b, v)
  PROVE  KeepsTaken(o, d, m, b, v)
<1> DEFINE a == SubSeq(d, 1, m)
           p == Passed(d, m, b, v)
           e == SubSeq(d, 1, v)
           l == Append(o \o a, b)
           r == (o \o p) \o e
           N == Len(o)
<1>0. N \in Nat /\ Len(d) \in Nat /\ m <= Len(d) /\ v <= Len(d)
  OBVIOUS
<1>1. a \in Seq(S) /\ Len(a) = m /\ \A x \in 1..m : a[x] = d[x]
  BY <1>0, PrefixElements
<1>2. e \in Seq(S) /\ Len(e) = v /\ \A x \in 1..v : e[x] = d[x]
  BY <1>0, PrefixElements
<1>3. p \in Seq(S) /\ Len(p) = m + 1 - v
  <2>1. d \in Seq(S) /\ b \in S /\ m \in Nat /\ m <= Len(d) /\ v \in Nat /\ v <= m + 1
    BY <1>0
  <2>2. PassedFits(S, d, m, b, v)
    BY <2>1, PassedType, Zenon
  <2> QED
    BY <2>2, Zenon DEF PassedFits
<1>4. \A x \in 1..(m + 1 - v) : p[x] = IF x <= m THEN d[x] ELSE b
  BY DEF Passed
<1>5. v > 0 => d[v] = b /\ \A x \in 1..(v - 1) : d[x] = d[m - (v - 1) + x]
  BY DEF IsBest, Border
<1> HIDE DEF a, p, e
<1>6. /\ o \o a \in Seq(S) /\ Len(o \o a) = N + m
      /\ \A x \in 1..(N + m) : (o \o a)[x] = IF x <= N THEN o[x] ELSE a[x - N]
  BY <1>1, ConcatProperties
<1>7. l \in Seq(S) /\ Len(l) = N + m + 1
      /\ (\A x \in 1..(N + m) : l[x] = (o \o a)[x])
      /\ l[N + m + 1] = b
  BY <1>0, <1>6, AppendProperties
<1>8. /\ o \o p \in Seq(S) /\ Len(o \o p) = N + (m + 1 - v)
      /\ \A x \in 1..(N + (m + 1 - v)) : (o \o p)[x] = IF x <= N THEN o[x] ELSE p[x - N]
  <2>1. /\ o \o p \in Seq(S) /\ Len(o \o p) = Len(o) + Len(p)
        /\ \A x \in 1..(Len(o) + Len(p)) :
             (o \o p)[x] = IF x <= Len(o) THEN o[x] ELSE p[x - Len(o)]
    BY <1>3, ConcatProperties
  <2>2. Len(o) = N /\ Len(p) = m + 1 - v
    BY <1>3
  <2> HIDE DEF N
  <2> QED
    BY <2>1, <2>2, Zenon
<1>9. /\ r \in Seq(S) /\ Len(r) = N + (m + 1 - v) + v
      /\ \A x \in 1..(N + (m + 1 - v) + v) :
           r[x] = IF x <= N + (m + 1 - v) THEN (o \o p)[x]
                  ELSE e[x - (N + (m + 1 - v))]
  <2> DEFINE q == o \o p
  <2>1. q \in Seq(S) /\ Len(q) = N + (m + 1 - v)
    BY <1>8
  <2> HIDE DEF q, N
  <2>2. /\ q \o e \in Seq(S) /\ Len(q \o e) = Len(q) + Len(e)
        /\ \A x \in 1..(Len(q) + Len(e)) :
             (q \o e)[x] = IF x <= Len(q) THEN q[x] ELSE e[x - Len(q)]
    BY <1>2, <2>1, ConcatProperties
  <2> QED
    BY <1>2, <2>1, <2>2 DEF q, r
<1> HIDE DEF l, r, N
<1>10. N + (m + 1 - v) + v = N + m + 1
  BY <1>0
<1>11. ASSUME NEW x \in 1..(N + m + 1) PROVE l[x] = r[x]
  <2>0. x \in Nat /\ x >= 1 /\ x <= N + m + 1
    BY <1>0
  <2>1. CASE x <= N
    <3>1. x \in 1..(N + m) /\ x \in 1..(N + (m + 1 - v)) /\ x <= N + (m + 1 - v)
      BY <1>0, <2>0, <2>1
    <3>2. l[x] = (o \o a)[x] /\ (o \o a)[x] = o[x]
      BY <1>6, <1>7, <2>1, <3>1
    <3>3. r[x] = (o \o p)[x] /\ (o \o p)[x] = IF x <= N THEN o[x] ELSE p[x - N]
      BY <1>8, <1>9, <1>10, <3>1
    <3> QED
      BY <2>1, <3>2, <3>3
  <2>2. CASE x > N /\ x <= N + (m + 1 - v)
    <3> DEFINE y == x - N
    <3>1. y \in 1..(m + 1 - v) /\ x \in 1..(N + (m + 1 - v)) /\ ~(x <= N) /\ y \in Nat
      BY <1>0, <2>0, <2>2
    <3>2. r[x] = (o \o p)[x]
      BY <1>9, <1>10, <2>2
    <3>3. r[x] = p[y]
      BY <1>8, <3>1, <3>2
    <3>4. r[x] = IF y <= m THEN d[y] ELSE b
      BY <1>4, <3>1, <3>3
    <3>5. CASE y <= m
      <4>1. x \in 1..(N + m) /\ y \in 1..m
        BY <1>0, <2>0, <3>1, <3>5
      <4>2. l[x] = a[y]
        BY <1>6, <1>7, <3>1, <4>1
      <4> QED
        BY <1>1, <3>4, <3>5, <4>1, <4>2
    <3>6. CASE y > m
      <4>1. x = N + m + 1 /\ ~(y <= m)
        BY <1>0, <2>0, <3>1, <3>6
      <4> QED
        BY <1>7, <3>4, <4>1
    <3> QED
      BY <3>1, <3>5, <3>6
  <2>3. CASE x > N + (m + 1 - v)
    <3> DEFINE z == x - (N + (m + 1 - v))
    <3>1. z \in 1..v /\ z \in Nat /\ ~(x <= N + (m + 1 - v)) /\ v > 0
      BY <1>0, <2>0, <2>3
    <3>2. r[x] = d[z]
      BY <1>2, <1>9, <1>10, <3>1
    <3>3. CASE x <= N + m
      <4>1. z \in 1..(v - 1) /\ m - (v - 1) + z = x - N /\ x - N \in 1..m
            /\ x \in 1..(N + m) /\ ~(x <= N)
        BY <1>0, <2>0, <2>3, <3>3
      <4>2. r[x] = d[x - N]
        BY <1>5, <3>1, <3>2, <4>1
      <4>3. l[x] = a[x - N]
        BY <1>6, <1>7, <4>1
      <4> QED
        BY <1>1, <4>1, <4>2, <4>3
    <3>4. CASE x > N + m
      <4>1. x = N + m + 1 /\ z = v
        BY <1>0, <2>0, <3>4
      <4> QED
        BY <1>5, <1>7, <3>1, <3>2, <4>1
    <3>5. x <= N + m \/ x > N + m
      BY <1>0, <2>0
    <3> QED
      BY <3>3, <3>4, <3>5
  <2>4. x <= N \/ (x > N /\ x <= N + (m + 1 - v)) \/ x > N + (m + 1 - v)
    BY <1>0, <2>0
  <2> QED
    BY <2>1, <2>2, <2>3, <2>4
<1>12. l = r
  BY <1>7, <1>9, <1>10, <1>11, SeqEqual
<1> QED
  BY <1>12, Zenon DEF l, r, a, p, e, KeepsTaken

LEMMA ScanKeepsLongest ==
  ASSUME NEW S, NEW d \in Seq(S), NEW m \in Nat, m < Len(d), NEW b \in S,
         NEW t \in Seq(S), Ends(d, m, t), LongestMatch(d, m, t),
         NEW v \in Nat, IsBest(d, m, b, v)
  PROVE  LongestMatch(d, v, Append(t, b))
<1> DEFINE u == Append(t, b)
           T == Len(t)
<1>0. T \in Nat /\ Len(d) \in Nat /\ m <= T
  BY DEF Ends
<1>1. u \in Seq(S) /\ Len(u) = T + 1 /\ (\A x \in 1..T : u[x] = t[x]) /\ u[T + 1] = b
  BY AppendProperties
<1> HIDE DEF u
<1>2. ASSUME NEW k \in 0..Len(d), Ends(d, k, u), k > 0
      PROVE  k <= v
  <2>0. k \in Nat /\ k <= T + 1 /\ k <= Len(d)
    BY <1>0, <1>1, <1>2 DEF Ends
  <2>1. \A x \in 1..k : d[x] = u[T + 1 - k + x]
    BY <1>1, <1>2 DEF Ends
  <2>2. d[k] = b
    <3>1. k \in 1..k /\ T + 1 - k + k = T + 1
      BY <1>0, <1>2, <2>0
    <3> QED
      BY <1>1, <2>1, <3>1
  <2>3. \A x \in 1..(k - 1) : d[x] = t[T - (k - 1) + x]
    <3> SUFFICES ASSUME NEW x \in 1..(k - 1) PROVE d[x] = t[T - (k - 1) + x]
      OBVIOUS
    <3>1. x \in 1..k /\ T + 1 - k + x = T - (k - 1) + x /\ T - (k - 1) + x \in 1..T
      BY <1>0, <2>0
    <3> QED
      BY <1>1, <2>1, <3>1
  <2>4. Ends(d, k - 1, t)
    BY <1>0, <2>0, <2>3 DEF Ends
  <2>5. k - 1 \in 0..Len(d) /\ k - 1 <= m
    <3>1. k - 1 \in 0..Len(d)
      BY <1>2, <2>0
    <3> QED
      BY <2>4, <3>1 DEF LongestMatch
  <2>6. Border(d, k - 1, m)
    <3>1. ASSUME NEW x \in 1..(k - 1) PROVE d[x] = d[m - (k - 1) + x]
      <4>1. m - (k - 1) + x \in 1..m /\ T - m + (m - (k - 1) + x) = T - (k - 1) + x
        BY <1>0, <2>0, <2>5
      <4>2. d[m - (k - 1) + x] = t[T - m + (m - (k - 1) + x)]
        BY <4>1 DEF Ends
      <4> QED
        BY <2>3, <4>1, <4>2
    <3> QED
      BY <1>2, <2>0, <2>5, <3>1 DEF Border
  <2>7. k - 1 \in 0..m /\ (k - 1) + 1 = k
    BY <1>2, <2>0, <2>5
  <2>8. (k - 1) + 1 <= v
    BY <2>2, <2>6, <2>7 DEF IsBest
  <2> QED
    BY <2>7, <2>8
<1>3. ASSUME NEW k \in 0..Len(d), Ends(d, k, u) PROVE k <= v
  <2>1. k = 0 \/ k > 0
    BY <1>0
  <2> QED
    BY <1>2, <1>3, <2>1
<1>4. LongestMatch(d, v, u)
  BY <1>3 DEF LongestMatch
<1> QED
  BY <1>4 DEF u

(* The bytes taken do end with what is matched.                             *)
LEMMA TakenEnds ==
  ASSUME NEW S, NEW d \in Seq(S), NEW m \in Nat, m <= Len(d), NEW o \in Seq(S),
         NEW t, t = o \o SubSeq(d, 1, m)
  PROVE  t \in Seq(S) /\ Len(t) = Len(o) + m /\ Ends(d, m, t)
<1> DEFINE a == SubSeq(d, 1, m)
<1>0. Len(o) \in Nat
  OBVIOUS
<1>1. a \in Seq(S) /\ Len(a) = m /\ \A x \in 1..m : a[x] = d[x]
  BY PrefixElements
<1> HIDE DEF a
<1>2. /\ o \o a \in Seq(S) /\ Len(o \o a) = Len(o) + m
      /\ \A x \in 1..(Len(o) + m) :
           (o \o a)[x] = IF x <= Len(o) THEN o[x] ELSE a[x - Len(o)]
  BY <1>1, ConcatProperties
<1>3. t = o \o a
  BY DEF a
<1>4. ASSUME NEW x \in 1..m PROVE d[x] = t[Len(t) - m + x]
  <2>1. Len(t) - m + x = Len(o) + x /\ Len(o) + x \in 1..(Len(o) + m)
        /\ ~(Len(o) + x <= Len(o)) /\ Len(o) + x - Len(o) = x
    BY <1>0, <1>2, <1>3
  <2> QED
    BY <1>1, <1>2, <1>3, <2>1
<1>5. t \in Seq(S) /\ Len(t) = Len(o) + m /\ m <= Len(t)
  BY <1>0, <1>2, <1>3
<1>6. Ends(d, m, t)
  BY <1>4, <1>5 DEF Ends
<1> QED
  BY <1>5, <1>6

-----------------------------------------------------------------------------
Byte == 0..255

ReaderTypeOK ==
  /\ link \in {"none", "up", "closed"} /\ chunked \in BOOLEAN /\ done \in BOOLEAN
  /\ failed \in BOOLEAN /\ reading \in {"first", "headers", "body", "rest"}
  /\ delim \in Seq(Byte) /\ left \in Seq(Byte) /\ wire \in Seq(Byte)
  /\ buf \in Seq(Byte) /\ line \in Seq(Byte) /\ out \in Seq(Byte) /\ taken \in Seq(Byte)
  /\ remaining \in Nat /\ matched \in Nat
  /\ pictures \in Seq(Pictures) /\ fresh \in Seq(Seq(Byte))
  /\ pc \in {"loop", "open", "check", "part", "report", "nap", "returned"}

(* Where the thread may be, and what it then has in hand. *)
Started == pc \in {"open", "check"} \/ (pc = "part" /\ reading = "headers")

Place ==
  /\ link = "none" => NoConnection
  /\ pc \in {"loop", "nap", "returned"} => link = "none"
  /\ pc \in {"check", "part"} => link # "none"
  /\ pc = "open" => reading = "first"
  /\ pc = "check" => reading = "headers" /\ line = <<>>
  /\ pc = "part" => reading # "first" /\ fresh = <<>>
  /\ link # "none" => \E b \in Boundaries : delim = <<Dash, Dash>> \o b
  /\ Started => matched = 0 /\ out = <<>> /\ taken = <<>>

SearchOK ==
  pc = "part" =>
    /\ taken = out \o SubSeq(delim, 1, matched)
    /\ LongestMatch(delim, matched, taken)
    /\ Len(out) <= MaxFrameBytes
    /\ matched <= Len(delim) /\ (reading # "rest" => matched < Len(delim))

ReaderInv == ReaderTypeOK /\ Place /\ SearchOK

-----------------------------------------------------------------------------
LEMMA BytesAreBytes ==
  CR \in Byte /\ LF \in Byte /\ Dash \in Byte /\ CrLf \in Seq(Byte) /\ Len(CrLf) = 2
BY DEF CR, LF, Dash, CrLf, Byte

LEMMA EmptyType ==
  <<>> \in Seq(Byte) /\ <<>> \in Seq(Pictures) /\ <<>> \in Seq(Seq(Byte))
BY EmptySeq

LEMMA TailsAreBytes ==
  ASSUME NEW tail \in {<<>>, <<Dash, Dash>>}
  PROVE  tail \in Seq(Byte)
<1>1. <<Dash, Dash>> \in Seq(Byte)
  BY BytesAreBytes
<1> QED
  BY <1>1, EmptyType

LEMMA InputsAreBytes ==
  /\ Boundaries \subseteq Seq(Byte) /\ Pictures \subseteq Seq(Byte) /\ Header \in Seq(Byte)
BY ReaderAssumption DEF Byte

LEMMA ConcatType ==
  ASSUME NEW S, NEW s \in Seq(S), NEW t \in Seq(S)
  PROVE  s \o t \in Seq(S) /\ Len(s \o t) = Len(s) + Len(t)
BY ConcatProperties

LEMMA DropType ==
  ASSUME NEW S, NEW s \in Seq(S), NEW n \in Nat, n <= Len(s)
  PROVE  Drop(s, n) \in Seq(S) /\ Len(Drop(s, n)) = Len(s) - n
         /\ \A x \in 1..(Len(s) - n) : Drop(s, n)[x] = s[n + x]
<1>1. Len(s) \in Nat /\ \A x \in 1..Len(s) : s[x] \in S
  OBVIOUS
<1>2. \A x \in (n + 1)..Len(s) : s[x] \in S
  BY <1>1
<1>3. n + 1 \in Int /\ Len(s) \in Int
  BY <1>1
<1>4. /\ Drop(s, n) \in Seq(S)
      /\ Len(Drop(s, n)) = IF n + 1 <= Len(s) THEN Len(s) - (n + 1) + 1 ELSE 0
      /\ \A x \in 1..(Len(s) - (n + 1) + 1) : Drop(s, n)[x] = s[(n + 1) + x - 1]
  BY <1>2, <1>3, SubSeqProperties DEF Drop
<1>5. Len(s) - (n + 1) + 1 = Len(s) - n /\ (IF n + 1 <= Len(s) THEN Len(s) - n ELSE 0) = Len(s) - n
  BY <1>1
<1>6. \A x \in 1..(Len(s) - n) : (n + 1) + x - 1 = n + x
  OBVIOUS
<1> QED
  BY <1>4, <1>5, <1>6

LEMMA SliceType ==
  ASSUME NEW S, NEW s \in Seq(S), NEW m \in Nat, NEW n \in Nat, m + n <= Len(s)
  PROVE  SubSeq(s, m + 1, m + n) \in Seq(S) /\ Len(SubSeq(s, m + 1, m + n)) = n
         /\ \A x \in 1..n : SubSeq(s, m + 1, m + n)[x] = s[m + x]
<1>1. Len(s) \in Nat /\ \A x \in 1..Len(s) : s[x] \in S
  OBVIOUS
<1>2. \A x \in (m + 1)..(m + n) : s[x] \in S
  BY <1>1
<1>3. m + 1 \in Int /\ m + n \in Int
  OBVIOUS
<1>4. /\ SubSeq(s, m + 1, m + n) \in Seq(S)
      /\ Len(SubSeq(s, m + 1, m + n))
           = IF m + 1 <= m + n THEN (m + n) - (m + 1) + 1 ELSE 0
      /\ \A x \in 1..((m + n) - (m + 1) + 1) :
           SubSeq(s, m + 1, m + n)[x] = s[(m + 1) + x - 1]
  BY <1>2, <1>3, SubSeqProperties
<1>5. (m + n) - (m + 1) + 1 = n /\ (IF m + 1 <= m + n THEN n ELSE 0) = n
  OBVIOUS
<1>6. \A x \in 1..n : (m + 1) + x - 1 = m + x
  OBVIOUS
<1> QED
  BY <1>4, <1>5, <1>6

LEMMA HeadTailType ==
  ASSUME NEW S, NEW s \in Seq(S), s # <<>>
  PROVE  Head(s) \in S /\ Tail(s) \in Seq(S) /\ Len(Tail(s)) = Len(s) - 1
OBVIOUS

LEMMA AppendType ==
  ASSUME NEW S, NEW s \in Seq(S), NEW b \in S
  PROVE  Append(s, b) \in Seq(S) /\ Len(Append(s, b)) = Len(s) + 1
OBVIOUS

LEMMA PartType ==
  ASSUME delim \in Seq(Byte), NEW p \in Seq(Byte), NEW tail \in Seq(Byte)
  PROVE  Part(p, tail) \in Seq(Byte)
<1>1. Header \o CrLf \in Seq(Byte)
  BY ConcatType, BytesAreBytes, InputsAreBytes, Zenon
<1>2. Header \o CrLf \o CrLf \in Seq(Byte)
  BY <1>1, ConcatType, BytesAreBytes, Zenon
<1>3. Header \o CrLf \o CrLf \o p \in Seq(Byte)
  BY <1>2, ConcatType, Zenon
<1>4. Header \o CrLf \o CrLf \o p \o CrLf \in Seq(Byte)
  BY <1>3, ConcatType, BytesAreBytes, Zenon
<1>5. Header \o CrLf \o CrLf \o p \o CrLf \o delim \in Seq(Byte)
  BY <1>4, ConcatType, Zenon
<1>6. Header \o CrLf \o CrLf \o p \o CrLf \o delim \o tail \in Seq(Byte)
  BY <1>5, ConcatType, Zenon
<1> QED
  BY <1>6, ConcatType, BytesAreBytes, Zenon DEF Part

LEMMA ChunkType ==
  ASSUME NEW s \in Seq(Byte), Len(s) <= 9
  PROVE  Chunk(s) \in Seq(Byte)
<1>1. 48 + Len(s) \in Byte
  <2>1. \A n \in 0..9 : 48 + n \in Byte
    BY DEF Byte
  <2>2. Len(s) \in Nat /\ Len(s) <= 9
    BY LenProperties
  <2>3. \A n \in Nat : n <= 9 => n \in 0..9
    OBVIOUS
  <2>4. Len(s) \in 0..9
    BY <2>2, <2>3, Zenon
  <2> QED
    BY <2>1, <2>4, Zenon
<1>2. <<48 + Len(s)>> \in Seq(Byte)
  BY <1>1
<1>3. <<48 + Len(s)>> \o CrLf \in Seq(Byte)
  BY <1>2, ConcatType, BytesAreBytes, Zenon
<1>4. <<48 + Len(s)>> \o CrLf \o s \in Seq(Byte)
  BY <1>3, ConcatType, Zenon
<1> QED
  BY <1>4, ConcatType, BytesAreBytes, Zenon DEF Chunk

LEMMA MinOfNat ==
  ASSUME NEW T \in SUBSET Nat, T # {}
  PROVE  Min(T) \in T /\ \A m \in T : Min(T) <= m
<1>1. \E n \in T : \A m \in T : n <= m
  BY LeastNat
<1> QED
  BY <1>1 DEF Min

(* Where a chunk begins, when its size is known. *)
LEMMA SizeType ==
  ASSUME wire \in Seq(Byte), remaining \in Nat, HasSize, ~BadSize
  PROVE  /\ Start \in Nat /\ Start <= Len(wire) /\ Size \in Nat
         /\ remaining = 0 => Start > 0
<1>1. CASE remaining > 0
  BY <1>1 DEF Start, Size
<1>2. CASE remaining = 0
  <2>1. LineEnds # {} /\ LineEnds \in SUBSET Nat
    BY <1>2 DEF HasSize, LineEnds
  <2>2. Min(LineEnds) \in LineEnds
    BY <2>1, MinOfNat, Zenon
  <2>3. Min(LineEnds) \in 1..Len(wire)
    BY <2>2 DEF LineEnds
  <2>4. Digits # {} /\ Digits \in SUBSET Nat
    BY <2>1 DEF LineEnds, Digits
  <2>5. Min(Digits) \in Digits
    BY <2>4, MinOfNat, Zenon
  <2>6. wire[Min(Digits)] \in 48..57
    BY <1>2 DEF BadSize
  <2>7. Start = Min(LineEnds) /\ Size = wire[Min(Digits)] - 48
    BY <1>2 DEF Start, Size
  <2> HIDE DEF Start, Size
  <2> QED
    BY <2>3, <2>6, <2>7
<1> QED
  BY <1>1, <1>2

-----------------------------------------------------------------------------
LEMMA ReaderBegins == MjpegInit => ReaderInv
<1> SUFFICES ASSUME MjpegInit PROVE ReaderInv
  OBVIOUS
<1>1. ReaderTypeOK
  BY EmptyType DEF MjpegInit, VideoInit, NoConnection, ReaderTypeOK
<1>2. Place
  BY DEF MjpegInit, VideoInit, NoConnection, Place, Started
<1>3. SearchOK
  BY DEF MjpegInit, VideoInit, SearchOK
<1> QED
  BY <1>1, <1>2, <1>3 DEF ReaderInv

(* What a step leaves alone. *)
LEMMA StillReader ==
  ASSUME ReaderInv, UNCHANGED conn, UNCHANGED pc
  PROVE  ReaderInv'
BY DEF ReaderInv, ReaderTypeOK, Place, Started, SearchOK, NoConnection, conn, served,
       chunks, search, LongestMatch, Ends

LEMMA ReaderOnWait ==
  ASSUME ReaderInv, (Loop \/ Nap \/ Wake) /\ UNCHANGED conn
  PROVE  ReaderInv'
<1>1. UNCHANGED <<link, delim, chunked, left, wire, remaining, done, buf, reading, line,
                  matched, out, taken, pictures, fresh, failed>>
  BY DEF conn, served, chunks, search
<1>2. pc' \in {"loop", "open", "nap", "returned"} /\ link = "none" /\ NoConnection
  BY DEF ReaderInv, Place, Loop, Nap, Wake
<1>3. ReaderTypeOK'
  BY <1>1, <1>2 DEF ReaderInv, ReaderTypeOK
<1>4. NoConnection'
  BY <1>1, <1>2 DEF NoConnection
<1>5. Place'
  BY <1>2, <1>4 DEF Place, Started, NoConnection
<1>6. SearchOK'
  BY <1>2 DEF SearchOK
<1> QED
  BY <1>3, <1>5, <1>6 DEF ReaderInv

LEMMA ReaderOnConnect ==
  ASSUME ReaderInv, Connect
  PROVE  ReaderInv'
<1>1. NoConnection /\ pc = "open" /\ link' = "up"
  BY DEF ReaderInv, Place, Connect
<1>2. UNCHANGED <<pc, pictures, wire, remaining, done, buf, reading, line, matched, out,
                  taken, fresh, failed>>
  BY DEF Connect, videoVars, chunks, search
<1>3. PICK b \in Boundaries : delim' = <<Dash, Dash>> \o b
  BY DEF Connect
<1>4. delim' \in Seq(Byte) /\ left' \in Seq(Byte)
  <2>1. <<Dash, Dash>> \in Seq(Byte) /\ b \in Seq(Byte)
    BY BytesAreBytes, InputsAreBytes
  <2>2. delim' \in Seq(Byte)
    BY <1>3, <2>1, ConcatType, Zenon
  <2>3. left' = delim' \o CrLf
    BY DEF Connect
  <2> QED
    BY <2>2, <2>3, BytesAreBytes, ConcatType, Zenon
<1>5. chunked' \in BOOLEAN
  BY DEF Connect
<1>6. ReaderTypeOK'
  BY <1>1, <1>2, <1>4, <1>5 DEF ReaderInv, ReaderTypeOK
<1>7. Place'
  BY <1>1, <1>2, <1>3 DEF Place, Started, NoConnection
<1>8. SearchOK'
  BY <1>1, <1>2 DEF SearchOK
<1> QED
  BY <1>6, <1>7, <1>8 DEF ReaderInv

LEMMA ReaderOnHangUp ==
  ASSUME ReaderInv, HangUp
  PROVE  ReaderInv'
<1>1. NoConnection' /\ pc' = "nap"
  BY DEF HangUp, Report, NoConnection
<1>2. ReaderTypeOK'
  BY <1>1, EmptyType DEF NoConnection, ReaderTypeOK
<1>3. Place'
  BY <1>1 DEF Place, Started, NoConnection
<1>4. SearchOK'
  BY <1>1 DEF SearchOK
<1> QED
  BY <1>2, <1>3, <1>4 DEF ReaderInv

(* The server moves bytes, and nothing of the search. *)
LEMMA ReaderOnServer ==
  ASSUME ReaderInv, Server
  PROVE  ReaderInv'
<1> USE DEF ReaderInv, ReaderTypeOK
<1>1. UNCHANGED <<pc, delim, chunked, remaining, done, buf, reading, line, matched, out,
                  taken, fresh, failed>> /\ link # "none" /\ link' \in {"up", "closed"}
  BY DEF Server, NextPicture, ServerSends, ServerEnds, ServerGoesAway, videoVars, chunks,
         search
<1>2. left' \in Seq(Byte) /\ wire' \in Seq(Byte) /\ pictures' \in Seq(Pictures)
  <2>1. CASE NextPicture
    <3>1. PICK p \in Pictures, tail \in {<<>>, <<Dash, Dash>>} :
            pictures' = Append(pictures, p) /\ left' = Part(p, tail)
      BY <2>1 DEF NextPicture
    <3>2. p \in Seq(Byte) /\ tail \in Seq(Byte)
      BY InputsAreBytes, TailsAreBytes
    <3>3. left' \in Seq(Byte)
      BY <3>1, <3>2, PartType
    <3>4. pictures' \in Seq(Pictures) /\ wire' = wire
      BY <2>1, <3>1 DEF NextPicture, chunks
    <3> QED
      BY <3>3, <3>4
  <2>2. CASE ServerSends
    <3>1. PICK n \in 1..Min({MaxPiece, Len(left)}) :
            /\ wire' = wire \o IF chunked THEN Chunk(SubSeq(left, 1, n))
                                ELSE SubSeq(left, 1, n)
            /\ left' = Drop(left, n)
      BY <2>2 DEF ServerSends
    <3>2. n \in Nat /\ n <= Len(left) /\ n <= 9 /\ pictures' = pictures
      <4>1. MaxPiece \in Nat /\ MaxPiece <= 9 /\ Len(left) \in Nat
        BY ReaderAssumption
      <4>2. {MaxPiece, Len(left)} \in SUBSET Nat /\ {MaxPiece, Len(left)} # {}
        BY <4>1
      <4>3. Min({MaxPiece, Len(left)}) \in Nat /\ Min({MaxPiece, Len(left)}) <= MaxPiece
            /\ Min({MaxPiece, Len(left)}) <= Len(left)
        BY <4>1, <4>2, MinOfNat
      <4> QED
        BY <2>2, <4>1, <4>3 DEF ServerSends
    <3>3. SubSeq(left, 1, n) \in Seq(Byte) /\ Len(SubSeq(left, 1, n)) = n
      BY <3>2, PrefixElements
    <3>4. Chunk(SubSeq(left, 1, n)) \in Seq(Byte)
      BY <3>2, <3>3, ChunkType
    <3>5. wire' \in Seq(Byte)
      BY <3>1, <3>3, <3>4, ConcatType
    <3>6. left' \in Seq(Byte)
      BY <3>1, <3>2, DropType
    <3> QED
      BY <3>2, <3>5, <3>6
  <2>3. CASE ServerEnds
    <3>1. <<>> \in Seq(Byte) /\ Len(<<>>) <= 9
      OBVIOUS
    <3>2. Chunk(<<>>) \in Seq(Byte)
      BY <3>1, ChunkType, Zenon
    <3>3. wire' = wire \o IF chunked THEN Chunk(<<>>) ELSE <<>>
      BY <2>3 DEF ServerEnds
    <3>4. wire' \in Seq(Byte)
      BY <3>1, <3>2, <3>3, ConcatType
    <3> QED
      BY <2>3, <3>4 DEF ServerEnds
  <2>4. CASE ServerGoesAway
    <3>1. PICK n \in 0..Len(wire) :
            wire' = SubSeq(wire, 1, n) /\ left' = Drop(wire, n) \o left
      BY <2>4 DEF ServerGoesAway
    <3>2. n \in Nat /\ n <= Len(wire)
      OBVIOUS
    <3>3. wire' \in Seq(Byte) /\ Drop(wire, n) \in Seq(Byte)
      BY <3>1, <3>2, PrefixElements, DropType
    <3>4. left' \in Seq(Byte)
      BY <3>1, <3>3, ConcatType
    <3> QED
      BY <2>4, <3>3, <3>4 DEF ServerGoesAway
  <2> QED
    BY <2>1, <2>2, <2>3, <2>4 DEF Server
<1>3. ReaderTypeOK'
  BY <1>1, <1>2
<1>4. Place'
  BY <1>1 DEF Place, Started
<1>5. SearchOK'
  BY <1>1 DEF SearchOK, LongestMatch, Ends
<1> QED
  BY <1>3, <1>4, <1>5

-----------------------------------------------------------------------------
(* What a read takes from the wire. *)
Stream == <<link, delim, chunked, left, wire, remaining, done, buf, pictures, failed>>
StreamTypeOK ==
  /\ link \in {"none", "up", "closed"} /\ chunked \in BOOLEAN /\ done \in BOOLEAN
  /\ failed \in BOOLEAN /\ delim \in Seq(Byte) /\ left \in Seq(Byte)
  /\ wire \in Seq(Byte) /\ buf \in Seq(Byte) /\ remaining \in Nat
  /\ pictures \in Seq(Pictures)

LEMMA FailPointType ==
  ASSUME ReaderTypeOK, NEW p \in FailPoints
  PROVE  p[1] \in Nat /\ p[2] \in Nat
<1> USE DEF ReaderTypeOK
<1>1. CASE ~chunked \/ ~HasSize
  BY <1>1 DEF FailPoints
<1>2. CASE chunked /\ HasSize /\ BadSize
  <2>1. p \in {<<k, 0>> : k \in 0..Start}
    BY <1>2 DEF FailPoints
  <2> QED
    BY <2>1
<1>3. CASE chunked /\ HasSize /\ ~BadSize
  <2>1. Start \in Nat /\ Size \in Nat
    BY <1>3, SizeType
  <2>2. p \in {<<k, 0>> : k \in 0..(Start - 1)}
              \cup {<<Start, Size>>, <<Start + Size, 0>>, <<Start + Size + 1, 0>>}
    BY <1>3 DEF FailPoints
  <2> HIDE DEF Start, Size
  <2> QED
    BY <2>1, <2>2
<1> QED
  BY <1>1, <1>2, <1>3

LEMMA ReadFailsType ==
  ASSUME ReaderTypeOK, ReadFails
  PROVE  StreamTypeOK' /\ UNCHANGED <<link, delim, chunked, left, pictures, done, buf>>
<1>1. PICK p \in FailPoints :
        p[1] <= Len(wire) /\ wire' = Drop(wire, p[1]) /\ remaining' = p[2]
  BY DEF ReadFails
<1>2. p[1] \in Nat /\ p[2] \in Nat
  BY FailPointType
<1>3. wire' \in Seq(Byte) /\ remaining' \in Nat
  BY <1>1, <1>2, DropType DEF ReaderTypeOK
<1>4. failed' = TRUE /\ UNCHANGED <<link, delim, chunked, left, pictures, done, buf>>
  BY DEF ReadFails, served
<1> QED
  BY <1>3, <1>4 DEF ReaderTypeOK, StreamTypeOK

LEMMA FillType ==
  ASSUME ReaderTypeOK, FillPlain \/ FillFromChunk \/ LastChunk
  PROVE  wire' \in Seq(Byte) /\ buf' \in Seq(Byte) /\ remaining' \in Nat /\ done' \in BOOLEAN
<1> USE DEF ReaderTypeOK
<1>1. CASE FillPlain
  BY <1>1, EmptyType DEF FillPlain
<1>2. CASE FillFromChunk
  <2>1. Start \in Nat /\ Size \in Nat
    BY <1>2, SizeType DEF FillFromChunk
  <2>2. PICK n \in 1..Size :
          /\ Start + n + ChunkTail(n) <= Len(wire)
          /\ buf' = SubSeq(wire, Start + 1, Start + n)
          /\ wire' = Drop(wire, Start + n + ChunkTail(n))
          /\ remaining' = Size - n
    BY <1>2 DEF FillFromChunk
  <2>3. ChunkTail(n) \in Nat
    BY DEF ChunkTail
  <2> HIDE DEF Start, Size
  <2>4. n \in Nat /\ n <= Size /\ Start + n + ChunkTail(n) \in Nat /\ Start + n <= Len(wire)
    BY <2>1, <2>2, <2>3
  <2>5. buf' \in Seq(Byte)
    BY <2>1, <2>2, <2>4, SliceType
  <2>6. wire' \in Seq(Byte)
    BY <2>2, <2>4, DropType
  <2>7. remaining' \in Nat
    BY <2>1, <2>2, <2>4
  <2> QED
    BY <1>2, <2>5, <2>6, <2>7 DEF FillFromChunk
<1>3. CASE LastChunk
  <2>1. Start \in Nat /\ Start <= Len(wire)
    BY <1>3, SizeType DEF LastChunk
  <2> HIDE DEF Start
  <2>2. wire' = Drop(wire, Start)
    BY <1>3 DEF LastChunk
  <2>3. wire' \in Seq(Byte)
    BY <2>1, <2>2, DropType
  <2> QED
    BY <1>3, <2>3 DEF LastChunk
<1> QED
  BY <1>1, <1>2, <1>3

LEMMA LineCompleteType ==
  ASSUME ReaderTypeOK, LineComplete
  PROVE  StreamTypeOK' /\ UNCHANGED <<link, delim, chunked, left, pictures, wire, remaining,
                                      done, failed>>
<1>1. buf' \in Seq(Byte)
  BY HeadTailType DEF LineComplete, ReaderTypeOK
<1>2. UNCHANGED <<link, delim, chunked, left, pictures, wire, remaining, done, failed>>
  BY DEF LineComplete, served, chunks
<1> QED
  BY <1>1, <1>2 DEF ReaderTypeOK, StreamTypeOK

LEMMA NoLineType ==
  ASSUME ReaderTypeOK, NoLine
  PROVE  StreamTypeOK' /\ UNCHANGED <<link, delim, chunked, left, pictures, done, buf>>
<1>1. CASE ReadFails
  BY <1>1, ReadFailsType
<1>2. CASE LineMissing
  BY <1>2 DEF LineMissing, served, chunks, ReaderTypeOK, StreamTypeOK
<1> QED
  BY <1>1, <1>2 DEF NoLine

LEMMA ReaderOnFill ==
  ASSUME ReaderInv, Fill
  PROVE  ReaderInv'
<1> USE DEF ReaderInv
<1>1. UNCHANGED <<pc, link, delim, chunked, left, pictures, reading, line, matched, out,
                  taken, fresh, failed>> /\ link # "none"
  BY DEF Fill, videoVars, served, search, Wanting
<1>2. ReaderTypeOK'
  BY <1>1, FillType DEF Fill, ReaderTypeOK
<1>3. Place'
  BY <1>1 DEF Place, Started
<1>4. SearchOK'
  BY <1>1 DEF SearchOK, LongestMatch, Ends
<1> QED
  BY <1>2, <1>3, <1>4

LEMMA ReaderOnInLine ==
  ASSUME ReaderInv, InLine
  PROVE  ReaderInv'
<1> USE DEF ReaderInv
<1>1. UNCHANGED <<pc, link, delim, chunked, left, wire, remaining, done, pictures, reading,
                  matched, out, taken, fresh, failed>> /\ link # "none" /\ pc # "check"
  BY DEF InLine, videoVars, served, chunks, search, Place
<1>2. line' \in Seq(Byte) /\ buf' \in Seq(Byte)
  <2>1. Head(buf) \in Byte /\ Tail(buf) \in Seq(Byte)
    BY HeadTailType DEF InLine, ReaderTypeOK
  <2>2. line' = Append(line, Head(buf)) /\ buf' = Tail(buf)
    BY DEF InLine
  <2> QED
    BY <2>1, <2>2, AppendType DEF ReaderTypeOK
<1>3. ReaderTypeOK'
  BY <1>1, <1>2 DEF ReaderTypeOK
<1>4. Place'
  BY <1>1 DEF Place, Started
<1>5. SearchOK'
  BY <1>1 DEF SearchOK, LongestMatch, Ends
<1> QED
  BY <1>3, <1>4, <1>5

(* The end of a connection before its first part, or in one. *)
LEMMA ReaderOnReport ==
  ASSUME ReaderInv, pc' = "report", link # "none", StreamTypeOK',
         UNCHANGED <<link, delim>>,
         reading' \in {"first", "headers", "body", "rest"},
         line' \in Seq(Byte), out' \in Seq(Byte), taken' \in Seq(Byte), matched' \in Nat,
         fresh' \in Seq(Seq(Byte))
  PROVE  ReaderInv'
<1>1. ReaderTypeOK'
  BY DEF ReaderTypeOK, StreamTypeOK
<1>2. Place'
  BY DEF ReaderInv, Place, Started
<1>3. SearchOK'
  BY DEF SearchOK
<1> QED
  BY <1>1, <1>2, <1>3 DEF ReaderInv

LEMMA ReaderOnOpening ==
  ASSUME ReaderInv, NotServed \/ FirstBoundary \/ NoFirstBoundary
  PROVE  ReaderInv'
<1> USE DEF ReaderInv
<1>1. CASE NotServed
  <2>1. UNCHANGED <<link, delim, chunked, left, wire, remaining, done, buf, reading, line,
                    matched, out, taken, pictures, fresh, failed>>
        /\ pc' = "report" /\ NoConnection
    BY <1>1 DEF NotServed, OpenFails, conn, served, chunks, search, Place
  <2>2. NoConnection'
    BY <2>1 DEF NoConnection
  <2>3. ReaderTypeOK'
    BY <2>1 DEF ReaderTypeOK
  <2>4. Place' /\ SearchOK'
    BY <2>1, <2>2 DEF Place, Started, SearchOK, NoConnection
  <2> QED
    BY <2>3, <2>4
<1>2. CASE FirstBoundary
  <2>1. /\ pc = "open" /\ pc' = "check" /\ link # "none" /\ reading' = "headers"
        /\ line' = <<>> /\ UNCHANGED <<matched, out, taken, fresh>> /\ LineComplete
    BY <1>2 DEF FirstBoundary, Open, search
  <2>2. StreamTypeOK' /\ UNCHANGED <<link, delim, chunked, left, pictures, wire, remaining,
                                      done, failed>>
    BY <2>1, LineCompleteType
  <2>3. ReaderTypeOK'
    BY <2>1, <2>2, EmptyType DEF ReaderTypeOK, StreamTypeOK
  <2>4. Place'
    BY <2>1, <2>2 DEF Place, Started
  <2>5. SearchOK'
    BY <2>1 DEF SearchOK
  <2> QED
    BY <2>3, <2>4, <2>5
<1>3. CASE NoFirstBoundary
  <2>1. /\ pc' = "report" /\ link # "none" /\ NoLine
        /\ UNCHANGED <<reading, line, matched, out, taken, fresh>>
    BY <1>3 DEF NoFirstBoundary, OpenFails, search
  <2>2. StreamTypeOK' /\ UNCHANGED <<link, delim>>
    BY <2>1, NoLineType
  <2> QED
    BY <2>1, <2>2, ReaderOnReport DEF ReaderTypeOK
<1> QED
  BY <1>1, <1>2, <1>3

LEMMA NothingTaken ==
  ASSUME delim \in Seq(Byte), 0 <= MaxFrameBytes
  PROVE  /\ <<>> = <<>> \o SubSeq(delim, 1, 0) /\ LongestMatch(delim, 0, <<>>)
         /\ Len(<<>>) <= MaxFrameBytes
<1>1. SubSeq(delim, 1, 0) = <<>>
  BY PrefixElements
<1>2. \A k \in 0..Len(delim) : Ends(delim, k, <<>>) => k <= 0
  BY DEF Ends
<1> QED
  BY <1>1, <1>2 DEF LongestMatch

LEMMA ReaderOnNextPart ==
  ASSUME ReaderInv, NextPart
  PROVE  ReaderInv'
<1> USE DEF ReaderInv
<1>1. /\ pc = "check" /\ pc' \in {"part", "report"} /\ fresh' = <<>>
      /\ UNCHANGED <<link, delim, chunked, left, wire, remaining, done, buf, reading, line,
                     matched, out, taken, failed>>
      /\ pictures' = SubSeq(pictures, 1 + Len(fresh), Len(pictures))
  BY DEF NextPart, Check, chunks, search
<1>2. pictures' \in Seq(Pictures)
  <2>1. Len(pictures) \in Int /\ Len(fresh) \in Nat
    BY DEF ReaderTypeOK
  <2>2. \A x \in (1 + Len(fresh))..Len(pictures) : pictures[x] \in Pictures
    BY <2>1 DEF ReaderTypeOK
  <2>3. 1 + Len(fresh) \in Int
    BY <2>1
  <2> QED
    BY <1>1, <2>1, <2>2, <2>3, SubSeqProperties
<1>3. ReaderTypeOK'
  BY <1>1, <1>2, EmptyType DEF ReaderTypeOK
<1>4. Place'
  BY <1>1 DEF Place, Started
<1>5. SearchOK'
  <2>1. 0 <= MaxFrameBytes
    BY ReaderAssumption
  <2>2. matched = 0 /\ out = <<>> /\ taken = <<>> /\ delim \in Seq(Byte)
    BY <1>1 DEF Place, Started, ReaderTypeOK
  <2>3. 0 < Len(delim)
    <3>1. PICK b \in Boundaries : delim = <<Dash, Dash>> \o b
      BY <1>1 DEF Place
    <3>2. <<Dash, Dash>> \in Seq(Byte) /\ b \in Seq(Byte) /\ Len(<<Dash, Dash>>) = 2
      BY BytesAreBytes, InputsAreBytes
    <3>3. Len(delim) = Len(<<Dash, Dash>>) + Len(b)
      BY <3>1, <3>2, ConcatType, Zenon
    <3>4. Len(b) \in Nat
      BY <3>2
    <3> QED
      BY <3>2, <3>3, <3>4
  <2>4. taken = out \o SubSeq(delim, 1, matched) /\ LongestMatch(delim, matched, taken)
        /\ Len(out) <= MaxFrameBytes
    BY <2>1, <2>2, NothingTaken
  <2>5. taken' = out' \o SubSeq(delim', 1, matched') /\ LongestMatch(delim', matched', taken')
        /\ Len(out') <= MaxFrameBytes
    BY <1>1, <2>4
  <2> QED
    BY <1>1, <2>2, <2>3, <2>5 DEF SearchOK
<1> QED
  BY <1>3, <1>4, <1>5

LEMMA ReaderOnHeader ==
  ASSUME ReaderInv, HeaderLine \/ NoHeader
  PROVE  ReaderInv'
<1> USE DEF ReaderInv
<1>1. CASE HeaderLine
  <2>1. /\ pc = "part" /\ pc' = "part" /\ reading = "headers" /\ LineComplete
        /\ reading' \in {"headers", "body"} /\ line' = <<>>
        /\ UNCHANGED <<matched, out, taken, fresh>>
    BY <1>1 DEF HeaderLine, videoVars, search
  <2>2. StreamTypeOK' /\ UNCHANGED <<link, delim, chunked, left, pictures, wire, remaining,
                                     done, failed>>
    BY <2>1, LineCompleteType
  <2>3. ReaderTypeOK'
    BY <2>1, <2>2, EmptyType DEF ReaderTypeOK, StreamTypeOK
  <2>4. Place'
    BY <2>1, <2>2 DEF Place, Started
  <2>5. SearchOK'
    BY <2>1, <2>2 DEF SearchOK, LongestMatch, Ends
  <2> QED
    BY <2>3, <2>4, <2>5
<1>2. CASE NoHeader
  <2>1. /\ pc = "part" /\ pc' = "report" /\ link # "none" /\ NoLine
        /\ UNCHANGED <<reading, line, matched, out, taken, fresh>>
    BY <1>2 DEF NoHeader, PartFails, search, Place
  <2>2. StreamTypeOK' /\ UNCHANGED <<link, delim>>
    BY <2>1, NoLineType
  <2> QED
    BY <2>1, <2>2, ReaderOnReport DEF ReaderTypeOK
<1> QED
  BY <1>1, <1>2

(* One byte of the search: what it took, passed and matched.  It passes     *)
(* none where it completes the boundary.                                    *)
LEMMA SearchTakes ==
  ASSUME ReaderInv, Searching
  PROVE  /\ Head(buf) \in Byte
         /\ matched' \in Nat /\ matched' <= Len(delim)
         /\ out' \in Seq(Byte) /\ taken' \in Seq(Byte)
         /\ taken' = out' \o SubSeq(delim, 1, matched')
         /\ LongestMatch(delim, matched', taken')
         /\ matched' = Len(delim) => out' = out
<1> DEFINE b == Head(buf)
           p == Passed(delim, matched, b, matched')
<1>1. /\ delim \in Seq(Byte) /\ out \in Seq(Byte) /\ b \in Byte
      /\ matched \in Nat /\ matched < Len(delim) /\ Len(delim) \in Nat
      /\ taken = out \o SubSeq(delim, 1, matched) /\ LongestMatch(delim, matched, taken)
  BY HeadTailType DEF ReaderInv, ReaderTypeOK, SearchOK, Searching, InBody
<1>2. /\ taken' = Append(taken, b) /\ matched' = Scan(b).matched
      /\ out' = out \o Scan(b).passed
  BY DEF Searching
<1> HIDE DEF b, p
<1>3. PICK v \in 0..(matched + 1) :
        IsBest(delim, matched, b, v) /\ Scan(b) = Scanned(delim, matched, b, v)
  <2>1. matched \in 0..(Len(delim) - 1)
    BY <1>1
  <2> QED
    BY <1>1, <2>1, ScanIsExact, Zenon
<1>4. Scan(b).matched = v /\ Scan(b).passed = Passed(delim, matched, b, v)
  BY <1>3 DEF Scanned
<1>5. matched' = v /\ out' = out \o p
  BY <1>2, <1>4 DEF p
<1>6. matched' \in Nat /\ matched' <= matched + 1 /\ matched' <= Len(delim)
  BY <1>1, <1>5
<1>7. IsBest(delim, matched, b, matched')
  BY <1>3, <1>5
<1>8. matched <= Len(delim)
  BY <1>1
<1>9. p \in Seq(Byte) /\ Len(p) = matched + 1 - matched'
  <2>1. delim \in Seq(Byte) /\ b \in Byte /\ matched \in Nat /\ matched <= Len(delim)
        /\ matched' \in Nat /\ matched' <= matched + 1
    BY <1>1, <1>6, <1>8
  <2>2. PassedFits(Byte, delim, matched, b, matched')
    BY <2>1, PassedType, Zenon
  <2> QED
    BY <2>2, Zenon DEF PassedFits, p
<1>10. out' \in Seq(Byte)
  BY <1>1, <1>5, <1>9, ConcatType
<1>11. taken' = out' \o SubSeq(delim, 1, matched')
  <2>1. delim \in Seq(Byte) /\ b \in Byte /\ out \in Seq(Byte)
        /\ matched \in Nat /\ matched < Len(delim)
        /\ matched' \in Nat /\ matched' <= matched + 1
    BY <1>1, <1>6
  <2>2. Append(out \o SubSeq(delim, 1, matched), b)
          = (out \o p) \o SubSeq(delim, 1, matched')
    <3>1. KeepsTaken(out, delim, matched, b, matched')
      BY <1>7, <2>1, ScanKeepsTaken, Zenon
    <3> QED
      BY <3>1, Zenon DEF KeepsTaken, p
  <2> QED
    BY <1>1, <1>2, <1>5, <2>2
<1>12. taken \in Seq(Byte) /\ Ends(delim, matched, taken)
  BY <1>1, <1>8, TakenEnds, Zenon
<1>13. LongestMatch(delim, matched', taken')
  BY <1>1, <1>2, <1>6, <1>7, <1>12, ScanKeepsLongest, Zenon
<1>14. matched' = Len(delim) => out' = out
  <2> SUFFICES ASSUME matched' = Len(delim) PROVE out' = out
    OBVIOUS
  <2>1. Len(p) = 0
    BY <1>1, <1>6, <1>9
  <2>2. p = <<>>
    BY <1>9, <2>1, EmptySeq
  <2> QED
    BY <1>1, <1>5, <2>2, ConcatEmptySeq
<1>15. taken' \in Seq(Byte)
  BY <1>1, <1>2, <1>12, AppendType, Zenon
<1> QED
  BY <1>1, <1>6, <1>10, <1>11, <1>13, <1>14, <1>15 DEF b

LEMMA SearchingKeeps ==
  ASSUME ReaderInv, Searching
  PROVE  /\ StreamTypeOK' /\ link # "none" /\ pc = "part" /\ reading = "body"
         /\ UNCHANGED <<link, delim, chunked, left, wire, remaining, done, pictures, line,
                        fresh, failed>>
<1>1. buf' \in Seq(Byte)
  BY HeadTailType DEF Searching, ReaderInv, ReaderTypeOK
<1> QED
  BY <1>1 DEF Searching, InBody, served, chunks, ReaderInv, ReaderTypeOK, StreamTypeOK,
              Place

LEMMA ReaderOnSearch ==
  ASSUME ReaderInv, BodyByte \/ Boundary \/ OverCap
  PROVE  ReaderInv'
<1>1. Searching
  BY DEF BodyByte, Boundary, OverCap
<1>2. /\ StreamTypeOK' /\ link # "none" /\ pc = "part" /\ reading = "body"
      /\ UNCHANGED <<link, delim, chunked, left, wire, remaining, done, pictures, line,
                     fresh, failed>>
  BY <1>1, SearchingKeeps
<1>3. /\ matched' \in Nat /\ matched' <= Len(delim)
      /\ out' \in Seq(Byte) /\ taken' \in Seq(Byte)
      /\ taken' = out' \o SubSeq(delim, 1, matched')
      /\ LongestMatch(delim, matched', taken')
      /\ matched' = Len(delim) => out' = out
  BY <1>1, SearchTakes
<1>4. CASE OverCap
  BY <1>2, <1>3, <1>4, ReaderOnReport DEF OverCap, PartFails, ReaderInv, ReaderTypeOK
<1>5. CASE BodyByte \/ Boundary
  <2>1. pc' = "part" /\ reading' \in {"body", "rest"}
    BY <1>2, <1>5 DEF BodyByte, Boundary, videoVars
  <2>2. ReaderTypeOK'
    BY <1>2, <1>3, <2>1 DEF ReaderInv, ReaderTypeOK, StreamTypeOK
  <2>3. Place'
    BY <1>2, <2>1 DEF ReaderInv, Place, Started
  <2>4. Len(out') <= MaxFrameBytes
    <3>1. CASE BodyByte
      <4>1. ~(Len(out') > MaxFrameBytes) /\ Len(out') \in Nat /\ MaxFrameBytes \in Nat
        BY <1>3, <3>1, ReaderAssumption DEF BodyByte, TooLong
      <4> QED
        BY <4>1
    <3>2. CASE Boundary
      BY <1>2, <1>3, <3>2 DEF Boundary, ReaderInv, SearchOK
    <3> QED
      BY <1>5, <3>1, <3>2
  <2>5. reading' # "rest" => matched' < Len(delim)
    BY <1>2, <1>5 DEF BodyByte, Boundary
  <2>6. LongestMatch(delim', matched', taken')
        /\ taken' = out' \o SubSeq(delim', 1, matched') /\ delim' = delim
    BY <1>2, <1>3
  <2>7. SearchOK'
    BY <1>3, <2>4, <2>5, <2>6 DEF SearchOK
  <2> QED
    BY <2>2, <2>3, <2>7 DEF ReaderInv
<1> QED
  BY <1>4, <1>5

LEMMA ReaderOnBodyEnds ==
  ASSUME ReaderInv, BodyEnds
  PROVE  ReaderInv'
<1>1. /\ pc = "part" /\ pc' = "report" /\ link # "none"
      /\ UNCHANGED <<reading, line, matched, out, taken, fresh>>
  BY DEF BodyEnds, PartFails, search, ReaderInv, Place
<1>2. StreamTypeOK' /\ UNCHANGED <<link, delim>>
  <2>1. CASE ReadFails
    BY <2>1, ReadFailsType DEF ReaderInv
  <2>2. CASE UNCHANGED <<served, chunks, buf, failed>>
    BY <2>2 DEF served, chunks, ReaderInv, ReaderTypeOK, StreamTypeOK
  <2> QED
    BY <2>1, <2>2 DEF BodyEnds
<1> QED
  BY <1>1, <1>2, ReaderOnReport DEF ReaderInv, ReaderTypeOK

LEMMA TrimmedType ==
  ASSUME NEW s \in Seq(Byte)
  PROVE  Trimmed(s) \in Seq(Byte)
<1>1. CASE IsSuffix(CrLf, s)
  <2>1. Len(Reverse(CrLf)) = 2 /\ Len(Reverse(s)) = Len(s) /\ Len(s) \in Nat
    BY DEF Reverse, CrLf
  <2>2. 2 <= Len(s)
    BY <1>1, <2>1 DEF IsSuffix, IsPrefix
  <2>3. Len(s) - 2 \in Nat /\ Len(s) - 2 <= Len(s)
    BY <2>1, <2>2
  <2> QED
    BY <1>1, <2>3, PrefixElements DEF Trimmed
<1>2. CASE ~IsSuffix(CrLf, s)
  BY <1>2 DEF Trimmed
<1> QED
  BY <1>1, <1>2

LEMMA ReaderOnDeliver ==
  ASSUME ReaderInv, Deliver
  PROVE  ReaderInv'
<1>1. /\ pc = "part" /\ pc' \in {"check", "report"} /\ reading' = "headers" /\ line' = <<>>
      /\ matched' = 0 /\ out' = <<>> /\ taken' = <<>> /\ link # "none"
      /\ fresh' = (IF receiving THEN <<Trimmed(out)>> ELSE <<>>)
  BY DEF Deliver, Frame, ReaderInv, Place
<1>2. StreamTypeOK' /\ UNCHANGED <<link, delim>>
  BY LineCompleteType, NoLineType DEF Deliver, ReaderInv
<1>3. fresh' \in Seq(Seq(Byte))
  <2>1. Trimmed(out) \in Seq(Byte)
    BY TrimmedType DEF ReaderInv, ReaderTypeOK
  <2>2. <<Trimmed(out)>> \in Seq(Seq(Byte))
    <3> HIDE DEF Trimmed
    <3> QED BY <2>1
  <2> QED
    BY <1>1, <2>2, EmptyType
<1>4. ReaderTypeOK'
  BY <1>1, <1>2, <1>3, EmptyType DEF ReaderTypeOK, StreamTypeOK
<1>5. Place'
  BY <1>1, <1>2 DEF ReaderInv, Place, Started
<1>6. SearchOK'
  BY <1>1 DEF SearchOK
<1> QED
  BY <1>4, <1>5, <1>6 DEF ReaderInv

LEMMA ReaderSteps ==
  ASSUME ReaderInv, [MjpegNext]_mjpegVars
  PROVE  ReaderInv'
<1>1. CASE Owner
  <2>1. UNCHANGED conn /\ UNCHANGED pc
    BY <1>1 DEF Owner, SetStop, DropEvents
  <2> QED
    BY <2>1, StillReader
<1>2. CASE UNCHANGED mjpegVars
  <2>1. UNCHANGED conn /\ UNCHANGED pc
    BY <1>2 DEF mjpegVars, videoVars
  <2> QED
    BY <2>1, StillReader
<1>3. CASE Server
  BY <1>3, ReaderOnServer
<1>4. CASE Reader
  BY <1>4, ReaderOnWait, ReaderOnConnect, ReaderOnHangUp, ReaderOnFill, ReaderOnInLine,
     ReaderOnOpening, ReaderOnNextPart, ReaderOnHeader, ReaderOnSearch, ReaderOnBodyEnds,
     ReaderOnDeliver DEF Reader
<1> QED
  BY <1>1, <1>2, <1>3, <1>4 DEF MjpegNext

LEMMA ReaderInvariant == MjpegSpec => []ReaderInv
<1>1. ReaderInv /\ [MjpegNext]_mjpegVars => ReaderInv'
  BY ReaderSteps
<1> QED
  BY ReaderBegins, <1>1, PTL DEF MjpegSpec

(* IsSuffix compares the reversed sequences. *)
LEMMA SuffixEnds ==
  ASSUME NEW S, NEW d \in Seq(S), NEW t \in Seq(S), NEW k \in Nat, k <= Len(d),
         IsSuffix(SubSeq(d, 1, k), t)
  PROVE  Ends(d, k, t)
<1> DEFINE s == SubSeq(d, 1, k)
           rs == Reverse(s)
           rt == Reverse(t)
<1>1. s \in Seq(S) /\ Len(s) = k /\ \A x \in 1..k : s[x] = d[x]
  BY PrefixElements
<1> HIDE DEF s
<1>2. rs \in Seq(S) /\ Len(rs) = k /\ \A x \in 1..k : rs[x] = s[k - x + 1]
  BY <1>1 DEF Reverse
<1>3. rt \in Seq(S) /\ Len(rt) = Len(t) /\ \A x \in 1..Len(t) : rt[x] = t[Len(t) - x + 1]
  BY DEF Reverse
<1>4. IsPrefix(rs, rt)
  BY DEF IsSuffix, s
<1> HIDE DEF rs, rt
<1>5. Len(t) \in Nat /\ k <= Len(t) /\ SubSeq(rs, 1, k) = SubSeq(rt, 1, k)
  BY <1>2, <1>3, <1>4 DEF IsPrefix
<1>6. \A x \in 1..k : SubSeq(rs, 1, k)[x] = rs[x]
  BY <1>2, PrefixElements
<1>7. \A x \in 1..k : SubSeq(rt, 1, k)[x] = rt[x]
  BY <1>3, <1>5, PrefixElements
<1>8. ASSUME NEW x \in 1..k PROVE d[x] = t[Len(t) - k + x]
  <2> DEFINE y == k + 1 - x
  <2>1. y \in 1..k /\ y \in 1..Len(t) /\ k - y + 1 = x /\ Len(t) - y + 1 = Len(t) - k + x
    BY <1>5
  <2> HIDE DEF y
  <2>2. rs[y] = rt[y]
    BY <1>5, <1>6, <1>7, <2>1
  <2>3. rs[y] = d[x]
    BY <1>1, <1>2, <2>1
  <2>4. rt[y] = t[Len(t) - k + x]
    BY <1>3, <2>1
  <2> QED
    BY <2>2, <2>3, <2>4
<1> QED
  BY <1>5, <1>8 DEF Ends

(* The search of read_until_delim never loses its place: whatever the       *)
(* boundary, the bytes and the pieces they come in, what it passed and what *)
(* it matched are the bytes it took, and no longer match is ever missed.    *)
THEOREM SearchStaysExact == MjpegSpec => []SearchIsExact
<1>1. ReaderInv => SearchIsExact
  <2> SUFFICES ASSUME ReaderInv, InBody PROVE
        /\ taken = out \o SubSeq(delim, 1, matched)
        /\ \A k \in 0..Len(delim) : IsSuffix(SubSeq(delim, 1, k), taken) => k <= matched
    BY DEF SearchIsExact
  <2>1. /\ taken = out \o SubSeq(delim, 1, matched) /\ LongestMatch(delim, matched, taken)
        /\ delim \in Seq(Byte) /\ taken \in Seq(Byte)
    BY DEF ReaderInv, ReaderTypeOK, SearchOK, InBody
  <2>2. ASSUME NEW k \in 0..Len(delim), IsSuffix(SubSeq(delim, 1, k), taken)
        PROVE  k <= matched
    <3>1. k \in Nat /\ k <= Len(delim)
      BY <2>1
    <3>2. Ends(delim, k, taken)
      BY <2>1, <2>2, <3>1, SuffixEnds, Zenon
    <3> QED
      BY <2>1, <3>2 DEF LongestMatch
  <2> QED
    BY <2>1, <2>2
<1> QED
  BY ReaderInvariant, <1>1, PTL

(* A part takes no more memory than the cap, whatever the server sends.     *)
THEOREM PartStaysBounded == MjpegSpec => []PartIsBounded
<1>1. ReaderInv => PartIsBounded
  BY DEF ReaderInv, SearchOK, PartIsBounded
<1> QED
  BY ReaderInvariant, <1>1, PTL

-----------------------------------------------------------------------------
(* What arrives of what the server sends.  u stands for the bytes that are  *)
(* yet to come, h for those of the line or part at hand already taken.      *)
Tails == {<<>>, <<Dash, Dash>>}

(* The parts of the pictures ps, one after the other: r[i] is what follows  *)
(* the first i of them.                                                     *)
PartFor(d, p, tail) == Header \o CrLf \o CrLf \o p \o CrLf \o d \o tail \o CrLf
PartsFor(d, s, ps) ==
  \E r \in [0..Len(ps) -> Seq(Byte)] :
    /\ r[0] = s /\ r[Len(ps)] = <<>>
    /\ \A i \in 1..Len(ps) : \E tail \in Tails : r[i - 1] = PartFor(d, ps[i], tail) \o r[i]
IsParts(s, ps) == PartsFor(delim, s, ps)

(* What is left of a part once its headers end. *)
BodyFor(d, p, tail) == p \o (CrLf \o (d \o (tail \o CrLf)))
Body(p, tail) == BodyFor(delim, p, tail)

FollowsFor(d, h, u, now, later) ==
  \E s \in Seq(Byte) : PartsFor(d, s, later) /\ h \o u = now \o s
Follows(h, u, now, later) == FollowsFor(delim, h, u, now, later)

LEMMA PartIsFor ==
  ASSUME NEW p, NEW tail
  PROVE  Part(p, tail) = PartFor(delim, p, tail)
BY DEF Part, PartFor

LEMMA PartsIs ==
  ASSUME NEW s, NEW ps
  PROVE  IsParts(s, ps) <=>
           \E r \in [0..Len(ps) -> Seq(Byte)] :
             /\ r[0] = s /\ r[Len(ps)] = <<>>
             /\ \A i \in 1..Len(ps) : \E tail \in Tails : r[i - 1] = Part(ps[i], tail) \o r[i]
BY PartIsFor DEF IsParts, PartsFor

-----------------------------------------------------------------------------
Associates(s, t, u) == (s \o t) \o u = s \o (t \o u)

LEMMA Assoc ==
  ASSUME NEW s \in Seq(Byte), NEW t \in Seq(Byte), NEW u \in Seq(Byte)
  PROVE  Associates(s, t, u)
BY ConcatAssociative DEF Associates

LEMMA Cat ==
  ASSUME NEW s \in Seq(Byte), NEW t \in Seq(Byte)
  PROVE  s \o t \in Seq(Byte) /\ Len(s \o t) = Len(s) + Len(t)
         /\ Len(s) \in Nat /\ Len(t) \in Nat
BY ConcatProperties, LenProperties

LEMMA CatAt ==
  ASSUME NEW s \in Seq(Byte), NEW t \in Seq(Byte)
  PROVE  /\ \A x \in 1..Len(s) : (s \o t)[x] = s[x]
         /\ \A x \in 1..Len(t) : (s \o t)[Len(s) + x] = t[x]
<1>1. Len(s) \in Nat /\ Len(t) \in Nat
  OBVIOUS
<1>2. \A x \in 1..(Len(s) + Len(t)) :
        (s \o t)[x] = IF x <= Len(s) THEN s[x] ELSE t[x - Len(s)]
  BY ConcatProperties
<1>3. ASSUME NEW x \in 1..Len(s) PROVE (s \o t)[x] = s[x]
  BY <1>1, <1>2
<1>4. ASSUME NEW x \in 1..Len(t) PROVE (s \o t)[Len(s) + x] = t[x]
  <2>1. Len(s) + x \in 1..(Len(s) + Len(t)) /\ ~(Len(s) + x <= Len(s))
        /\ Len(s) + x - Len(s) = x
    BY <1>1
  <2> QED
    BY <1>2, <2>1
<1> QED
  BY <1>3, <1>4

(* Two cuts of the same bytes at the same place. *)
LEMMA SameCut ==
  ASSUME NEW a \in Seq(Byte), NEW b \in Seq(Byte), NEW u \in Seq(Byte),
         NEW v \in Seq(Byte), a \o u = b \o v, Len(a) = Len(b)
  PROVE  a = b /\ u = v
<1>1. Len(a) \in Nat /\ Len(u) \in Nat /\ Len(v) \in Nat
  OBVIOUS
<1>2. ASSUME NEW x \in 1..Len(a) PROVE a[x] = b[x]
  BY CatAt
<1>3. a = b
  BY <1>2, SeqEqual
<1>4. a \o u = a \o v
  BY <1>3
<1> QED
  BY <1>3, <1>4, ConcatSimplifications

LEMMA Shift ==
  ASSUME NEW a \in Seq(Byte), NEW u \in Seq(Byte), u # <<>>
  PROVE  Append(a, Head(u)) \o Tail(u) = a \o u
<1>1. Head(u) \in Byte /\ Tail(u) \in Seq(Byte)
  BY HeadTailType
<1>2. <<Head(u)>> \in Seq(Byte)
  BY <1>1
<1>3. u = <<Head(u)>> \o Tail(u)
  OBVIOUS
<1>4. Append(a, Head(u)) = a \o <<Head(u)>>
  BY <1>1, AppendIsConcat
<1>5. \A b, w \in Seq(Byte) : (a \o b) \o w = a \o (b \o w)
  BY Assoc DEF Associates
<1>6. (a \o <<Head(u)>>) \o Tail(u) = a \o (<<Head(u)>> \o Tail(u))
  BY <1>1, <1>2, <1>5, Zenon
<1> QED
  BY <1>3, <1>4, <1>6, Zenon

LEMMA HeadOfCat ==
  ASSUME NEW a \in Seq(Byte), NEW u \in Seq(Byte), a # <<>>
  PROVE  a \o u # <<>> /\ Head(a \o u) = Head(a) /\ Tail(a \o u) = Tail(a) \o u
<1>1. Head(a) \in Byte /\ Tail(a) \in Seq(Byte) /\ <<Head(a)>> \in Seq(Byte)
  BY HeadTailType
<1>2. a = <<Head(a)>> \o Tail(a)
  OBVIOUS
<1>3. a \o u = <<Head(a)>> \o (Tail(a) \o u)
  <2>1. Associates(<<Head(a)>>, Tail(a), u)
    BY <1>1, Assoc
  <2> QED
    BY <1>2, <2>1, Zenon DEF Associates
<1>4. Tail(a) \o u \in Seq(Byte)
  BY <1>1, Cat
<1>5. \A b \in Byte, w \in Seq(Byte) :
        <<b>> \o w # <<>> /\ Head(<<b>> \o w) = b /\ Tail(<<b>> \o w) = w
  OBVIOUS
<1> QED
  BY <1>1, <1>3, <1>4, <1>5, Zenon

LEMMA CutCat ==
  ASSUME NEW a \in Seq(Byte), NEW n \in Nat, n <= Len(a)
  PROVE  a = SubSeq(a, 1, n) \o Drop(a, n)
<1>1. SubSeq(a, 1, n) \in Seq(Byte) /\ Len(SubSeq(a, 1, n)) = n
      /\ \A x \in 1..n : SubSeq(a, 1, n)[x] = a[x]
  BY PrefixElements
<1>2. Drop(a, n) \in Seq(Byte) /\ Len(Drop(a, n)) = Len(a) - n
      /\ \A x \in 1..(Len(a) - n) : Drop(a, n)[x] = a[n + x]
  BY DropType
<1> DEFINE s == SubSeq(a, 1, n)
           t == Drop(a, n)
<1> HIDE DEF s, t
<1>3. Len(a) \in Nat /\ s \in Seq(Byte) /\ t \in Seq(Byte) /\ Len(s) = n /\ Len(t) = Len(a) - n
  BY <1>1, <1>2 DEF s, t
<1>4. s \o t \in Seq(Byte) /\ Len(s \o t) = Len(a)
  BY <1>3, Cat
<1>5. \A x \in 1..n : (s \o t)[x] = a[x]
  BY <1>1, <1>3, CatAt DEF s
<1>6. \A x \in 1..(Len(a) - n) : (s \o t)[n + x] = a[n + x]
  BY <1>2, <1>3, CatAt DEF t
<1>7. ASSUME NEW x \in 1..Len(a) PROVE (s \o t)[x] = a[x]
  <2>1. CASE x <= n
    BY <1>3, <1>5, <2>1
  <2>2. CASE x > n
    <3>1. x - n \in 1..(Len(a) - n) /\ n + (x - n) = x
      BY <1>3, <2>2
    <3> QED
      BY <1>6, <3>1
  <2> QED
    BY <1>3, <2>1, <2>2
<1>8. s \o t = a
  BY <1>4, <1>7, SeqEqual
<1> QED
  BY <1>8 DEF s, t

(* Taking what both sides begin with off a cut. *)
LEMMA DropOfCat ==
  ASSUME NEW a \in Seq(Byte), NEW u \in Seq(Byte), NEW b \in Seq(Byte),
         NEW v \in Seq(Byte), a \o u = b \o v, Len(b) <= Len(a)
  PROVE  SubSeq(a, 1, Len(b)) = b /\ Drop(a, Len(b)) \o u = v
<1>1. Len(b) \in Nat
  OBVIOUS
<1> DEFINE s == SubSeq(a, 1, Len(b))
           t == Drop(a, Len(b))
<1>2. s \in Seq(Byte) /\ Len(s) = Len(b) /\ t \in Seq(Byte)
  BY <1>1, PrefixElements, DropType
<1>3. a = s \o t
  BY <1>1, CutCat
<1> HIDE DEF s, t
<1>4. s \o (t \o u) = b \o v /\ t \o u \in Seq(Byte)
  <2>1. t \o u \in Seq(Byte)
    BY <1>2, Cat
  <2>2. (s \o t) \o u = s \o (t \o u)
    <3>1. Associates(s, t, u)
      BY <1>2, Assoc, Zenon
    <3> QED
      BY <3>1, Zenon DEF Associates
  <2> QED
    BY <1>3, <2>1, <2>2
<1>5. s = b /\ t \o u = v
  <2> DEFINE w == t \o u
  <2>1. w \in Seq(Byte) /\ s \o w = b \o v
    BY <1>4
  <2> HIDE DEF w
  <2>2. s = b /\ w = v
    BY <1>2, <2>1, SameCut
  <2> QED
    BY <2>2 DEF w
<1> QED
  BY <1>5 DEF s, t

-----------------------------------------------------------------------------
(* What a part is made of. *)
LEMMA TailType ==
  ASSUME NEW tail \in Tails
  PROVE  tail \in Seq(Byte)
BY TailsAreBytes DEF Tails

LEMMA BodyType ==
  ASSUME delim \in Seq(Byte), NEW p \in Seq(Byte), NEW tail \in Tails
  PROVE  /\ tail \o CrLf \in Seq(Byte) /\ delim \o (tail \o CrLf) \in Seq(Byte)
         /\ CrLf \o (delim \o (tail \o CrLf)) \in Seq(Byte)
         /\ Body(p, tail) \in Seq(Byte)
         /\ CrLf \o Body(p, tail) \in Seq(Byte) /\ CrLf \o (CrLf \o Body(p, tail)) \in Seq(Byte)
         /\ Header \o (CrLf \o (CrLf \o Body(p, tail))) \in Seq(Byte)
<1>1. tail \o CrLf \in Seq(Byte)
  BY TailType, BytesAreBytes, Cat
<1>2. delim \o (tail \o CrLf) \in Seq(Byte)
  BY <1>1, Cat
<1>3. CrLf \o (delim \o (tail \o CrLf)) \in Seq(Byte)
  BY <1>2, BytesAreBytes, Cat
<1>4. Body(p, tail) \in Seq(Byte)
  BY <1>3, Cat DEF Body, BodyFor
<1>5. CrLf \o Body(p, tail) \in Seq(Byte)
  BY <1>4, BytesAreBytes, Cat
<1>6. CrLf \o (CrLf \o Body(p, tail)) \in Seq(Byte)
  BY <1>5, BytesAreBytes, Cat
<1>7. Header \o (CrLf \o (CrLf \o Body(p, tail))) \in Seq(Byte)
  BY <1>6, InputsAreBytes, Cat
<1> QED
  BY <1>1, <1>2, <1>3, <1>4, <1>5, <1>6, <1>7

LEMMA PartIs ==
  ASSUME delim \in Seq(Byte), NEW p \in Seq(Byte), NEW tail \in Tails
  PROVE  Part(p, tail) = Header \o (CrLf \o (CrLf \o Body(p, tail)))
<1> DEFINE h  == Header
           t1 == h \o CrLf
           t2 == t1 \o CrLf
           t3 == t2 \o p
           t4 == t3 \o CrLf
           t5 == t4 \o delim
           b4 == tail \o CrLf
           b3 == delim \o b4
           b2 == CrLf \o b3
           b1 == p \o b2
<1>1. /\ h \in Seq(Byte) /\ t1 \in Seq(Byte) /\ t2 \in Seq(Byte) /\ t3 \in Seq(Byte)
      /\ t4 \in Seq(Byte) /\ t5 \in Seq(Byte) /\ tail \in Seq(Byte) /\ CrLf \in Seq(Byte)
  <2>1. h \in Seq(Byte) /\ tail \in Seq(Byte) /\ CrLf \in Seq(Byte)
    BY InputsAreBytes, TailType, BytesAreBytes
  <2>2. t1 \in Seq(Byte)
    BY <2>1, Cat
  <2>3. t2 \in Seq(Byte)
    BY <2>1, <2>2, Cat
  <2>4. t3 \in Seq(Byte)
    BY <2>3, Cat
  <2>5. t4 \in Seq(Byte)
    BY <2>1, <2>4, Cat
  <2>6. t5 \in Seq(Byte)
    BY <2>5, Cat
  <2> QED
    BY <2>1, <2>2, <2>3, <2>4, <2>5, <2>6
<1>2. b4 \in Seq(Byte) /\ b3 \in Seq(Byte) /\ b2 \in Seq(Byte) /\ b1 \in Seq(Byte)
      /\ CrLf \o b1 \in Seq(Byte)
  BY BodyType DEF Body, BodyFor
<1>3. Part(p, tail) = (t5 \o tail) \o CrLf
  BY DEF Part
<1> HIDE DEF h, t1, t2, t3, t4, t5, b1, b2, b3, b4
<1>4. (t5 \o tail) \o CrLf = t5 \o (tail \o CrLf)
  <2>1. t5 \in Seq(Byte) /\ tail \in Seq(Byte) /\ CrLf \in Seq(Byte)
    BY <1>1, <1>2
  <2>2. Associates(t5, tail, CrLf)
    BY <2>1, Assoc, Zenon
  <2> QED
    BY <2>2, Zenon DEF Associates
<1>5. (t4 \o delim) \o b4 = t4 \o (delim \o b4)
  <2>1. t4 \in Seq(Byte) /\ delim \in Seq(Byte) /\ b4 \in Seq(Byte)
    BY <1>1, <1>2
  <2>2. Associates(t4, delim, b4)
    BY <2>1, Assoc, Zenon
  <2> QED
    BY <2>2, Zenon DEF Associates
<1>6. (t3 \o CrLf) \o b3 = t3 \o (CrLf \o b3)
  <2>1. t3 \in Seq(Byte) /\ CrLf \in Seq(Byte) /\ b3 \in Seq(Byte)
    BY <1>1, <1>2
  <2>2. Associates(t3, CrLf, b3)
    BY <2>1, Assoc, Zenon
  <2> QED
    BY <2>2, Zenon DEF Associates
<1>7. (t2 \o p) \o b2 = t2 \o (p \o b2)
  <2>1. t2 \in Seq(Byte) /\ p \in Seq(Byte) /\ b2 \in Seq(Byte)
    BY <1>1, <1>2
  <2>2. Associates(t2, p, b2)
    BY <2>1, Assoc, Zenon
  <2> QED
    BY <2>2, Zenon DEF Associates
<1>8. (t1 \o CrLf) \o b1 = t1 \o (CrLf \o b1)
  <2>1. t1 \in Seq(Byte) /\ CrLf \in Seq(Byte) /\ b1 \in Seq(Byte)
    BY <1>1, <1>2
  <2>2. Associates(t1, CrLf, b1)
    BY <2>1, Assoc, Zenon
  <2> QED
    BY <2>2, Zenon DEF Associates
<1>9. (h \o CrLf) \o (CrLf \o b1) = h \o (CrLf \o (CrLf \o b1))
  <2>1. h \in Seq(Byte) /\ CrLf \in Seq(Byte) /\ (CrLf \o b1) \in Seq(Byte)
    BY <1>1, <1>2
  <2>2. Associates(h, CrLf, CrLf \o b1)
    BY <2>1, Assoc, Zenon
  <2> QED
    BY <2>2, Zenon DEF Associates
<1>10. /\ t5 = t4 \o delim /\ t4 = t3 \o CrLf /\ t3 = t2 \o p /\ t2 = t1 \o CrLf
       /\ t1 = h \o CrLf /\ b4 = tail \o CrLf /\ b3 = delim \o b4 /\ b2 = CrLf \o b3
       /\ b1 = p \o b2
  BY DEF t1, t2, t3, t4, t5, b1, b2, b3, b4
<1>11. Part(p, tail) = h \o (CrLf \o (CrLf \o b1))
  BY <1>3, <1>4, <1>5, <1>6, <1>7, <1>8, <1>9, <1>10, Zenon
<1> QED
  BY <1>11 DEF h, b1, b2, b3, b4, Body, BodyFor

LEMMA NoParts ==
  /\ IsParts(<<>>, <<>>)
  /\ \A s : IsParts(s, <<>>) => s = <<>>
<1>1. Len(<<>>) = 0
  OBVIOUS
<1>2. IsParts(<<>>, <<>>)
  <2> DEFINE r == [i \in 0..0 |-> <<>>]
  <2>1. r \in [0..Len(<<>>) -> Seq(Byte)] /\ r[0] = <<>>
    BY <1>1, EmptyType
  <2> HIDE DEF r
  <2> QED
    BY <1>1, <2>1, PartsIs
<1> QED
  BY <1>1, <1>2, PartsIs

LEMMA FirstPart ==
  ASSUME delim \in Seq(Byte), NEW ps \in Seq(Pictures), ps # <<>>, NEW s, IsParts(s, ps)
  PROVE  /\ Head(ps) \in Seq(Byte)
         /\ \E tail \in Tails, r \in Seq(Byte) :
              s = Header \o (CrLf \o (CrLf \o (Body(Head(ps), tail) \o r)))
              /\ IsParts(r, Tail(ps))
<1>1. PICK r \in [0..Len(ps) -> Seq(Byte)] :
        /\ r[0] = s /\ r[Len(ps)] = <<>>
        /\ \A i \in 1..Len(ps) : \E tail \in Tails : r[i - 1] = Part(ps[i], tail) \o r[i]
  BY PartsIs
<1>2. Len(ps) \in Nat /\ Len(ps) > 0 /\ Head(ps) = ps[1] /\ 1 \in 1..Len(ps)
      /\ Tail(ps) \in Seq(Pictures) /\ Len(Tail(ps)) = Len(ps) - 1
      /\ \A i \in 1..(Len(ps) - 1) : Tail(ps)[i] = ps[i + 1]
  OBVIOUS
<1>3. Head(ps) \in Seq(Byte)
  BY <1>2, InputsAreBytes
<1>4. PICK tail \in Tails : s = Part(Head(ps), tail) \o r[1]
  <2>1. \E tail \in Tails : r[1 - 1] = Part(ps[1], tail) \o r[1]
    BY <1>1, <1>2
  <2> QED
    BY <1>1, <1>2, <2>1
<1>5. r[1] \in Seq(Byte)
  BY <1>1, <1>2
<1>6. IsParts(r[1], Tail(ps))
  <2> DEFINE q == [i \in 0..(Len(ps) - 1) |-> r[i + 1]]
  <2>1. q \in [0..Len(Tail(ps)) -> Seq(Byte)]
    BY <1>1, <1>2
  <2>2. q[0] = r[1] /\ q[Len(Tail(ps))] = <<>>
    BY <1>1, <1>2
  <2>3. ASSUME NEW i \in 1..Len(Tail(ps))
        PROVE  \E t \in Tails : q[i - 1] = Part(Tail(ps)[i], t) \o q[i]
    <3>1. i + 1 \in 1..Len(ps) /\ q[i - 1] = r[i] /\ q[i] = r[i + 1]
          /\ Tail(ps)[i] = ps[i + 1] /\ i + 1 - 1 = i
      BY <1>2
    <3> HIDE DEF q
    <3> DEFINE k == i + 1
    <3>2. k \in 1..Len(ps) /\ k - 1 = i
      BY <3>1
    <3> HIDE DEF k
    <3>3. \E t \in Tails : r[k - 1] = Part(ps[k], t) \o r[k]
      BY <1>1, <3>2
    <3>4. q[i - 1] = r[k - 1] /\ q[i] = r[k] /\ Tail(ps)[i] = ps[k]
      BY <3>1, <3>2 DEF k
    <3> QED
      BY <3>3, <3>4
  <2> HIDE DEF q
  <2> QED
    BY <2>1, <2>2, <2>3, PartsIs
<1>7. s = Header \o (CrLf \o (CrLf \o (Body(Head(ps), tail) \o r[1])))
  <2> DEFINE b == Body(Head(ps), tail)
  <2>1. /\ b \in Seq(Byte) /\ CrLf \o b \in Seq(Byte) /\ CrLf \o (CrLf \o b) \in Seq(Byte)
        /\ Header \in Seq(Byte) /\ CrLf \in Seq(Byte)
        /\ Part(Head(ps), tail) = Header \o (CrLf \o (CrLf \o b))
    BY <1>3, BodyType, PartIs, InputsAreBytes, BytesAreBytes
  <2> HIDE DEF b
  <2>3. (CrLf \o b) \o r[1] = CrLf \o (b \o r[1])
    <3>1. Associates(CrLf, b, r[1])
      BY <1>5, <2>1, Assoc, Zenon
    <3> QED
      BY <3>1, Zenon DEF Associates
  <2>4. (CrLf \o (CrLf \o b)) \o r[1] = CrLf \o ((CrLf \o b) \o r[1])
    <3>1. Associates(CrLf, CrLf \o b, r[1])
      BY <1>5, <2>1, Assoc, Zenon
    <3> QED
      BY <3>1, Zenon DEF Associates
  <2>5. (Header \o (CrLf \o (CrLf \o b))) \o r[1] = Header \o ((CrLf \o (CrLf \o b)) \o r[1])
    <3>1. Associates(Header, CrLf \o (CrLf \o b), r[1])
      BY <1>5, <2>1, Assoc, Zenon
    <3> QED
      BY <3>1, Zenon DEF Associates
  <2> QED
    BY <1>4, <2>1, <2>3, <2>4, <2>5 DEF b
<1> QED
  BY <1>3, <1>5, <1>6, <1>7

(* One part more. *)
LEMMA PartsGrow ==
  ASSUME delim \in Seq(Byte), NEW ps \in Seq(Pictures), NEW s \in Seq(Byte), IsParts(s, ps),
         NEW p \in Pictures, NEW tail \in Tails
  PROVE  IsParts(s \o Part(p, tail), Append(ps, p))
<1>1. PICK r \in [0..Len(ps) -> Seq(Byte)] :
        /\ r[0] = s /\ r[Len(ps)] = <<>>
        /\ \A i \in 1..Len(ps) : \E t \in Tails : r[i - 1] = Part(ps[i], t) \o r[i]
  BY PartsIs
<1> DEFINE e == Part(p, tail)
           n == Len(ps)
           q == [i \in 0..(n + 1) |-> IF i <= n THEN r[i] \o e ELSE <<>>]
           qs == Append(ps, p)
<1>2. e \in Seq(Byte)
  BY PartType, TailType, InputsAreBytes
<1>3. n \in Nat /\ Len(qs) = n + 1 /\ qs[n + 1] = p /\ \A i \in 1..n : qs[i] = ps[i]
  OBVIOUS
<1> HIDE DEF n, qs, e
<1>4. \A i \in 0..n : r[i] \in Seq(Byte) /\ r[i] \o e \in Seq(Byte)
  <2>1. \A i \in 0..n : r[i] \in Seq(Byte)
    BY <1>1 DEF n
  <2> QED
    BY <1>2, <2>1, Cat
<1>5. /\ q \in [0..Len(qs) -> Seq(Byte)]
      /\ \A i \in 0..n : q[i] = r[i] \o e
      /\ q[n + 1] = <<>>
  BY <1>3, <1>4, EmptyType
<1> HIDE DEF q
<1>6. q[0] = s \o e /\ q[Len(qs)] = <<>>
  <2>1. 0 \in 0..n
    BY <1>3
  <2> QED
    BY <1>1, <1>3, <1>5, <2>1
<1>7. ASSUME NEW i \in 1..Len(qs) PROVE \E t \in Tails : q[i - 1] = Part(qs[i], t) \o q[i]
  <2>1. CASE i <= n
    <3>1. i \in 1..n /\ i - 1 \in 0..n /\ i \in 0..n /\ q[i - 1] = r[i - 1] \o e
          /\ q[i] = r[i] \o e /\ qs[i] = ps[i]
      <4>1. i \in 1..n /\ i - 1 \in 0..n /\ i \in 0..n
        BY <1>3, <2>1
      <4> QED
        BY <1>3, <1>5, <4>1
    <3>2. PICK t \in Tails : r[i - 1] = Part(ps[i], t) \o r[i]
      BY <1>1, <3>1 DEF n
    <3>3. Part(ps[i], t) \in Seq(Byte)
      <4>1. ps[i] \in Pictures
        BY <3>1 DEF n
      <4> QED
        BY <4>1, PartType, TailType, InputsAreBytes
    <3>4. (Part(ps[i], t) \o r[i]) \o e = Part(ps[i], t) \o (r[i] \o e)
      <4>1. Associates(Part(ps[i], t), r[i], e)
        BY <1>2, <1>4, <3>1, <3>3, Assoc, Zenon
      <4> QED
        BY <4>1, Zenon DEF Associates
    <3> QED
      BY <3>1, <3>2, <3>4
  <2>2. CASE i = n + 1
    <3>1. q[i - 1] = <<>> \o e /\ q[i] = <<>> /\ qs[i] = p
      <4>1. i - 1 = n /\ n \in 0..n /\ r[n] = <<>>
        BY <1>1, <1>3, <2>2 DEF n
      <4> QED
        BY <1>3, <1>5, <2>2, <4>1
    <3>2. <<>> \o e = e \o <<>>
      BY <1>2, ConcatEmptySeq
    <3> QED
      BY <3>1, <3>2 DEF e
  <2>3. i <= n \/ i = n + 1
    BY <1>3
  <2> QED
    BY <2>1, <2>2, <2>3
<1> QED
  BY <1>5, <1>6, <1>7, PartsIs DEF e, qs

-----------------------------------------------------------------------------
(* A line at hand: l is what was read of it, X what it holds before the     *)
(* CRLF.  It is not over before that, and then it is X and CRLF, whole.     *)
NoLF(s) == \A i \in 1..Len(s) : s[i] # LF

LEMMA LineGoesOn ==
  ASSUME NEW l \in Seq(Byte), NEW u \in Seq(Byte), NEW X \in Seq(Byte), NEW z \in Seq(Byte),
         l \o u = X \o (CrLf \o z), NoLF(l), NoLF(X), Len(X) + 1 <= MaxLine
  PROVE  /\ u # <<>>
         /\ Head(u) = LF \/ Len(l) >= MaxLine
              => Append(l, Head(u)) = X \o CrLf /\ Tail(u) = z
<1> DEFINE n == Len(X)
           w == CrLf \o z
           t == X \o w
<1>1. /\ CrLf \in Seq(Byte) /\ Len(CrLf) = 2 /\ CrLf[1] = CR /\ CrLf[2] = LF
      /\ n \in Nat /\ Len(l) \in Nat /\ Len(u) \in Nat /\ Len(z) \in Nat
  BY BytesAreBytes DEF CrLf
<1>2. w \in Seq(Byte) /\ Len(w) = 2 + Len(z) /\ w[1] = CR /\ w[2] = LF
  <2>1. w \in Seq(Byte) /\ Len(w) = 2 + Len(z)
    <3>1. CrLf \in Seq(Byte) /\ z \in Seq(Byte)
      BY <1>1
    <3>2. CrLf \o z \in Seq(Byte) /\ Len(CrLf \o z) = Len(CrLf) + Len(z)
      BY <3>1, Cat, Zenon
    <3> QED
      BY <1>1, <3>2
  <2>2. \A x \in 1..Len(CrLf) : w[x] = CrLf[x]
    BY <1>1, CatAt
  <2> QED
    BY <1>1, <2>1, <2>2
<1> HIDE DEF w
<1>3. t \in Seq(Byte) /\ Len(t) = n + 2 + Len(z)
      /\ (\A x \in 1..n : t[x] = X[x]) /\ t[n + 1] = CR /\ t[n + 2] = LF
  <2>1. t \in Seq(Byte) /\ Len(t) = n + 2 + Len(z)
    BY <1>1, <1>2, Cat
  <2>2. (\A x \in 1..n : t[x] = X[x]) /\ \A x \in 1..Len(w) : t[n + x] = w[x]
    BY <1>2, CatAt
  <2>3. 1 \in 1..Len(w) /\ 2 \in 1..Len(w)
    BY <1>1, <1>2
  <2> QED
    BY <1>2, <2>1, <2>2, <2>3
<1> HIDE DEF t
<1>4. l \o u = t /\ Len(t) = Len(l) + Len(u)
      /\ (\A x \in 1..Len(l) : t[x] = l[x]) /\ \A x \in 1..Len(u) : t[Len(l) + x] = u[x]
  <2>1. l \o u = t
    BY DEF t, w
  <2> QED
    BY <2>1, Cat, CatAt
<1> HIDE DEF n
<1>5. Len(l) <= n + 1
  <2>1. ASSUME Len(l) >= n + 2 PROVE FALSE
    <3>1. n + 2 \in 1..Len(l)
      BY <1>1, <2>1
    <3> QED
      BY <1>3, <1>4, <3>1 DEF NoLF
  <2> QED
    BY <1>1, <2>1
<1>6. Len(u) > 0 /\ u # <<>>
  BY <1>1, <1>3, <1>4, <1>5
<1>7. Head(u) = t[Len(l) + 1] /\ Head(u) \in Byte /\ Tail(u) \in Seq(Byte)
  <2>1. Head(u) = u[1] /\ 1 \in 1..Len(u)
    BY <1>1, <1>6
  <2> QED
    BY <1>4, <1>6, <2>1, HeadTailType
<1>8. ASSUME Head(u) = LF \/ Len(l) >= MaxLine PROVE Len(l) = n + 1
  <2>1. CASE Head(u) = LF
    <3>1. ASSUME Len(l) + 1 <= n PROVE FALSE
      <4>1. Len(l) + 1 \in 1..n
        BY <1>1, <3>1
      <4> QED
        BY <1>3, <1>7, <2>1, <4>1 DEF NoLF, n
    <3>2. Len(l) # n
      BY <1>3, <1>7, <2>1 DEF CR, LF
    <3> QED
      BY <1>1, <1>5, <3>1, <3>2
  <2>2. CASE Len(l) >= MaxLine
    BY <1>1, <1>5, <2>2, ReaderAssumption DEF n
  <2> QED
    BY <1>8, <2>1, <2>2
<1>9. ASSUME Head(u) = LF \/ Len(l) >= MaxLine
      PROVE  Append(l, Head(u)) = X \o CrLf /\ Tail(u) = z
  <2> DEFINE a == Append(l, Head(u))
             b == X \o CrLf
             v == Tail(u)
  <2>1. a \in Seq(Byte) /\ Len(a) = n + 2
    BY <1>1, <1>7, <1>8, <1>9
  <2>2. b \in Seq(Byte) /\ Len(b) = n + 2
    BY <1>1, Cat DEF n
  <2>3. a \o v = l \o u
    BY <1>6, Shift
  <2>4. b \o z = X \o (CrLf \o z)
    <3>1. Associates(X, CrLf, z)
      BY <1>1, Assoc
    <3> QED
      BY <3>1, Zenon DEF Associates, b
  <2>5. v \in Seq(Byte)
    BY <1>7
  <2> HIDE DEF a, b, v
  <2>6. a \in Seq(Byte) /\ b \in Seq(Byte) /\ v \in Seq(Byte) /\ z \in Seq(Byte)
        /\ a \o v = b \o z /\ Len(a) = Len(b)
    BY <2>1, <2>2, <2>3, <2>4, <2>5
  <2>7. a = b /\ v = z
    BY <2>6, SameCut, Zenon
  <2> QED
    BY <2>7 DEF a, b, v
<1> QED
  BY <1>6, <1>9

(* A part from its body on, as what is to be searched and what is left then. *)
BodyShape(t, p, tail, s) ==
  /\ t = ((p \o CrLf) \o delim) \o ((tail \o CrLf) \o s)
  /\ (p \o CrLf) \o delim \in Seq(Byte) /\ (tail \o CrLf) \o s \in Seq(Byte)
  /\ Len((p \o CrLf) \o delim) = Len(p) + 2 + Len(delim)
  /\ \A x \in 1..Len(p) : t[x] = p[x]
  /\ t[Len(p) + 1] = CR /\ t[Len(p) + 2] = LF
  /\ \A x \in 1..Len(delim) : t[Len(p) + 2 + x] = delim[x]

LEMMA BodyBytes ==
  ASSUME delim \in Seq(Byte), NEW p \in Seq(Byte), NEW tail \in Tails, NEW s \in Seq(Byte)
  PROVE  BodyShape(Body(p, tail) \o s, p, tail, s)
<1> DEFINE c == p \o CrLf
           e == tail \o CrLf
           d == delim
           y == c \o d
           r == e \o s
           t == Body(p, tail) \o s
<1>1. CrLf \in Seq(Byte) /\ Len(CrLf) = 2 /\ CrLf[1] = CR /\ CrLf[2] = LF /\ d \in Seq(Byte)
  BY BytesAreBytes DEF CrLf
<1>2. /\ c \in Seq(Byte) /\ Len(c) = Len(p) + 2 /\ Len(p) \in Nat
      /\ (\A x \in 1..Len(p) : c[x] = p[x]) /\ c[Len(p) + 1] = CR /\ c[Len(p) + 2] = LF
  <2>1. c \in Seq(Byte) /\ Len(c) = Len(p) + 2 /\ Len(p) \in Nat
    BY <1>1, Cat
  <2>2. (\A x \in 1..Len(p) : c[x] = p[x]) /\ \A x \in 1..2 : c[Len(p) + x] = CrLf[x]
    <3>1. p \in Seq(Byte) /\ CrLf \in Seq(Byte)
      BY <1>1
    <3>2. (\A x \in 1..Len(p) : c[x] = p[x]) /\ \A x \in 1..Len(CrLf) : c[Len(p) + x] = CrLf[x]
      BY <3>1, CatAt, Zenon
    <3> QED
      BY <1>1, <3>2
  <2>3. 1 \in 1..2 /\ 2 \in 1..2
    OBVIOUS
  <2> HIDE DEF c
  <2> QED
    BY <1>1, <2>1, <2>2, <2>3
<1>3. e \in Seq(Byte) /\ d \o e \in Seq(Byte) /\ CrLf \o (d \o e) \in Seq(Byte)
      /\ Body(p, tail) \in Seq(Byte) /\ Body(p, tail) = p \o (CrLf \o (d \o e))
  BY BodyType DEF Body, BodyFor
<1>4. r \in Seq(Byte)
  BY <1>3, Cat
<1>5. y \in Seq(Byte) /\ Len(y) = Len(p) + 2 + Len(d)
      /\ (\A x \in 1..Len(c) : y[x] = c[x]) /\ \A x \in 1..Len(d) : y[Len(c) + x] = d[x]
  <2> HIDE DEF c, d
  <2>1. c \in Seq(Byte) /\ d \in Seq(Byte)
    BY <1>1, <1>2
  <2>2. c \o d \in Seq(Byte) /\ Len(c \o d) = Len(c) + Len(d)
    BY <2>1, Cat, Zenon
  <2>3. (\A x \in 1..Len(c) : (c \o d)[x] = c[x])
        /\ \A x \in 1..Len(d) : (c \o d)[Len(c) + x] = d[x]
    BY <2>1, CatAt, Zenon
  <2> QED
    BY <1>2, <2>2, <2>3
<1> HIDE DEF c, d, e, y, r, t
<1>6. t = y \o r
  <2>1. c \o (d \o e) = p \o (CrLf \o (d \o e))
    <3>1. p \in Seq(Byte) /\ CrLf \in Seq(Byte) /\ d \o e \in Seq(Byte)
      BY <1>1, <1>3
    <3>2. Associates(p, CrLf, d \o e)
      BY <3>1, Assoc, Zenon
    <3> QED
      BY <3>2, Zenon DEF Associates, c
  <2>2. y \o e = c \o (d \o e)
    <3>1. c \in Seq(Byte) /\ d \in Seq(Byte) /\ e \in Seq(Byte)
      BY <1>1, <1>2, <1>3
    <3>2. Associates(c, d, e)
      BY <3>1, Assoc, Zenon
    <3> QED
      BY <3>2, Zenon DEF Associates, y
  <2>3. (y \o e) \o s = y \o r
    <3>1. y \in Seq(Byte) /\ e \in Seq(Byte) /\ s \in Seq(Byte)
      BY <1>3, <1>5
    <3>2. Associates(y, e, s)
      BY <3>1, Assoc, Zenon
    <3> QED
      BY <3>2, Zenon DEF Associates, r
  <2> QED
    BY <1>3, <2>1, <2>2, <2>3 DEF t
<1>7. \A x \in 1..Len(y) : t[x] = y[x]
  BY <1>4, <1>5, <1>6, CatAt
<1>8. \A x \in 1..Len(p) : t[x] = p[x]
  <2> SUFFICES ASSUME NEW x \in 1..Len(p) PROVE t[x] = p[x]
    OBVIOUS
  <2>1. x \in 1..Len(c) /\ x \in 1..Len(y)
    BY <1>1, <1>2, <1>5
  <2> QED
    BY <1>2, <1>5, <1>7, <2>1
<1>9. t[Len(p) + 1] = CR /\ t[Len(p) + 2] = LF
  <2>1. /\ Len(p) + 1 \in 1..Len(c) /\ Len(p) + 1 \in 1..Len(y)
        /\ Len(p) + 2 \in 1..Len(c) /\ Len(p) + 2 \in 1..Len(y)
    BY <1>1, <1>2, <1>5
  <2> QED
    BY <1>2, <1>5, <1>7, <2>1
<1>10. \A x \in 1..Len(d) : t[Len(p) + 2 + x] = d[x]
  <2> SUFFICES ASSUME NEW x \in 1..Len(d) PROVE t[Len(p) + 2 + x] = d[x]
    OBVIOUS
  <2>1. Len(c) + x \in 1..Len(y) /\ Len(p) + 2 + x = Len(c) + x
    BY <1>1, <1>2, <1>5
  <2> QED
    BY <1>5, <1>7, <2>1
<1> QED
  BY <1>4, <1>5, <1>6, <1>8, <1>9, <1>10 DEF t, y, c, d, r, e, BodyShape

-----------------------------------------------------------------------------
DelimOK ==
  /\ delim \in Seq(Byte) /\ Len(delim) >= 2 /\ Len(delim) + 1 <= MaxLine
  /\ \A i \in 1..Len(delim) : delim[i] # CR /\ delim[i] # LF

LEMMA BoundaryOK ==
  ASSUME NEW b \in Boundaries, delim = <<Dash, Dash>> \o b
  PROVE  DelimOK
<1> DEFINE d == <<Dash, Dash>>
<1>1. d \in Seq(Byte) /\ b \in Seq(Byte) /\ Len(d) = 2 /\ Len(b) \in Nat
      /\ d[1] = Dash /\ d[2] = Dash /\ Dash # CR /\ Dash # LF
  <2>1. b \in Seq(Byte)
    BY InputsAreBytes
  <2>2. Dash # CR /\ Dash # LF
    BY DEF Dash, CR, LF
  <2> QED
    BY <2>1, <2>2, BytesAreBytes
<1>2. \A i \in 1..Len(b) : b[i] # CR /\ b[i] # LF
  BY <1>1, ReaderAssumption DEF Contains
<1>3. Len(b) + 3 <= MaxLine /\ MaxLine \in Nat
  BY ReaderAssumption
<1> HIDE DEF d
<1>4. delim \in Seq(Byte) /\ Len(delim) = 2 + Len(b)
      /\ (\A x \in 1..2 : delim[x] = d[x]) /\ \A x \in 1..Len(b) : delim[2 + x] = b[x]
  <2>1. delim = d \o b
    BY DEF d
  <2>2. d \o b \in Seq(Byte) /\ Len(d \o b) = Len(d) + Len(b)
    BY <1>1, Cat, Zenon
  <2>3. (\A x \in 1..Len(d) : (d \o b)[x] = d[x])
        /\ \A x \in 1..Len(b) : (d \o b)[Len(d) + x] = b[x]
    BY <1>1, CatAt, Zenon
  <2> QED
    BY <1>1, <2>1, <2>2, <2>3
<1>5. ASSUME NEW i \in 1..Len(delim) PROVE delim[i] # CR /\ delim[i] # LF
  <2>1. CASE i \in 1..2
    <3>1. i = 1 \/ i = 2
      BY <2>1
    <3> QED
      BY <1>1, <1>4, <2>1, <3>1
  <2>2. CASE i \notin 1..2
    <3>1. i - 2 \in 1..Len(b) /\ 2 + (i - 2) = i
      BY <1>1, <1>4, <2>2
    <3> QED
      BY <1>2, <1>4, <3>1
  <2> QED
    BY <2>1, <2>2
<1> QED
  BY <1>1, <1>3, <1>4, <1>5 DEF DelimOK

(* Past the picture, what was taken ends with what there is of the boundary. *)
LEMMA TakenReaches ==
  ASSUME delim \in Seq(Byte), NEW p \in Seq(Byte), NEW tail \in Tails, NEW s \in Seq(Byte),
         NEW t \in Seq(Byte), NEW u \in Seq(Byte), t \o u = Body(p, tail) \o s,
         NEW k \in Nat, k <= Len(delim), Len(t) = Len(p) + 2 + k
  PROVE  Ends(delim, k, t)
<1> DEFINE y == Body(p, tail) \o s
<1>1. \A x \in 1..Len(delim) : y[Len(p) + 2 + x] = delim[x]
  <2>1. BodyShape(Body(p, tail) \o s, p, tail, s)
    BY BodyBytes, Zenon
  <2> QED
    BY <2>1, Zenon DEF BodyShape
<1>2. \A x \in 1..Len(t) : y[x] = t[x]
  <2>1. (\A x \in 1..Len(t) : (t \o u)[x] = t[x])
        /\ \A x \in 1..Len(u) : (t \o u)[Len(t) + x] = u[x]
    BY CatAt, Zenon
  <2> QED
    BY <2>1
<1> HIDE DEF y
<1>3. Len(p) \in Nat /\ Len(delim) \in Nat /\ Len(t) \in Nat
  OBVIOUS
<1>4. ASSUME NEW x \in 1..k PROVE delim[x] = t[Len(t) - k + x]
  <2>1. x \in 1..Len(delim) /\ Len(t) - k + x = Len(p) + 2 + x /\ Len(p) + 2 + x \in 1..Len(t)
    BY <1>3
  <2> QED
    BY <1>1, <1>2, <2>1
<1>5. k <= Len(t)
  BY <1>3
<1> QED
  BY <1>4, <1>5 DEF Ends

(* The boundary is found where it is and no earlier. *)
InPlace(p, tail, s, t, u) == t = (p \o CrLf) \o delim /\ u = (tail \o CrLf) \o s

LEMMA FoundInPlace ==
  ASSUME DelimOK, NEW p \in Seq(Byte), NEW tail \in Tails, NEW s \in Seq(Byte),
         NEW t \in Seq(Byte), NEW u \in Seq(Byte), t \o u = Body(p, tail) \o s,
         Len(t) <= Len(p) + 2 + Len(delim), ~Occurs(delim, p), Ends(delim, Len(delim), t)
  PROVE  InPlace(p, tail, s, t, u)
<1> DEFINE y == Body(p, tail) \o s
           D == Len(delim)
           T == Len(t)
           P == Len(p)
<1>1. /\ y = ((p \o CrLf) \o delim) \o ((tail \o CrLf) \o s)
      /\ (p \o CrLf) \o delim \in Seq(Byte) /\ (tail \o CrLf) \o s \in Seq(Byte)
      /\ Len((p \o CrLf) \o delim) = P + 2 + D
      /\ \A x \in 1..P : y[x] = p[x]
      /\ y[P + 1] = CR /\ y[P + 2] = LF
  <2>1. delim \in Seq(Byte) /\ p \in Seq(Byte) /\ tail \in Tails /\ s \in Seq(Byte)
    BY DEF DelimOK
  <2> QED
    <3>1. BodyShape(Body(p, tail) \o s, p, tail, s)
      BY <2>1, BodyBytes, Zenon
    <3> QED
      BY <3>1 DEF BodyShape
<1>2. \A x \in 1..T : y[x] = t[x]
  <2>1. (\A x \in 1..Len(t) : (t \o u)[x] = t[x])
        /\ \A x \in 1..Len(u) : (t \o u)[Len(t) + x] = u[x]
    BY CatAt, Zenon
  <2> QED
    BY <2>1
<1> HIDE DEF y
<1>3. D \in Nat /\ T \in Nat /\ P \in Nat /\ D >= 2 /\ D <= T
      /\ \A x \in 1..D : delim[x] = t[T - D + x]
  BY DEF DelimOK, Ends
<1>4. \A x \in 1..D : delim[x] # CR /\ delim[x] # LF
  BY DEF DelimOK
<1>5. T <= P + 2 + D
  OBVIOUS
<1>6. \A i \in 0..(P - D) : SubSeq(p, i + 1, i + D) # delim
  BY DEF Occurs
<1>7. delim \in Seq(Byte)
  BY DEF DelimOK
<1> HIDE DEF D, T, P
<1>8. ASSUME T <= P PROVE FALSE
  <2> DEFINE i == T - D
  <2>1. i \in 0..(P - D) /\ i \in Nat /\ i + D <= P /\ i + D = T
    BY <1>3, <1>8
  <2>2. SubSeq(p, i + 1, i + D) \in Seq(Byte) /\ Len(SubSeq(p, i + 1, i + D)) = D
        /\ \A x \in 1..D : SubSeq(p, i + 1, i + D)[x] = p[i + x]
    <3> HIDE DEF i
    <3>1. p \in Seq(Byte) /\ i \in Nat /\ D \in Nat /\ i + D <= Len(p)
      BY <1>3, <2>1 DEF P
    <3> QED
      BY <3>1, SliceType
  <2>3. ASSUME NEW x \in 1..D PROVE SubSeq(p, i + 1, i + D)[x] = delim[x]
    <3>1. i + x \in 1..T /\ i + x \in 1..P
      BY <1>3, <1>8, <2>1
    <3> QED
      BY <1>1, <1>2, <1>3, <2>2, <3>1
  <2> HIDE DEF i
  <2>4. SubSeq(p, i + 1, i + D) = delim
    BY <1>7, <2>2, <2>3, SeqEqual DEF D
  <2> QED
    BY <1>6, <2>1, <2>4
<1>9. ASSUME T > P, T < P + 2 + D PROVE FALSE
  <2>1. CASE T - D <= P
    <3>1. (P + 1) - (T - D) \in 1..D /\ T - D + ((P + 1) - (T - D)) = P + 1
          /\ P + 1 \in 1..T
      BY <1>3, <1>9, <2>1
    <3> DEFINE x == (P + 1) - (T - D)
    <3>2. delim[x] = t[T - D + x] /\ delim[x] # CR
      BY <1>3, <1>4, <3>1
    <3>3. t[P + 1] = CR
      BY <1>1, <1>2, <3>1
    <3> HIDE DEF x
    <3> QED
      BY <3>1, <3>2, <3>3, Zenon DEF x
  <2>2. CASE T - D > P
    <3>1. T - D + 1 = P + 2 /\ 1 \in 1..D /\ P + 2 \in 1..T
      BY <1>3, <1>9, <2>2
    <3>2. delim[1] = t[P + 2] /\ delim[1] # LF
      BY <1>3, <1>4, <3>1
    <3>3. t[P + 2] = LF
      BY <1>1, <1>2, <3>1
    <3> QED
      BY <3>2, <3>3
  <2> QED
    BY <1>3, <2>1, <2>2
<1>10. T = P + 2 + D
  BY <1>3, <1>5, <1>8, <1>9
<1>11. t = (p \o CrLf) \o delim /\ u = (tail \o CrLf) \o s
  <2> DEFINE a == (p \o CrLf) \o delim
             v == (tail \o CrLf) \o s
  <2>1. a \in Seq(Byte) /\ v \in Seq(Byte) /\ t \o u = a \o v /\ Len(t) = Len(a)
    BY <1>1, <1>10 DEF y, T
  <2> HIDE DEF a, v
  <2>2. t \in Seq(Byte) /\ u \in Seq(Byte) /\ a \in Seq(Byte) /\ v \in Seq(Byte)
        /\ t \o u = a \o v /\ Len(t) = Len(a)
    BY <2>1
  <2>3. t = a /\ u = v
    BY <2>2, SameCut, Zenon
  <2> QED
    BY <2>3 DEF a, v
<1> QED
  BY <1>11 DEF InPlace

LEMMA ReverseType ==
  ASSUME NEW s \in Seq(Byte)
  PROVE  /\ Reverse(s) \in Seq(Byte) /\ Len(Reverse(s)) = Len(s)
         /\ \A x \in 1..Len(s) : Reverse(s)[x] = s[Len(s) - x + 1]
BY DEF Reverse

(* The line break before the boundary is not the picture's. *)
LEMMA TrimmedIs ==
  ASSUME NEW p \in Seq(Byte)
  PROVE  Trimmed(p \o CrLf) = p
<1> DEFINE c == p \o CrLf
<1>1. CrLf \in Seq(Byte) /\ Len(CrLf) = 2 /\ Len(p) \in Nat
  BY BytesAreBytes
<1>2. c \in Seq(Byte) /\ Len(c) = Len(p) + 2
  BY <1>1, Cat
<1>3. \A x \in 1..Len(p) : c[x] = p[x]
  BY <1>1, CatAt
<1>4. \A x \in 1..2 : c[Len(p) + x] = CrLf[x]
  BY <1>1, CatAt
<1> HIDE DEF c
<1>5. IsSuffix(CrLf, c)
  <2> DEFINE rs == Reverse(CrLf)
             rt == Reverse(c)
  <2>1. rs \in Seq(Byte) /\ Len(rs) = 2 /\ \A x \in 1..2 : rs[x] = CrLf[2 - x + 1]
    <3>1. /\ Reverse(CrLf) \in Seq(Byte) /\ Len(Reverse(CrLf)) = Len(CrLf)
          /\ \A x \in 1..Len(CrLf) : Reverse(CrLf)[x] = CrLf[Len(CrLf) - x + 1]
      BY <1>1, ReverseType, Zenon
    <3> QED
      BY <1>1, <3>1
  <2>2. rt \in Seq(Byte) /\ Len(rt) = Len(p) + 2
        /\ \A x \in 1..(Len(p) + 2) : rt[x] = c[Len(p) + 2 - x + 1]
    BY <1>2 DEF Reverse
  <2> HIDE DEF rs, rt
  <2>3. /\ SubSeq(rs, 1, 2) \in Seq(Byte) /\ Len(SubSeq(rs, 1, 2)) = 2
        /\ \A x \in 1..2 : SubSeq(rs, 1, 2)[x] = rs[x]
    <3>1. rs \in Seq(Byte) /\ 2 \in Nat /\ 2 <= Len(rs)
      BY <2>1
    <3> QED
      BY <3>1, PrefixElements, Zenon
  <2>4. /\ SubSeq(rt, 1, 2) \in Seq(Byte) /\ Len(SubSeq(rt, 1, 2)) = 2
        /\ \A x \in 1..2 : SubSeq(rt, 1, 2)[x] = rt[x]
    BY <1>1, <2>2, PrefixElements
  <2>5. ASSUME NEW x \in 1..2 PROVE rs[x] = rt[x]
    <3>1. x \in 1..(Len(p) + 2) /\ 3 - x \in 1..2 /\ 2 - x + 1 = 3 - x
          /\ Len(p) + 2 - x + 1 = Len(p) + (3 - x)
      BY <1>1
    <3> QED
      BY <1>4, <2>1, <2>2, <3>1
  <2>6. SubSeq(rs, 1, 2) = SubSeq(rt, 1, 2)
    BY <2>3, <2>4, <2>5, SeqEqual
  <2>7. IsPrefix(rs, rt)
    BY <1>1, <2>1, <2>2, <2>6 DEF IsPrefix
  <2> QED
    BY <2>7 DEF IsSuffix, rs, rt
<1>6. Trimmed(c) = SubSeq(c, 1, Len(p))
  BY <1>1, <1>2, <1>5 DEF Trimmed
<1>7. /\ SubSeq(c, 1, Len(p)) \in Seq(Byte) /\ Len(SubSeq(c, 1, Len(p))) = Len(p)
      /\ \A x \in 1..Len(p) : SubSeq(c, 1, Len(p))[x] = c[x]
  BY <1>1, <1>2, PrefixElements
<1>8. SubSeq(c, 1, Len(p)) = p
  BY <1>3, <1>7, SeqEqual
<1> QED
  BY <1>6, <1>8 DEF c

-----------------------------------------------------------------------------
(* The bytes of the body on their way.  d are those in the wire's chunk,    *)
(* of which the end of the wire, cut, never comes if the server went away;  *)
(* m are those that follow, and those a server that went away never sent.   *)
End == IF chunked /\ link = "closed" /\ left = <<>> THEN Chunk(<<>>) ELSE <<>>
SizeLine(n) == <<48 + n>> \o CrLf
Framed(d) ==
  IF ~chunked \/ d = <<>> THEN d
  ELSE (IF remaining > 0 THEN <<>> ELSE SizeLine(Len(d))) \o (d \o CrLf)

Arriving(d, cut) ==
  /\ d \in Seq(Byte) /\ cut \in Seq(Byte)
  /\ done => d = <<>> /\ chunked /\ link = "closed" /\ left = <<>>
  /\ ~done =>
       /\ wire \o cut = Framed(d) \o End
       /\ link = "up" \/ left = <<>> => cut = <<>>
       /\ chunked => IF remaining > 0 THEN Len(d) = remaining ELSE Len(d) <= 9

Lost(m) == m \in Seq(Byte) /\ (link = "up" => m = left) /\ (left = <<>> => m = <<>>)

Pending(u) == \E d, cut, m : Arriving(d, cut) /\ Lost(m) /\ u = buf \o (d \o m)

(* Nothing more comes, in the middle of the body. *)
CutShort ==
  ~chunked /\ link = "closed" /\ wire = <<>> /\ buf = <<>> /\ left # <<>>

-----------------------------------------------------------------------------
LEMMA SizeLineIs ==
  ASSUME NEW n \in 0..9
  PROVE  /\ SizeLine(n) \in Seq(Byte) /\ Len(SizeLine(n)) = 3
         /\ SizeLine(n)[1] = 48 + n /\ SizeLine(n)[2] = CR /\ SizeLine(n)[3] = LF
<1> DEFINE s == <<48 + n>>
<1>1. s \in Seq(Byte) /\ Len(s) = 1 /\ s[1] = 48 + n
  <2>1. 48 + n \in Byte
    BY DEF Byte
  <2> QED
    BY <2>1
<1>2. CrLf \in Seq(Byte) /\ Len(CrLf) = 2 /\ CrLf[1] = CR /\ CrLf[2] = LF
  BY BytesAreBytes DEF CrLf
<1>3. SizeLine(n) = s \o CrLf
  BY DEF SizeLine
<1> HIDE DEF s
<1> DEFINE c == CrLf
<1>8. c \in Seq(Byte) /\ Len(c) = 2 /\ c[1] = CR /\ c[2] = LF
  BY <1>2
<1> HIDE DEF c
<1>9. s \in Seq(Byte) /\ c \in Seq(Byte)
  BY <1>1, <1>8
<1>4. s \o c \in Seq(Byte) /\ Len(s \o c) = 3
  <2>1. s \o c \in Seq(Byte) /\ Len(s \o c) = Len(s) + Len(c)
    BY <1>9, Cat, Zenon
  <2> QED
    BY <1>1, <1>8, <2>1
<1>5. /\ \A x \in 1..Len(s) : (s \o c)[x] = s[x]
      /\ \A x \in 1..Len(c) : (s \o c)[Len(s) + x] = c[x]
  BY <1>9, CatAt, Zenon
<1> DEFINE t == s \o c
<1>6. t[1] = 48 + n
  BY <1>1, <1>5
<1>7. t[2] = CR /\ t[3] = LF
  <2>1. \A x \in 1..2 : t[1 + x] = c[x]
    BY <1>1, <1>8, <1>5
  <2> HIDE DEF t
  <2>2. ASSUME NEW y \in 2..3 PROVE t[y] = c[y - 1]
    <3>1. y - 1 \in 1..2 /\ 1 + (y - 1) = y
      OBVIOUS
    <3> QED
      BY <2>1, <3>1
  <2>3. t[2] = c[2 - 1] /\ t[3] = c[3 - 1]
    BY <2>2
  <2> QED
    BY <1>8, <2>3
<1> QED
  BY <1>3, <1>4, <1>6, <1>7 DEF c

LEMMA ChunkIs ==
  ASSUME NEW d \in Seq(Byte), Len(d) <= 9
  PROVE  Chunk(d) = SizeLine(Len(d)) \o (d \o CrLf)
<1>1. Len(d) \in 0..9
  <2>1. Len(d) \in Nat /\ \A n \in Nat : n <= 9 => n \in 0..9
    BY LenProperties
  <2> QED
    BY <2>1, Zenon
<1>2. SizeLine(Len(d)) \in Seq(Byte) /\ CrLf \in Seq(Byte) /\ d \in Seq(Byte)
  BY <1>1, SizeLineIs, BytesAreBytes
<1>3. (SizeLine(Len(d)) \o d) \o CrLf = SizeLine(Len(d)) \o (d \o CrLf)
  <2>1. Associates(SizeLine(Len(d)), d, CrLf)
    BY <1>2, Assoc, Zenon
  <2> QED
    BY <2>1, Zenon DEF Associates
<1> QED
  BY <1>3 DEF Chunk, SizeLine

LEMMA EndType ==
  /\ End \in Seq(Byte)
  /\ End # <<>> => End = SizeLine(0) \o (<<>> \o CrLf) /\ link = "closed" /\ left = <<>>
<1>1. <<>> \in Seq(Byte) /\ Len(<<>>) = 0 /\ Len(<<>>) <= 9
  BY EmptyType
<1>2. Chunk(<<>>) \in Seq(Byte)
  BY <1>1, ChunkType, Zenon
<1>3. Chunk(<<>>) = SizeLine(0) \o (<<>> \o CrLf)
  BY <1>1, ChunkIs
<1> QED
  BY <1>1, <1>2, <1>3 DEF End

(* Where the data of a chunk begins once its size line is there. *)
LEMMA SizeIsThere ==
  ASSUME wire \in Seq(Byte), remaining = 0, NEW n \in 0..9, NEW rest \in Seq(Byte),
         NEW cut \in Seq(Byte), wire \o cut = SizeLine(n) \o rest
  PROVE  /\ HasSize => Start = 3 /\ Size = n /\ ~BadSize /\ Len(wire) >= 3
         /\ cut = <<>> => HasSize
<1> DEFINE t == SizeLine(n) \o rest
           sl == SizeLine(n)
<1>1. sl \in Seq(Byte) /\ Len(sl) = 3 /\ sl[1] = 48 + n /\ sl[2] = CR /\ sl[3] = LF
  BY SizeLineIs
<1>2. Len(wire) \in Nat /\ Len(rest) \in Nat /\ DOMAIN wire = 1..Len(wire)
  OBVIOUS
<1>3. (\A x \in 1..3 : t[x] = sl[x]) /\ Len(t) = 3 + Len(rest)
  <2> HIDE DEF sl
  <2>1. (\A x \in 1..Len(sl) : (sl \o rest)[x] = sl[x]) /\ Len(sl \o rest) = Len(sl) + Len(rest)
    BY <1>1, Cat, CatAt
  <2> QED
    BY <1>1, <2>1 DEF sl
<1> HIDE DEF sl
<1>4. \A x \in 1..Len(wire) : wire[x] = t[x]
  <2>1. \A x \in 1..Len(wire) : (wire \o cut)[x] = wire[x]
    BY CatAt
  <2> QED
    BY <2>1
<1>5. cut = <<>> => Len(wire) >= 3
  <2> SUFFICES ASSUME cut = <<>> PROVE Len(wire) >= 3
    OBVIOUS
  <2>1. wire \o cut = wire
    BY ConcatEmptySeq
  <2>2. Len(wire) = 3 + Len(rest)
    BY <1>3, <2>1
  <2> QED
    BY <1>2, <2>2
<1> HIDE DEF t
<1>6. 48 + n # CR /\ 48 + n # LF /\ CR # LF /\ 48 + n \in 48..57
  BY DEF CR, LF
<1>7. t[1] = 48 + n /\ t[2] = CR /\ t[3] = LF
  BY <1>1, <1>3
<1>8. ASSUME Len(wire) >= 3
      PROVE  1 \in Digits /\ 3 \in LineEnds
  <2>1. 1 \in 1..Len(wire) /\ 3 \in 1..Len(wire)
    BY <1>2, <1>8
  <2>2. 1 \in Digits
    BY <1>2, <1>4, <1>6, <1>7, <2>1 DEF Digits
  <2> QED
    BY <1>2, <1>4, <1>7, <2>1, <2>2 DEF LineEnds
<1>9. ASSUME NEW j \in LineEnds PROVE j >= 3 /\ Len(wire) >= 3
  <2>1. j \in 1..Len(wire) /\ wire[j] = LF
    BY <1>2 DEF LineEnds
  <2>2. j # 1 /\ j # 2
    BY <1>4, <1>6, <1>7, <2>1
  <2> QED
    BY <1>2, <2>1, <2>2
<1>10. HasSize => Start = 3 /\ Size = n /\ ~BadSize /\ Len(wire) >= 3
  <2> SUFFICES ASSUME HasSize PROVE Start = 3 /\ Size = n /\ ~BadSize /\ Len(wire) >= 3
    OBVIOUS
  <2>1. LineEnds # {}
    BY DEF HasSize
  <2>2. Len(wire) >= 3
    BY <1>9, <2>1
  <2>3. 1 \in Digits /\ 3 \in LineEnds
    BY <1>8, <2>2
  <2>4. Min(Digits) = 1
    <3>1. Digits \in SUBSET (1..Len(wire))
      BY <1>2 DEF Digits
    <3> HIDE DEF Digits
    <3>2. Digits \in SUBSET Nat /\ \A i \in Digits : i \in Nat /\ i >= 1
      BY <1>2, <3>1
    <3>3. Min(Digits) \in Digits /\ \A i \in Digits : Min(Digits) <= i
      BY <2>3, <3>2, MinOfNat
    <3> DEFINE v == Min(Digits)
    <3>4. v \in Nat /\ v >= 1 /\ v <= 1
      BY <2>3, <3>2, <3>3
    <3> HIDE DEF v
    <3>5. v = 1
      BY <3>4
    <3> QED
      BY <3>5 DEF v
  <2>5. Min(LineEnds) = 3
    <3>1. LineEnds \in SUBSET (1..Len(wire))
      BY <1>2 DEF LineEnds
    <3> HIDE DEF LineEnds
    <3>2. LineEnds \in SUBSET Nat /\ \A i \in LineEnds : i \in Nat /\ i >= 3
      BY <1>2, <1>9, <3>1
    <3>3. Min(LineEnds) \in LineEnds /\ \A i \in LineEnds : Min(LineEnds) <= i
      BY <2>3, <3>2, MinOfNat
    <3> DEFINE v == Min(LineEnds)
    <3>4. v \in Nat /\ v >= 3 /\ v <= 3
      BY <2>3, <3>2, <3>3
    <3> HIDE DEF v
    <3>5. v = 3
      BY <3>4
    <3> QED
      BY <3>5 DEF v
  <2>6. wire[1] = 48 + n
    BY <1>2, <1>4, <1>7, <2>2
  <2>7. Start = 3
    BY <2>5 DEF Start
  <2>8. Size = n
    BY <2>4, <2>6 DEF Size
  <2>9. ~BadSize
    BY <1>6, <2>4, <2>6, <2>7 DEF BadSize
  <2> QED
    BY <2>2, <2>7, <2>8, <2>9
<1>11. cut = <<>> => HasSize
  BY <1>5, <1>8 DEF HasSize
<1> QED
  BY <1>10, <1>11

(* What the size of the chunk at hand says is what it holds. *)
LEMMA SizeIsRight ==
  ASSUME wire \in Seq(Byte), remaining \in Nat, chunked, ~done, HasSize,
         NEW d, NEW cut, Arriving(d, cut)
  PROVE  /\ ~BadSize /\ Size = Len(d) /\ Start \in Nat /\ Start <= Len(wire)
         /\ d = <<>> => link = "closed" /\ left = <<>>
         /\ d # <<>> =>
              /\ wire \o cut = SubSeq(wire, 1, Start) \o (d \o (CrLf \o End))
<1>1. /\ d \in Seq(Byte) /\ cut \in Seq(Byte) /\ wire \o cut = Framed(d) \o End
      /\ IF remaining > 0 THEN Len(d) = remaining ELSE Len(d) <= 9
  BY DEF Arriving
<1>2. /\ CrLf \in Seq(Byte) /\ End \in Seq(Byte) /\ CrLf \o End \in Seq(Byte)
      /\ d \o CrLf \in Seq(Byte) /\ d \o (CrLf \o End) \in Seq(Byte) /\ <<>> \in Seq(Byte)
  <2>1. CrLf \in Seq(Byte) /\ End \in Seq(Byte) /\ <<>> \in Seq(Byte)
    BY BytesAreBytes, EndType, EmptyType
  <2>2. CrLf \o End \in Seq(Byte) /\ d \o CrLf \in Seq(Byte)
    BY <1>1, <2>1, Cat
  <2> QED
    BY <1>1, <2>1, <2>2, Cat
<1>3. (d \o CrLf) \o End = d \o (CrLf \o End)
  <2>1. d \in Seq(Byte) /\ CrLf \in Seq(Byte) /\ End \in Seq(Byte)
    BY <1>1, <1>2
  <2>2. Associates(d, CrLf, End)
    BY <2>1, Assoc, Zenon
  <2> QED
    BY <2>2, Zenon DEF Associates
<1>4. ASSUME NEW h \in Seq(Byte), Framed(d) = h \o (d \o CrLf)
      PROVE  wire \o cut = h \o (d \o (CrLf \o End))
  <2>1. h \in Seq(Byte) /\ d \o CrLf \in Seq(Byte) /\ End \in Seq(Byte)
    BY <1>2
  <2>2. (h \o (d \o CrLf)) \o End = h \o ((d \o CrLf) \o End)
    <3>1. Associates(h, d \o CrLf, End)
      BY <2>1, Assoc, Zenon
    <3> QED
      BY <3>1, Zenon DEF Associates
  <2> QED
    BY <1>1, <1>3, <1>4, <2>2
<1>5. CASE remaining > 0
  <2>1. Start = 0 /\ Size = remaining /\ ~BadSize /\ Len(d) = remaining /\ d # <<>>
    BY <1>1, <1>5 DEF Start, Size, BadSize
  <2>2. Framed(d) = <<>> \o (d \o CrLf)
    BY <1>5, <2>1 DEF Framed
  <2>3. SubSeq(wire, 1, 0) = <<>>
    BY PrefixElements
  <2>4. wire \o cut = <<>> \o (d \o (CrLf \o End))
    BY <1>2, <1>4, <2>2
  <2> QED
    BY <2>1, <2>3, <2>4
<1>6. CASE remaining = 0 /\ d # <<>>
  <2>1. Len(d) \in 0..9 /\ Framed(d) = SizeLine(Len(d)) \o (d \o CrLf)
    <3>1. Len(d) \in Nat /\ Len(d) <= 9 /\ \A n \in Nat : n <= 9 => n \in 0..9
      BY <1>1, <1>6
    <3>2. Len(d) \in 0..9
      BY <3>1, Zenon
    <3> QED
      BY <1>6, <3>2 DEF Framed
  <2>2. SizeLine(Len(d)) \in Seq(Byte) /\ Len(SizeLine(Len(d))) = 3
    BY <2>1, SizeLineIs
  <2>3. wire \o cut = SizeLine(Len(d)) \o (d \o (CrLf \o End))
    BY <1>4, <2>1, <2>2
  <2>4. Start = 3 /\ Size = Len(d) /\ ~BadSize /\ Len(wire) >= 3
    BY <1>1, <1>2, <1>6, <2>1, <2>3, SizeIsThere
  <2>5. SubSeq(wire, 1, 3) = SizeLine(Len(d))
    <3> DEFINE h == SizeLine(Len(d))
               r == d \o (CrLf \o End)
    <3>1. wire \in Seq(Byte) /\ cut \in Seq(Byte) /\ h \in Seq(Byte) /\ r \in Seq(Byte)
          /\ wire \o cut = h \o r /\ Len(h) <= Len(wire) /\ Len(h) = 3
      BY <1>1, <1>2, <2>2, <2>3, <2>4
    <3> HIDE DEF h, r
    <3>2. SubSeq(wire, 1, Len(h)) = h
      BY <3>1, DropOfCat, Zenon
    <3> QED
      BY <3>1, <3>2 DEF h
  <2>6. wire \o cut = SubSeq(wire, 1, Start) \o (d \o (CrLf \o End))
    BY <2>3, <2>4, <2>5
  <2> HIDE DEF Start, Size
  <2> QED
    BY <1>6, <2>4, <2>6
<1>7. CASE remaining = 0 /\ d = <<>>
  <2>1. wire \o cut = <<>> \o End
    BY <1>1, <1>7 DEF Framed
  <2>2. <<>> \o End = End
    BY <1>2, ConcatEmptySeq
  <2>3. End # <<>>
    <3> SUFFICES ASSUME End = <<>> PROVE FALSE
      OBVIOUS
    <3>1. wire = <<>>
      <4>1. wire \in Seq(Byte) /\ cut \in Seq(Byte) /\ wire \o cut = <<>>
        BY <1>1, <2>1, <2>2
      <4>2. Len(wire \o cut) = Len(wire) + Len(cut) /\ Len(wire) \in Nat /\ Len(cut) \in Nat
        BY <4>1, Cat
      <4>3. Len(wire) = 0
        BY <4>1, <4>2, EmptyType
      <4> QED
        BY <4>1, <4>3, EmptySeq
    <3> QED
      BY <1>7, <3>1 DEF HasSize, LineEnds
  <2>4. End = SizeLine(0) \o (<<>> \o CrLf) /\ link = "closed" /\ left = <<>>
    BY <2>3, EndType
  <2>5. <<>> \o CrLf \in Seq(Byte) /\ 0 \in 0..9
    BY <1>2, Cat
  <2>6. Start = 3 /\ Size = 0 /\ ~BadSize /\ Len(wire) >= 3
    BY <1>1, <1>7, <2>1, <2>2, <2>4, <2>5, SizeIsThere
  <2> HIDE DEF Start, Size
  <2> QED
    BY <1>7, <2>4, <2>6
<1>8. remaining > 0 \/ (remaining = 0 /\ d # <<>>) \/ (remaining = 0 /\ d = <<>>)
  OBVIOUS
<1> HIDE DEF Start, Size
<1> QED
  BY <1>5, <1>6, <1>7, <1>8

-----------------------------------------------------------------------------
LEMMA DropDrop ==
  ASSUME NEW a \in Seq(Byte), NEW m \in Nat, NEW n \in Nat, m + n <= Len(a)
  PROVE  /\ Drop(Drop(a, m), n) = Drop(a, m + n)
         /\ SubSeq(Drop(a, m), 1, n) = SubSeq(a, m + 1, m + n)
<1> DEFINE b == Drop(a, m)
           c == Drop(b, n)
           e == Drop(a, m + n)
           f == SubSeq(b, 1, n)
           g == SubSeq(a, m + 1, m + n)
<1>1. Len(a) \in Nat /\ m <= Len(a) /\ m + n \in Nat
  OBVIOUS
<1>2. /\ b \in Seq(Byte) /\ Len(b) = Len(a) - m
      /\ \A x \in 1..(Len(a) - m) : b[x] = a[m + x]
  BY <1>1, DropType
<1>3. /\ e \in Seq(Byte) /\ Len(e) = Len(a) - (m + n)
      /\ \A x \in 1..(Len(a) - (m + n)) : e[x] = a[(m + n) + x]
  BY <1>1, DropType
<1>4. g \in Seq(Byte) /\ Len(g) = n /\ \A x \in 1..n : g[x] = a[m + x]
  BY <1>1, SliceType
<1> HIDE DEF b, e, g
<1>5. n <= Len(b)
  BY <1>1, <1>2
<1>6. /\ c \in Seq(Byte) /\ Len(c) = Len(b) - n
      /\ \A x \in 1..(Len(b) - n) : c[x] = b[n + x]
  BY <1>2, <1>5, DropType
<1>7. f \in Seq(Byte) /\ Len(f) = n /\ \A x \in 1..n : f[x] = b[x]
  BY <1>2, <1>5, PrefixElements
<1> HIDE DEF c, f
<1>8. c = e
  <2>1. Len(c) = Len(e)
    BY <1>1, <1>2, <1>3, <1>6
  <2>2. ASSUME NEW x \in 1..Len(c) PROVE c[x] = e[x]
    <3>1. x \in 1..(Len(b) - n) /\ n + x \in 1..(Len(a) - m)
          /\ x \in 1..(Len(a) - (m + n)) /\ m + (n + x) = (m + n) + x
      BY <1>1, <1>2, <1>6
    <3>2. c[x] = b[n + x] /\ b[n + x] = a[m + (n + x)] /\ e[x] = a[(m + n) + x]
      BY <1>2, <1>3, <1>6, <3>1
    <3> QED
      BY <3>1, <3>2
  <2> QED
    BY <1>3, <1>6, <2>1, <2>2, SeqEqual
<1>9. f = g
  <2>1. ASSUME NEW x \in 1..Len(f) PROVE f[x] = g[x]
    <3>1. x \in 1..n /\ x \in 1..(Len(a) - m)
      BY <1>1, <1>2, <1>5, <1>7
    <3>2. f[x] = b[x] /\ b[x] = a[m + x] /\ g[x] = a[m + x]
      BY <1>2, <1>4, <1>7, <3>1
    <3> QED
      BY <3>2
  <2> QED
    BY <1>4, <1>7, <2>1, SeqEqual
<1> QED
  BY <1>8, <1>9 DEF b, c, e, f, g

LEMMA EmptyCat ==
  ASSUME NEW s \in Seq(Byte)
  PROVE  s \o <<>> = s /\ <<>> \o s = s
BY ConcatEmptySeq

LEMMA ZeroLen ==
  ASSUME NEW s \in Seq(Byte)
  PROVE  Len(s) = 0 <=> s = <<>>
BY EmptySeq

-----------------------------------------------------------------------------
(* A fill moves what is at the front of the wire into buf. *)
LEMMA FillPlainKeeps ==
  ASSUME ReaderTypeOK, Fill, FillPlain, NEW d, NEW cut, Arriving(d, cut)
  PROVE  buf' \o cut = d /\ Arriving(cut, cut)'
<1>1. /\ ~chunked /\ buf' = wire /\ wire' = <<>>
      /\ UNCHANGED <<link, chunked, left, remaining, done>>
  BY DEF Fill, FillPlain, served
<1>2. d \in Seq(Byte) /\ cut \in Seq(Byte) /\ ~done /\ wire \o cut = Framed(d) \o End
      /\ (link = "up" \/ left = <<>> => cut = <<>>)
  BY <1>1 DEF Arriving, ReaderTypeOK
<1>3. Framed(d) = d /\ End = <<>> /\ Framed(cut)' = cut /\ End' = <<>>
  BY <1>1 DEF Framed, End
<1>4. d \o <<>> = d /\ cut \o <<>> = cut /\ <<>> \o cut = cut
  BY <1>2, EmptyCat
<1>5. wire' \o cut = Framed(cut)' \o End'
  BY <1>1, <1>3, <1>4
<1> QED
  BY <1>1, <1>2, <1>3, <1>4, <1>5 DEF Arriving

LEMMA LastChunkKeeps ==
  ASSUME ReaderTypeOK, Fill, LastChunk, NEW d, NEW cut, Arriving(d, cut)
  PROVE  buf' \o <<>> = d /\ Arriving(<<>>, cut)'
<1>1. /\ chunked /\ ~done /\ HasSize /\ Size = 0 /\ done' = TRUE /\ buf = <<>> /\ buf' = buf
      /\ UNCHANGED <<link, chunked, left>>
  BY DEF Fill, LastChunk, served, Wanting
<1>2. d \in Seq(Byte) /\ cut \in Seq(Byte) /\ <<>> \in Seq(Byte)
  BY EmptyType DEF Arriving
<1>3. Size = Len(d) /\ (d = <<>> => link = "closed" /\ left = <<>>)
  BY <1>1, SizeIsRight DEF ReaderTypeOK
<1>4. d = <<>>
  BY <1>1, <1>2, <1>3, ZeroLen
<1>5. <<>> \o <<>> = <<>>
  BY <1>2, EmptyCat
<1> QED
  BY <1>1, <1>2, <1>3, <1>4, <1>5 DEF Arriving

(* The wire before and after n bytes of the chunk were taken. *)
CutAt(S, n, d, z, cut) ==
  /\ SubSeq(wire, S + 1, S + n) \o Drop(d, n) = d
  /\ Drop(wire, S + n) \o cut = Drop(d, n) \o z
  /\ Drop(d, n) \in Seq(Byte) /\ Len(Drop(d, n)) = Len(d) - n
  /\ Drop(wire, S + n) \in Seq(Byte) /\ Len(Drop(wire, S + n)) = Len(wire) - (S + n)

LEMMA ChunkCut ==
  ASSUME wire \in Seq(Byte), NEW S \in Nat, NEW n \in Nat, S + n <= Len(wire),
         NEW d \in Seq(Byte), n <= Len(d), NEW z \in Seq(Byte), NEW cut \in Seq(Byte),
         wire \o cut = SubSeq(wire, 1, S) \o (d \o z)
  PROVE  CutAt(S, n, d, z, cut)
<1> DEFINE h == SubSeq(wire, 1, S)
           w == Drop(wire, S)
           b == SubSeq(d, 1, n)
           e == Drop(d, n)
<1>1. h \in Seq(Byte) /\ Len(h) = S /\ w \in Seq(Byte) /\ Len(w) = Len(wire) - S
      /\ Len(wire) \in Nat /\ S <= Len(wire) /\ S + n \in Nat
  <2>1. Len(wire) \in Nat /\ S <= Len(wire) /\ S + n \in Nat
    OBVIOUS
  <2>2. h \in Seq(Byte) /\ Len(h) = S
    BY <2>1, PrefixElements
  <2>3. w \in Seq(Byte) /\ Len(w) = Len(wire) - S
    BY <2>1, DropType
  <2> QED
    BY <2>1, <2>2, <2>3
<1>2. b \in Seq(Byte) /\ Len(b) = n /\ e \in Seq(Byte) /\ Len(e) = Len(d) - n /\ d = b \o e
  BY PrefixElements, DropType, CutCat
<1>3. d \o z \in Seq(Byte) /\ e \o z \in Seq(Byte)
  BY <1>2, Cat
<1>4. Drop(wire, S + n) \in Seq(Byte) /\ Len(Drop(wire, S + n)) = Len(wire) - (S + n)
  BY <1>1, DropType
<1> HIDE DEF h, b, e
<1>5. w \o cut = d \o z
  <2>1. /\ wire \in Seq(Byte) /\ cut \in Seq(Byte) /\ h \in Seq(Byte) /\ d \o z \in Seq(Byte)
        /\ wire \o cut = h \o (d \o z) /\ Len(h) <= Len(wire)
    BY <1>1, <1>3 DEF h
  <2>2. Drop(wire, Len(h)) \o cut = d \o z
    BY <2>1, DropOfCat, Zenon
  <2> QED
    BY <1>1, <2>2
<1> HIDE DEF w
<1>6. (b \o e) \o z = b \o (e \o z)
  <2>1. b \in Seq(Byte) /\ e \in Seq(Byte) /\ z \in Seq(Byte)
    BY <1>2
  <2>2. Associates(b, e, z)
    BY <2>1, Assoc, Zenon
  <2> QED
    BY <2>2, Zenon DEF Associates
<1>7. SubSeq(w, 1, n) = b /\ Drop(w, n) \o cut = e \o z
  <2>1. /\ w \in Seq(Byte) /\ cut \in Seq(Byte) /\ b \in Seq(Byte) /\ e \o z \in Seq(Byte)
        /\ w \o cut = b \o (e \o z) /\ Len(b) <= Len(w)
    BY <1>1, <1>2, <1>3, <1>5, <1>6
  <2>2. SubSeq(w, 1, Len(b)) = b /\ Drop(w, Len(b)) \o cut = e \o z
    BY <2>1, DropOfCat, Zenon
  <2> QED
    BY <1>2, <2>2
<1>8. Drop(w, n) = Drop(wire, S + n) /\ SubSeq(w, 1, n) = SubSeq(wire, S + 1, S + n)
  BY DropDrop DEF w
<1> QED
  BY <1>2, <1>4, <1>7, <1>8 DEF e, CutAt

LEMMA FillFromChunkKeeps ==
  ASSUME ReaderTypeOK, Fill, FillFromChunk, NEW d, NEW cut, Arriving(d, cut)
  PROVE  \E e : buf' \o e = d /\ Arriving(e, cut)'
<1>1. /\ chunked /\ ~done /\ HasSize /\ ~BadSize
      /\ UNCHANGED <<link, chunked, left, done>>
  BY DEF Fill, FillFromChunk, served
<1>2. PICK n \in 1..Size :
        /\ Start + n + ChunkTail(n) <= Len(wire)
        /\ buf' = SubSeq(wire, Start + 1, Start + n)
        /\ wire' = Drop(wire, Start + n + ChunkTail(n))
        /\ remaining' = Size - n
  BY DEF FillFromChunk
<1>3. wire \in Seq(Byte) /\ remaining \in Nat /\ Len(wire) \in Nat
  BY DEF ReaderTypeOK
<1>4. d \in Seq(Byte) /\ cut \in Seq(Byte) /\ (link = "up" \/ left = <<>> => cut = <<>>)
  BY <1>1 DEF Arriving
<1>5. /\ Size = Len(d) /\ Start \in Nat /\ Start <= Len(wire)
      /\ d # <<>> => wire \o cut = SubSeq(wire, 1, Start) \o (d \o (CrLf \o End))
  BY <1>1, <1>3, SizeIsRight
<1> DEFINE S == Start
           N == Size
           k == ChunkTail(n)
           z == CrLf \o End
           e == Drop(d, n)
<1>6. n \in Nat /\ n >= 1 /\ N \in Nat /\ n <= N /\ N = Len(d) /\ d # <<>>
  <2>1. Len(d) \in Nat
    BY <1>4, LenProperties
  <2> HIDE DEF N
  <2>2. N = Len(d)
    BY <1>5 DEF N
  <2>3. n \in 1..N
    BY DEF N
  <2>4. n \in Nat /\ n >= 1 /\ N \in Nat /\ n <= N
    BY <2>1, <2>2, <2>3
  <2>5. d # <<>>
    BY <1>4, <2>2, <2>4, ZeroLen
  <2> QED
    BY <2>2, <2>4, <2>5
<1>7. k = IF n = N THEN 2 ELSE 0
  BY DEF ChunkTail
<1>8. CrLf \in Seq(Byte) /\ Len(CrLf) = 2 /\ End \in Seq(Byte) /\ z \in Seq(Byte)
      /\ <<>> \in Seq(Byte)
  <2>1. CrLf \in Seq(Byte) /\ Len(CrLf) = 2 /\ End \in Seq(Byte) /\ <<>> \in Seq(Byte)
    BY BytesAreBytes, EndType, EmptyType
  <2> QED
    BY <2>1, Cat
<1>9. /\ S \in Nat /\ S + n + k <= Len(wire) /\ buf' = SubSeq(wire, S + 1, S + n)
      /\ wire' = Drop(wire, S + n + k) /\ remaining' = N - n
      /\ wire \o cut = SubSeq(wire, 1, S) \o (d \o z)
  BY <1>2, <1>5, <1>6
<1>10. UNCHANGED End /\ chunked' = TRUE /\ done' = FALSE
  BY <1>1 DEF End, ReaderTypeOK
<1> HIDE DEF S, N, k, z
<1>11. S + n <= Len(wire) /\ S + n \in Nat
  BY <1>3, <1>6, <1>7, <1>9
<1>12. /\ SubSeq(wire, S + 1, S + n) \o e = d
       /\ Drop(wire, S + n) \o cut = e \o z
       /\ e \in Seq(Byte) /\ Len(e) = Len(d) - n
       /\ Drop(wire, S + n) \in Seq(Byte) /\ Len(Drop(wire, S + n)) = Len(wire) - (S + n)
  <2>1. /\ wire \in Seq(Byte) /\ S \in Nat /\ n \in Nat /\ S + n <= Len(wire)
        /\ d \in Seq(Byte) /\ n <= Len(d) /\ z \in Seq(Byte) /\ cut \in Seq(Byte)
        /\ wire \o cut = SubSeq(wire, 1, S) \o (d \o z)
    BY <1>3, <1>4, <1>6, <1>8, <1>9, <1>11
  <2>2. CutAt(S, n, d, z, cut)
    BY <2>1, ChunkCut, Zenon
  <2> QED
    BY <2>2 DEF CutAt
<1> HIDE DEF e
<1>13. CASE n < N
  <2>1. k = 0 /\ S + n + k = S + n
    BY <1>6, <1>7, <1>9, <1>13
  <2>2. remaining' > 0 /\ Len(e) = remaining'
    BY <1>6, <1>9, <1>12, <1>13
  <2>3. e # <<>>
    BY <1>12, <2>2, ZeroLen
  <2>4. Framed(e)' = <<>> \o (e \o CrLf)
    BY <1>10, <2>2, <2>3 DEF Framed
  <2>5. <<>> \o (e \o CrLf) = e \o CrLf
    BY <1>8, <1>12, Cat, EmptyCat
  <2>6. (e \o CrLf) \o End = e \o (CrLf \o End)
    <3>1. e \in Seq(Byte) /\ CrLf \in Seq(Byte) /\ End \in Seq(Byte)
      BY <1>8, <1>12
    <3>2. Associates(e, CrLf, End)
      BY <3>1, Assoc, Zenon
    <3> QED
      BY <3>2, Zenon DEF Associates
  <2>7. wire' \o cut = Framed(e)' \o End'
    BY <1>9, <1>10, <1>12, <2>1, <2>4, <2>5, <2>6 DEF z
  <2>8. Arriving(e, cut)'
    BY <1>1, <1>4, <1>10, <1>12, <2>2, <2>7 DEF Arriving
  <2> QED
    BY <1>9, <1>12, <2>8
<1>14. CASE n = N
  <2>1. k = 2 /\ Len(e) = 0
    BY <1>6, <1>7, <1>12, <1>14
  <2>2. e = <<>>
    BY <1>12, <2>1, ZeroLen
  <2> DEFINE w == Drop(wire, S + n)
  <2>3. w \o cut = CrLf \o End /\ w \in Seq(Byte) /\ Len(CrLf) <= Len(w)
    <3>1. e \o z = z
      BY <1>8, <2>2, EmptyCat
    <3>2. Len(w) >= 2
      BY <1>3, <1>9, <1>11, <1>12, <2>1
    <3> QED
      BY <1>8, <1>12, <3>1, <3>2 DEF z
  <2> HIDE DEF w
  <2>4. Drop(w, Len(CrLf)) \o cut = End
    <3>1. /\ w \in Seq(Byte) /\ cut \in Seq(Byte) /\ CrLf \in Seq(Byte) /\ End \in Seq(Byte)
          /\ w \o cut = CrLf \o End /\ Len(CrLf) <= Len(w)
      BY <1>4, <1>8, <2>3
    <3> QED
      BY <3>1, DropOfCat, Zenon
  <2>5. wire' = Drop(w, Len(CrLf))
    <3>1. S + n \in Nat /\ 2 \in Nat /\ (S + n) + 2 <= Len(wire)
      BY <1>9, <1>11, <2>1
    <3>2. Drop(Drop(wire, S + n), 2) = Drop(wire, (S + n) + 2)
      BY <1>3, <3>1, DropDrop
    <3> QED
      BY <1>8, <1>9, <2>1, <3>2 DEF w
  <2>6. remaining' = 0
    BY <1>6, <1>9, <1>14
  <2>7. Framed(e)' = <<>> /\ <<>> \o End = End
    BY <1>8, <2>2, EmptyCat DEF Framed
  <2>8. wire' \o cut = Framed(e)' \o End'
    BY <1>10, <2>4, <2>5, <2>7
  <2>9. Arriving(e, cut)'
    BY <1>1, <1>4, <1>10, <1>12, <2>1, <2>6, <2>8 DEF Arriving
  <2> QED
    BY <1>9, <1>12, <2>9
<1> QED
  BY <1>6, <1>13, <1>14

LEMMA FillKeeps ==
  ASSUME ReaderTypeOK, Fill, NEW d, NEW cut, Arriving(d, cut)
  PROVE  \E e, f : buf' \o e = d /\ Arriving(e, f)'
<1>1. FillPlain \/ FillFromChunk \/ LastChunk
  BY DEF Fill
<1> QED
  BY <1>1, FillPlainKeeps, FillFromChunkKeeps, LastChunkKeeps

-----------------------------------------------------------------------------
LEMMA FramedType ==
  ASSUME NEW d \in Seq(Byte), remaining > 0 \/ Len(d) <= 9
  PROVE  Framed(d) \in Seq(Byte)
<1>1. <<>> \in Seq(Byte) /\ CrLf \in Seq(Byte)
  BY EmptyType, BytesAreBytes
<1>2. d \o CrLf \in Seq(Byte)
  BY <1>1, Cat
<1>3. CASE ~chunked \/ d = <<>>
  BY <1>3 DEF Framed
<1>4. CASE chunked /\ d # <<>> /\ remaining > 0
  <2>1. Framed(d) = <<>> \o (d \o CrLf)
    BY <1>4 DEF Framed
  <2> QED
    BY <1>1, <1>2, <2>1, Cat
<1>5. CASE chunked /\ d # <<>> /\ ~(remaining > 0)
  <2>1. Framed(d) = SizeLine(Len(d)) \o (d \o CrLf)
    BY <1>5 DEF Framed
  <2>2. Len(d) \in 0..9
    <3>1. Len(d) \in Nat /\ Len(d) <= 9 /\ \A x \in Nat : x <= 9 => x \in 0..9
      BY <1>5, LenProperties
    <3> QED
      BY <3>1, Zenon
  <2> QED
    BY <1>2, <2>1, <2>2, SizeLineIs, Cat
<1> QED
  BY <1>3, <1>4, <1>5

(* While the server is there, all that is on its way is on the wire. *)
LEMMA WireUp ==
  ASSUME ReaderTypeOK, link = "up", NEW d, NEW cut, Arriving(d, cut)
  PROVE  /\ ~done /\ d \in Seq(Byte) /\ cut = <<>> /\ wire = Framed(d)
         /\ chunked => IF remaining > 0 THEN Len(d) = remaining ELSE Len(d) <= 9
<1>1. ~done /\ d \in Seq(Byte) /\ cut = <<>> /\ wire \o <<>> = Framed(d) \o <<>>
  BY DEF Arriving, End
<1>2. chunked => IF remaining > 0 THEN Len(d) = remaining ELSE Len(d) <= 9
  BY <1>1 DEF Arriving
<1>3. Framed(d) \in Seq(Byte)
  <2>1. CASE ~chunked
    BY <1>1, <2>1 DEF Framed
  <2>2. CASE chunked
    <3>1. remaining > 0 \/ Len(d) <= 9
      BY <1>2, <2>2
    <3> QED
      BY <1>1, <3>1, FramedType
  <2> QED
    BY <2>1, <2>2 DEF ReaderTypeOK
<1>4. wire \in Seq(Byte)
  BY DEF ReaderTypeOK
<1>5. wire \o <<>> = wire /\ Framed(d) \o <<>> = Framed(d)
  BY <1>3, <1>4, EmptyCat
<1> QED
  BY <1>1, <1>2, <1>5

(* What the server does moves bytes from left to the wire, or leaves those  *)
(* that never come where they are.                                          *)
LEMMA ServerSendsKeeps ==
  ASSUME ReaderTypeOK, ServerSends, NEW d, NEW cut, Arriving(d, cut), NEW m, Lost(m)
  PROVE  \E e, f, k : Arriving(e, f)' /\ Lost(k)' /\ e \o k = d \o m
<1>1. /\ link = "up" /\ left # <<>> /\ UNCHANGED <<link, chunked, remaining, done>>
      /\ IF chunked THEN ~HasSize ELSE wire = <<>>
  BY DEF ServerSends
<1>2. PICK n \in 1..Min({MaxPiece, Len(left)}) :
        /\ wire' = wire \o IF chunked THEN Chunk(SubSeq(left, 1, n)) ELSE SubSeq(left, 1, n)
        /\ left' = Drop(left, n)
  BY DEF ServerSends
<1>14. PICK s : s = SubSeq(left, 1, n)
  OBVIOUS
<1>15. PICK k : k = left'
  OBVIOUS
<1>3. wire \in Seq(Byte) /\ left \in Seq(Byte) /\ Len(left) \in Nat /\ remaining \in Nat
      /\ chunked \in BOOLEAN /\ done \in BOOLEAN
  BY DEF ReaderTypeOK
<1>4. n \in Nat /\ 1 <= n /\ n <= Len(left) /\ n <= 9
  <2>1. MaxPiece \in 1..9
    BY ReaderAssumption
  <2>2. {MaxPiece, Len(left)} \in SUBSET Nat /\ {MaxPiece, Len(left)} # {}
    BY <1>3, <2>1
  <2> DEFINE v == Min({MaxPiece, Len(left)})
  <2>3. v \in {MaxPiece, Len(left)} /\ v <= MaxPiece /\ v <= Len(left)
    BY <2>2, MinOfNat
  <2>4. n \in 1..v
    OBVIOUS
  <2> HIDE DEF v
  <2>5. v \in Nat
    BY <2>2, <2>3
  <2> QED
    BY <1>3, <2>1, <2>3, <2>4, <2>5
<1>5. s \in Seq(Byte) /\ Len(s) = n /\ k \in Seq(Byte) /\ left = s \o k
  BY <1>2, <1>3, <1>4, <1>14, <1>15, PrefixElements, DropType, CutCat
<1>6. wire' = wire \o IF chunked THEN Chunk(s) ELSE s
  BY <1>2, <1>14
<1>7. s # <<>> /\ Len(s) <= 9
  BY <1>4, <1>5, ZeroLen
<1>8. ~done /\ d \in Seq(Byte) /\ cut \in Seq(Byte) /\ cut = <<>> /\ m = left
      /\ wire \o cut = Framed(d) \o End /\ End = <<>> /\ End' = <<>> /\ <<>> \in Seq(Byte)
  BY <1>1, EmptyType DEF Arriving, Lost, End
<1>9. d = <<>> /\ wire = <<>> /\ (chunked => remaining = 0)
  <2>1. CASE ~chunked
    <3>1. wire = <<>> /\ Framed(d) = d
      BY <1>1, <2>1 DEF Framed
    <3>2. d \o <<>> = d /\ <<>> \o <<>> = <<>>
      BY <1>8, EmptyCat
    <3> QED
      BY <1>8, <2>1, <3>1, <3>2
  <2>2. CASE chunked
    <3>1. ~HasSize /\ remaining = 0
      BY <1>1, <1>3, <2>2 DEF HasSize
    <3>2. Len(d) <= 9
      BY <1>8, <2>2, <3>1 DEF Arriving
    <3>3. ASSUME d # <<>> PROVE FALSE
      <4>1. Len(d) \in 0..9
        <5>1. Len(d) \in Nat /\ \A x \in Nat : x <= 9 => x \in 0..9
          BY <1>8, LenProperties
        <5> QED
          BY <3>2, <5>1, Zenon
      <4>2. Framed(d) = SizeLine(Len(d)) \o (d \o CrLf)
        BY <2>2, <3>1, <3>3 DEF Framed
      <4>3. d \o CrLf \in Seq(Byte) /\ SizeLine(Len(d)) \in Seq(Byte)
        BY <1>8, <4>1, BytesAreBytes, Cat, SizeLineIs
      <4>4. Framed(d) \o <<>> = Framed(d)
        <5>1. Framed(d) \in Seq(Byte)
          BY <4>2, <4>3, Cat
        <5> QED
          BY <5>1, EmptyCat
      <4>5. HasSize
        BY <1>3, <1>8, <3>1, <4>1, <4>2, <4>3, <4>4, SizeIsThere
      <4> QED
        BY <3>1, <4>5
    <3>4. wire \o <<>> = wire /\ <<>> \o <<>> = <<>> /\ Framed(<<>>) = <<>>
      BY <1>3, <1>8, EmptyCat DEF Framed
    <3> QED
      BY <1>8, <3>1, <3>3, <3>4
  <2> QED
    BY <1>3, <2>1, <2>2
<1>10. wire' \o <<>> = Framed(s)' \o End'
  <2>1. CASE ~chunked
    <3>1. wire' = <<>> \o s /\ Framed(s)' = s
      BY <1>1, <1>6, <1>9, <2>1 DEF Framed
    <3> QED
      BY <1>5, <1>8, <3>1, EmptyCat
  <2>2. CASE chunked
    <3>1. Chunk(s) \in Seq(Byte) /\ Chunk(s) = SizeLine(Len(s)) \o (s \o CrLf)
      BY <1>5, <1>7, ChunkIs, ChunkType
    <3>2. Framed(s)' = SizeLine(Len(s)) \o (s \o CrLf)
      <4>1. remaining' = 0 /\ chunked'
        BY <1>1, <1>9, <2>2
      <4> QED
        BY <1>7, <4>1 DEF Framed, SizeLine
    <3>3. wire' = <<>> \o Chunk(s)
      BY <1>6, <1>9, <2>2
    <3>4. <<>> \o Chunk(s) = Chunk(s)
      BY <3>1, EmptyCat
    <3> QED
      BY <1>8, <3>1, <3>2, <3>3, <3>4
  <2> QED
    BY <1>3, <2>1, <2>2
<1>11. Arriving(s, <<>>)'
  <2>1. chunked' => IF remaining' > 0 THEN Len(s) = remaining' ELSE Len(s) <= 9
    BY <1>1, <1>7, <1>9
  <2> QED
    BY <1>1, <1>5, <1>8, <1>10, <2>1 DEF Arriving
<1>12. Lost(k)'
  BY <1>5, <1>15 DEF Lost
<1>13. s \o k = d \o m
  BY <1>3, <1>5, <1>8, <1>9, EmptyCat
<1> QED
  BY <1>11, <1>12, <1>13

LEMMA ServerEndsKeeps ==
  ASSUME ReaderTypeOK, ServerEnds, NEW d, NEW cut, Arriving(d, cut), NEW m, Lost(m)
  PROVE  Arriving(d, cut)' /\ Lost(m)'
<1>1. /\ link = "up" /\ left = <<>> /\ link' = "closed" /\ UNCHANGED <<left, chunked, remaining, done>>
      /\ wire' = wire \o IF chunked THEN Chunk(<<>>) ELSE <<>>
  BY DEF ServerEnds
<1>2. /\ ~done /\ d \in Seq(Byte) /\ cut = <<>> /\ wire = Framed(d)
      /\ chunked => IF remaining > 0 THEN Len(d) = remaining ELSE Len(d) <= 9
  BY <1>1, WireUp
<1>3. wire' \in Seq(Byte) /\ <<>> \in Seq(Byte)
  <2> DEFINE c == IF chunked THEN Chunk(<<>>) ELSE <<>>
  <2>1. wire \in Seq(Byte) /\ <<>> \in Seq(Byte) /\ Len(<<>>) <= 9
    BY EmptyType DEF ReaderTypeOK
  <2>2. Chunk(<<>>) \in Seq(Byte)
    BY <2>1, ChunkType, Zenon
  <2>3. c \in Seq(Byte)
    BY <2>1, <2>2
  <2>4. wire' = wire \o c
    BY <1>1
  <2> HIDE DEF c
  <2> QED
    BY <2>1, <2>3, <2>4, Cat
<1>4. Framed(d)' = Framed(d)
  BY <1>1 DEF Framed, SizeLine
<1>5. End' = IF chunked THEN Chunk(<<>>) ELSE <<>>
  <2>1. link' = "closed" /\ left' = <<>> /\ chunked' = chunked
    BY <1>1
  <2> QED
    BY <2>1 DEF End, Chunk
<1>6. wire' \o cut = Framed(d)' \o End'
  <2>1. wire' = wire \o (IF chunked THEN Chunk(<<>>) ELSE <<>>)
    BY <1>1
  <2>2. wire' \o <<>> = wire'
    BY <1>3, EmptyCat
  <2>3. cut = <<>> /\ wire = Framed(d)
    BY <1>2, Zenon
  <2> QED
    BY <1>4, <1>5, <2>1, <2>2, <2>3, Zenon
<1>7. Arriving(d, cut)'
  BY <1>1, <1>2, <1>3, <1>6 DEF Arriving
<1>8. Lost(m)'
  BY <1>1 DEF Lost
<1> QED
  BY <1>7, <1>8

LEMMA ServerGoesAwayKeeps ==
  ASSUME ReaderTypeOK, ServerGoesAway, NEW d, NEW cut, Arriving(d, cut), NEW m, Lost(m)
  PROVE  (\E f : Arriving(d, f)') /\ Lost(m)'
<1>1. /\ link = "up" /\ link' = "closed" /\ left' # <<>> /\ UNCHANGED <<chunked, remaining, done>>
  BY DEF ServerGoesAway
<1>2. PICK n \in 0..Len(wire) : wire' = SubSeq(wire, 1, n)
  BY DEF ServerGoesAway
<1>3. /\ ~done /\ d \in Seq(Byte) /\ wire = Framed(d)
      /\ chunked => IF remaining > 0 THEN Len(d) = remaining ELSE Len(d) <= 9
  BY <1>1, WireUp
<1>4. wire \in Seq(Byte) /\ Len(wire) \in Nat
  BY DEF ReaderTypeOK
<1>5. n \in Nat /\ n <= Len(wire)
  BY <1>4
<1>6. PICK f : f = Drop(wire, n)
  OBVIOUS
<1>7. f \in Seq(Byte) /\ wire = wire' \o f
  BY <1>2, <1>4, <1>5, <1>6, DropType, CutCat
<1>8. Framed(d)' = Framed(d) /\ End' = <<>>
  BY <1>1 DEF Framed, SizeLine, End
<1>9. wire' \o f = Framed(d)' \o End'
  <2>1. wire \o <<>> = wire
    BY <1>4, EmptyCat
  <2>2. wire = Framed(d) /\ wire = wire' \o f
    BY <1>3, <1>7, Zenon
  <2> QED
    BY <1>8, <2>1, <2>2, Zenon
<1>10. Arriving(d, f)'
  BY <1>1, <1>3, <1>7, <1>9 DEF Arriving
<1>11. Lost(m)'
  BY <1>1 DEF Lost
<1> QED
  BY <1>10, <1>11

-----------------------------------------------------------------------------
(* What is to come, step by step. *)
LEMMA PendingType ==
  ASSUME ReaderTypeOK, NEW u, Pending(u)
  PROVE  u \in Seq(Byte)
<1>1. PICK d, cut, m : Arriving(d, cut) /\ Lost(m) /\ u = buf \o (d \o m)
  BY DEF Pending
<1>2. buf \in Seq(Byte) /\ d \in Seq(Byte) /\ m \in Seq(Byte)
  BY <1>1 DEF Arriving, Lost, ReaderTypeOK
<1>3. d \o m \in Seq(Byte)
  BY <1>2, Cat
<1>4. buf \o (d \o m) \in Seq(Byte)
  BY <1>2, <1>3, Cat
<1> QED
  BY <1>1, <1>4

LEMMA PendingStays ==
  ASSUME NEW u, Pending(u), UNCHANGED <<link, chunked, left, wire, remaining, done, buf>>
  PROVE  Pending(u)'
<1>1. PICK d, cut, m : Arriving(d, cut) /\ Lost(m) /\ u = buf \o (d \o m)
  BY DEF Pending
<1>2. Arriving(d, cut)' /\ Lost(m)'
  BY <1>1 DEF Arriving, Lost, Framed, SizeLine, End
<1>3. u = buf' \o (d \o m)
  BY <1>1
<1> QED
  BY <1>2, <1>3 DEF Pending

LEMMA PendingTaken ==
  ASSUME ReaderTypeOK, NEW u, Pending(u), buf # <<>>, buf' = Tail(buf),
         UNCHANGED <<link, chunked, left, wire, remaining, done>>
  PROVE  u # <<>> /\ Head(u) = Head(buf) /\ Pending(Tail(u))'
<1>1. PICK d, cut, m : Arriving(d, cut) /\ Lost(m) /\ u = buf \o (d \o m)
  BY DEF Pending
<1>2. buf \in Seq(Byte) /\ d \in Seq(Byte) /\ m \in Seq(Byte)
  BY <1>1 DEF Arriving, Lost, ReaderTypeOK
<1>3. d \o m \in Seq(Byte)
  BY <1>2, Cat
<1>4. u # <<>> /\ Head(u) = Head(buf) /\ Tail(u) = buf' \o (d \o m)
  BY <1>1, <1>2, <1>3, HeadOfCat
<1>5. Arriving(d, cut)' /\ Lost(m)'
  BY <1>1 DEF Arriving, Lost, Framed, SizeLine, End
<1>6. PICK v : v = Tail(u)
  OBVIOUS
<1>7. Pending(v)'
  BY <1>4, <1>5, <1>6 DEF Pending
<1> QED
  BY <1>4, <1>6, <1>7

LEMMA PendingOnFill ==
  ASSUME ReaderTypeOK, Fill, NEW u, Pending(u)
  PROVE  Pending(u)'
<1>1. PICK d, cut, m : Arriving(d, cut) /\ Lost(m) /\ u = buf \o (d \o m)
  BY DEF Pending
<1>2. PICK e, f : buf' \o e = d /\ Arriving(e, f)'
  BY <1>1, FillKeeps
<1>3. d \in Seq(Byte) /\ m \in Seq(Byte) /\ e \in Seq(Byte) /\ buf = <<>>
  BY <1>1, <1>2 DEF Arriving, Lost, Fill, Wanting
<1>4. buf' \in Seq(Byte)
  BY FillType DEF Fill
<1>5. (buf' \o e) \o m = buf' \o (e \o m)
  <2>1. Associates(buf', e, m)
    BY <1>3, <1>4, Assoc, Zenon
  <2> QED
    BY <2>1, Zenon DEF Associates
<1>6. buf \o (d \o m) = d \o m
  <2>1. d \o m \in Seq(Byte)
    BY <1>3, Cat
  <2> QED
    BY <1>3, <2>1, EmptyCat
<1>7. u = buf' \o (e \o m)
  BY <1>1, <1>2, <1>5, <1>6, Zenon
<1>8. Lost(m)'
  BY <1>1 DEF Lost, Fill, served
<1> QED
  BY <1>2, <1>7, <1>8 DEF Pending

LEMMA PendingOnServer ==
  ASSUME ReaderTypeOK, ServerSends \/ ServerEnds \/ ServerGoesAway, NEW u, Pending(u)
  PROVE  Pending(u)'
<1>1. PICK d, cut, m : Arriving(d, cut) /\ Lost(m) /\ u = buf \o (d \o m)
  BY DEF Pending
<1>2. buf' = buf
  BY DEF ServerSends, ServerEnds, ServerGoesAway
<1>3. CASE ServerSends
  <2>1. PICK e, f, k : Arriving(e, f)' /\ Lost(k)' /\ e \o k = d \o m
    BY <1>1, <1>3, ServerSendsKeeps
  <2>2. u = buf' \o (e \o k)
    BY <1>1, <1>2, <2>1, Zenon
  <2> QED
    BY <2>1, <2>2 DEF Pending
<1>4. CASE ServerEnds
  <2>1. Arriving(d, cut)' /\ Lost(m)' /\ u = buf' \o (d \o m)
    BY <1>1, <1>2, <1>4, ServerEndsKeeps
  <2> QED
    BY <2>1 DEF Pending
<1>5. CASE ServerGoesAway
  <2>1. PICK f : Arriving(d, f)'
    BY <1>1, <1>5, ServerGoesAwayKeeps
  <2>2. Lost(m)' /\ u = buf' \o (d \o m)
    BY <1>1, <1>2, <1>5, ServerGoesAwayKeeps
  <2> QED
    BY <2>1, <2>2 DEF Pending
<1> QED
  BY <1>3, <1>4, <1>5

(* More to send: a picture, or the first boundary of a connection. *)
LEMMA PendingGrows ==
  ASSUME ReaderTypeOK, link' = "up", left = <<>>, NEW x \in Seq(Byte), left' = x, x # <<>>,
         UNCHANGED <<link, chunked, wire, remaining, done, buf>>, NEW u, Pending(u)
  PROVE  Pending(u \o x)'
<1>1. PICK d, cut, m : Arriving(d, cut) /\ Lost(m) /\ u = buf \o (d \o m)
  BY DEF Pending
<1>2. buf \in Seq(Byte) /\ d \in Seq(Byte) /\ m = <<>>
  BY <1>1 DEF Arriving, Lost, ReaderTypeOK
<1>3. u = buf \o d
  BY <1>1, <1>2, EmptyCat
<1>4. (buf \o d) \o x = buf \o (d \o x)
  <2>1. Associates(buf, d, x)
    BY <1>2, Assoc, Zenon
  <2> QED
    BY <2>1, Zenon DEF Associates
<1>5. Arriving(d, cut)'
  <2>1. ~done /\ UNCHANGED End
    BY <1>1 DEF Arriving, End
  <2>2. Framed(d)' = Framed(d)
    BY DEF Framed, SizeLine
  <2> QED
    BY <1>1, <2>1, <2>2 DEF Arriving
<1>6. Lost(x)'
  BY DEF Lost
<1>7. u \o x = buf' \o (d \o x)
  BY <1>3, <1>4, Zenon
<1> QED
  BY <1>5, <1>6, <1>7 DEF Pending

LEMMA PendingEnds ==
  ASSUME ReaderTypeOK, AtEof, NEW u, Pending(u)
  PROVE  CutShort \/ u = <<>>
<1>1. PICK d, cut, m : Arriving(d, cut) /\ Lost(m) /\ u = buf \o (d \o m)
  BY DEF Pending
<1>2. buf = <<>> /\ <<>> \o <<>> = <<>> /\ <<>> \in Seq(Byte)
  BY EmptyType, EmptyCat DEF AtEof
<1>3. SUFFICES ASSUME ~CutShort PROVE d = <<>> /\ m = <<>>
  <2> SUFFICES ASSUME ~CutShort PROVE u = <<>>
    OBVIOUS
  <2>1. d = <<>> /\ m = <<>>
    BY <1>3
  <2> QED
    BY <1>1, <1>2, <2>1
<1>4. CASE chunked
  BY <1>1, <1>4 DEF AtEof, Arriving, Lost
<1>5. CASE ~chunked
  <2>1. link = "closed" /\ wire = <<>> /\ left = <<>>
    BY <1>2, <1>3, <1>5 DEF AtEof, CutShort
  <2>2. ~done /\ cut = <<>> /\ m = <<>> /\ wire \o cut = Framed(d) \o End
    BY <1>1, <1>5, <2>1 DEF Arriving, Lost
  <2>3. Framed(d) = d /\ End = <<>> /\ d \in Seq(Byte)
    BY <1>1, <1>5 DEF Framed, End, Arriving
  <2>4. d \o <<>> = d
    BY <2>3, EmptyCat
  <2> QED
    BY <1>2, <2>1, <2>2, <2>3, <2>4
<1> QED
  BY <1>4, <1>5 DEF ReaderTypeOK

-----------------------------------------------------------------------------
(* Where the reader is in what is to come. *)
InHeaders(u) ==
  \/ Follows(line, u, <<>>, pictures)
  \/ /\ pictures # <<>>
     /\ \E tail \in Tails :
          Follows(line, u, CrLf \o Body(Head(pictures), tail), Tail(pictures))
InPicture(u) ==
  /\ line = <<>> /\ pictures # <<>>
  /\ Len(taken) < Len(Head(pictures)) + 2 + Len(delim)
  /\ \E tail \in Tails : Follows(taken, u, Body(Head(pictures), tail), Tail(pictures))
InRest(u) ==
  pictures # <<>> /\ \E tail \in Tails : Follows(line, u, tail \o CrLf, Tail(pictures))

LEMMA FollowsTaken ==
  ASSUME NEW h \in Seq(Byte), NEW u \in Seq(Byte), u # <<>>, NEW now, NEW ps,
         Follows(h, u, now, ps)
  PROVE  Follows(Append(h, Head(u)), Tail(u), now, ps)
<1>1. PICK s \in Seq(Byte) : IsParts(s, ps) /\ h \o u = now \o s
  BY DEF Follows, FollowsFor, IsParts
<1>2. Append(h, Head(u)) \o Tail(u) = h \o u
  BY Shift, Zenon
<1>3. Append(h, Head(u)) \o Tail(u) = now \o s
  BY <1>1, <1>2, Zenon
<1> QED
  BY <1>1, <1>3, Zenon DEF Follows, FollowsFor, IsParts

LEMMA FollowsGrows ==
  ASSUME delim \in Seq(Byte), NEW h \in Seq(Byte), NEW u \in Seq(Byte), NEW now \in Seq(Byte),
         NEW ps \in Seq(Pictures), Follows(h, u, now, ps), NEW p \in Pictures, NEW tail \in Tails
  PROVE  Follows(h, u \o Part(p, tail), now, Append(ps, p))
<1>1. PICK s \in Seq(Byte) : IsParts(s, ps) /\ h \o u = now \o s
  BY DEF Follows, FollowsFor, IsParts
<1> DEFINE e == Part(p, tail)
<1>2. e \in Seq(Byte) /\ IsParts(s \o e, Append(ps, p))
  BY <1>1, PartType, TailType, InputsAreBytes, PartsGrow
<1> HIDE DEF e
<1>3. s \o e \in Seq(Byte)
  BY <1>1, <1>2, Cat
<1>4. (h \o u) \o e = h \o (u \o e)
  <2>1. Associates(h, u, e)
    BY <1>2, Assoc, Zenon
  <2> QED
    BY <2>1, Zenon DEF Associates
<1>5. (now \o s) \o e = now \o (s \o e)
  <2>1. Associates(now, s, e)
    BY <1>1, <1>2, Assoc, Zenon
  <2> QED
    BY <2>1, Zenon DEF Associates
<1>6. h \o (u \o e) = now \o (s \o e)
  BY <1>1, <1>4, <1>5, Zenon
<1>7. Follows(h, u \o e, now, Append(ps, p))
  BY <1>2, <1>3, <1>6, Zenon DEF Follows, FollowsFor, IsParts
<1> QED
  BY <1>7 DEF e

LEMMA FollowsNothing ==
  ASSUME NEW u \in Seq(Byte), NEW ps, IsParts(u, ps)
  PROVE  Follows(<<>>, u, <<>>, ps)
<1>1. <<>> \o u = <<>> \o u
  OBVIOUS
<1> QED
  BY <1>1, Zenon DEF Follows, FollowsFor, IsParts

(* LineGoesOn, for what follows a line. *)
LEMMA LineOf ==
  ASSUME NEW u \in Seq(Byte), NEW X \in Seq(Byte), NEW z \in Seq(Byte), line \in Seq(Byte),
         line \o u = X \o (CrLf \o z), NoLF(line), NoLF(X), Len(X) + 1 <= MaxLine
  PROVE  /\ u # <<>>
         /\ EndsLine(Head(u)) => Append(line, Head(u)) = X \o CrLf /\ Tail(u) = z
BY LineGoesOn DEF EndsLine

LEMMA CapOK ==
  ASSUME DelimOK
  PROVE  /\ MaxLine \in Nat /\ MaxLine >= 3 /\ NoLF(delim) /\ NoLF(<<>>)
         /\ \A tail \in Tails : NoLF(tail) /\ Len(tail) + 1 <= MaxLine
<1>1. MaxLine \in Nat /\ Len(delim) \in Nat /\ Len(delim) >= 2 /\ Len(delim) + 1 <= MaxLine
  BY ReaderAssumption DEF DelimOK
<1>2. NoLF(delim)
  BY DEF DelimOK, NoLF
<1>3. Len(<<>>) = 0 /\ NoLF(<<>>)
  BY DEF NoLF
<1>4. ASSUME NEW tail \in Tails PROVE NoLF(tail) /\ Len(tail) + 1 <= MaxLine
  <2>1. CASE tail = <<>>
    BY <1>1, <1>3, <2>1
  <2>2. CASE tail = <<Dash, Dash>>
    <3>1. Len(tail) = 2 /\ tail[1] = Dash /\ tail[2] = Dash /\ Dash # LF
      BY <2>2 DEF Dash, LF
    <3>2. \A i \in 1..2 : i = 1 \/ i = 2
      OBVIOUS
    <3> QED
      BY <1>1, <3>1, <3>2 DEF NoLF
  <2> QED
    BY <2>1, <2>2 DEF Tails
<1> QED
  BY <1>1, <1>2, <1>3, <1>4

LEMMA HeaderOK ==
  /\ Header \in Seq(Byte) /\ NoLF(Header) /\ Len(Header) + 1 <= MaxLine
  /\ ~Blank(Header \o CrLf) /\ Blank(<<>> \o CrLf)
<1>1. /\ Header \in Seq(Byte) /\ Len(Header) + 2 <= MaxLine /\ Len(Header) \in Nat
      /\ MaxLine \in Nat /\ DOMAIN Header = 1..Len(Header)
  BY ReaderAssumption, InputsAreBytes
<1>2. NoLF(Header)
  BY <1>1, ReaderAssumption DEF Contains, NoLF
<1>3. PICK i \in 1..Len(Header) : Header[i] # CR
  BY <1>1, ReaderAssumption
<1>4. ~Blank(Header \o CrLf)
  <2> DEFINE t == Header \o CrLf
  <2>1. CrLf \in Seq(Byte)
    BY BytesAreBytes
  <2>2. t \in Seq(Byte) /\ Len(t) = Len(Header) + Len(CrLf) /\ Len(CrLf) \in Nat
    BY <1>1, <2>1, Cat
  <2>3. t[i] = Header[i]
    BY <1>1, <2>1, CatAt
  <2> HIDE DEF t
  <2>4. i \in DOMAIN t /\ t[i] \notin {CR, LF}
    BY <1>1, <1>2, <1>3, <2>2, <2>3 DEF NoLF
  <2> QED
    BY <2>4 DEF Blank, t
<1>5. Blank(<<>> \o CrLf)
  <2>1. <<>> \o CrLf = CrLf
    BY BytesAreBytes, EmptyCat
  <2>2. DOMAIN CrLf = 1..2 /\ CrLf[1] = CR /\ CrLf[2] = LF
    BY DEF CrLf
  <2>3. \A x \in 1..2 : x = 1 \/ x = 2
    OBVIOUS
  <2>4. Blank(CrLf)
    BY <2>2, <2>3 DEF Blank
  <2> QED
    BY <2>1, <2>4
<1> QED
  BY <1>1, <1>2, <1>4, <1>5

-----------------------------------------------------------------------------
LEMMA CrLfCat ==
  ASSUME NEW a \in Seq(Byte), NEW z \in Seq(Byte)
  PROVE  (CrLf \o a) \o z = CrLf \o (a \o z)
<1>1. CrLf \in Seq(Byte) /\ a \in Seq(Byte) /\ z \in Seq(Byte)
  BY BytesAreBytes
<1>2. Associates(CrLf, a, z)
  BY <1>1, Assoc, Zenon
<1> QED
  BY <1>2, Zenon DEF Associates

(* The boundary that opens the stream. *)
LEMMA OpenLine ==
  ASSUME DelimOK, line \in Seq(Byte), NoLF(line), NEW u \in Seq(Byte), NEW ps,
         Follows(line, u, delim \o CrLf, ps)
  PROVE  u # <<>> /\ (EndsLine(Head(u)) => Follows(<<>>, Tail(u), <<>>, ps))
<1>1. PICK s \in Seq(Byte) : IsParts(s, ps) /\ line \o u = (delim \o CrLf) \o s
  BY DEF Follows, FollowsFor, IsParts
<1>2. delim \in Seq(Byte) /\ CrLf \in Seq(Byte) /\ s \in Seq(Byte)
  BY BytesAreBytes DEF DelimOK
<1>3. (delim \o CrLf) \o s = delim \o (CrLf \o s)
  <2>1. Associates(delim, CrLf, s)
    BY <1>2, Assoc, Zenon
  <2> QED
    BY <2>1, Zenon DEF Associates
<1>4. line \o u = delim \o (CrLf \o s)
  BY <1>1, <1>3, Zenon
<1>5. NoLF(delim) /\ Len(delim) + 1 <= MaxLine
  BY CapOK DEF DelimOK
<1>6. u # <<>> /\ (EndsLine(Head(u)) => Tail(u) = s)
  BY <1>2, <1>4, <1>5, LineOf, Zenon
<1> QED
  BY <1>1, <1>2, <1>6, FollowsNothing, Zenon

(* The rest of the line of a part's boundary. *)
LEMMA RestLine ==
  ASSUME DelimOK, line \in Seq(Byte), NoLF(line), NEW u \in Seq(Byte), InRest(u)
  PROVE  u # <<>> /\ (EndsLine(Head(u)) => Follows(<<>>, Tail(u), <<>>, Tail(pictures)))
<1>1. PICK tail \in Tails : Follows(line, u, tail \o CrLf, Tail(pictures))
  BY DEF InRest
<1>2. PICK s \in Seq(Byte) : IsParts(s, Tail(pictures)) /\ line \o u = (tail \o CrLf) \o s
  BY <1>1 DEF Follows, FollowsFor, IsParts
<1>3. tail \in Seq(Byte) /\ CrLf \in Seq(Byte) /\ s \in Seq(Byte)
  BY BytesAreBytes, TailType
<1>4. (tail \o CrLf) \o s = tail \o (CrLf \o s)
  <2>1. Associates(tail, CrLf, s)
    BY <1>3, Assoc, Zenon
  <2> QED
    BY <2>1, Zenon DEF Associates
<1>5. line \o u = tail \o (CrLf \o s)
  BY <1>2, <1>4, Zenon
<1>6. NoLF(tail) /\ Len(tail) + 1 <= MaxLine
  BY CapOK
<1>7. u # <<>> /\ (EndsLine(Head(u)) => Tail(u) = s)
  BY <1>3, <1>5, <1>6, LineOf, Zenon
<1> QED
  BY <1>2, <1>3, <1>7, FollowsNothing, Zenon

(* The headers of a part: one line, then the blank one. *)
AfterHeader(u) ==
  /\ pictures # <<>> /\ ~Blank(Append(line, Head(u)))
  /\ \E tail \in Tails :
       Follows(<<>>, Tail(u), CrLf \o Body(Head(pictures), tail), Tail(pictures))
AfterBlank(u) ==
  /\ pictures # <<>> /\ Blank(Append(line, Head(u)))
  /\ \E tail \in Tails : Follows(<<>>, Tail(u), Body(Head(pictures), tail), Tail(pictures))

LEMMA FirstHeader ==
  ASSUME DelimOK, line \in Seq(Byte), pictures \in Seq(Pictures), NoLF(line), NEW u \in Seq(Byte),
         Follows(line, u, <<>>, pictures), pictures # <<>>
  PROVE  u # <<>> /\ (EndsLine(Head(u)) => AfterHeader(u))
<1>1. PICK s \in Seq(Byte) : IsParts(s, pictures) /\ line \o u = <<>> \o s
  BY DEF Follows, FollowsFor, IsParts
<1>2. delim \in Seq(Byte) /\ CrLf \in Seq(Byte) /\ Header \in Seq(Byte)
  BY BytesAreBytes, HeaderOK DEF DelimOK
<1>3. Head(pictures) \in Seq(Byte)
  BY <1>1, <1>2, FirstPart
<1>4. PICK tail \in Tails, r \in Seq(Byte) :
        /\ s = Header \o (CrLf \o (CrLf \o (Body(Head(pictures), tail) \o r)))
        /\ IsParts(r, Tail(pictures))
  BY <1>1, <1>2, FirstPart
<1> DEFINE b == Body(Head(pictures), tail)
           z == CrLf \o (b \o r)
<1>5. b \in Seq(Byte) /\ CrLf \o b \in Seq(Byte)
  BY <1>2, <1>3, BodyType
<1> HIDE DEF b
<1>6. b \o r \in Seq(Byte)
  BY <1>4, <1>5, Cat
<1>7. z \in Seq(Byte) /\ (CrLf \o b) \o r = z
  <2>1. z \in Seq(Byte)
    BY <1>2, <1>6, Cat
  <2>2. (CrLf \o b) \o r = CrLf \o (b \o r)
    <3>1. b \in Seq(Byte) /\ r \in Seq(Byte)
      BY <1>5
    <3> QED
      BY <3>1, CrLfCat, Zenon
  <2> QED
    BY <2>1, <2>2
<1>8. line \o u = Header \o (CrLf \o z)
  <2>1. <<>> \o s = s
    BY <1>1, EmptyCat
  <2> QED
    BY <1>1, <1>4, <2>1, Zenon DEF b
<1> HIDE DEF z
<1>9. NoLF(Header) /\ Len(Header) + 1 <= MaxLine /\ ~Blank(Header \o CrLf)
  BY HeaderOK
<1>10. u # <<>> /\ (EndsLine(Head(u)) => Append(line, Head(u)) = Header \o CrLf /\ Tail(u) = z)
  BY <1>2, <1>7, <1>8, <1>9, LineOf, Zenon
<1>11. Follows(<<>>, z, CrLf \o b, Tail(pictures))
  <2>1. <<>> \o z = (CrLf \o b) \o r
    BY <1>7, EmptyCat
  <2> QED
    BY <1>4, <2>1, Zenon DEF Follows, FollowsFor, IsParts
<1> QED
  BY <1>9, <1>10, <1>11, Zenon DEF AfterHeader, b

LEMMA BlankHeader ==
  ASSUME DelimOK, line \in Seq(Byte), pictures \in Seq(Pictures), NoLF(line), NEW u \in Seq(Byte),
         pictures # <<>>, NEW tail \in Tails,
         Follows(line, u, CrLf \o Body(Head(pictures), tail), Tail(pictures))
  PROVE  u # <<>> /\ (EndsLine(Head(u)) => AfterBlank(u))
<1> DEFINE b == Body(Head(pictures), tail)
<1>1. PICK s \in Seq(Byte) : IsParts(s, Tail(pictures)) /\ line \o u = (CrLf \o b) \o s
  BY DEF Follows, FollowsFor, IsParts
<1>2. delim \in Seq(Byte) /\ CrLf \in Seq(Byte) /\ Head(pictures) \in Seq(Byte) /\ <<>> \in Seq(Byte)
  <2>1. Head(pictures) \in Pictures
    OBVIOUS
  <2> QED
    BY <2>1, BytesAreBytes, InputsAreBytes, EmptyType DEF DelimOK
<1>3. b \in Seq(Byte)
  BY <1>2, BodyType
<1> HIDE DEF b
<1> DEFINE z == b \o s
<1>4. z \in Seq(Byte) /\ (CrLf \o b) \o s = CrLf \o z
  <2>1. z \in Seq(Byte)
    BY <1>1, <1>3, Cat
  <2>2. (CrLf \o b) \o s = CrLf \o (b \o s)
    <3>1. CrLf \in Seq(Byte) /\ b \in Seq(Byte) /\ s \in Seq(Byte)
      BY <1>2, <1>3
    <3>2. Associates(CrLf, b, s)
      BY <3>1, Assoc, Zenon
    <3> QED
      BY <3>2, Zenon DEF Associates
  <2> QED
    BY <2>1, <2>2
<1> HIDE DEF z
<1>5. line \o u = <<>> \o (CrLf \o z)
  <2>1. CrLf \o z \in Seq(Byte)
    BY <1>2, <1>4, Cat
  <2>2. <<>> \o (CrLf \o z) = CrLf \o z
    BY <2>1, EmptyCat
  <2> QED
    BY <1>1, <1>4, <2>2, Zenon
<1>6. NoLF(<<>>) /\ Len(<<>>) + 1 <= MaxLine /\ Blank(<<>> \o CrLf)
  <2>1. Len(<<>>) = 0
    OBVIOUS
  <2> QED
    BY <2>1, CapOK, HeaderOK
<1>7. u # <<>> /\ (EndsLine(Head(u)) => Append(line, Head(u)) = <<>> \o CrLf /\ Tail(u) = z)
  BY <1>2, <1>4, <1>5, <1>6, LineOf, Zenon
<1>8. Follows(<<>>, z, b, Tail(pictures))
  <2>1. <<>> \o z = b \o s
    BY <1>4, EmptyCat DEF z
  <2> QED
    BY <1>1, <2>1, Zenon DEF Follows, FollowsFor, IsParts
<1> QED
  BY <1>6, <1>7, <1>8, Zenon DEF AfterBlank, b

LEMMA HeadersAre ==
  ASSUME DelimOK, line \in Seq(Byte), pictures \in Seq(Pictures), NoLF(line), NEW u \in Seq(Byte),
         InHeaders(u)
  PROVE  /\ u = <<>> => pictures = <<>> /\ line = <<>>
         /\ u # <<>> /\ EndsLine(Head(u)) => AfterHeader(u) \/ AfterBlank(u)
<1>1. CASE Follows(line, u, <<>>, pictures) /\ pictures # <<>>
  BY <1>1, FirstHeader
<1>2. CASE Follows(line, u, <<>>, pictures) /\ pictures = <<>>
  <2>1. PICK s \in Seq(Byte) : IsParts(s, <<>>) /\ line \o u = <<>> \o s
    BY <1>2 DEF Follows, FollowsFor, IsParts
  <2>2. s = <<>> /\ <<>> \o s = s
    BY <2>1, NoParts, EmptyCat
  <2>3. Len(line \o u) = Len(line) + Len(u) /\ Len(line) \in Nat /\ Len(u) \in Nat
    BY Cat
  <2>4. line \o u = <<>> /\ Len(<<>>) = 0
    BY <2>1, <2>2
  <2>5. Len(u) = 0 /\ Len(line) = 0
    BY <2>3, <2>4
  <2>6. u = <<>> /\ line = <<>>
    BY <2>5, ZeroLen
  <2> QED
    BY <1>2, <2>6
<1>3. CASE pictures # <<>> /\ \E tail \in Tails :
             Follows(line, u, CrLf \o Body(Head(pictures), tail), Tail(pictures))
  <2>1. PICK tail \in Tails :
          Follows(line, u, CrLf \o Body(Head(pictures), tail), Tail(pictures))
    BY <1>3
  <2>2. u # <<>> /\ (EndsLine(Head(u)) => AfterBlank(u))
    BY <1>3, <2>1, BlankHeader
  <2> QED
    BY <2>2
<1> QED
  BY <1>1, <1>2, <1>3 DEF InHeaders

-----------------------------------------------------------------------------
(* A byte of a picture's part.  The search finds the boundary where the     *)
(* server put it, having passed the picture and the line break.             *)
PictureLen == Len(Head(pictures)) + 2

LEMMA PictureGoesOn ==
  ASSUME delim \in Seq(Byte), taken \in Seq(Byte), pictures \in Seq(Pictures), InPicture(<<>>)
  PROVE  FALSE
<1>1. PICK tail \in Tails : Follows(taken, <<>>, Body(Head(pictures), tail), Tail(pictures))
  BY DEF InPicture
<1> DEFINE p == Head(pictures)
           b == Body(p, tail)
<1>2. PICK s \in Seq(Byte) : taken \o <<>> = b \o s
  BY <1>1 DEF Follows, FollowsFor, IsParts
<1>3. p \in Seq(Byte)
  <2>1. p \in Pictures
    BY DEF InPicture
  <2> QED
    BY <2>1, InputsAreBytes
<1>4. b \o s = ((p \o CrLf) \o delim) \o ((tail \o CrLf) \o s)
      /\ (p \o CrLf) \o delim \in Seq(Byte) /\ (tail \o CrLf) \o s \in Seq(Byte)
      /\ Len((p \o CrLf) \o delim) = Len(p) + 2 + Len(delim)
  <2> HIDE DEF p
  <2>1. BodyShape(b \o s, p, tail, s)
    BY <1>3, BodyBytes
  <2> HIDE DEF b
  <2> QED
    BY <2>1 DEF BodyShape
<1>5. taken \o <<>> = taken
  BY EmptyCat
<1> DEFINE y == (p \o CrLf) \o delim
           z == (tail \o CrLf) \o s
<1>6. y \in Seq(Byte) /\ z \in Seq(Byte) /\ Len(y) = Len(p) + 2 + Len(delim)
  BY <1>4
<1>7. taken = y \o z
  BY <1>2, <1>4, <1>5, Zenon
<1>8. Len(taken) < Len(p) + 2 + Len(delim)
  BY DEF InPicture
<1> HIDE DEF y, z, p
<1>9. Len(taken) = Len(y) + Len(z) /\ Len(y) \in Nat /\ Len(z) \in Nat
  BY <1>6, <1>7, Cat, Zenon
<1>10. Len(p) \in Nat /\ Len(delim) \in Nat
  BY <1>3, LenProperties
<1> QED
  BY <1>6, <1>8, <1>9, <1>10

LEMMA PictureByte ==
  ASSUME ReaderInv, Searching, DelimOK, NEW u \in Seq(Byte), u # <<>>, Head(u) = Head(buf),
         InPicture(u)
  PROVE  /\ Len(taken') <= PictureLen + Len(delim)
         /\ \E tail \in Tails :
              Follows(taken', Tail(u), Body(Head(pictures), tail), Tail(pictures))
<1>1. PICK tail \in Tails : Follows(taken, u, Body(Head(pictures), tail), Tail(pictures))
  BY DEF InPicture
<1>2. taken \in Seq(Byte) /\ taken' = Append(taken, Head(u)) /\ Head(u) \in Byte
  BY HeadTailType DEF Searching, ReaderInv, ReaderTypeOK
<1>3. Follows(taken', Tail(u), Body(Head(pictures), tail), Tail(pictures))
  BY <1>1, <1>2, FollowsTaken
<1>4. Len(taken') = Len(taken) + 1 /\ Len(taken) \in Nat
  BY <1>2, AppendType
<1>5. Len(Head(pictures)) \in Nat /\ Len(delim) \in Nat
  <2>1. Head(pictures) \in Pictures
    BY DEF InPicture, ReaderInv, ReaderTypeOK
  <2>2. Head(pictures) \in Seq(Byte) /\ delim \in Seq(Byte)
    BY <2>1, InputsAreBytes DEF DelimOK
  <2> QED
    BY <2>2, LenProperties
<1>6. Len(taken') <= PictureLen + Len(delim)
  BY <1>4, <1>5 DEF InPicture, PictureLen
<1> QED
  BY <1>3, <1>6

-----------------------------------------------------------------------------
LEMMA TakenByte ==
  ASSUME ReaderInv, Searching, DelimOK, NEW u \in Seq(Byte), u # <<>>, Head(u) = Head(buf),
         InPicture(u)
  PROVE  /\ \A k \in 0..Len(delim) : Len(taken') = PictureLen + k => k <= matched'
         /\ Len(taken') = Len(out') + matched' /\ Len(taken') <= PictureLen + Len(delim)
         /\ PictureLen \in Nat /\ Len(out') \in Nat /\ matched' \in Nat /\ Len(delim) \in Nat
         /\ matched' <= Len(delim)
<1>1. PICK tail \in Tails :
        Follows(taken', Tail(u), Body(Head(pictures), tail), Tail(pictures))
  BY PictureByte
<1>2. PICK s \in Seq(Byte) : taken' \o Tail(u) = Body(Head(pictures), tail) \o s
  BY <1>1 DEF Follows, FollowsFor, IsParts
<1>3. /\ matched' \in Nat /\ matched' <= Len(delim) /\ out' \in Seq(Byte)
      /\ taken' \in Seq(Byte) /\ taken' = out' \o SubSeq(delim, 1, matched')
      /\ LongestMatch(delim, matched', taken')
  BY SearchTakes
<1>4. Head(pictures) \in Seq(Byte) /\ delim \in Seq(Byte) /\ Tail(u) \in Seq(Byte)
  <2>1. Head(pictures) \in Pictures
    BY DEF InPicture, ReaderInv, ReaderTypeOK
  <2> QED
    BY <2>1, InputsAreBytes, HeadTailType DEF DelimOK
<1>5. Len(Head(pictures)) \in Nat /\ Len(delim) \in Nat /\ Len(out') \in Nat
  BY <1>3, <1>4, LenProperties
<1>6. Len(taken') = Len(out') + matched'
  BY <1>3, <1>4, TakenEnds
<1>7. ASSUME NEW k \in 0..Len(delim), Len(taken') = PictureLen + k PROVE k <= matched'
  <2>1. k \in Nat /\ k <= Len(delim)
    BY <1>5
  <2>2. Len(taken') = Len(Head(pictures)) + 2 + k
    BY <1>7 DEF PictureLen
  <2> DEFINE t == taken'
             v == Tail(u)
             p == Head(pictures)
  <2>3. /\ delim \in Seq(Byte) /\ p \in Seq(Byte) /\ t \in Seq(Byte) /\ v \in Seq(Byte)
        /\ t \o v = Body(p, tail) \o s /\ k \in Nat /\ k <= Len(delim)
        /\ Len(t) = Len(p) + 2 + k
    BY <1>2, <1>3, <1>4, <2>1, <2>2
  <2> HIDE DEF t, v, p
  <2>4. Ends(delim, k, t)
    BY <2>3, TakenReaches, Zenon
  <2> QED
    BY <1>3, <2>4 DEF LongestMatch, t
<1>8. PictureLen \in Nat
  BY <1>5 DEF PictureLen
<1> QED
  BY <1>3, <1>5, <1>6, <1>7, <1>8, PictureByte

LEMMA PictureContinues ==
  ASSUME ReaderInv, Searching, DelimOK, NEW u \in Seq(Byte), u # <<>>, Head(u) = Head(buf),
         InPicture(u), matched' < Len(delim)
  PROVE  Len(taken') < PictureLen + Len(delim)
<1> DEFINE D == Len(delim)
           T == Len(taken')
           P == PictureLen
<1>1. /\ D \in 0..Len(delim) /\ T <= P + D /\ P \in Nat /\ D \in Nat /\ T \in Nat
      /\ matched' \in Nat /\ matched' < D
  BY TakenByte
<1>2. T = P + D => D <= matched'
  BY <1>1, TakenByte
<1> HIDE DEF D, T, P
<1>3. T < P + D
  BY <1>1, <1>2
<1> QED
  BY <1>3 DEF D, T, P

LEMMA PictureFits ==
  ASSUME ReaderInv, Searching, DelimOK, NEW u \in Seq(Byte), u # <<>>, Head(u) = Head(buf),
         InPicture(u)
  PROVE  Len(out') <= PictureLen
<1> DEFINE D == Len(delim)
           T == Len(taken')
           P == PictureLen
           k == T - P
<1>1. /\ T <= P + D /\ P \in Nat /\ D \in Nat /\ T \in Nat
      /\ matched' \in Nat /\ T = Len(out') + matched' /\ Len(out') \in Nat
  BY TakenByte
<1>2. k \in 0..D => k <= matched'
  <2>1. T = P + k
    BY <1>1
  <2> QED
    BY <2>1, TakenByte
<1> HIDE DEF D, T, P
<1>3. CASE T <= P
  BY <1>1, <1>3 DEF P
<1>4. CASE T > P
  <2>1. k \in 0..D
    BY <1>1, <1>4
  <2> QED
    BY <1>1, <1>2, <2>1 DEF P
<1> QED
  BY <1>1, <1>3, <1>4

LEMMA PictureEnds ==
  ASSUME ReaderInv, Searching, DelimOK, NEW u \in Seq(Byte), u # <<>>, Head(u) = Head(buf),
         InPicture(u), matched' = Len(delim), ~Occurs(delim, Head(pictures))
  PROVE  /\ out' = Head(pictures) \o CrLf
         /\ \E tail \in Tails : Follows(<<>>, Tail(u), tail \o CrLf, Tail(pictures))
<1>1. PICK tail \in Tails :
        Follows(taken', Tail(u), Body(Head(pictures), tail), Tail(pictures))
  BY PictureByte
<1>2. PICK s \in Seq(Byte) :
        IsParts(s, Tail(pictures)) /\ taken' \o Tail(u) = Body(Head(pictures), tail) \o s
  BY <1>1 DEF Follows, FollowsFor, IsParts
<1>3. /\ out' \in Seq(Byte) /\ taken' \in Seq(Byte)
      /\ taken' = out' \o SubSeq(delim, 1, matched')
  BY SearchTakes
<1>4. Head(pictures) \in Seq(Byte) /\ delim \in Seq(Byte) /\ Tail(u) \in Seq(Byte)
  <2>1. Head(pictures) \in Pictures
    BY DEF InPicture, ReaderInv, ReaderTypeOK
  <2> QED
    BY <2>1, InputsAreBytes, HeadTailType DEF DelimOK
<1>5. Len(delim) \in Nat /\ SubSeq(delim, 1, matched') = delim
  BY <1>4
<1> DEFINE t == taken'
           v == Tail(u)
           p == Head(pictures)
           o == out'
<1>6. Ends(delim, Len(delim), t) /\ t = o \o delim
  <2>1. matched' \in Nat /\ matched' <= Len(delim)
    BY <1>5
  <2>2. Ends(delim, matched', t)
    BY <1>3, <1>4, <2>1, TakenEnds
  <2> QED
    BY <1>3, <1>5, <2>2
<1>7. t = (p \o CrLf) \o delim /\ v = (tail \o CrLf) \o s
  <2>1. Len(t) <= Len(p) + 2 + Len(delim)
    BY PictureByte DEF PictureLen
  <2>2. /\ DelimOK /\ p \in Seq(Byte) /\ t \in Seq(Byte) /\ v \in Seq(Byte)
        /\ t \o v = Body(p, tail) \o s /\ Len(t) <= Len(p) + 2 + Len(delim)
        /\ ~Occurs(delim, p) /\ Ends(delim, Len(delim), t)
    BY <1>2, <1>3, <1>4, <1>6, <2>1
  <2> HIDE DEF t, v, p
  <2>3. InPlace(p, tail, s, t, v)
    BY <2>2, FoundInPlace, Zenon
  <2> QED
    BY <2>3, Zenon DEF InPlace
<1>8. p \o CrLf \in Seq(Byte) /\ tail \in Seq(Byte) /\ CrLf \in Seq(Byte)
  BY <1>4, TailType, BytesAreBytes, Cat
<1>9. o = p \o CrLf
  <2> DEFINE c == p \o CrLf
  <2>1. /\ o \in Seq(Byte) /\ c \in Seq(Byte) /\ delim \in Seq(Byte)
        /\ o \o delim = c \o delim
    <3>1. o \o delim = c \o delim
      BY <1>6, <1>7, Zenon
    <3> QED
      BY <1>3, <1>4, <1>8, <3>1
  <2> HIDE DEF o, c
  <2>2. Len(o \o delim) = Len(o) + Len(delim) /\ Len(c \o delim) = Len(c) + Len(delim)
        /\ Len(o) \in Nat /\ Len(c) \in Nat
    BY <2>1, Cat
  <2>3. Len(o) = Len(c)
    BY <1>5, <2>1, <2>2
  <2>4. o = c
    BY <2>1, <2>3, SameCut, Zenon
  <2> QED
    BY <2>4 DEF c
<1>10. Follows(<<>>, v, tail \o CrLf, Tail(pictures))
  <2>1. <<>> \o v = v
    BY <1>4, EmptyCat
  <2>2. <<>> \o v = (tail \o CrLf) \o s
    BY <1>7, <2>1, Zenon
  <2> QED
    BY <1>2, <2>2, Zenon DEF Follows, FollowsFor, IsParts
<1> QED
  BY <1>9, <1>10

-----------------------------------------------------------------------------
(* As long as no read failed, what is to come is what the server sent, and  *)
(* the reader is where it should be in it.                                  *)
Expected(u) ==
  /\ pc = "open" => Follows(line, u, delim \o CrLf, pictures)
  /\ pc = "check" => Follows(<<>>, u, <<>>, Drop(pictures, Len(fresh)))
  /\ pc = "part" /\ reading = "headers" => InHeaders(u)
  /\ pc = "part" /\ reading = "body" => InPicture(u)
  /\ pc = "part" /\ reading = "rest" => InRest(u)

Waiting  == link # "none" /\ pc \in {"open", "check", "part"}
OnCourse == CutShort \/ \E u : Pending(u) /\ Expected(u)
FreshOK  == fresh = <<>> \/ (pictures # <<>> /\ fresh = <<Head(pictures)>>)

Sent ==
  /\ FreshOK /\ (pc # "check" => fresh = <<>>)
  /\ done => link = "closed"
  /\ pc = "part" /\ reading = "rest" => pictures # <<>> /\ out = Head(pictures) \o CrLf
  /\ \A i \in 1..Len(pictures) : ~Occurs(delim, pictures[i])
  /\ NoLF(line)

ServeInv == ~failed => Sent /\ (Waiting => OnCourse) /\ NothingIsMissed

LEMMA NoLFAtFirst == NoLF(<<>>)
<1>1. Len(<<>>) = 0
  OBVIOUS
<1> QED
  BY <1>1 DEF NoLF

LEMMA IdleServes == NoConnection => ServeInv
<1>1. Len(<<>>) = 0
  OBVIOUS
<1> QED
  BY <1>1, NoLFAtFirst DEF NoConnection, ServeInv, Sent, FreshOK, Waiting, NothingIsMissed

LEMMA IdleNext == NoConnection' => ServeInv'
BY IdleServes, PTL

LEMMA DelimNow ==
  ASSUME ReaderInv, link # "none"
  PROVE  DelimOK
BY BoundaryOK DEF ReaderInv, Place

(* The next byte to look at is the next one expected. *)
LEMMA NextByte ==
  ASSUME ReaderInv, ServeInv, ~failed, Waiting, buf # <<>>, buf' = Tail(buf),
         UNCHANGED <<link, chunked, left, wire, remaining, done>>
  PROVE  \E u \in Seq(Byte) :
           u # <<>> /\ Head(u) = Head(buf) /\ Expected(u) /\ Pending(Tail(u))'
<1>1. ReaderTypeOK
  BY DEF ReaderInv
<1>2. PICK u : Pending(u) /\ Expected(u)
  BY DEF ServeInv, OnCourse, CutShort
<1>3. u # <<>> /\ Head(u) = Head(buf) /\ Pending(Tail(u))'
  BY <1>1, <1>2, PendingTaken
<1>4. u \in Seq(Byte)
  BY <1>1, <1>2, PendingType
<1> QED
  BY <1>2, <1>3, <1>4

(* Where the stream may end. *)
LEMMA EndMeans ==
  ASSUME ReaderInv, ServeInv, ~failed, Waiting, pc # "check", AtEof
  PROVE  \/ CutShort
         \/ pc = "part" /\ reading = "headers" /\ pictures = <<>> /\ line = <<>>
<1>1. ReaderTypeOK /\ DelimOK /\ <<>> \in Seq(Byte) /\ line \in Seq(Byte)
      /\ pictures \in Seq(Pictures) /\ taken \in Seq(Byte) /\ delim \in Seq(Byte)
  BY DelimNow, EmptyType DEF ReaderInv, Waiting, ReaderTypeOK
<1>2. SUFFICES ASSUME ~CutShort
               PROVE  pc = "part" /\ reading = "headers" /\ pictures = <<>> /\ line = <<>>
  OBVIOUS
<1>3. PICK u : Pending(u) /\ Expected(u)
  BY <1>2 DEF ServeInv, OnCourse
<1>4. u = <<>>
  BY <1>1, <1>2, <1>3, PendingEnds
<1>5. Expected(<<>>) /\ NoLF(line)
  BY <1>3, <1>4 DEF ServeInv, Sent
<1>6. pc # "open"
  <2>1. ~Follows(line, <<>>, delim \o CrLf, pictures)
    BY <1>1, <1>5, OpenLine
  <2> QED
    BY <1>5, <2>1 DEF Expected
<1>7. ~(pc = "part" /\ reading = "body")
  BY <1>1, <1>5, PictureGoesOn DEF Expected
<1>8. ~(pc = "part" /\ reading = "rest")
  <2>1. ~InRest(<<>>)
    BY <1>1, <1>5, RestLine
  <2> QED
    BY <1>5, <2>1 DEF Expected
<1>9. pc = "part" /\ reading = "headers"
  BY <1>1, <1>6, <1>7, <1>8 DEF Waiting, ReaderInv, ReaderTypeOK, Place
<1>10. InHeaders(<<>>)
  BY <1>5, <1>9 DEF Expected
<1> QED
  BY <1>1, <1>5, <1>9, <1>10, HeadersAre

-----------------------------------------------------------------------------
LEMMA StillServes ==
  ASSUME ReaderInv, ServeInv, UNCHANGED conn, UNCHANGED pc, receiving' => receiving, stop => stop'
  PROVE  ServeInv'
<1>1. UNCHANGED <<link, delim, chunked, left, wire, remaining, done, buf, reading, line,
                  matched, out, taken, pictures, fresh, failed, pc>>
  BY DEF conn, served, chunks, search
<1>2. SUFFICES ASSUME ~failed, Sent, Waiting => OnCourse, NothingIsMissed PROVE ServeInv'
  BY <1>1 DEF ServeInv
<1>3. Sent'
  BY <1>1, <1>2 DEF Sent, FreshOK
<1>4. Waiting' => OnCourse'
  <2> SUFFICES ASSUME Waiting' PROVE OnCourse'
    OBVIOUS
  <2>1. OnCourse
    BY <1>1, <1>2 DEF Waiting
  <2>2. CASE CutShort
    BY <1>1, <2>2 DEF OnCourse, CutShort
  <2>3. CASE \E u : Pending(u) /\ Expected(u)
    <3>1. PICK u : Pending(u) /\ Expected(u)
      BY <2>3
    <3>2. Pending(u)'
      BY <1>1, <3>1, PendingStays
    <3>3. Expected(u)'
      BY <1>1, <3>1 DEF Expected, InHeaders, InPicture, InRest, Follows, Body
    <3> QED
      BY <3>2, <3>3 DEF OnCourse
  <2> QED
    BY <2>1, <2>2, <2>3 DEF OnCourse
<1>5. NothingIsMissed'
  BY <1>1, <1>2 DEF NothingIsMissed, AtEof
<1> QED
  BY <1>3, <1>4, <1>5 DEF ServeInv

LEMMA IdleSteps ==
  ASSUME ReaderInv, ((Loop \/ Nap \/ Wake) /\ UNCHANGED conn) \/ NotServed \/ HangUp
  PROVE  ServeInv'
<1>1. CASE HangUp
  BY <1>1, IdleNext DEF HangUp, NoConnection
<1>2. CASE ((Loop \/ Nap \/ Wake) /\ UNCHANGED conn) \/ NotServed
  <2>1. NoConnection /\ UNCHANGED conn
    BY <1>2 DEF ReaderInv, Place, Loop, Nap, Wake, NotServed
  <2>2. NoConnection'
    BY <2>1 DEF NoConnection, conn, served, chunks, search
  <2> QED
    BY <2>2, IdleNext
<1> QED
  BY <1>1, <1>2

LEMMA ServesOnConnect ==
  ASSUME ReaderInv, Connect
  PROVE  ServeInv'
<1>1. NoConnection /\ pc = "open" /\ link' = "up" /\ left' = delim' \o CrLf
  BY DEF ReaderInv, Place, Connect
<1>2. UNCHANGED <<pc, pictures, wire, remaining, done, buf, reading, line, matched, out,
                  taken, fresh, failed>>
  BY DEF Connect, videoVars, chunks, search
<1>3. /\ pictures' = <<>> /\ wire' = <<>> /\ remaining' = 0 /\ done' = FALSE /\ buf' = <<>>
      /\ line' = <<>> /\ fresh' = <<>> /\ pc' = "open" /\ reading' = "first"
  BY <1>1, <1>2 DEF NoConnection
<1>4. PICK u : u = left'
  OBVIOUS
<1>5. u \in Seq(Byte) /\ <<>> \in Seq(Byte)
  <2>1. ReaderTypeOK'
    BY ReaderOnConnect DEF ReaderInv
  <2> QED
    BY <1>4, <2>1, EmptyType DEF ReaderTypeOK
<1>6. <<>> \o u = u /\ u \o <<>> = u /\ <<>> \o <<>> = <<>>
  BY <1>5, EmptyCat
<1>7. Pending(u)'
  <2>1. Framed(<<>>)' = <<>> /\ End' = <<>>
    BY <1>1 DEF Framed, End
  <2>2. Len(<<>>) = 0
    OBVIOUS
  <2>3. Arriving(<<>>, <<>>)'
    BY <1>1, <1>3, <1>5, <1>6, <2>1, <2>2 DEF Arriving
  <2>4. Lost(u)'
    BY <1>4, <1>5 DEF Lost
  <2>5. u = buf' \o (<<>> \o u)
    BY <1>3, <1>6
  <2> QED
    BY <2>3, <2>4, <2>5 DEF Pending
<1>8. Expected(u)'
  <2>1. <<>> \o u = (delim' \o CrLf) \o <<>>
    BY <1>1, <1>4, <1>6
  <2>2. Follows(<<>>, u, delim \o CrLf, <<>>)'
    <3>1. IsParts(<<>>, <<>>)'
      BY NoParts, PTL
    <3> QED
      BY <1>5, <2>1, <3>1 DEF Follows, FollowsFor, IsParts
  <2> QED
    BY <1>3, <2>2 DEF Expected
<1>9. Sent'
  <2>1. Len(<<>>) = 0
    OBVIOUS
  <2> QED
    BY <1>3, <2>1, NoLFAtFirst DEF Sent, FreshOK, NoLF
<1>10. NothingIsMissed'
  BY <1>3 DEF NothingIsMissed
<1> QED
  BY <1>7, <1>8, <1>9, <1>10 DEF ServeInv, OnCourse

-----------------------------------------------------------------------------
(* The server. *)
LEMMA ServesOnServer ==
  ASSUME ReaderInv, ServeInv, ServerSends \/ ServerEnds \/ ServerGoesAway
  PROVE  ServeInv'
<1>1. /\ link = "up"
      /\ UNCHANGED <<pc, receiving, stop, delim, chunked, pictures, remaining, done, buf, reading,
                     line, matched, out, taken, fresh, failed>>
  BY DEF ServerSends, ServerEnds, ServerGoesAway, videoVars, search
<1>2. SUFFICES ASSUME ~failed, Sent, Waiting => OnCourse, NothingIsMissed PROVE ServeInv'
  BY <1>1 DEF ServeInv
<1>3. Sent'
  BY <1>1, <1>2 DEF Sent, FreshOK
<1>4. Waiting' => OnCourse'
  <2> SUFFICES ASSUME Waiting' PROVE OnCourse'
    OBVIOUS
  <2>1. PICK u : Pending(u) /\ Expected(u)
    BY <1>1, <1>2 DEF Waiting, OnCourse, CutShort
  <2>2. Pending(u)'
    BY <2>1, PendingOnServer DEF ReaderInv
  <2>3. Expected(u)'
    BY <1>1, <2>1 DEF Expected, InHeaders, InPicture, InRest, Follows, Body
  <2> QED
    BY <2>2, <2>3 DEF OnCourse
<1>5. NothingIsMissed'
  <2>1. ~AtEof
    BY <1>1, <1>2 DEF AtEof, Sent
  <2> QED
    BY <1>1, <1>2, <2>1 DEF NothingIsMissed
<1> QED
  BY <1>3, <1>4, <1>5 DEF ServeInv

LEMMA DropSome ==
  ASSUME NEW S, NEW s \in Seq(S)
  PROVE  Drop(s, 0) = s /\ (s # <<>> => Drop(s, 1) = Tail(s))
<1>1. Len(s) \in Nat
  OBVIOUS
<1>2. Drop(s, 0) = s
  <2>1. Drop(s, 0) \in Seq(S) /\ Len(Drop(s, 0)) = Len(s) - 0
        /\ \A x \in 1..(Len(s) - 0) : Drop(s, 0)[x] = s[0 + x]
    BY <1>1, DropType
  <2> DEFINE d == Drop(s, 0)
  <2> HIDE DEF d
  <2>2. Len(d) = Len(s) /\ d \in Seq(S) /\ \A x \in 1..Len(d) : d[x] = s[x]
    BY <1>1, <2>1 DEF d
  <2>3. d = s
    BY <2>2, SeqEqual
  <2> QED
    BY <2>3 DEF d
<1>3. s # <<>> => Drop(s, 1) = Tail(s)
  BY DEF Drop
<1> QED
  BY <1>2, <1>3

LEMMA Grown ==
  ASSUME NEW S, NEW ps \in Seq(S), NEW p \in S
  PROVE  /\ Append(ps, p) \in Seq(S) /\ Append(ps, p) # <<>>
         /\ ps # <<>> => Head(Append(ps, p)) = Head(ps) /\ Tail(Append(ps, p)) = Append(Tail(ps), p)
         /\ \A i \in 1..Len(Append(ps, p)) : Append(ps, p)[i] = p \/ (i \in 1..Len(ps) /\ Append(ps, p)[i] = ps[i])
<1> DEFINE q == Append(ps, p)
<1>1. Len(ps) \in Nat /\ q \in Seq(S) /\ Len(q) = Len(ps) + 1 /\ q[Len(ps) + 1] = p
      /\ \A i \in 1..Len(ps) : q[i] = ps[i]
  OBVIOUS
<1> HIDE DEF q
<1>2. q # <<>>
  BY <1>1, EmptySeq
<1>3. \A i \in 1..Len(q) : q[i] = p \/ (i \in 1..Len(ps) /\ q[i] = ps[i])
  BY <1>1
<1>4. ASSUME ps # <<>> PROVE Head(q) = Head(ps) /\ Tail(q) = Append(Tail(ps), p)
  <2>1. Len(ps) >= 1
    BY <1>1, <1>4, EmptySeq
  <2>2. Head(q) = Head(ps)
    BY <1>1, <2>1
  <2> DEFINE a == Tail(q)
             b == Append(Tail(ps), p)
  <2>3. Tail(ps) \in Seq(S) /\ Len(Tail(ps)) = Len(ps) - 1
        /\ \A i \in 1..(Len(ps) - 1) : Tail(ps)[i] = ps[i + 1]
    BY <2>1
  <2>4. b \in Seq(S) /\ Len(b) = Len(ps) /\ b[Len(ps)] = p
        /\ \A i \in 1..(Len(ps) - 1) : b[i] = ps[i + 1]
    <3> DEFINE c == Tail(ps)
    <3> HIDE DEF c
    <3>1. c \in Seq(S) /\ Len(c) = Len(ps) - 1 /\ Len(c) + 1 = Len(ps)
      BY <1>1, <2>3 DEF c
    <3>2. Append(c, p) \in Seq(S) /\ Len(Append(c, p)) = Len(c) + 1 /\ Append(c, p)[Len(c) + 1] = p
          /\ \A i \in 1..Len(c) : Append(c, p)[i] = c[i]
      BY <3>1
    <3> QED
      BY <2>3, <3>1, <3>2 DEF c
  <2>5. a \in Seq(S) /\ Len(a) = Len(ps) /\ \A i \in 1..Len(ps) : a[i] = q[i + 1]
    BY <1>1, <1>2
  <2> HIDE DEF a, b
  <2>6. ASSUME NEW i \in 1..Len(a) PROVE a[i] = b[i]
    <3>1. CASE i = Len(ps)
      BY <1>1, <2>4, <2>5, <3>1
    <3>2. CASE i # Len(ps)
      <4>1. i \in 1..(Len(ps) - 1) /\ i + 1 \in 1..Len(ps)
        BY <1>1, <2>5, <3>2
      <4> QED
        BY <1>1, <2>4, <2>5, <4>1
    <3> QED
      BY <3>1, <3>2
  <2>7. a = b
    BY <2>4, <2>5, <2>6, SeqEqual
  <2> QED
    BY <2>2, <2>7 DEF a, b
<1> QED
  BY <1>1, <1>2, <1>3, <1>4 DEF q

-----------------------------------------------------------------------------
LEMMA GrowsFor ==
  ASSUME delim \in Seq(Byte), NEW h \in Seq(Byte), NEW u \in Seq(Byte), NEW now \in Seq(Byte),
         NEW ps \in Seq(Pictures), FollowsFor(delim, h, u, now, ps),
         NEW p \in Pictures, NEW tail \in Tails, NEW x, x = Part(p, tail)
  PROVE  FollowsFor(delim, h, u \o x, now, Append(ps, p))
BY FollowsGrows DEF Follows

LEMMA ExpectedGrows ==
  ASSUME ReaderInv, Sent, link # "none", NEW u \in Seq(Byte), Expected(u),
         NEW p \in Pictures, NEW tail \in Tails, NEW x, x = Part(p, tail),
         pictures' = Append(pictures, p), UNCHANGED <<pc, reading, line, delim, taken, fresh>>
  PROVE  Expected(u \o x)'
<1>1. /\ delim \in Seq(Byte) /\ line \in Seq(Byte) /\ taken \in Seq(Byte)
      /\ pictures \in Seq(Pictures) /\ CrLf \in Seq(Byte) /\ <<>> \in Seq(Byte)
  BY BytesAreBytes, EmptyType DEF ReaderInv, ReaderTypeOK
<1>2. /\ Append(pictures, p) # <<>>
      /\ pictures # <<>> => /\ Head(Append(pictures, p)) = Head(pictures)
                            /\ Tail(Append(pictures, p)) = Append(Tail(pictures), p)
                            /\ Tail(pictures) \in Seq(Pictures) /\ Head(pictures) \in Pictures
  <2>1. pictures \in Seq(Pictures) /\ p \in Pictures
    BY <1>1
  <2>2. /\ Append(pictures, p) # <<>>
        /\ pictures # <<>> => /\ Head(Append(pictures, p)) = Head(pictures)
                              /\ Tail(Append(pictures, p)) = Append(Tail(pictures), p)
    BY <2>1, Grown
  <2>3. pictures # <<>> => Tail(pictures) \in Seq(Pictures) /\ Head(pictures) \in Pictures
    BY <2>1
  <2> QED
    BY <2>2, <2>3
<1>3. ASSUME pictures # <<>>, NEW t \in Tails
      PROVE  /\ BodyFor(delim, Head(pictures), t) \in Seq(Byte)
             /\ CrLf \o BodyFor(delim, Head(pictures), t) \in Seq(Byte) /\ t \o CrLf \in Seq(Byte)
  <2>1. Head(pictures) \in Seq(Byte)
    BY <1>2, <1>3, InputsAreBytes
  <2> QED
    BY <1>1, <2>1, BodyType DEF Body
<1>4. (pc = "open" => Follows(line, u \o x, delim \o CrLf, pictures))'
  <2> SUFFICES ASSUME pc = "open"
               PROVE  FollowsFor(delim, line, u \o x, delim \o CrLf, Append(pictures, p))
    BY DEF Follows
  <2>1. delim \o CrLf \in Seq(Byte)
    BY <1>1, Cat
  <2> QED
    BY <1>1, <2>1, GrowsFor DEF Expected, Follows
<1>5. (pc = "check" => Follows(<<>>, u \o x, <<>>, Drop(pictures, Len(fresh))))'
  <2> SUFFICES ASSUME pc = "check"
               PROVE  FollowsFor(delim, <<>>, u \o x, <<>>, Drop(Append(pictures, p), Len(fresh)))
    BY DEF Follows
  <2>1. FollowsFor(delim, <<>>, u, <<>>, Drop(pictures, Len(fresh)))
    BY DEF Expected, Follows
  <2>2. CASE fresh = <<>>
    <3>1. Len(fresh) = 0
      BY <2>2
    <3>2. Drop(pictures, 0) = pictures /\ Drop(Append(pictures, p), 0) = Append(pictures, p)
      BY <1>1, DropSome, Grown
    <3> QED
      BY <1>1, <2>1, <3>1, <3>2, GrowsFor
  <2>3. CASE pictures # <<>> /\ fresh = <<Head(pictures)>>
    <3>1. Len(fresh) = 1
      BY <2>3
    <3>2. /\ Drop(pictures, 1) = Tail(pictures) /\ Tail(pictures) \in Seq(Pictures)
          /\ Drop(Append(pictures, p), 1) = Append(Tail(pictures), p)
      BY <1>1, <1>2, <2>3, DropSome, Grown
    <3> QED
      BY <1>1, <2>1, <3>1, <3>2, GrowsFor
  <2> QED
    BY <2>2, <2>3 DEF Sent, FreshOK
<1>6. (pc = "part" /\ reading = "headers" => InHeaders(u \o x))'
  <2> SUFFICES ASSUME pc = "part", reading = "headers" PROVE InHeaders(u \o x)'
    OBVIOUS
  <2>1. CASE Follows(line, u, <<>>, pictures)
    <3>1. FollowsFor(delim, line, u \o x, <<>>, Append(pictures, p))
      BY <1>1, <2>1, GrowsFor DEF Follows
    <3> QED
      BY <3>1 DEF InHeaders, Follows
  <2>2. CASE pictures # <<>> /\ \E t \in Tails :
               Follows(line, u, CrLf \o Body(Head(pictures), t), Tail(pictures))
    <3>1. PICK t \in Tails :
            FollowsFor(delim, line, u, CrLf \o BodyFor(delim, Head(pictures), t), Tail(pictures))
      BY <2>2 DEF Follows, Body
    <3>2. FollowsFor(delim, line, u \o x, CrLf \o BodyFor(delim, Head(pictures), t),
                     Append(Tail(pictures), p))
      BY <1>1, <1>2, <1>3, <2>2, <3>1, GrowsFor
    <3>3. FollowsFor(delim', line', u \o x, CrLf \o BodyFor(delim', Head(pictures'), t),
                     Tail(pictures'))
      BY <1>2, <2>2, <3>2
    <3> QED
      BY <1>2, <3>3 DEF InHeaders, Follows, Body
  <2> QED
    BY <2>1, <2>2 DEF Expected, InHeaders
<1>7. (pc = "part" /\ reading = "body" => InPicture(u \o x))'
  <2> SUFFICES ASSUME pc = "part", reading = "body" PROVE InPicture(u \o x)'
    OBVIOUS
  <2>1. InPicture(u)
    BY DEF Expected
  <2>2. PICK t \in Tails :
          FollowsFor(delim, taken, u, BodyFor(delim, Head(pictures), t), Tail(pictures))
    BY <2>1 DEF InPicture, Follows, Body
  <2>3. pictures # <<>>
    BY <2>1 DEF InPicture
  <2>4. FollowsFor(delim, taken, u \o x, BodyFor(delim, Head(pictures), t), Append(Tail(pictures), p))
    BY <1>1, <1>2, <1>3, <2>2, <2>3, GrowsFor
  <2>5. FollowsFor(delim', taken', u \o x, BodyFor(delim', Head(pictures'), t), Tail(pictures'))
    BY <1>2, <2>3, <2>4
  <2>6. line' = <<>> /\ pictures' # <<>> /\ Len(taken') < Len(Head(pictures')) + 2 + Len(delim')
    BY <1>2, <2>1, <2>3 DEF InPicture
  <2> QED
    BY <2>5, <2>6 DEF InPicture, Follows, Body
<1>8. (pc = "part" /\ reading = "rest" => InRest(u \o x))'
  <2> SUFFICES ASSUME pc = "part", reading = "rest" PROVE InRest(u \o x)'
    OBVIOUS
  <2>1. PICK t \in Tails : FollowsFor(delim, line, u, t \o CrLf, Tail(pictures))
    BY DEF Expected, InRest, Follows
  <2>2. pictures # <<>>
    BY DEF Expected, InRest
  <2>3. FollowsFor(delim, line, u \o x, t \o CrLf, Append(Tail(pictures), p))
    BY <1>1, <1>2, <1>3, <2>1, <2>2, GrowsFor
  <2>4. FollowsFor(delim', line', u \o x, t \o CrLf, Tail(pictures'))
    BY <1>2, <2>2, <2>3
  <2> QED
    BY <1>2, <2>4 DEF InRest, Follows
<1> QED
  BY <1>4, <1>5, <1>6, <1>7, <1>8 DEF Expected

LEMMA ServesOnNextPicture ==
  ASSUME ReaderInv, ServeInv, NextPicture
  PROVE  ServeInv'
<1>1. /\ link = "up" /\ left = <<>>
      /\ UNCHANGED <<pc, receiving, stop, link, delim, chunked, wire, remaining, done, buf, reading,
                     line, matched, out, taken, fresh, failed>>
  BY DEF NextPicture, videoVars, chunks, search
<1>2. SUFFICES ASSUME ~failed, Sent, Waiting => OnCourse, NothingIsMissed PROVE ServeInv'
  BY <1>1 DEF ServeInv
<1>3. PICK p \in Pictures, tail \in Tails :
        ~Occurs(delim, p) /\ pictures' = Append(pictures, p) /\ left' = Part(p, tail)
  BY DEF NextPicture, Tails
<1>4. PICK x : x = Part(p, tail)
  OBVIOUS
<1>5. /\ pictures \in Seq(Pictures) /\ ReaderTypeOK /\ delim \in Seq(Byte)
      /\ pictures' # <<>> /\ (pictures # <<>> => Head(pictures') = Head(pictures))
      /\ \A i \in 1..Len(pictures') : pictures'[i] = p \/ (i \in 1..Len(pictures) /\ pictures'[i] = pictures[i])
  <2>1. pictures \in Seq(Pictures) /\ p \in Pictures
    BY DEF ReaderInv, ReaderTypeOK
  <2>2. /\ pictures' # <<>> /\ (pictures # <<>> => Head(pictures') = Head(pictures))
        /\ \A i \in 1..Len(pictures') : pictures'[i] = p \/ (i \in 1..Len(pictures) /\ pictures'[i] = pictures[i])
    BY <1>3, <2>1, Grown
  <2> QED
    BY <2>1, <2>2 DEF ReaderInv, ReaderTypeOK
<1>6. x \in Seq(Byte) /\ x # <<>>
  <2>1. p \in Seq(Byte) /\ tail \in Seq(Byte)
    BY InputsAreBytes, TailType
  <2>2. x = Header \o (CrLf \o (CrLf \o Body(p, tail)))
    BY <1>4, <1>5, <2>1, PartIs
  <2> DEFINE y == CrLf \o (CrLf \o Body(p, tail))
  <2>3. y \in Seq(Byte) /\ Header \in Seq(Byte) /\ x \in Seq(Byte)
    BY <1>4, <1>5, <2>1, BodyType, InputsAreBytes, PartType
  <2> HIDE DEF y
  <2>4. Header # <<>>
    BY ReaderAssumption
  <2>5. Header \o y # <<>>
    BY <2>3, <2>4, HeadOfCat
  <2> QED
    BY <2>2, <2>3, <2>5 DEF y
<1>7. Sent'
  <2>1. FreshOK'
    BY <1>1, <1>2, <1>5 DEF Sent, FreshOK
  <2>2. (\A i \in 1..Len(pictures) : ~Occurs(delim, pictures[i]))'
    BY <1>1, <1>2, <1>3, <1>5 DEF Sent, Occurs
  <2>3. (pc = "part" /\ reading = "rest" => pictures # <<>> /\ out = Head(pictures) \o CrLf)'
    BY <1>1, <1>2, <1>5 DEF Sent
  <2> QED
    BY <1>1, <1>2, <2>1, <2>2, <2>3 DEF Sent
<1>8. Waiting' => OnCourse'
  <2> SUFFICES ASSUME Waiting' PROVE OnCourse'
    OBVIOUS
  <2>1. PICK u : Pending(u) /\ Expected(u)
    BY <1>1, <1>2 DEF Waiting, OnCourse, CutShort
  <2>2. u \in Seq(Byte)
    BY <1>5, <2>1, PendingType
  <2>3. Pending(u \o x)'
    BY <1>1, <1>3, <1>4, <1>5, <1>6, <2>1, PendingGrows
  <2>4. Expected(u \o x)'
    BY <1>1, <1>2, <1>3, <1>4, <2>1, <2>2, ExpectedGrows
  <2> QED
    BY <2>3, <2>4 DEF OnCourse
<1>9. NothingIsMissed'
  <2>1. ~AtEof
    BY <1>1, <1>2 DEF AtEof, Sent
  <2> QED
    BY <1>1, <1>2, <1>5, <2>1 DEF NothingIsMissed
<1> QED
  BY <1>7, <1>8, <1>9 DEF ServeInv

LEMMA ServesOnFill ==
  ASSUME ReaderInv, ServeInv, Fill
  PROVE  ServeInv'
<1>1. /\ link # "none" /\ pc \in {"open", "part"} /\ buf = <<>>
      /\ UNCHANGED <<pc, receiving, stop, link, delim, chunked, left, pictures, reading,
                     line, matched, out, taken, fresh, failed>>
  BY DEF Fill, Wanting, videoVars, served, search
<1>2. SUFFICES ASSUME ~failed, Sent, OnCourse PROVE ServeInv'
  BY <1>1 DEF ServeInv, Waiting
<1>3. PICK u : Pending(u) /\ Expected(u)
  <2>1. ~CutShort
    BY DEF Fill, FillPlain, FillFromChunk, LastChunk, CutShort
  <2> QED
    BY <1>2, <2>1 DEF OnCourse
<1>4. Pending(u)'
  BY <1>3, PendingOnFill DEF ReaderInv
<1>5. Expected(u)'
  BY <1>1, <1>3 DEF Expected, InHeaders, InPicture, InRest, Follows, Body
<1>6. (done => link = "closed")'
  BY <1>4 DEF Pending, Arriving
<1>7. Sent'
  BY <1>1, <1>2, <1>6 DEF Sent, FreshOK
<1>8. NothingIsMissed'
  BY <1>1 DEF NothingIsMissed
<1> QED
  BY <1>4, <1>5, <1>7, <1>8 DEF ServeInv, OnCourse

-----------------------------------------------------------------------------
(* The reader, reading lines. *)
LEMMA NoLFGrows ==
  ASSUME NEW l \in Seq(Byte), NoLF(l), NEW b \in Byte, b # LF
  PROVE  NoLF(Append(l, b))
<1>1. Len(Append(l, b)) = Len(l) + 1 /\ Len(l) \in Nat /\ Append(l, b)[Len(l) + 1] = b
      /\ \A i \in 1..Len(l) : Append(l, b)[i] = l[i]
  OBVIOUS
<1> QED
  BY <1>1 DEF NoLF

LEMMA ServesOnInLine ==
  ASSUME ReaderInv, ServeInv, InLine
  PROVE  ServeInv'
<1>1. /\ UNCHANGED <<pc, receiving, stop, link, delim, chunked, left, wire, remaining, done,
                     pictures, reading, matched, out, taken, fresh, failed>>
      /\ buf # <<>> /\ buf' = Tail(buf) /\ line' = Append(line, Head(buf))
      /\ ~EndsLine(Head(buf)) /\ (pc = "open" \/ (pc = "part" /\ reading # "body"))
  BY DEF InLine, videoVars, served, chunks, search
<1>2. Waiting
  BY DEF InLine, Waiting, ReaderInv, Place
<1>3. SUFFICES ASSUME ~failed, Sent, OnCourse PROVE ServeInv'
  BY <1>1, <1>2 DEF ServeInv
<1>4. PICK u \in Seq(Byte) :
        u # <<>> /\ Head(u) = Head(buf) /\ Expected(u) /\ Pending(Tail(u))'
  BY <1>1, <1>2, <1>3, NextByte
<1>5. line \in Seq(Byte) /\ Head(u) \in Byte /\ line' = Append(line, Head(u))
  BY <1>1, <1>4, HeadTailType DEF ReaderInv, ReaderTypeOK
<1>6. ASSUME NEW now, NEW ps, FollowsFor(delim, line, u, now, ps)
      PROVE  FollowsFor(delim', line', Tail(u), now, ps)
  BY <1>1, <1>4, <1>5, <1>6, FollowsTaken DEF Follows
<1>7. Expected(Tail(u))'
  <2>1. pc = "open" => FollowsFor(delim', line', Tail(u), delim' \o CrLf, pictures')
    BY <1>1, <1>4, <1>6 DEF Expected, Follows
  <2>2. pc = "part" /\ reading = "headers" => InHeaders(Tail(u))'
    <3> SUFFICES ASSUME pc = "part", reading = "headers" PROVE InHeaders(Tail(u))'
      OBVIOUS
    <3>1. CASE FollowsFor(delim, line, u, <<>>, pictures)
      BY <1>1, <1>6, <3>1 DEF InHeaders, Follows
    <3>2. CASE pictures # <<>> /\ \E t \in Tails :
                 FollowsFor(delim, line, u, CrLf \o BodyFor(delim, Head(pictures), t), Tail(pictures))
      <4>1. PICK t \in Tails :
              FollowsFor(delim, line, u, CrLf \o BodyFor(delim, Head(pictures), t), Tail(pictures))
        BY <3>2
      <4>2. FollowsFor(delim', line', Tail(u), CrLf \o BodyFor(delim', Head(pictures'), t), Tail(pictures'))
        BY <1>1, <1>6, <4>1
      <4> QED
        BY <1>1, <3>2, <4>2 DEF InHeaders, Follows, Body
    <3> QED
      BY <1>4, <3>1, <3>2 DEF Expected, InHeaders, Follows, Body
  <2>3. pc = "part" /\ reading = "rest" => InRest(Tail(u))'
    <3> SUFFICES ASSUME pc = "part", reading = "rest" PROVE InRest(Tail(u))'
      OBVIOUS
    <3>1. PICK t \in Tails : FollowsFor(delim, line, u, t \o CrLf, Tail(pictures))
      BY <1>4 DEF Expected, InRest, Follows
    <3>2. FollowsFor(delim', line', Tail(u), t \o CrLf, Tail(pictures'))
      BY <1>1, <1>6, <3>1
    <3> QED
      BY <1>1, <1>4, <3>2 DEF Expected, InRest, Follows
  <2> QED
    BY <1>1, <2>1, <2>2, <2>3 DEF Expected, Follows
<1>8. NoLF(line')
  BY <1>1, <1>3, <1>4, <1>5, NoLFGrows DEF EndsLine, Sent
<1>9. Sent'
  BY <1>1, <1>3, <1>8 DEF Sent, FreshOK, NoLF
<1>10. NothingIsMissed'
  BY <1>1 DEF NothingIsMissed
<1> QED
  BY <1>4, <1>7, <1>9, <1>10 DEF ServeInv, OnCourse

(* How a line ends: with its last byte, unless nothing more comes. *)
LEMMA LineEndsHow ==
  ASSUME ReaderInv, ServeInv, ~failed, Waiting, pc # "check", LineComplete
  PROVE  \/ CutShort /\ CutShort'
         \/ \E u \in Seq(Byte) :
              /\ u # <<>> /\ EndsLine(Head(u)) /\ Expected(u) /\ Pending(Tail(u))'
              /\ WholeLine = Append(line, Head(u))
<1>1. UNCHANGED <<link, delim, chunked, left, wire, remaining, done, pictures, failed>>
  BY DEF LineComplete, served, chunks
<1>2. CASE AtEof /\ line # <<>> /\ UNCHANGED buf
  BY <1>1, <1>2, EndMeans DEF CutShort
<1>3. CASE buf # <<>> /\ EndsLine(Head(buf)) /\ buf' = Tail(buf)
  <2>1. PICK u \in Seq(Byte) :
          u # <<>> /\ Head(u) = Head(buf) /\ Expected(u) /\ Pending(Tail(u))'
    BY <1>1, <1>3, NextByte
  <2>2. WholeLine = Append(line, Head(u))
    BY <1>3, <2>1 DEF WholeLine
  <2> QED
    BY <1>3, <2>1, <2>2
<1> QED
  BY <1>2, <1>3 DEF LineComplete

LEMMA ServesOnFirstBoundary ==
  ASSUME ReaderInv, ServeInv, FirstBoundary
  PROVE  ServeInv'
<1>1. /\ UNCHANGED <<receiving, stop, link, delim, chunked, left, wire, remaining, done,
                     pictures, matched, out, taken, fresh, failed>>
      /\ pc = "open" /\ pc' = "check" /\ reading' = "headers" /\ line' = <<>> /\ link # "none"
  BY DEF FirstBoundary, Open, owner, LineComplete, served, chunks, search
<1>2. Waiting
  BY <1>1 DEF Waiting
<1>3. SUFFICES ASSUME ~failed, Sent, OnCourse PROVE ServeInv'
  BY <1>1, <1>2 DEF ServeInv
<1>4. fresh' = <<>> /\ Len(fresh') = 0 /\ pictures \in Seq(Pictures) /\ line \in Seq(Byte)
      /\ NoLF(line) /\ DelimOK /\ Drop(pictures, 0) = pictures
  BY <1>1, <1>3, DelimNow, DropSome DEF Sent, ReaderInv, ReaderTypeOK
<1>5. OnCourse'
  <2>1. CASE CutShort /\ CutShort'
    BY <2>1 DEF OnCourse
  <2>2. CASE \E u \in Seq(Byte) :
               u # <<>> /\ EndsLine(Head(u)) /\ Expected(u) /\ Pending(Tail(u))'
    <3>1. PICK u \in Seq(Byte) :
            u # <<>> /\ EndsLine(Head(u)) /\ Expected(u) /\ Pending(Tail(u))'
      BY <2>2
    <3>2. Follows(<<>>, Tail(u), <<>>, pictures)
      BY <1>1, <1>4, <3>1, OpenLine DEF Expected
    <3>3. FollowsFor(delim', <<>>, Tail(u), <<>>, Drop(pictures', Len(fresh')))
      BY <1>1, <1>4, <3>2 DEF Follows
    <3>4. Expected(Tail(u))'
      BY <1>1, <3>3 DEF Expected, Follows
    <3> QED
      BY <3>1, <3>4 DEF OnCourse
  <2>3. LineComplete
    BY DEF FirstBoundary
  <2> QED
    BY <1>1, <1>2, <1>3, <2>1, <2>2, <2>3, LineEndsHow
<1>6. Sent'
  BY <1>1, <1>3, <1>4, NoLFAtFirst DEF Sent, FreshOK, NoLF
<1>7. NothingIsMissed'
  BY <1>1 DEF NothingIsMissed
<1> QED
  BY <1>5, <1>6, <1>7 DEF ServeInv

(* What it gives up has ended. *)
LEMMA GivesUp ==
  ASSUME ReaderInv, ServeInv, link # "none", pc \in {"open", "part"}, pc' = "report", AtEof,
         UNCHANGED <<link, delim, chunked, left, wire, done, buf, pictures, line, fresh, failed>>
  PROVE  ServeInv'
<1>1. SUFFICES ASSUME ~failed, Sent PROVE ServeInv'
  BY DEF ServeInv
<1>2. Waiting /\ fresh = <<>>
  BY <1>1 DEF Waiting, Sent
<1>3. Sent'
  BY <1>1, <1>2 DEF Sent, FreshOK
<1>4. AtEof' /\ (CutShort \/ pictures = <<>>)
  <2>1. AtEof'
    BY DEF AtEof
  <2> QED
    BY <1>1, <1>2, <2>1, EndMeans
<1>5. NothingIsMissed'
  BY <1>2, <1>4 DEF NothingIsMissed, CutShort
<1> QED
  BY <1>3, <1>5 DEF ServeInv, Waiting

(* Nothing is claimed once a read failed. *)
LEMMA FailedServes ==
  ASSUME ReadFails
  PROVE  ServeInv'
BY DEF ReadFails, ServeInv

LEMMA ServesOnNothing ==
  ASSUME ReaderInv, ServeInv, NoFirstBoundary \/ NoHeader \/ BodyEnds
  PROVE  ServeInv'
<1>1. /\ pc \in {"open", "part"} /\ pc' = "report" /\ link # "none"
      /\ UNCHANGED <<line, matched, out, taken, fresh>>
      /\ ReadFails \/ (AtEof /\ UNCHANGED <<served, chunks, buf, failed>>)
  BY DEF NoFirstBoundary, NoHeader, BodyEnds, OpenFails, PartFails, InBody, NoLine, LineMissing,
         search, ReaderInv, Place
<1>2. CASE ReadFails
  BY <1>2, FailedServes
<1>3. CASE AtEof /\ UNCHANGED <<served, chunks, buf, failed>>
  BY <1>1, <1>3, GivesUp DEF served, chunks
<1> QED
  BY <1>1, <1>2, <1>3

LEMMA ServesOnNextPart ==
  ASSUME ReaderInv, ServeInv, NextPart
  PROVE  ServeInv'
<1>1. /\ UNCHANGED <<receiving, stop, link, delim, chunked, left, wire, remaining, done, buf,
                     reading, line, matched, out, taken, failed>>
      /\ pc = "check" /\ pc' = (IF stop THEN "report" ELSE "part") /\ fresh' = <<>>
      /\ pictures' = SubSeq(pictures, 1 + Len(fresh), Len(pictures))
      /\ link # "none" /\ reading = "headers" /\ line = <<>>
  BY DEF NextPart, Check, owner, chunks, search, ReaderInv, Place
<1>2. SUFFICES ASSUME ~failed, Sent, OnCourse PROVE ServeInv'
  BY <1>1 DEF ServeInv, Waiting
<1>3. pictures \in Seq(Pictures)
  BY DEF ReaderInv, ReaderTypeOK
<1>4. pictures' = Drop(pictures, Len(fresh))
  <2>1. CASE fresh = <<>>
    <3>1. Len(fresh) = 0
      BY <2>1
    <3> QED
      BY <1>1, <3>1 DEF Drop
  <2>2. CASE pictures # <<>> /\ fresh = <<Head(pictures)>>
    <3>1. Len(fresh) = 1
      BY <2>2
    <3> QED
      BY <1>1, <3>1 DEF Drop
  <2> QED
    BY <1>2, <2>1, <2>2 DEF Sent, FreshOK
<1>5. \A i \in 1..Len(pictures') : ~Occurs(delim, pictures'[i])
  <2>1. CASE fresh = <<>>
    <3>1. pictures' = pictures
      <4>1. Len(fresh) = 0
        BY <2>1
      <4> QED
        BY <1>3, <1>4, <4>1, DropSome
    <3> QED
      BY <1>2, <3>1 DEF Sent
  <2>2. CASE pictures # <<>> /\ fresh = <<Head(pictures)>>
    <3>1. pictures' = Tail(pictures)
      <4>1. Len(fresh) = 1
        BY <2>2
      <4> QED
        BY <1>3, <1>4, <2>2, <4>1, DropSome
    <3>2. /\ Len(pictures) \in Nat /\ Len(Tail(pictures)) = Len(pictures) - 1
          /\ \A i \in 1..(Len(pictures) - 1) : Tail(pictures)[i] = pictures[i + 1]
      BY <1>3, <2>2
    <3> QED
      BY <1>2, <3>1, <3>2 DEF Sent
  <2> QED
    BY <1>2, <2>1, <2>2 DEF Sent, FreshOK
<1>6. Sent'
  <2>1. (\A i \in 1..Len(pictures) : ~Occurs(delim, pictures[i]))'
    BY <1>1, <1>5 DEF Occurs
  <2>2. FreshOK' /\ fresh' = <<>>
    BY <1>1 DEF FreshOK
  <2>3. (NoLF(line))' /\ (done => link = "closed")'
    BY <1>1, <1>2 DEF Sent, NoLF
  <2> QED
    BY <1>1, <2>1, <2>2, <2>3 DEF Sent
<1>7. Waiting' => OnCourse'
  <2> SUFFICES ASSUME Waiting' PROVE OnCourse'
    OBVIOUS
  <2>1. CASE CutShort
    BY <1>1, <2>1 DEF OnCourse, CutShort
  <2>2. CASE \E u : Pending(u) /\ Expected(u)
    <3>1. PICK u : Pending(u) /\ Expected(u)
      BY <2>2
    <3>2. Pending(u)'
      BY <1>1, <3>1, PendingStays
    <3>3. FollowsFor(delim', line', u, <<>>, pictures')
      BY <1>1, <1>4, <3>1 DEF Expected, Follows
    <3>4. Expected(u)'
      BY <1>1, <3>3 DEF Expected, InHeaders, Follows
    <3> QED
      BY <3>2, <3>4 DEF OnCourse
  <2> QED
    BY <1>2, <2>1, <2>2 DEF OnCourse
<1>8. NothingIsMissed'
  BY <1>1 DEF NothingIsMissed
<1> QED
  BY <1>6, <1>7, <1>8 DEF ServeInv

-----------------------------------------------------------------------------
LEMMA ServesOnHeaderLine ==
  ASSUME ReaderInv, ServeInv, HeaderLine
  PROVE  ServeInv'
<1>1. /\ UNCHANGED <<pc, receiving, stop, link, delim, chunked, left, wire, remaining, done,
                     pictures, matched, out, taken, fresh, failed>>
      /\ pc = "part" /\ reading = "headers" /\ line' = <<>> /\ link # "none"
      /\ reading' = (IF Blank(WholeLine) THEN "body" ELSE "headers")
  BY DEF HeaderLine, videoVars, LineComplete, served, chunks, search, ReaderInv, Place
<1>2. Waiting
  BY <1>1 DEF Waiting
<1>3. SUFFICES ASSUME ~failed, Sent, OnCourse PROVE ServeInv'
  BY <1>1, <1>2 DEF ServeInv
<1>4. /\ pictures \in Seq(Pictures) /\ line \in Seq(Byte) /\ delim \in Seq(Byte)
      /\ NoLF(line) /\ DelimOK /\ taken = <<>>
  BY <1>1, <1>3, DelimNow DEF Sent, ReaderInv, ReaderTypeOK, Place, Started
<1>5. OnCourse'
  <2>1. CASE CutShort /\ CutShort'
    BY <2>1 DEF OnCourse
  <2>2. CASE \E u \in Seq(Byte) :
               /\ u # <<>> /\ EndsLine(Head(u)) /\ Expected(u) /\ Pending(Tail(u))'
               /\ WholeLine = Append(line, Head(u))
    <3>1. PICK u \in Seq(Byte) :
            /\ u # <<>> /\ EndsLine(Head(u)) /\ Expected(u) /\ Pending(Tail(u))'
            /\ WholeLine = Append(line, Head(u))
      BY <2>2
    <3>2. AfterHeader(u) \/ AfterBlank(u)
      BY <1>1, <1>4, <3>1, HeadersAre DEF Expected
    <3>3. CASE AfterHeader(u)
      <4>1. PICK t \in Tails : FollowsFor(delim, <<>>, Tail(u),
                                 CrLf \o BodyFor(delim, Head(pictures), t), Tail(pictures))
        BY <3>3 DEF AfterHeader, Follows, Body
      <4>2. FollowsFor(delim', line', Tail(u),
                       CrLf \o BodyFor(delim', Head(pictures'), t), Tail(pictures'))
        BY <1>1, <4>1
      <4>3. reading' = "headers" /\ pictures' # <<>>
        BY <1>1, <3>1, <3>3 DEF AfterHeader
      <4>4. Expected(Tail(u))'
        BY <1>1, <4>2, <4>3 DEF Expected, InHeaders, Follows, Body
      <4> QED
        BY <3>1, <4>4 DEF OnCourse
    <3>4. CASE AfterBlank(u)
      <4>1. PICK t \in Tails : FollowsFor(delim, <<>>, Tail(u),
                                 BodyFor(delim, Head(pictures), t), Tail(pictures))
        BY <3>4 DEF AfterBlank, Follows, Body
      <4>2. FollowsFor(delim', taken', Tail(u), BodyFor(delim', Head(pictures'), t), Tail(pictures'))
        BY <1>1, <1>4, <4>1
      <4>3. reading' = "body" /\ pictures' # <<>>
        BY <1>1, <3>1, <3>4 DEF AfterBlank
      <4>4. Len(taken') < Len(Head(pictures')) + 2 + Len(delim')
        <5>1. Len(taken') = 0 /\ Len(delim) \in Nat
          BY <1>1, <1>4
        <5>2. Head(pictures) \in Pictures
          BY <1>1, <1>4, <4>3
        <5>3. Len(Head(pictures)) \in Nat
          BY <5>2, InputsAreBytes, LenProperties
        <5> QED
          BY <1>1, <5>1, <5>3
      <4>5. Expected(Tail(u))'
        BY <1>1, <4>2, <4>3, <4>4 DEF Expected, InPicture, Follows, Body
      <4> QED
        BY <3>1, <4>5 DEF OnCourse
    <3> QED
      BY <3>2, <3>3, <3>4
  <2>3. LineComplete
    BY DEF HeaderLine
  <2> QED
    BY <1>1, <1>2, <1>3, <2>1, <2>2, <2>3, LineEndsHow
<1>6. Sent'
  BY <1>1, <1>3, NoLFAtFirst DEF Sent, FreshOK, NoLF
<1>7. NothingIsMissed'
  BY <1>1 DEF NothingIsMissed
<1> QED
  BY <1>5, <1>6, <1>7 DEF ServeInv

-----------------------------------------------------------------------------
(* The reader, searching. *)
LEMMA SearchTakesNext ==
  ASSUME ReaderInv, ServeInv, ~failed, Searching, InBody
  PROVE  /\ DelimOK /\ link # "none" /\ Sent
         /\ UNCHANGED <<link, delim, chunked, left, wire, remaining, done, pictures, line, fresh,
                        failed>>
         /\ \E u \in Seq(Byte) :
              /\ u # <<>> /\ Head(u) = Head(buf) /\ InPicture(u) /\ Pending(Tail(u))'
<1>1. /\ link # "none" /\ pc = "part" /\ reading = "body" /\ buf # <<>> /\ buf' = Tail(buf)
      /\ UNCHANGED <<link, delim, chunked, left, wire, remaining, done, pictures, line, fresh,
                     failed>>
  BY DEF Searching, InBody, ReaderInv, Place, served, chunks
<1>2. Waiting
  BY <1>1 DEF Waiting
<1>3. PICK u \in Seq(Byte) :
        u # <<>> /\ Head(u) = Head(buf) /\ Expected(u) /\ Pending(Tail(u))'
  BY <1>1, <1>2, NextByte
<1> QED
  BY <1>1, <1>3, DelimNow DEF Expected, ServeInv

LEMMA ServesOnBodyByte ==
  ASSUME ReaderInv, ServeInv, BodyByte
  PROVE  ServeInv'
<1>1. /\ Searching /\ InBody /\ matched' < Len(delim) /\ failed' = failed
      /\ UNCHANGED <<pc, receiving, stop, reading>>
  BY DEF BodyByte, Searching, videoVars
<1>2. SUFFICES ASSUME ~failed PROVE ServeInv'
  BY <1>1 DEF ServeInv
<1>3. /\ DelimOK /\ link # "none" /\ Sent
      /\ UNCHANGED <<link, delim, chunked, left, wire, remaining, done, pictures, line, fresh,
                     failed>>
  BY <1>1, <1>2, SearchTakesNext
<1>4. PICK u \in Seq(Byte) :
        u # <<>> /\ Head(u) = Head(buf) /\ InPicture(u) /\ Pending(Tail(u))'
  BY <1>1, <1>2, SearchTakesNext
<1>5. PICK t \in Tails :
        FollowsFor(delim, taken', Tail(u), BodyFor(delim, Head(pictures), t), Tail(pictures))
  BY <1>1, <1>3, <1>4, PictureByte DEF Follows, Body
<1>6. Len(taken') < Len(Head(pictures)) + 2 + Len(delim)
  BY <1>1, <1>3, <1>4, PictureContinues DEF PictureLen
<1>7. Expected(Tail(u))'
  <2>1. FollowsFor(delim', taken', Tail(u), BodyFor(delim', Head(pictures'), t), Tail(pictures'))
    BY <1>3, <1>5
  <2>2. line' = <<>> /\ pictures' # <<>> /\ Len(taken') < Len(Head(pictures')) + 2 + Len(delim')
    BY <1>3, <1>4, <1>6 DEF InPicture
  <2>3. pc' = "part" /\ reading' = "body"
    BY <1>1 DEF InBody
  <2> QED
    BY <2>1, <2>2, <2>3 DEF Expected, InPicture, Follows, Body
<1>8. Sent'
  BY <1>1, <1>3 DEF Sent, FreshOK, InBody
<1>9. NothingIsMissed'
  BY <1>1 DEF NothingIsMissed, InBody
<1> QED
  BY <1>4, <1>7, <1>8, <1>9 DEF ServeInv, OnCourse

LEMMA ServesOnBoundary ==
  ASSUME ReaderInv, ServeInv, Boundary
  PROVE  ServeInv'
<1>1. /\ Searching /\ InBody /\ matched' = Len(delim) /\ failed' = failed /\ reading' = "rest"
      /\ UNCHANGED <<pc, receiving, stop>>
  BY DEF Boundary, Searching, videoVars
<1>2. SUFFICES ASSUME ~failed PROVE ServeInv'
  BY <1>1 DEF ServeInv
<1>3. /\ DelimOK /\ link # "none" /\ Sent
      /\ UNCHANGED <<link, delim, chunked, left, wire, remaining, done, pictures, line, fresh,
                     failed>>
  BY <1>1, <1>2, SearchTakesNext
<1>4. PICK u \in Seq(Byte) :
        u # <<>> /\ Head(u) = Head(buf) /\ InPicture(u) /\ Pending(Tail(u))'
  BY <1>1, <1>2, SearchTakesNext
<1>5. pictures # <<>> /\ line = <<>> /\ ~Occurs(delim, Head(pictures))
  <2>1. pictures # <<>> /\ line = <<>> /\ pictures \in Seq(Pictures)
    BY <1>4 DEF InPicture, ReaderInv, ReaderTypeOK
  <2>2. 1 \in 1..Len(pictures) /\ Head(pictures) = pictures[1]
    BY <2>1
  <2> QED
    BY <1>3, <2>1, <2>2 DEF Sent
<1>6. /\ out' = Head(pictures) \o CrLf
      /\ \E t \in Tails : Follows(<<>>, Tail(u), t \o CrLf, Tail(pictures))
  BY <1>1, <1>3, <1>4, <1>5, PictureEnds
<1>7. Expected(Tail(u))'
  <2>1. PICK t \in Tails : FollowsFor(delim, <<>>, Tail(u), t \o CrLf, Tail(pictures))
    BY <1>6 DEF Follows
  <2>2. FollowsFor(delim', line', Tail(u), t \o CrLf, Tail(pictures')) /\ pictures' # <<>>
    BY <1>3, <1>5, <2>1
  <2>3. pc' = "part" /\ reading' = "rest"
    BY <1>1 DEF InBody
  <2> QED
    BY <2>2, <2>3 DEF Expected, InRest, Follows
<1>8. Sent'
  BY <1>1, <1>3, <1>5, <1>6 DEF Sent, FreshOK, InBody
<1>9. NothingIsMissed'
  BY <1>1 DEF NothingIsMissed, InBody
<1> QED
  BY <1>4, <1>7, <1>8, <1>9 DEF ServeInv, OnCourse

LEMMA ServesOnOverCap ==
  ASSUME ReaderInv, ServeInv, OverCap
  PROVE  ServeInv'
<1>1. /\ Searching /\ pc = "part" /\ pc' = "report" /\ failed' = failed /\ TooLong(out')
      /\ UNCHANGED <<receiving, stop, reading>> /\ InBody
  BY SearchingKeeps DEF OverCap, Searching, PartFails, owner, InBody
<1>2. SUFFICES ASSUME ~failed PROVE ServeInv'
  BY <1>1 DEF ServeInv
<1>3. /\ DelimOK /\ link # "none" /\ Sent
      /\ UNCHANGED <<link, delim, chunked, left, wire, remaining, done, pictures, line, fresh,
                     failed>>
  BY <1>1, <1>2, SearchTakesNext
<1>4. PICK u \in Seq(Byte) :
        u # <<>> /\ Head(u) = Head(buf) /\ InPicture(u) /\ Pending(Tail(u))'
  BY <1>1, <1>2, SearchTakesNext
<1>5. pictures # <<>> /\ Len(Head(pictures) \o CrLf) > MaxFrameBytes
  <2>1. pictures # <<>> /\ Head(pictures) \in Pictures
    BY <1>4 DEF InPicture, ReaderInv, ReaderTypeOK
  <2>2. Head(pictures) \in Seq(Byte) /\ CrLf \in Seq(Byte) /\ Len(CrLf) = 2
    BY <2>1, InputsAreBytes, BytesAreBytes
  <2>3. Len(Head(pictures) \o CrLf) = Len(Head(pictures)) + Len(CrLf)
    BY <2>2, Cat, Zenon
  <2>4. Len(out') <= PictureLen
    BY <1>1, <1>3, <1>4, PictureFits
  <2>5. Len(out') > MaxFrameBytes /\ MaxFrameBytes \in Nat
    BY <1>1, ReaderAssumption DEF TooLong
  <2>6. Len(out') \in Nat /\ PictureLen \in Nat
    BY <1>1, <1>3, <1>4, TakenByte
  <2> DEFINE n == Len(Head(pictures) \o CrLf)
  <2>7. n = PictureLen
    BY <2>2, <2>3 DEF PictureLen
  <2> HIDE DEF n
  <2>8. n > MaxFrameBytes
    BY <2>4, <2>5, <2>6, <2>7
  <2> QED
    BY <2>1, <2>8 DEF n
<1>6. Sent'
  BY <1>1, <1>3 DEF Sent, FreshOK, InBody
<1>7. NothingIsMissed'
  BY <1>3, <1>5 DEF NothingIsMissed
<1> QED
  BY <1>1, <1>6, <1>7 DEF ServeInv, Waiting

-----------------------------------------------------------------------------
(* What Deliver hands on is the next picture, whole. *)
LEMMA DeliversHead ==
  ASSUME ReaderInv, Sent, Deliver
  PROVE  /\ pictures # <<>> /\ pictures \in Seq(Pictures)
         /\ pictures' = pictures
         /\ fresh' = IF receiving THEN <<Head(pictures)>> ELSE <<>>
<1>1. /\ pc = "part" /\ reading = "rest" /\ pictures' = pictures
      /\ fresh' = (IF receiving THEN <<Trimmed(out)>> ELSE <<>>)
  BY DEF Deliver, Frame, LineComplete, NoLine, LineMissing, ReadFails, served
<1>2. pictures # <<>> /\ pictures \in Seq(Pictures) /\ out = Head(pictures) \o CrLf
  BY <1>1 DEF Sent, ReaderInv, ReaderTypeOK
<1>3. Head(pictures) \in Seq(Byte)
  <2>1. Head(pictures) \in Pictures
    BY <1>2
  <2> QED
    BY <2>1, InputsAreBytes
<1>4. Trimmed(Head(pictures) \o CrLf) = Head(pictures)
  BY <1>3, TrimmedIs, Zenon
<1>5. Trimmed(out) = Head(pictures)
  BY <1>2, <1>4, Zenon
<1> QED
  BY <1>1, <1>2, <1>5, Zenon

LEMMA ServesOnDeliver ==
  ASSUME ReaderInv, ServeInv, Deliver
  PROVE  ServeInv'
<1>1. /\ pc = "part" /\ reading = "rest" /\ link # "none" /\ pc' = (IF receiving THEN "check" ELSE "report")
      /\ receiving' = receiving /\ stop' = stop /\ reading' = "headers" /\ line' = <<>>
      /\ ReadFails \/ (failed' = failed /\ (LineComplete \/ LineMissing))
  BY DEF Deliver, Frame, owner, NoLine, LineComplete, LineMissing, ReaderInv, Place
<1>2. CASE ReadFails
  BY <1>2, FailedServes
<1>3. CASE failed' = failed /\ (LineComplete \/ LineMissing)
  <2>1. Waiting
    BY <1>1 DEF Waiting
  <2>2. SUFFICES ASSUME ~failed, Sent, OnCourse PROVE ServeInv'
    BY <1>3, <2>1 DEF ServeInv
  <2>3. UNCHANGED <<link, delim, chunked, left, wire, remaining, done, pictures, failed>>
    BY <1>3 DEF LineComplete, LineMissing, served, chunks
  <2>4. /\ pictures # <<>> /\ pictures \in Seq(Pictures) /\ Drop(pictures, 1) = Tail(pictures)
        /\ fresh' = IF receiving THEN <<Head(pictures)>> ELSE <<>>
    BY <2>2, DeliversHead, DropSome
  <2>5. line \in Seq(Byte) /\ NoLF(line) /\ DelimOK
    BY <1>1, <2>2, DelimNow DEF Sent, ReaderInv, ReaderTypeOK
  <2>6. Sent'
    <3>1. FreshOK' /\ (pc # "check" => fresh = <<>>)'
      BY <1>1, <2>3, <2>4 DEF FreshOK
    <3>2. (NoLF(line))'
      BY <1>1, NoLFAtFirst DEF NoLF
    <3>3. (\A i \in 1..Len(pictures) : ~Occurs(delim, pictures[i]))'
      BY <2>2, <2>3 DEF Sent, Occurs
    <3>4. (done => link = "closed")'
      BY <2>2, <2>3 DEF Sent
    <3> QED
      BY <1>1, <3>1, <3>2, <3>3, <3>4 DEF Sent
  <2>7. Waiting' => OnCourse'
    <3> SUFFICES ASSUME Waiting' PROVE OnCourse'
      OBVIOUS
    <3>1. receiving /\ pc' = "check" /\ Len(fresh') = 1
      BY <1>1, <2>4 DEF Waiting
    <3>2. CASE CutShort'
      BY <3>2 DEF OnCourse
    <3>3. CASE \E u \in Seq(Byte) :
                 u # <<>> /\ EndsLine(Head(u)) /\ Expected(u) /\ Pending(Tail(u))'
      <4>1. PICK u \in Seq(Byte) :
              u # <<>> /\ EndsLine(Head(u)) /\ Expected(u) /\ Pending(Tail(u))'
        BY <3>3
      <4>2. InRest(u)
        BY <1>1, <4>1 DEF Expected
      <4>3. Follows(<<>>, Tail(u), <<>>, Tail(pictures))
        BY <2>5, <4>1, <4>2, RestLine
      <4>4. FollowsFor(delim', <<>>, Tail(u), <<>>, Drop(pictures', Len(fresh')))
        BY <2>3, <2>4, <3>1, <4>3 DEF Follows
      <4>5. Expected(Tail(u))'
        BY <3>1, <4>4 DEF Expected, Follows
      <4> QED
        BY <4>1, <4>5 DEF OnCourse
    <3>4. CASE LineMissing
      <4>1. AtEof /\ buf' = buf
        BY <3>4 DEF LineMissing
      <4>2. CutShort
        BY <1>1, <2>1, <2>2, <4>1, EndMeans
      <4> QED
        BY <2>3, <4>1, <4>2 DEF OnCourse, CutShort
    <3>5. CASE LineComplete
      BY <1>1, <2>1, <2>2, <3>2, <3>3, <3>5, LineEndsHow
    <3> QED
      BY <1>3, <3>4, <3>5
  <2>8. NothingIsMissed'
    BY <1>1 DEF NothingIsMissed
  <2> QED
    BY <2>6, <2>7, <2>8 DEF ServeInv
<1> QED
  BY <1>1, <1>2, <1>3

-----------------------------------------------------------------------------
LEMMA ServeSteps ==
  ASSUME ReaderInv, ServeInv, [MjpegNext]_mjpegVars
  PROVE  ServeInv'
<1>1. CASE Owner
  <2>1. UNCHANGED conn /\ UNCHANGED pc /\ (receiving' => receiving) /\ (stop => stop')
    BY <1>1 DEF Owner, SetStop, DropEvents
  <2> QED
    BY <2>1, StillServes
<1>2. CASE UNCHANGED mjpegVars
  <2>1. UNCHANGED conn /\ UNCHANGED pc /\ (receiving' => receiving) /\ (stop => stop')
    BY <1>2 DEF mjpegVars, videoVars
  <2> QED
    BY <2>1, StillServes
<1>3. CASE Server
  BY <1>3, ServesOnNextPicture, ServesOnServer DEF Server
<1>4. CASE Reader
  BY <1>4, IdleSteps, ServesOnConnect, ServesOnFill, ServesOnInLine, ServesOnFirstBoundary,
     ServesOnNothing, ServesOnNextPart, ServesOnHeaderLine, ServesOnBodyByte, ServesOnBoundary,
     ServesOnOverCap, ServesOnDeliver DEF Reader
<1> QED
  BY <1>1, <1>2, <1>3, <1>4 DEF MjpegNext

LEMMA ServeInvariant == MjpegSpec => [](ReaderInv /\ ServeInv)
<1>1. MjpegInit => ServeInv
  BY IdleServes DEF MjpegInit
<1>2. ReaderInv /\ ServeInv /\ [MjpegNext]_mjpegVars => ServeInv'
  BY ServeSteps
<1> QED
  BY ReaderInvariant, <1>1, <1>2, PTL DEF MjpegSpec

(* A step that meets a failing read delivers, too, nothing but the next     *)
(* picture.                                                                 *)
LEMMA FreshOnReader ==
  ASSUME ReaderInv, ServeInv, ~failed, Reader
  PROVE  FreshOK' \/ (ServeInv' /\ ~failed')
<1>1. Sent
  BY DEF ServeInv
<1>2. CASE Deliver
  BY <1>1, <1>2, DeliversHead DEF FreshOK
<1>3. CASE NoFirstBoundary \/ NoHeader \/ BodyEnds
  <2>1. fresh' = fresh /\ pictures' = pictures
    BY <1>3 DEF NoFirstBoundary, NoHeader, BodyEnds, NoLine, LineMissing, ReadFails, served
  <2> QED
    BY <1>1, <2>1 DEF Sent, FreshOK
<1>4. CASE ~(Deliver \/ NoFirstBoundary \/ NoHeader \/ BodyEnds)
  <2>1. failed' = FALSE \/ failed' = failed
    BY <1>4 DEF Reader, NotServed, Connect, HangUp, Fill, InLine, FirstBoundary, NextPart,
       HeaderLine, BodyByte, Boundary, OverCap, Searching, LineComplete, conn
  <2>2. ServeInv'
    BY ServeSteps DEF MjpegNext
  <2> QED
    BY <2>1, <2>2
<1> QED
  BY <1>2, <1>3, <1>4

LEMMA FreshStays ==
  ASSUME ReaderInv, ServeInv, ~failed, [MjpegNext]_mjpegVars
  PROVE  FreshOK'
<1>1. ServeInv'
  BY ServeSteps
<1>2. CASE Reader
  BY <1>2, FreshOnReader DEF ServeInv, Sent
<1>3. CASE ~Reader
  <2>1. failed' = failed
    BY <1>3 DEF MjpegNext, Owner, Server, NextPicture, ServerSends, ServerEnds, ServerGoesAway,
       mjpegVars, conn
  <2> QED
    BY <1>1, <2>1 DEF ServeInv, Sent
<1> QED
  BY <1>2, <1>3

LEMMA PrefixIs ==
  ASSUME NEW S, NEW ps \in Seq(S), NEW fs,
         fs = <<>> \/ (ps # <<>> /\ fs = <<Head(ps)>>)
  PROVE  IsPrefix(fs, ps)
<1>1. Len(ps) \in Nat
  OBVIOUS
<1>2. CASE fs = <<>>
  <2>1. Len(fs) = 0 /\ SubSeq(fs, 1, 0) = <<>> /\ SubSeq(ps, 1, 0) = <<>>
    BY <1>2
  <2> QED
    BY <1>1, <2>1 DEF IsPrefix
<1>3. CASE ps # <<>> /\ fs = <<Head(ps)>>
  <2>1. Len(ps) >= 1 /\ Head(ps) \in S /\ Head(ps) = ps[1]
    BY <1>1, <1>3
  <2>2. fs \in Seq(S) /\ Len(fs) = 1 /\ fs[1] = ps[1]
    BY <1>3, <2>1
  <2>3. /\ SubSeq(fs, 1, 1) \in Seq(S) /\ Len(SubSeq(fs, 1, 1)) = 1
        /\ \A x \in 1..1 : SubSeq(fs, 1, 1)[x] = fs[x]
    BY <2>2, PrefixElements
  <2>4. /\ SubSeq(ps, 1, 1) \in Seq(S) /\ Len(SubSeq(ps, 1, 1)) = 1
        /\ \A x \in 1..1 : SubSeq(ps, 1, 1)[x] = ps[x]
    BY <2>1, PrefixElements
  <2>5. SubSeq(fs, 1, 1) = SubSeq(ps, 1, 1)
    <3>1. \A x \in 1..1 : fs[x] = ps[x]
      BY <2>2
    <3> QED
      BY <2>3, <2>4, <3>1, SeqEqual
  <2> QED
    BY <2>1, <2>2, <2>5 DEF IsPrefix
<1> QED
  BY <1>2, <1>3

(* Whatever the boundary, the pictures, the pieces they come in and the     *)
(* byte after which the server goes away, a frame delivered is the next     *)
(* picture sent, whole (read_until_delim, trim_trailing_crlf and what       *)
(* stream_once reads before and after them).                                *)
THEOREM FramesStayServed == MjpegSpec => FramesAreServed
<1>1. ReaderInv /\ ReaderInv' /\ ServeInv /\ [MjpegNext]_mjpegVars
        => [~failed => IsPrefix(fresh', pictures')]_mjpegVars
  <2> SUFFICES ASSUME ReaderInv, ReaderInv', ServeInv, [MjpegNext]_mjpegVars, ~failed
               PROVE  IsPrefix(fresh', pictures')
    OBVIOUS
  <2>1. FreshOK'
    BY FreshStays
  <2>2. pictures' \in Seq(Pictures)
    BY DEF ReaderInv, ReaderTypeOK
  <2> QED
    BY <2>1, <2>2, PrefixIs DEF FreshOK
<1> QED
  BY ServeInvariant, <1>1, PTL DEF MjpegSpec, FramesAreServed

(* The reader gives up a connection by itself only where the stream ends,   *)
(* with all that was sent delivered, or over a picture larger than the cap: *)
(* no byte of a header, a chunk's size or a boundary makes it lose its      *)
(* place.                                                                   *)
THEOREM NothingGoesMissing == MjpegSpec => []NothingIsMissed
<1>1. ReaderInv /\ ServeInv => NothingIsMissed
  BY DEF ServeInv, NothingIsMissed
<1> QED
  BY ServeInvariant, <1>1, PTL
=============================================================================
