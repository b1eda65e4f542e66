------------------------- MODULE CameraStreamProofs -------------------------
(***************************************************************************)
(* A frame the client surfaces is one whole picture, for every picture     *)
(* length, chunk size and limit, however the network treats its packets.   *)
(* In between, a bounded number of frames is held, none of them complete.  *)
(*                                                                         *)
(* The argument: a frame under assembly holds its own number in every byte *)
(* of the chunks it has received and is blank everywhere else (Partly), so *)
(* a frame that has received all of its chunks is whole.  This rests on    *)
(* every packet on the wire being one the controller cut (NetGenuine).     *)
(***************************************************************************)
EXTENDS CameraStream, FrameAssemblyProofs

(* Byte b (counted from 1) belongs to a chunk that was received.            *)
Covered(R, b) == \E i \in R : i * FrameChunkSize < b /\ b <= (i + 1) * FrameChunkSize

Partly(n, f) ==
  /\ f.received \subseteq 0..(JpegChunks - 1)
  /\ f.data = [b \in 1..JpegBytes |-> IF Covered(f.received, b) THEN n ELSE Blank]

NetGenuine ==
  \A m \in net :
    \/ \E n \in Byte : m = FrameBegin(n, Stamp)
    \/ \E n \in Byte, i \in 0..(JpegChunks - 1) : m = FrameChunk(n, i, Stamp)

FramesGenuine == \A n \in DOMAIN frames : Partly(n, frames[n])

StreamInv == frameNum \in Nat /\ NetGenuine /\ FramesGenuine /\ FramesAreWhole

-----------------------------------------------------------------------------
LEMMA BytesAreNat == Byte \subseteq Nat
  BY StreamAssumption

LEMMA DivFacts ==
  ASSUME NEW a \in Nat, NEW s \in Nat \ {0}
  PROVE  /\ a \div s \in Nat
         /\ (a \div s) * s <= a
         /\ a < (a \div s + 1) * s
  BY SMT

(* A byte's chunk is one of the picture's chunks: counting chunks rounds up. *)
LEMMA ChunkOfByte ==
  ASSUME NEW b \in 1..JpegBytes
  PROVE  \E i \in 0..(JpegChunks - 1) :
           i * FrameChunkSize < b /\ b <= (i + 1) * FrameChunkSize
<1> USE SourceAssumption, ChunkAssumption
<1> DEFINE s == FrameChunkSize
           i == (b - 1) \div s
           k == JpegChunks
<1>1. i \in Nat /\ i * s <= b - 1 /\ b - 1 < (i + 1) * s
  BY DivFacts
<1>2. k \in Nat /\ JpegBytes + s - 1 < (k + 1) * s
  BY DivFacts DEF JpegChunks, ChunkCount
<1> HIDE DEF i, k
<1>3. i * s < k * s
  BY <1>1, <1>2
<1>4. i < k
  BY <1>1, <1>2, <1>3
<1>5. (i + 1) * s \in Nat
  BY <1>1
<1> QED BY <1>1, <1>2, <1>4, <1>5 DEF k

LEMMA ChunksAreNat == JpegChunks \in Nat
  BY DivFacts, SourceAssumption, ChunkAssumption DEF JpegChunks, ChunkCount

(* A chunk ends where the next one starts, or with the picture.              *)
LEMMA ChunkEnds ==
  ASSUME NEW i \in 0..(JpegChunks - 1)
  PROVE  /\ ChunkLength(i) \in Nat
         /\ i * FrameChunkSize \in Nat
         /\ (i + 1) * FrameChunkSize = i * FrameChunkSize + FrameChunkSize
         /\ i * FrameChunkSize + ChunkLength(i)
              = IF (i + 1) * FrameChunkSize <= JpegBytes
                THEN (i + 1) * FrameChunkSize ELSE JpegBytes
<1> USE SourceAssumption, ChunkAssumption
<1> DEFINE s == FrameChunkSize
<1>1. (i + 1) * s = i * s + s /\ i * s \in Nat
  BY ChunksAreNat
<1>2. i * s <= JpegBytes
  <2> DEFINE k == JpegChunks
  <2>1. k \in Nat /\ k * s <= JpegBytes + s - 1
    BY DivFacts DEF JpegChunks, ChunkCount
  <2> HIDE DEF k
  <2>2. (i + 1) * s <= k * s
    BY <2>1 DEF k
  <2>3. k * s \in Nat
    BY <2>1
  <2> QED BY <1>1, <2>1, <2>2, <2>3
<1> QED BY <1>1, <1>2 DEF ChunkLength

(* A chunk of the picture has the bytes from its offset up to the next      *)
(* chunk's, as far as the picture goes.                                     *)
LEMMA ChunkBytes ==
  ASSUME NEW i \in 0..(JpegChunks - 1), NEW n \in Nat,
         NEW b \in 1..JpegBytes
  PROVE  LET c == FrameChunk(n, i, Stamp)
             off == i * FrameChunkSize
         IN  /\ Len(c.bytes) \in Nat
             /\ b \in (off + 1)..(off + Len(c.bytes))
                  <=> off < b /\ b <= (i + 1) * FrameChunkSize
             /\ b \in (off + 1)..(off + Len(c.bytes)) => c.bytes[b - off] = n
<1> USE SourceAssumption, ChunkAssumption
<1> DEFINE s == FrameChunkSize
           l == ChunkLength(i)
<1>1. (i + 1) * s = i * s + s /\ i * s \in Nat
  BY ChunkEnds
<1>2. /\ l \in Nat
      /\ i * s + l = IF (i + 1) * s <= JpegBytes THEN (i + 1) * s ELSE JpegBytes
  BY ChunkEnds
<1> HIDE DEF l
<1>3. FrameChunk(n, i, Stamp).bytes = [x \in 1..l |-> n]
  BY DEF FrameChunk, l
<1>4. Len([x \in 1..l |-> n]) = l
  BY <1>2
<1>5. b \in (i * s + 1)..(i * s + l) => b - i * s \in 1..l
  BY <1>1, <1>2
<1> QED BY <1>1, <1>2, <1>3, <1>4, <1>5

(* Writing a chunk of the picture extends what is known of its frame.       *)
LEMMA WrittenIsPartly ==
  ASSUME NEW n \in Nat, NEW i \in 0..(JpegChunks - 1), FramesGenuine,
         n \in DOMAIN frames
  PROVE  Partly(n, Written(frames, FrameChunk(n, i, Stamp)))
<1> USE SourceAssumption, ChunkAssumption
<1> DEFINE c == FrameChunk(n, i, Stamp)
           f == frames[n]
           w == Written(frames, c)
           off == i * FrameChunkSize
<1>1. Partly(n, f)
  BY DEF FramesGenuine
<1>2. c.num = n /\ c.index = i
  BY DEF FrameChunk
<1>3. Len(f.data) = JpegBytes
  BY <1>1 DEF Partly
<1>4. /\ w.received = f.received \cup {i}
      /\ w.data = [b \in 1..JpegBytes |->
                     IF b \in (off + 1)..(off + Len(c.bytes))
                     THEN c.bytes[b - off] ELSE f.data[b]]
  BY <1>2, <1>3 DEF Written
<1> HIDE DEF c, w
<1>5. ASSUME NEW b \in 1..JpegBytes
      PROVE  (IF b \in (off + 1)..(off + Len(c.bytes)) THEN c.bytes[b - off]
              ELSE f.data[b])
               = IF Covered(w.received, b) THEN n ELSE Blank
  <2>1. /\ b \in (off + 1)..(off + Len(c.bytes))
             <=> off < b /\ b <= (i + 1) * FrameChunkSize
        /\ b \in (off + 1)..(off + Len(c.bytes)) => c.bytes[b - off] = n
    BY ChunkBytes DEF c
  <2>2. Covered(w.received, b)
          <=> Covered(f.received, b) \/ (off < b /\ b <= (i + 1) * FrameChunkSize)
    BY <1>4 DEF Covered
  <2>3. f.data[b] = IF Covered(f.received, b) THEN n ELSE Blank
    BY <1>1 DEF Partly
  <2> QED BY <2>1, <2>2, <2>3
<1>6. w.data = [b \in 1..JpegBytes |-> IF Covered(w.received, b) THEN n ELSE Blank]
  BY <1>4, <1>5
<1>7. w.received \subseteq 0..(JpegChunks - 1)
  BY <1>1, <1>4 DEF Partly
<1> QED BY <1>6, <1>7 DEF Partly, w, c

(* A frame whose chunks have all come is whole.                             *)
LEMMA CompleteIsWhole ==
  ASSUME NEW n \in Nat, NEW f, Partly(n, f),
         \A i \in 0..(JpegChunks - 1) : i \in f.received
  PROVE  f.data = [b \in 1..JpegBytes |-> n]
<1>1. ASSUME NEW b \in 1..JpegBytes PROVE Covered(f.received, b)
  BY ChunkOfByte DEF Covered
<1> QED BY <1>1 DEF Partly

-----------------------------------------------------------------------------
LEMMA StreamInvInit == StreamInit => StreamInv
  BY DEF StreamInit, StreamInv, NetGenuine, FramesGenuine, FramesAreWhole, NoFrames

LEMMA RenderKeeps == StreamInv /\ Render => StreamInv'
<1> SUFFICES ASSUME StreamInv, Render PROVE StreamInv'
  OBVIOUS
<1>1. frameNum' \in Nat
  BY DEF StreamInv, Render
<1>2. NetGenuine'
  <2>1. frameNum \in Byte
    BY StreamAssumption DEF StreamInv, Render
  <2> QED BY <2>1 DEF StreamInv, NetGenuine, Render
<1>3. FramesGenuine'
  BY DEF StreamInv, FramesGenuine, Render
<1>4. FramesAreWhole'
  BY DEF Render, FramesAreWhole
<1> QED BY <1>1, <1>2, <1>3, <1>4 DEF StreamInv

LEMMA ReadBeginKeeps ==
  ASSUME StreamInv, NEW m \in net, ReadBegin(m) PROVE StreamInv'
<1>0. Byte \subseteq Nat
  BY BytesAreNat
<1>1. PICK n \in Byte : m = FrameBegin(n, Stamp)
  BY DEF StreamInv, NetGenuine, ReadBegin, FrameChunk
<1>2. m.num = n /\ m.length = JpegBytes
  BY <1>1 DEF FrameBegin
<1> DEFINE new == [data |-> [i \in 1..JpegBytes |-> Blank], received |-> {}]
<1>3. Partly(n, new)
  BY DEF Partly, Covered
<1> HIDE DEF new
<1>4. ASSUME NEW k \in DOMAIN frames' PROVE Partly(k, frames'[k])
  <2>1. CASE JpegBytes \in 0..MaxFrameBytes
    <3> DEFINE begun == [x \in DOMAIN frames \cup {n} |->
                           IF x = n THEN new ELSE frames[x]]
    <3>1. frames' = Keeping(begun, Latest(DOMAIN begun))
      BY <1>2, <2>1 DEF ReadBegin, BeginFrame, new
    <3>2. k \in DOMAIN begun /\ frames'[k] = begun[k]
      BY <3>1 DEF Keeping, Latest
    <3> QED BY <3>2, <1>3 DEF StreamInv, FramesGenuine
  <2>2. CASE JpegBytes \notin 0..MaxFrameBytes
    BY <1>2, <2>2 DEF ReadBegin, BeginFrame, StreamInv, FramesGenuine
  <2> QED BY <2>1, <2>2
<1> QED BY <1>4 DEF StreamInv, FramesGenuine, ReadBegin, FramesAreWhole, NetGenuine

LEMMA ReadChunkKeeps ==
  ASSUME StreamInv, NEW m \in net, ReadChunk(m) PROVE StreamInv'
<1>0. Byte \subseteq Nat
  BY BytesAreNat
<1>1. PICK n \in Byte, i \in 0..(JpegChunks - 1) : m = FrameChunk(n, i, Stamp)
  BY DEF StreamInv, NetGenuine, ReadChunk, FrameBegin
<1>2. m.num = n /\ m.index = i
  BY <1>1 DEF FrameChunk
<1>3. Accepts(frames, m) => Partly(n, Written(frames, m))
  BY <1>0, <1>1, <1>2, WrittenIsPartly DEF StreamInv, Accepts
<1>4. FramesGenuine'
  <2>1. CASE Completes(frames, m)
    BY <2>1 DEF ReadChunk, AddChunk, Keeping, StreamInv, FramesGenuine
  <2>2. CASE Accepts(frames, m) /\ ~Completes(frames, m)
    <3>1. frames' = [frames EXCEPT ![n] = Written(frames, m)]
      BY <1>2, <2>2 DEF ReadChunk, AddChunk
    <3> QED BY <1>3, <2>2, <3>1 DEF StreamInv, FramesGenuine
  <2>3. CASE ~Accepts(frames, m)
    BY <2>3 DEF ReadChunk, AddChunk, Completes, StreamInv, FramesGenuine
  <2> QED BY <2>1, <2>2, <2>3
<1>5. FramesAreWhole'
  <2>1. CASE Completes(frames, m)
    <3> DEFINE w == Written(frames, m)
    <3>1. n \in DOMAIN frames /\ Len(frames[n].data) = JpegBytes
      <4>1. n \in DOMAIN frames
        BY <1>2, <2>1 DEF Completes, Accepts
      <4>2. Partly(n, frames[n])
        BY <4>1 DEF StreamInv, FramesGenuine
      <4> QED BY <4>1, <4>2, SourceAssumption DEF Partly
    <3>2. \A j \in 0..(JpegChunks - 1) : j \in w.received
      BY <1>2, <2>1, <3>1 DEF Completes, JpegChunks
    <3>3. Partly(n, w)
      BY <1>3, <2>1 DEF Completes
    <3> HIDE DEF w
    <3>4. w.data = [b \in 1..JpegBytes |-> n]
      BY <1>0, <3>2, <3>3, CompleteIsWhole
    <3>5. shown' = <<n, w.data>>
      BY <1>2, <2>1 DEF ReadChunk, w
    <3> QED BY <3>4, <3>5 DEF FramesAreWhole
  <2>2. CASE ~Completes(frames, m)
    BY <2>2 DEF ReadChunk, FramesAreWhole
  <2> QED BY <2>1, <2>2
<1> QED BY <1>4, <1>5 DEF StreamInv, ReadChunk, NetGenuine

LEMMA StreamInvNext == StreamInv /\ [StreamNext]_streamVars => StreamInv'
<1> SUFFICES ASSUME StreamInv, [StreamNext]_streamVars PROVE StreamInv'
  OBVIOUS
<1>1. CASE Render
  BY <1>1, RenderKeeps
<1>2. ASSUME NEW m \in net, ReadBegin(m) PROVE StreamInv'
  BY <1>2, ReadBeginKeeps
<1>3. ASSUME NEW m \in net, ReadChunk(m) PROVE StreamInv'
  BY <1>3, ReadChunkKeeps
<1>4. CASE Forget
  BY <1>4 DEF Forget, StreamInv, FramesGenuine, NetGenuine, FramesAreWhole, NoFrames
<1>5. CASE UNCHANGED streamVars
  BY <1>5 DEF streamVars, StreamInv, FramesGenuine, NetGenuine, FramesAreWhole
<1> QED BY <1>1, <1>2, <1>3, <1>4, <1>5 DEF StreamNext

(* Whatever the network does to its packets, a frame handle_frame_chunk     *)
(* hands to the application is the picture send_webcam_frame rendered under *)
(* its number, every byte of it.                                            *)
THEOREM WholeFrames == StreamSpec => []FramesAreWhole
<1>1. StreamInv => FramesAreWhole
  BY DEF StreamInv
<1> QED BY StreamInvInit, StreamInvNext, <1>1, PTL DEF StreamSpec

-----------------------------------------------------------------------------
(* What is held in between.                                                 *)
AssemblyInv == FramesBounded(frames) /\ FramesTyped(frames) /\ NoneComplete(frames)

LEMMA AssemblyChanges ==
  ASSUME FramesBounded(frames'), FramesTyped(frames'), NoneComplete(frames')
  PROVE  AssemblyInv'
  BY DEF AssemblyInv, FramesBounded, FramesTyped, NoneComplete

LEMMA AssemblyInvNext ==
  StreamInv /\ AssemblyInv /\ [StreamNext]_streamVars => AssemblyInv'
<1> SUFFICES ASSUME StreamInv, AssemblyInv, [StreamNext]_streamVars
             PROVE  AssemblyInv'
  OBVIOUS
<1>1. CASE Render \/ UNCHANGED streamVars
  BY <1>1, AssemblyChanges DEF Render, streamVars, AssemblyInv
<1>2. ASSUME NEW m \in net, ReadBegin(m) PROVE AssemblyInv'
  <2>1. PICK n \in Byte : m = FrameBegin(n, Stamp)
    BY <1>2 DEF StreamInv, NetGenuine, ReadBegin, FrameChunk
  <2>2. m.num \in Int /\ m.length \in Int
    BY <2>1, BytesAreNat, SourceAssumption DEF FrameBegin
  <2> QED BY <1>2, <2>2, BeginFrameOK, AssemblyChanges DEF ReadBegin, AssemblyInv
<1>3. ASSUME NEW m \in net, ReadChunk(m) PROVE AssemblyInv'
  <2>1. PICK n \in Byte, i \in 0..(JpegChunks - 1) : m = FrameChunk(n, i, Stamp)
    BY <1>3 DEF StreamInv, NetGenuine, ReadChunk, FrameBegin
  <2>2. ChunkLength(i) \in Nat
    BY ChunkEnds
  <2>3. m.num \in Int /\ m.index \in Int /\ m.bytes = [b \in 1..ChunkLength(i) |-> n]
    BY <2>1, BytesAreNat, ChunksAreNat DEF FrameChunk
  <2>4. m.bytes \in Seq(Byte)
    BY <2>2, <2>3
  <2>5. IsChunk(m)
    BY <2>3, <2>4 DEF IsChunk
  <2> QED BY <1>3, <2>5, AddChunkOK, AssemblyChanges DEF ReadChunk, AssemblyInv
<1>4. CASE Forget
  BY <1>4, NoFramesOK, AssemblyChanges DEF Forget
<1> QED BY <1>1, <1>2, <1>3, <1>4 DEF StreamNext

LEMMA AssemblyInvInit == StreamInit => AssemblyInv
  BY NoFramesOK DEF StreamInit, AssemblyInv

(* However begins and chunks interleave, handle_frame_begin keeps the number *)
(* of frames within its limit and handle_frame_chunk keeps none back that is *)
(* complete.                                                                 *)
THEOREM AssemblyIsBounded == StreamSpec => []AssemblyBounded
<1>1. StreamInv /\ AssemblyInv => AssemblyBounded
  <2> SUFFICES ASSUME StreamInv, AssemblyInv PROVE AssemblyBounded
    OBVIOUS
  <2>1. ASSUME NEW n \in DOMAIN frames, JpegChunks > 0
        PROVE  frames[n].received # 0..(JpegChunks - 1)
    <3>1. Partly(n, frames[n]) /\ Incomplete(frames[n])
      BY DEF StreamInv, FramesGenuine, AssemblyInv, NoneComplete
    <3>2. Len(frames[n].data) = JpegBytes
      BY <3>1, SourceAssumption DEF Partly
    <3>3. Chunks(frames[n]) = 0..(JpegChunks - 1)
      BY <3>2 DEF Chunks, JpegChunks
    <3>4. 0 \in 0..(JpegChunks - 1)
      BY <2>1, ChunksAreNat
    <3> QED BY <3>1, <3>3, <3>4 DEF Incomplete
  <2> QED BY <2>1 DEF AssemblyBounded, AssemblyInv, FramesBounded
<1> QED BY StreamInvInit, StreamInvNext, AssemblyInvInit, AssemblyInvNext, <1>1,
           PTL DEF StreamSpec
=============================================================================
