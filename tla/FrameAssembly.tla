---------------------------- MODULE FrameAssembly ----------------------------
(***************************************************************************)
(* Reassembly of camera frames in the DS client (client.rs, PartialFrame,  *)
(* handle_frame_begin and handle_frame_chunk), as operators on the map     *)
(* from frame numbers to the frames under assembly.                        *)
(*                                                                         *)
(* A byte is any value; a frame's bytes that no chunk has written are      *)
(* Blank, the zeroes of vec![0u8; length].  A payload the code cannot      *)
(* decode (bad JSON, bad base64) changes nothing, like a chunk whose index *)
(* is negative or a frame whose length is: those stand for all of them.    *)
(***************************************************************************)
EXTENDS FrameChunks, Sequences, FiniteSets

CONSTANTS Byte, Blank,
          MaxFrameBytes,        \* video::MAX_FRAME_BYTES
          MaxConcurrentFrames   \* MAX_CONCURRENT_FRAMES

ASSUME FrameAssumption ==
  /\ MaxFrameBytes \in Nat
  /\ MaxConcurrentFrames \in Nat \ {0}

(* A frame under assembly: its bytes so far and the chunks that wrote them. *)
(* `remaining` of the code is the number of chunks not in `received`.       *)
PartialFrame == [data : Seq(Byte \cup {Blank}), received : SUBSET Nat]

NoFrames == [n \in {} |-> {}]

Keeping(frames, S) == [n \in S |-> frames[n]]

(* The frames that survive eviction: those with the greatest numbers. *)
(* Seeded fault: one frame too many. *)
LatestAndOne(F) ==
  {n \in F : Cardinality({m \in F : m > n}) <= MaxConcurrentFrames}
Latest(F) ==
  {n \in F : Cardinality({m \in F : m > n}) < MaxConcurrentFrames}

(* RECEIVE_FRAME_BEGIN: start the frame afresh, replacing one of the same   *)
(* number, then evict from the smallest number up.                          *)
BeginFrame(frames, num, length) ==
  IF length \in 0..MaxFrameBytes
  THEN LET begun == [n \in DOMAIN frames \cup {num} |->
                       IF n = num
                       THEN [data     |-> [i \in 1..length |-> Blank],
                             received |-> {}]
                       ELSE frames[n]]
       IN  Keeping(begun, Latest(DOMAIN begun))
  ELSE frames

(* Whether RECEIVE_FRAME_CHUNK writes its bytes: the frame is known, the    *)
(* chunk is one of its chunks, has not come before, and fits.               *)
Accepts(frames, c) ==
  /\ c.num \in DOMAIN frames
  /\ c.index \in 0..(ChunkCount(Len(frames[c.num].data)) - 1)
  /\ c.index \notin frames[c.num].received
  /\ c.index * FrameChunkSize + Len(c.bytes) <= Len(frames[c.num].data)

(* The frame of chunk c once its bytes are written. *)
Written(frames, c) ==
  LET f      == frames[c.num]
      offset == c.index * FrameChunkSize
  IN  [data     |-> [i \in 1..Len(f.data) |->
                       IF i \in (offset + 1)..(offset + Len(c.bytes))
                       THEN c.bytes[i - offset] ELSE f.data[i]],
       received |-> f.received \cup {c.index}]

(* Seeded faults: complete with the last chunk; one chunk too many awaited.  *)
CompletesWithLast(frames, c) ==
  Accepts(frames, c) /\ c.index = ChunkCount(Len(frames[c.num].data)) - 1
CompletesNever(frames, c) ==
  /\ Accepts(frames, c)
  /\ \A i \in 0..ChunkCount(Len(frames[c.num].data)) : i \in Written(frames, c).received
Completes(frames, c) ==
  /\ Accepts(frames, c)
  /\ \A i \in 0..(ChunkCount(Len(frames[c.num].data)) - 1) :
       i \in Written(frames, c).received

(* RECEIVE_FRAME_CHUNK: a complete frame leaves with every older one.       *)
AddChunk(frames, c) ==
  IF Completes(frames, c)
  THEN Keeping(frames, {n \in DOMAIN frames : n > c.num})
  ELSE IF Accepts(frames, c)
       THEN [frames EXCEPT ![c.num] = Written(frames, c)]
       ELSE frames
=============================================================================
