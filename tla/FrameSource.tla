----------------------------- MODULE FrameSource -----------------------------
(***************************************************************************)
(* How the stand-in robot controller cuts a camera picture into packets    *)
(* (fake_rc, send_webcam_frame).  A rendered picture is known by its frame *)
(* number: that number stands for each of its bytes.                       *)
(***************************************************************************)
EXTENDS FrameChunks, Sequences

CONSTANT JpegBytes    \* length of a rendered picture

ASSUME SourceAssumption == JpegBytes \in Nat

(* slice::chunks: every chunk is full but, perhaps, the last.               *)
JpegChunks == ChunkCount(JpegBytes)
ChunkLength(i) ==
  IF (i + 1) * FrameChunkSize <= JpegBytes THEN FrameChunkSize
  ELSE JpegBytes - i * FrameChunkSize

FrameBegin(n, t) ==
  [kind |-> "begin", name |-> "BEGIN", stamp |-> t, num |-> n, length |-> JpegBytes]
FrameChunk(n, i, t) ==
  [kind |-> "chunk", name |-> "CHUNK", stamp |-> t, num |-> n, index |-> i,
   bytes |-> [b \in 1..ChunkLength(i) |-> n]]

(* What a frame request is answered with, in order. *)
WebcamFrame(n, t) ==
  <<FrameBegin(n, t)>> \o [k \in 1..JpegChunks |-> FrameChunk(n, k - 1, t)]
=============================================================================
