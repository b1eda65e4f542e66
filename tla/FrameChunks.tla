----------------------------- MODULE FrameChunks -----------------------------
(* The size both ends of the camera protocol cut frames by (cmd.rs).        *)
EXTENDS Integers

CONSTANT FrameChunkSize

ASSUME ChunkAssumption == FrameChunkSize \in Nat \ {0}

(* usize::div_ceil: the chunks a frame of this length has; the last may be  *)
(* short.                                                                   *)
ChunkCount(length) == (length + FrameChunkSize - 1) \div FrameChunkSize
=============================================================================
