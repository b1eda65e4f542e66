---------------------------- MODULE CameraStream ----------------------------
(***************************************************************************)
(* Camera frames from the controller that renders them to the application  *)
(* that shows them: FrameSource at one end, FrameAssembly at the other, and *)
(* between them a network that loses, duplicates, delays and reorders.     *)
(* Frames are not deduplicated like other commands, so the assembly alone  *)
(* must keep their bytes apart.                                            *)
(***************************************************************************)
EXTENDS FrameSource, FrameAssembly

CONSTANT MaxFrames    \* bound: frames rendered, before their numbers wrap

ASSUME StreamAssumption ==
  /\ MaxFrames \in Nat
  /\ Byte = 0..(MaxFrames - 1) /\ Blank \notin Byte

VARIABLES
  frameNum,   \* the number the next rendered frame gets
  net,        \* every packet that may still arrive
  frames,     \* the client's frames under assembly
  shown       \* the frame the last step surfaced, <<>> if it surfaced none

streamVars == <<frameNum, net, frames, shown>>

(* The stamps of frame packets play no part. *)
Stamp == 0

(* The controller answers a frame request, first or repeated. *)
Render ==
  /\ frameNum < MaxFrames
  /\ frameNum' = frameNum + 1
  /\ net' = net \cup {FrameBegin(frameNum, Stamp)}
                \cup {FrameChunk(frameNum, i, Stamp) : i \in 0..(JpegChunks - 1)}
  /\ shown' = <<>>
  /\ UNCHANGED frames

ReadBegin(m) ==
  /\ m.kind = "begin"
  /\ frames' = BeginFrame(frames, m.num, m.length)
  /\ shown' = <<>>
  /\ UNCHANGED <<frameNum, net>>

ReadChunk(m) ==
  /\ m.kind = "chunk"
  /\ frames' = AddChunk(frames, m)
  /\ shown' = IF Completes(frames, m) THEN <<m.num, Written(frames, m).data>> ELSE <<>>
  /\ UNCHANGED <<frameNum, net>>

(* A stall, the end of the stream or of the session. *)
Forget ==
  /\ frames' = NoFrames /\ shown' = <<>>
  /\ UNCHANGED <<frameNum, net>>

StreamInit == frameNum = 0 /\ net = {} /\ frames = NoFrames /\ shown = <<>>

StreamNext == Render \/ (\E m \in net : ReadBegin(m) \/ ReadChunk(m)) \/ Forget

StreamSpec == StreamInit /\ [][StreamNext]_streamVars

-----------------------------------------------------------------------------
(* A frame that is surfaced is one picture, whole: its length is that of    *)
(* the picture rendered under its number and every byte is that picture's,  *)
(* whatever arrived twice, late, out of order or not at all.                *)
FramesAreWhole == shown # <<>> => shown[2] = [b \in 1..JpegBytes |-> shown[1]]

(* Assembly holds back nothing that is complete and a bounded number of     *)
(* frames, however their packets interleave.                                *)
AssemblyBounded ==
  /\ Cardinality(DOMAIN frames) <= MaxConcurrentFrames
  /\ \A n \in DOMAIN frames : JpegChunks > 0 => frames[n].received # 0..(JpegChunks - 1)
=============================================================================
