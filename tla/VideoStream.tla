----------------------------- MODULE VideoStream -----------------------------
(***************************************************************************)
(* The thread that keeps one MJPEG-over-HTTP source on screen (video.rs,   *)
(* run_stream, stream_once and pump_frames): connect, forward frames, and  *)
(* on any end of the stream report it, nap, and try again.  The owner sets *)
(* a stop flag or drops the receiver of the events at any time; the server *)
(* may be unreachable, answer with anything, and go away in any read.      *)
(*                                                                         *)
(* What a read returns is left to chance here; MjpegReader says how bytes  *)
(* become frames.                                                          *)
(***************************************************************************)
EXTENDS Integers

CONSTANTS Naps    \* RECONNECT_DELAY in steps of sleep_or_stop

ASSUME NapsAssumption == Naps \in Nat

VARIABLES
  pc,          \* "loop", "open", "check", "part", "report", "nap", "returned"
  stop,        \* the flag the owner sets
  receiving,   \* whether the owner still holds the receiver
  delivered,   \* frames were delivered over this connection
  napped,      \* steps of the nap taken
  pane,        \* whether an owner that follows the events shows a picture
  event        \* the event of the last step, "" if it sent none

owner == <<stop, receiving>>
videoVars == <<pc, stop, receiving, delivered, napped, pane, event>>

(* A send only fails when the receiver is gone. *)
Send(e) == event' = IF receiving THEN e ELSE ""
Silent  == event' = "" /\ UNCHANGED pane

SetStop ==
  /\ stop' = TRUE /\ Silent
  /\ UNCHANGED <<pc, receiving, delivered, napped>>

DropEvents ==
  /\ receiving' = FALSE /\ Silent
  /\ UNCHANGED <<pc, stop, delivered, napped>>

-----------------------------------------------------------------------------
(* run_stream's loop looks at the flag between connections. *)
Loop ==
  /\ pc = "loop"
  /\ pc' = IF stop THEN "returned" ELSE "open"
  /\ Silent /\ UNCHANGED <<owner, delivered, napped>>

(* No connection, no usable response head, or no first boundary: nothing    *)
(* was delivered.                                                           *)
(* Seeded fault: what an earlier connection delivered is not forgotten.     *)
OpenFailsStale ==
  /\ pc = "open" /\ pc' = "report"
  /\ Silent /\ UNCHANGED <<owner, delivered, napped>>

OpenFails ==
  /\ pc = "open" /\ pc' = "report" /\ delivered' = FALSE
  /\ Silent /\ UNCHANGED <<owner, napped>>

Open ==
  /\ pc = "open" /\ pc' = "check" /\ delivered' = FALSE
  /\ Silent /\ UNCHANGED <<owner, napped>>

(* pump_frames looks at the flag between parts. *)
(* Seeded faults: the flag ends the thread on the spot; it is not looked at. *)
CheckReturns ==
  /\ pc = "check"
  /\ pc' = IF stop THEN "returned" ELSE "part"
  /\ Silent /\ UNCHANGED <<owner, delivered, napped>>
CheckNothing ==
  /\ pc = "check" /\ pc' = "part"
  /\ Silent /\ UNCHANGED <<owner, delivered, napped>>

Check ==
  /\ pc = "check"
  /\ pc' = IF stop THEN "report" ELSE "part"
  /\ Silent /\ UNCHANGED <<owner, delivered, napped>>

(* A read fails: the stream has dropped. *)
PartFails ==
  /\ pc = "part" /\ pc' = "report"
  /\ Silent /\ UNCHANGED <<owner, delivered, napped>>

Frame ==
  /\ pc = "part"
  /\ pc' = IF receiving THEN "check" ELSE "report"
  /\ delivered' = (delivered \/ receiving)
  /\ Send("Frame") /\ pane' = (pane \/ receiving)
  /\ UNCHANGED <<owner, napped>>

(* The pane is only cleared if something was put on it. *)
Report ==
  /\ pc = "report" /\ pc' = "nap" /\ napped' = 0
  /\ IF delivered
     THEN Send("Disconnected") /\ pane' = (pane /\ ~receiving)
     ELSE Silent
  /\ UNCHANGED <<owner, delivered>>

(* sleep_or_stop looks at the flag before each step and after the last.     *)
Nap ==
  /\ pc = "nap" /\ ~stop /\ napped < Naps
  /\ napped' = napped + 1
  /\ Silent /\ UNCHANGED <<pc, owner, delivered>>

Wake ==
  /\ pc = "nap" /\ (stop \/ napped >= Naps)
  /\ pc' = IF stop THEN "returned" ELSE "loop"
  /\ Silent /\ UNCHANGED <<owner, delivered, napped>>

-----------------------------------------------------------------------------
VideoInit ==
  /\ pc = "loop" /\ stop = FALSE /\ receiving = TRUE
  /\ delivered = FALSE /\ napped = 0 /\ pane = FALSE /\ event = ""

RunStream ==
  \/ Loop \/ OpenFails \/ Open \/ Check \/ PartFails \/ Frame \/ Report
  \/ Nap \/ Wake

VideoNext == SetStop \/ DropEvents \/ RunStream

(* The thread is scheduled, and no step of it lasts for ever: each read has *)
(* a timeout and the server does not dribble one part without end.          *)
VideoSpec == VideoInit /\ [][VideoNext]_videoVars /\ WF_videoVars(RunStream)
-----------------------------------------------------------------------------
(* A picture is on the pane only while its connection lasts: whichever read *)
(* or flag ends it, the pane is clear before the next connection is tried   *)
(* and once the thread has returned.                                        *)
PaneIsLive ==
  receiving /\ pc \in {"loop", "open", "nap", "returned"} => ~pane

(* video.rs:81-82: a source that was never up does not spam clears.  Between *)
(* two of them there was a picture.                                         *)
ClearsAPicture == [][event' = "Disconnected" => pane]_videoVars

(* Setting the flag ends the thread, wherever it is and whatever the server *)
(* does.                                                                    *)
StopReturns == stop ~> pc = "returned"

(* video.rs:61-63: run_stream "[r]eturns once `stop` is observed or the     *)
(* receiver is dropped".                                                    *)
DropReturns == ~receiving ~> pc = "returned"
=============================================================================
