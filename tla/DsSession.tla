----------------------------- MODULE DsSession -----------------------------
(***************************************************************************)
(* What the DS client promises the application about its link to the robot *)
(* controller, whatever the network does.  A session with a peer begins    *)
(* only while the client is searching, is announced when it begins and     *)
(* when it ends, and never passes from one peer to another without its     *)
(* end having been announced.  After disconnect() or a busy controller the *)
(* client stays quiet until connect().                                     *)
(***************************************************************************)
CONSTANTS Addrs, None

VARIABLES
  link,   \* "searching", "connected", "paused" or "closed"
  peer,   \* the robot controller of the session, None without one
  view    \* the session the application was last told of

session == <<link, peer, view>>

Init == link = "searching" /\ peer = None /\ view = None

Begin(p) ==
  /\ link = "searching"
  /\ link' = "connected" /\ peer' = p /\ view' = p

Lose ==
  /\ link = "connected"
  /\ link' = "searching" /\ peer' = None /\ view' = None

Pause ==
  /\ link \in {"searching", "connected"}
  /\ link' = "paused" /\ peer' = None /\ view' = None

Resume ==
  /\ link = "paused"
  /\ link' = "searching" /\ UNCHANGED <<peer, view>>

Close ==
  /\ link # "closed"
  /\ link' = "closed" /\ peer' = None /\ view' = None

Next == (\E p \in Addrs : Begin(p)) \/ Lose \/ Pause \/ Resume \/ Close

Spec == Init /\ [][Next]_session
=============================================================================
