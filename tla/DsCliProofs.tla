----------------------------- MODULE DsCliProofs -----------------------------
(***************************************************************************)
(* A command on a configuration acts on a list that was announced, and on  *)
(* none older than the list on the screen when the line was typed; for any *)
(* lists, lines and number of calls waiting.                               *)
(*                                                                         *)
(* The argument: the event thread keeps a list before it prints it, so the *)
(* list kept is never older than the one printed; and a list announced     *)
(* later does not change those announced before.                           *)
(***************************************************************************)
EXTENDS DsCli, TLAPS

Announced == Lists \cup {Garbage}

EventsInOrder ==
  /\ announced \in Seq(Announced)
  /\ stored \in Nat /\ shown \in Nat /\ seen \in Nat
  /\ seen <= shown /\ shown <= stored /\ stored <= Len(announced)

KeptIsAnnounced == known = ListOf(stored)

CliInv == EventsInOrder /\ KeptIsAnnounced /\ ActsOnWhatWasSeen

-----------------------------------------------------------------------------
LEMMA CliBegins == CliInit => CliInv
<1> SUFFICES ASSUME CliInit PROVE CliInv
  OBVIOUS
<1>1. announced = <<>> /\ stored = 0 /\ shown = 0 /\ seen = 0 /\ known = <<>>
        /\ at = "ready"
  BY DEF CliInit
<1>2. EventsInOrder
  BY <1>1 DEF EventsInOrder
<1>3. KeptIsAnnounced
  BY <1>1 DEF KeptIsAnnounced, ListOf
<1> QED
  BY <1>1, <1>2, <1>3 DEF CliInv, ActsOnWhatWasSeen

(* The lists already announced stay what they were. *)
LEMMA AnnouncedStays ==
  ASSUME EventsInOrder, NEW l \in Announced, announced' = Append(announced, l)
  PROVE  /\ announced' \in Seq(Announced)
         /\ Len(announced') = Len(announced) + 1
         /\ \A n \in 0..Len(announced) : ListOf(n)' = ListOf(n)
<1>1. announced \in Seq(Announced)
  BY DEF EventsInOrder
<1>2. /\ announced' \in Seq(Announced)
      /\ Len(announced') = Len(announced) + 1
      /\ \A n \in 1..Len(announced) : announced'[n] = announced[n]
  BY <1>1
<1> QED
  BY <1>1, <1>2 DEF ListOf

(* A step that moves neither the lists nor what was found keeps the rest. *)
LEMMA StillFound ==
  ASSUME ActsOnWhatWasSeen, UNCHANGED <<announced, at, line, found, seen>>
  PROVE  ActsOnWhatWasSeen'
  BY DEF ActsOnWhatWasSeen, ListOf

LEMMA EventThreadKeeps ==
  ASSUME CliInv, EventThread
  PROVE  CliInv'
<1>1. UNCHANGED <<announced, at, line, found, seen>>
  BY DEF EventThread, HandleEvent, StoreList, PrintList, promptVars
<1>2. EventsInOrder /\ KeptIsAnnounced /\ ActsOnWhatWasSeen
  BY DEF CliInv
<1>3. ActsOnWhatWasSeen'
  BY <1>1, <1>2, StillFound
<1>4. CASE StoreList
  <2>1. EventsInOrder'
    BY <1>1, <1>2, <1>4 DEF EventsInOrder, StoreList
  <2>2. KeptIsAnnounced'
    BY <1>1, <1>2, <1>4 DEF KeptIsAnnounced, ListOf, StoreList, EventsInOrder
  <2> QED
    BY <1>3, <2>1, <2>2 DEF CliInv
<1>5. CASE PrintList
  <2>1. EventsInOrder'
    BY <1>1, <1>2, <1>5 DEF EventsInOrder, PrintList
  <2>2. KeptIsAnnounced'
    BY <1>1, <1>2, <1>5 DEF KeptIsAnnounced, ListOf, PrintList
  <2> QED
    BY <1>3, <2>1, <2>2 DEF CliInv
<1> QED
  BY <1>4, <1>5 DEF EventThread, HandleEvent

(* The prompt looks a name up in the list kept, which is no older than the  *)
(* one on the screen.                                                       *)
LEMMA PromptKeeps ==
  ASSUME CliInv, Prompt
  PROVE  CliInv'
<1>1. UNCHANGED <<announced, stored, known, shown>>
  BY DEF Prompt, eventVars
<1>2. EventsInOrder /\ KeptIsAnnounced /\ ActsOnWhatWasSeen
  BY DEF CliInv
<1>3. KeptIsAnnounced'
  BY <1>1, <1>2 DEF KeptIsAnnounced, ListOf
<1>4. seen' = shown \/ seen' = seen
  BY DEF Prompt, ReadLine, RunLine, RunPlain, RunInit, RunRun, Find, UseFound, Push,
         Release, Quit, Refuse, Done
<1>5. EventsInOrder'
  BY <1>1, <1>2, <1>4 DEF EventsInOrder
<1>6. CASE Find
  <2>1. found' = FindConfig(ListOf(stored), line.arg) /\ UNCHANGED <<line, seen>>
    BY <1>2, <1>6 DEF Find, KeptIsAnnounced
  <2>2. ListOf(stored)' = ListOf(stored)
    BY <1>1 DEF ListOf
  <2>3. stored \in seen..Len(announced)
    BY <1>2 DEF EventsInOrder
  <2>4. /\ stored' \in (seen..Len(announced))'
        /\ found' = FindConfig(ListOf(stored), line.arg)'
    BY <1>1, <2>1, <2>2, <2>3
  <2>5. ActsOnWhatWasSeen'
    BY <2>4 DEF ActsOnWhatWasSeen
  <2> QED
    BY <1>3, <1>5, <2>5 DEF CliInv
<1>7. CASE ~Find
  <2>1. at' # "found"
    BY <1>7 DEF Prompt, ReadLine, RunLine, RunPlain, RunInit, RunRun, UseFound, Push,
           Release, Quit, Refuse, Done
  <2> QED
    BY <1>3, <1>5, <2>1 DEF CliInv, ActsOnWhatWasSeen
<1> QED
  BY <1>6, <1>7

LEMMA AnnounceKeeps ==
  ASSUME CliInv, Announce
  PROVE  CliInv'
<1>1. PICK l \in Announced : announced' = Append(announced, l)
  BY DEF Announce, Announced
<1>2. EventsInOrder /\ KeptIsAnnounced /\ ActsOnWhatWasSeen
  BY DEF CliInv
<1>3. UNCHANGED <<stored, known, shown, at, line, found, seen>>
  BY DEF Announce, promptVars
<1>4. /\ announced' \in Seq(Announced)
      /\ Len(announced') = Len(announced) + 1
      /\ \A n \in 0..Len(announced) : ListOf(n)' = ListOf(n)
  BY <1>1, <1>2, AnnouncedStays
<1>5. EventsInOrder'
  BY <1>2, <1>3, <1>4 DEF EventsInOrder
<1>6. KeptIsAnnounced'
  BY <1>2, <1>3, <1>4 DEF KeptIsAnnounced, EventsInOrder
<1>7. ActsOnWhatWasSeen'
  <2> SUFFICES ASSUME at' = "found"
               PROVE  \E n \in (seen..Len(announced))' :
                        found' = FindConfig(ListOf(n), line.arg)'
    BY DEF ActsOnWhatWasSeen
  <2>1. PICK n \in seen..Len(announced) : found = FindConfig(ListOf(n), line.arg)
    BY <1>2, <1>3 DEF ActsOnWhatWasSeen
  <2>2. n \in 0..Len(announced) /\ n \in (seen..Len(announced))'
    BY <1>2, <1>3, <1>4 DEF EventsInOrder
  <2>3. FindConfig(ListOf(n), line.arg)' = FindConfig(ListOf(n), line.arg)
    BY <1>3, <1>4, <2>2
  <2> QED
    BY <1>3, <2>1, <2>2, <2>3
<1> QED
  BY <1>5, <1>6, <1>7 DEF CliInv

LEMMA OthersKeep ==
  ASSUME CliInv, Take \/ Follow \/ UNCHANGED cliVars
  PROVE  CliInv'
<1>1. UNCHANGED <<eventVars, promptVars>>
  BY DEF Take, Follow, cliVars
<1>2. UNCHANGED <<announced, stored, known, shown, at, line, found, seen>>
  BY <1>1 DEF eventVars, promptVars
<1>3. EventsInOrder' /\ KeptIsAnnounced'
  BY <1>2 DEF CliInv, EventsInOrder, KeptIsAnnounced, ListOf
<1>4. ActsOnWhatWasSeen'
  BY <1>2, StillFound DEF CliInv
<1> QED
  BY <1>3, <1>4 DEF CliInv

(* Whatever is announced between the typing of a line, the lookup and the   *)
(* call, the call carries what the controller said under the name, no       *)
(* earlier than the list the operator saw.                                  *)
THEOREM PromptActsOnWhatWasSeen == CliSpec => []ActsOnWhatWasSeen
<1>1. CliInv /\ [CliNext]_cliVars => CliInv'
  BY EventThreadKeeps, PromptKeeps, AnnounceKeeps, OthersKeep DEF CliNext
<1>2. CliInv => ActsOnWhatWasSeen
  BY DEF CliInv
<1> QED
  BY CliBegins, <1>1, <1>2, PTL DEF CliSpec
=============================================================================
