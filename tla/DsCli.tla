-------------------------------- MODULE DsCli --------------------------------
(***************************************************************************)
(* The command line driver station (ds_cli/src/main.rs): the prompt, which *)
(* runs one line at a time and calls the client; the event thread, which   *)
(* keeps the configurations last announced and prints what happens; and,   *)
(* under them, the client as DsSession promises it.                        *)
(*                                                                         *)
(* Of the events only lists of configurations are kept, the others are     *)
(* printed; of the calls only those that concern the link and the gamepad  *)
(* have an effect here.  Editing of the line is left out.                  *)
(***************************************************************************)
EXTENDS Integers, SequencesExt

CONSTANTS
  Addrs, None,
  Lines,                 \* what is typed: [cmd, arg], arg None without one
  Lists,                 \* what is announced: sequences of [name, id]
  Garbage,               \* a list that does not parse
  MaxLists, MaxControl   \* bounds: lists announced, calls waiting

ASSUME CliAssumption == None \notin Addrs /\ Garbage \notin Lists

VARIABLES
  link, peer, view,      \* the session, as in DsSession
  control,               \* calls the worker has not taken yet
  stick,                 \* what the controller of the session was last sent
  announced,             \* history: every list that was announced
  stored, known,         \* event thread: lists stored so far, known_configs
  shown,                 \* lists printed so far
  at, line, found,       \* prompt: where it is, the line it runs, what it found
  seen,                  \* history: lists printed when the line was typed
  lastInited

sessionVars == <<link, peer, view>>
eventVars   == <<announced, stored, known, shown>>
promptVars  == <<at, line, found, seen, lastInited>>
cliVars     == <<sessionVars, control, stick, eventVars, promptVars>>

Session == INSTANCE DsSession

-----------------------------------------------------------------------------
(* The event thread: a list replaces the one before it, then is printed.    *)
ParseConfigList(extra) == IF extra = Garbage THEN <<>> ELSE extra

(* Seeded fault: a list is printed before it is kept. *)
StoreListLate ==
  /\ shown > stored /\ stored' = stored + 1
  /\ known' = ParseConfigList(announced[stored + 1])
  /\ UNCHANGED <<announced, shown>>
PrintListEarly ==
  /\ stored = shown /\ shown < Len(announced) /\ shown' = shown + 1
  /\ UNCHANGED <<announced, stored, known>>
HandleEventLate == StoreListLate \/ PrintListEarly

StoreList ==
  /\ stored = shown /\ stored < Len(announced) /\ stored' = stored + 1
  /\ known' = ParseConfigList(announced[stored + 1])
  /\ UNCHANGED <<announced, shown>>
PrintList ==
  /\ shown < stored /\ shown' = stored
  /\ UNCHANGED <<announced, stored, known>>
HandleEvent == StoreList \/ PrintList

EventThread ==
  /\ at # "done" /\ HandleEvent
  /\ UNCHANGED <<sessionVars, control, stick, promptVars>>

-----------------------------------------------------------------------------
(* The prompt.  Its calls go to the worker's control channel.               *)
Calls(c) == control' = Append(control, c)
ConfigCommands == {"config", "activate-config", "delete-config"}
PlainCommands  ==
  {"list", "stop", "restart", "connect", "disconnect", "active-config", "configs",
   "device-types", "scan"}
WithArgument   == {"save-config", "lynx-modules"}

ReadLine ==
  /\ at = "ready" /\ Len(control) < MaxControl
  /\ line' \in Lines /\ at' = "run" /\ seen' = shown
  /\ UNCHANGED <<control, found, lastInited>>

(* The line is done with: what was found is forgotten with it. *)
Done == at' = "ready" /\ found' = None /\ UNCHANGED <<line, seen>>

RunPlain ==
  /\ at = "run"
  /\ \/ line.cmd \in PlainCommands
     \/ line.cmd \in WithArgument /\ line.arg # None
  /\ Calls(line.cmd) /\ Done /\ UNCHANGED lastInited

RunInit ==
  /\ at = "run" /\ line.cmd = "init" /\ line.arg # None
  /\ lastInited' = line.arg /\ Calls("init") /\ Done

RunRun ==
  /\ at = "run" /\ line.cmd = "run"
  /\ IF line.arg = None /\ lastInited = None THEN UNCHANGED control ELSE Calls("run")
  /\ Done /\ UNCHANGED lastInited

(* find_config: the first of that name, taken under the lock. *)
FindConfig(list, name) ==
  LET i == SelectInSeq(list, LAMBDA c : c.name = name)
  IN  IF i = 0 THEN None ELSE list[i]

Find ==
  /\ at = "run" /\ line.cmd \in ConfigCommands /\ line.arg # None
  /\ at' = "found" /\ found' = FindConfig(known, line.arg)
  /\ UNCHANGED <<control, line, seen, lastInited>>

UseFound ==
  /\ at = "found"
  /\ IF found = None THEN UNCHANGED control ELSE Calls(line.cmd)
  /\ Done /\ UNCHANGED lastInited

(* Seeded fault: the stick is left where it was. *)
PushOnly ==
  /\ at = "run" /\ line.cmd = "w"
  /\ Calls("forward") /\ Done /\ UNCHANGED lastInited
Push ==
  /\ at = "run" /\ line.cmd = "w"
  /\ Calls("forward") /\ at' = "pulse"
  /\ UNCHANGED <<line, found, seen, lastInited>>

Release ==
  /\ at = "pulse" /\ Calls("rest")
  /\ Done /\ UNCHANGED lastInited

Quit ==
  /\ at = "run" /\ line.cmd = "quit"
  /\ Calls("shutdown") /\ at' = "done"
  /\ UNCHANGED <<line, found, seen, lastInited>>

Refuse ==
  /\ at = "run" /\ line.arg = None /\ line.cmd \in ConfigCommands \cup WithArgument \cup {"init", ""}
  /\ Done /\ UNCHANGED <<control, lastInited>>

RunLine ==
  \/ RunPlain \/ RunInit \/ RunRun \/ Find \/ UseFound \/ Push \/ Release
  \/ Quit \/ Refuse

Prompt ==
  /\ ReadLine \/ RunLine
  /\ UNCHANGED <<sessionVars, stick, eventVars>>

-----------------------------------------------------------------------------
(* The client's worker, and the controller that it follows. *)
Rested == stick' = IF link' = "connected" THEN stick ELSE "rest"

Take ==
  /\ control # <<>> /\ control' = Tail(control)
  /\ LET call == Head(control)
     IN  CASE call = "connect" /\ link = "paused"    -> Session!Resume /\ Rested
           [] call = "disconnect" /\ link \in {"searching", "connected"}
                                                     -> Session!Pause /\ Rested
           [] call = "shutdown"                      -> Session!Close /\ Rested
           [] call \in {"forward", "rest"} /\ link = "connected"
                                                     -> stick' = call /\ UNCHANGED sessionVars
           [] OTHER                                  -> UNCHANGED <<sessionVars, stick>>
  /\ UNCHANGED <<eventVars, promptVars>>

Follow ==
  /\ (\E p \in Addrs : Session!Begin(p)) \/ Session!Lose \/ Session!Pause
  /\ Rested
  /\ UNCHANGED <<control, eventVars, promptVars>>

Announce ==
  /\ link = "connected" /\ Len(announced) < MaxLists
  /\ \E l \in Lists \cup {Garbage} : announced' = Append(announced, l)
  /\ UNCHANGED <<sessionVars, control, stick, stored, known, shown, promptVars>>

-----------------------------------------------------------------------------
CliInit ==
  /\ Session!Init /\ control = <<>> /\ stick = "rest"
  /\ announced = <<>> /\ stored = 0 /\ known = <<>> /\ shown = 0
  /\ at = "ready" /\ line = [cmd |-> "", arg |-> None] /\ found = None
  /\ seen = 0 /\ lastInited = None

CliNext == EventThread \/ Prompt \/ Take \/ Follow \/ Announce

(* The worker and the prompt are scheduled; what is typed, and when, is up  *)
(* to the operator.                                                         *)
CliSpec ==
  /\ CliInit /\ [][CliNext]_cliVars
  /\ WF_cliVars(Take) /\ WF_cliVars(RunLine /\ UNCHANGED <<sessionVars, stick, eventVars>>)
-----------------------------------------------------------------------------
(* A command on a configuration carries what the controller said under that *)
(* name, in a list no older than the one on the screen when the line was    *)
(* typed; and a name is refused only if such a list lacks it.  The thread   *)
(* that keeps the lists runs between the typing and the lookup, and between *)
(* the lookup and the call.                                                 *)
ListOf(n) == IF n = 0 THEN <<>> ELSE ParseConfigList(announced[n])
ActsOnWhatWasSeen ==
  at = "found" => \E n \in seen..Len(announced) : found = FindConfig(ListOf(n), line.arg)

(* ds_cli/src/main.rs:12, "pulse gamepad1 forward stick": the controller    *)
(* that was sent the stick forward is sent it at rest, or its session ends. *)
PulseEnds == stick = "forward" ~> stick = "rest"
=============================================================================
