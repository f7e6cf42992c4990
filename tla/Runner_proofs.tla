---------------------------- MODULE Runner_proofs ----------------------------
(***************************************************************************)
(* Theorems about Runner, for any events, triggers and effects, any        *)
(* commands and clients, and any number of ticks, boots and kills: no      *)
(* event takes effect twice in a process, none that came from scripts.yaml *)
(* waits for a tick that has passed, and no command runs twice or after    *)
(* its sender withdrew it.                                                 *)
(***************************************************************************)
EXTENDS Runner, TLAPS

-----------------------------------------------------------------------------
(* Events *)

\* An event that waits, or that is not known yet, was not applied.
FireInv ==
    /\ waiting \subseteq loadedIds /\ loadedIds \subseteq Events
    /\ scriptsYaml \in Scripts /\ kind \in Kinds
    /\ applies \in [Events -> 0..1] /\ rows \in [Events -> 0..1]
    /\ \A e \in Events : rows[e] <= applies[e]
    /\ \A e \in Events : e \in waiting \/ e \notin loadedIds => applies[e] = 0

fire_vars == <<waiting, loadedIds, applies, rows, scriptsYaml, kind>>

\* Events whose id is new are queued.
LEMMA NewEventsKeepFireInv ==
    ASSUME FireInv, NEW new \in SUBSET (Events \ loadedIds),
           waiting' = waiting \cup new, loadedIds' = loadedIds \cup new,
           UNCHANGED <<applies, rows, scriptsYaml, kind>>
    PROVE  FireInv'
BY DEF FireInv

\* Only events that wait are applied, and those that were wait no more.
LEMMA TickKeepsFireInv == FireInv /\ BeginTick => FireInv'
<1> SUFFICES ASSUME FireInv, BeginTick PROVE FireInv'
  OBVIOUS
<1>1. PICK due \in DueEvents : \E ok \in SUBSET due : \E written \in SUBSET ok :
        Apply(ok, written)
  BY DEF BeginTick
<1>2. PICK ok \in SUBSET due : \E written \in SUBSET ok : Apply(ok, written)
  BY <1>1
<1>3. PICK written \in SUBSET ok : Apply(ok, written)
  BY <1>2
<1>4. due \subseteq waiting
  BY DEF DueEvents
<1>5. UNCHANGED <<loadedIds, scriptsYaml, kind>>
  BY DEF BeginTick, client_vars
<1>6. waiting' = waiting \ ok
  BY <1>3 DEF Apply
<1>7. \A e \in ok : applies[e] = 0 /\ rows[e] = 0
  BY <1>4 DEF FireInv
<1>8. /\ applies' = [e \in Events |-> IF e \in ok THEN 1 ELSE applies[e]]
      /\ rows' = [e \in Events |-> IF e \in written THEN 1 ELSE rows[e]]
  BY <1>3, <1>7 DEF Apply, FireInv
<1> QED
  BY <1>4, <1>5, <1>6, <1>7, <1>8 DEF FireInv

\* A boot forgets what was applied and takes scripts.yaml as it is.
LEMMA BootKeepsFireInv == FireInv /\ Boot => FireInv'
BY RunnerAssumption DEF FireInv, Boot, NoScript, client_vars

\* What a command does to the scripts.
LEMMA HandleKeepsFireInv ==
    ASSUME FireInv, NEW c \in Commands, Handle(c) PROVE FireInv'
<1>1. UNCHANGED <<applies, rows, scriptsYaml, kind>>
  BY DEF Handle, HandleInject, HandleReload, HandleMove, HandleClose, Answer,
         script_vars
<1>2. kind[c].event \in Events
  BY RunnerAssumption DEF FireInv
<1>3. CASE HandleInject(c)
  <2> DEFINE new == {kind[c].event} \ loadedIds
  <2>1. /\ new \in SUBSET (Events \ loadedIds)
        /\ waiting' = waiting \cup new /\ loadedIds' = loadedIds \cup new
    BY <1>2, <1>3 DEF HandleInject
  <2> QED
    BY <1>1, <2>1, NewEventsKeepFireInv
<1>4. CASE HandleReload(c)
  <2>1. /\ Loads(t) \in SUBSET (Events \ loadedIds)
        /\ waiting' = waiting \cup Loads(t)
        /\ loadedIds' = loadedIds \cup Loads(t)
    BY <1>4, RunnerAssumption DEF HandleReload, Loads, NewEvents, FireInv
  <2> QED
    BY <1>1, <2>1, NewEventsKeepFireInv
<1>5. CASE HandleMove(c) \/ HandleClose(c)
  BY <1>1, <1>5 DEF HandleMove, HandleClose, script_vars, FireInv
<1> QED
  BY <1>3, <1>4, <1>5 DEF Handle

\* The invariant is inductive.
LEMMA FireStep == FireInv /\ [Next]_vars => FireInv'
<1> SUFFICES ASSUME FireInv, [Next]_vars PROVE FireInv'
  OBVIOUS
<1>1. CASE UNCHANGED fire_vars
  BY <1>1 DEF FireInv, fire_vars
<1>2. CASE Main
  BY <1>1, <1>2, TickKeepsFireInv, BootKeepsFireInv
     DEF Main, EndTick, HandleSignal, Leave, Exit, script_vars, client_vars,
         fire_vars
<1>3. CASE Server
  BY <1>1, <1>3 DEF Server, ServerStarts, Poll, ListFiles, Consume, EndPoll,
                    SkipFile, ServerFails, ReadFile, script_vars, client_vars,
                    fire_vars
<1>4. CASE SendSignal \/ Kill
  BY <1>1, <1>4 DEF SendSignal, Kill, script_vars, client_vars, fire_vars
<1>5. ASSUME NEW s \in Scripts, EditScripts(s) PROVE FireInv'
  BY <1>5 DEF EditScripts, client_vars, FireInv
<1>6. ASSUME NEW c \in Commands, Handle(c) PROVE FireInv'
  BY <1>6, HandleKeepsFireInv
<1>7. ASSUME NEW c \in Commands, Client(c) PROVE FireInv'
  BY <1>1, <1>7 DEF Client, BeginWrite, EndWrite, ReadAnswer, TimesOut,
                    script_vars, fire_vars
<1>8. CASE UNCHANGED vars
  BY <1>1, <1>8 DEF vars, script_vars, client_vars, fire_vars
<1> QED
  BY <1>2, <1>3, <1>4, <1>5, <1>6, <1>7, <1>8 DEF Next

\* In one process an event takes effect at most once, whatever is loaded,
\* reloaded or injected, and is not logged unless it took effect.
THEOREM EventsFireOnce == Spec => []FiresOncePerProcess
<1>1. Init => FireInv
  BY DEF Init, FireInv
<1>2. FireInv => FiresOncePerProcess
  BY DEF FireInv, FiresOncePerProcess
<1> QED
  BY <1>1, <1>2, FireStep, PTL DEF Spec

-----------------------------------------------------------------------------
(* Commands *)

\* A command is in one place: its file, the hands of the server, or executed.
\* Only one whose file is still there can be withdrawn.
CommandInv ==
    /\ file \in [Commands -> {None, "half", "whole"}]
    /\ client \in [Commands -> {"new", "writing", "waiting", "answered",
                                "gaveup", "withdrawn"}]
    /\ runs \in [Commands -> 0..1]
    /\ held \in Commands \cup {None}
    /\ held # None => client[held] \notin {"new", "writing"}
    /\ out \cap taken = {} /\ out \cup taken \subseteq Commands
    /\ \A c \in Commands :
         /\ file[c] # None => runs[c] = 0 /\ c \notin out \cup taken
         /\ c \in out \cup taken => runs[c] = 0
         /\ client[c] \in {"new", "writing", "withdrawn"} =>
              runs[c] = 0 /\ c \notin out \cup taken
         /\ client[c] \in {"new", "withdrawn"} => file[c] = None
         /\ client[c] = "writing" => file[c] = "half"
         /\ client[c] = "answered" \/ c \in responses => runs[c] = 1

command_vars == <<file, client, runs, held, out, taken, responses>>

\* What the server does with the files.
LEMMA ServerKeepsCommands == CommandInv /\ Server => CommandInv'
<1> SUFFICES ASSUME CommandInv, Server PROVE CommandInv'
  OBVIOUS
<1>1. CASE ServerStarts \/ Poll
  BY <1>1 DEF ServerStarts, Poll, ListFiles, file_vars, client_vars, CommandInv
<1>2. CASE Consume
  <2>1. /\ held \in Commands
        /\ out' = IF file[held] = "whole" THEN out \cup {held} ELSE out
        /\ file' = [file EXCEPT ![held] = None]
        /\ held' = None
        /\ UNCHANGED <<taken, responses, client, runs>>
    BY <1>2 DEF Consume, client_vars, CommandInv
  <2>2. CASE file[held] = "whole"
    <3>1. /\ runs[held] = 0 /\ held \notin out \cup taken
          /\ client[held] \notin {"new", "writing", "withdrawn"}
      BY <2>1, <2>2 DEF CommandInv, None
    <3> QED
      BY <2>1, <2>2, <3>1 DEF CommandInv, None
  <2>3. CASE file[held] # "whole"
    <3>1. UNCHANGED out /\ client[held] \notin {"new", "writing"} /\ held # None
      BY <2>1, <2>3, RunnerAssumption DEF CommandInv
    <3>2. file'[held] = None /\ \A c \in Commands \ {held} : file'[c] = file[c]
      BY <2>1 DEF CommandInv
    <3>3. file' \in [Commands -> {None, "half", "whole"}]
      BY <2>1 DEF CommandInv
    <3> QED
      BY <2>1, <3>1, <3>2, <3>3 DEF CommandInv
  <2> QED
    BY <2>2, <2>3
<1>3. CASE EndPoll
  BY <1>3 DEF EndPoll, file_vars, client_vars, CommandInv
<1>4. ASSUME NEW c \in Commands, SkipFile(c) \/ ServerFails(c) \/ ReadFile(c)
      PROVE  CommandInv'
  BY <1>4 DEF SkipFile, ServerFails, ReadFile, file_vars, client_vars, CommandInv,
              None
<1> QED
  BY <1>1, <1>2, <1>3, <1>4 DEF Server

\* A handler runs for a command that did not run before.
LEMMA HandleKeepsCommands ==
    ASSUME CommandInv, NEW c \in Commands, Handle(c) PROVE CommandInv'
<1>1. /\ c \in taken
      /\ taken' = taken \ {c}
      /\ runs' = [runs EXCEPT ![c] = @ + 1]
      /\ responses' = responses \cup {c}
      /\ UNCHANGED <<held, out, file, client>>
  BY DEF Handle, HandleInject, HandleReload, HandleMove, HandleClose, Answer,
         poll_vars
<1>2. runs[c] = 0 /\ c \notin out
  BY <1>1 DEF CommandInv
<1>3. runs' \in [Commands -> 0..1] /\ runs'[c] = 1
  BY <1>1, <1>2 DEF CommandInv
<1>4. \A d \in Commands \ {c} : runs'[d] = runs[d]
  BY <1>1
<1>5. file[c] = None /\ client[c] \notin {"new", "writing", "withdrawn"}
  BY <1>1 DEF CommandInv
<1> QED
  BY <1>1, <1>2, <1>3, <1>4, <1>5 DEF CommandInv

\* What a client does with its own file.
LEMMA ClientKeepsCommands ==
    ASSUME CommandInv, NEW c \in Commands, Client(c) PROVE CommandInv'
<1>1. CASE BeginWrite(c)
  BY <1>1 DEF BeginWrite, server_vars, poll_vars, CommandInv, None
<1>2. CASE EndWrite(c)
  BY <1>2 DEF EndWrite, server_vars, poll_vars, CommandInv, None
<1>3. CASE ReadAnswer(c)
  BY <1>3 DEF ReadAnswer, server_vars, poll_vars, CommandInv
<1>4. CASE TimesOut(c)
  <2>1. /\ UNCHANGED <<held, out, taken, responses, runs>>
        /\ client[c] = "waiting"
        /\ client' = [client EXCEPT ![c] =
                         IF file[c] = "whole" /\ c \notin Renames
                           THEN "withdrawn" ELSE "gaveup"]
        /\ file' = IF c \in Renames THEN file ELSE [file EXCEPT ![c] = None]
    BY <1>4 DEF TimesOut, server_vars, poll_vars
  <2>2. CASE file[c] = "whole" /\ c \notin Renames
    <3>1. runs[c] = 0 /\ c \notin out \cup taken
      BY <2>2 DEF CommandInv, None
    <3> QED
      BY <2>1, <2>2, <3>1 DEF CommandInv
  <2>3. CASE ~(file[c] = "whole" /\ c \notin Renames)
    BY <2>1, <2>3 DEF CommandInv
  <2> QED
    BY <2>2, <2>3
<1> QED
  BY <1>1, <1>2, <1>3, <1>4 DEF Client

\* The invariant is inductive. A kill takes what the server had in hand.
LEMMA CommandStep == CommandInv /\ [Next]_vars => CommandInv'
<1> SUFFICES ASSUME CommandInv, [Next]_vars PROVE CommandInv'
  OBVIOUS
<1>1. CASE UNCHANGED command_vars
  BY <1>1 DEF CommandInv, command_vars
<1>2. CASE Main
  BY <1>1, <1>2 DEF Main, Boot, BeginTick, EndTick, HandleSignal, Leave, Exit,
                    server_vars, poll_vars, file_vars, client_vars, command_vars
<1>3. CASE Server
  BY <1>3, ServerKeepsCommands
<1>4. CASE SendSignal
  BY <1>1, <1>4 DEF SendSignal, server_vars, poll_vars, file_vars, client_vars,
                    command_vars
<1>5. CASE Kill
  BY <1>5 DEF Kill, file_vars, client_vars, CommandInv
<1>6. ASSUME NEW s \in Scripts, EditScripts(s) PROVE CommandInv'
  BY <1>1, <1>6 DEF EditScripts, server_vars, poll_vars, file_vars, client_vars,
                    command_vars
<1>7. ASSUME NEW c \in Commands, Handle(c) PROVE CommandInv'
  BY <1>7, HandleKeepsCommands
<1>8. ASSUME NEW c \in Commands, Client(c) PROVE CommandInv'
  BY <1>8, ClientKeepsCommands
<1>9. CASE UNCHANGED vars
  BY <1>1, <1>9 DEF vars, server_vars, poll_vars, file_vars, client_vars,
                    command_vars
<1> QED
  BY <1>2, <1>3, <1>4, <1>5, <1>6, <1>7, <1>8, <1>9 DEF Next

\* A command runs at most once, over all boots; one its sender withdrew never
\* does, and one that was answered did.
THEOREM CommandsRunOnce == Spec => []WithdrawnNeverRuns
<1>1. Init => CommandInv
  BY RunnerAssumption DEF Init, CommandInv
<1>2. CommandInv => WithdrawnNeverRuns
  BY DEF CommandInv, WithdrawnNeverRuns
<1> QED
  BY <1>1, <1>2, CommandStep, PTL DEF Spec

-----------------------------------------------------------------------------
(* Types, and what waits *)

\* A tick that goes on is not the last one. That a command runs at most once
\* bounds the counter of its runs.
RunnerInv ==
    /\ TypeOK
    /\ CommandInv
    /\ phase = "tick" => t < MaxTicks
    /\ NothingWaitsForThePast

\* What is loaded and injected.
LoadedTyped ==
    /\ waiting \subseteq loadedIds \ applied
    /\ applied \subseteq loadedIds /\ loadedIds \subseteq Events
    /\ injected \cup early \cup failed \subseteq loadedIds
    /\ log \subseteq Events

\* What the server and its clients have in hand.
FilesTyped ==
    /\ server \in {"off", "sleeping", "polling", "closed"}
    /\ env \in {None, "alive", "stopped"}
    /\ batch \cup out \cup taken \cup responses \subseteq Commands
    /\ held \in Commands \cup {None}
    /\ file \in [Commands -> {None, "half", "whole"}]
    /\ client \in [Commands -> {"new", "writing", "waiting", "answered",
                                "gaveup", "withdrawn"}]
    /\ kind \in Kinds
    /\ runs \in [Commands -> 0..2]

\* Where main() is.
MainTyped ==
    /\ phase \in {"down", "ready", "tick", "stopping", "done", "killed"}
    /\ t \in 0..MaxTicks /\ stop \in {"no", "sent", "set"}
    /\ agents \in BOOLEAN /\ boots \in 0..MaxBoots
    /\ phase = "tick" => t < MaxTicks

\* What was applied and logged, and the file the events come from.
CountsTyped ==
    /\ edits \in 0..MaxEdits /\ scriptsYaml \in Scripts
    /\ applies \in [Events -> 0..2] /\ rows \in [Events -> 0..2]

\* The parts are the whole.
LEMMA TypeParts ==
    TypeOK /\ (phase = "tick" => t < MaxTicks)
      <=> MainTyped /\ LoadedTyped /\ FilesTyped /\ CountsTyped
BY DEF TypeOK, MainTyped, LoadedTyped, FilesTyped, CountsTyped

\* main() enters a tick only below the bound and leaves it one later.
LEMMA MainKeepsPhase == MainTyped /\ [Next]_vars => MainTyped'
<1> SUFFICES ASSUME MainTyped, [Next]_vars PROVE MainTyped'
  OBVIOUS
<1>0. MaxTicks \in Nat /\ MaxBoots \in Nat
  BY RunnerAssumption
<1>1. CASE UNCHANGED main_vars
  BY <1>1 DEF MainTyped, main_vars
<1>2. CASE Boot
  <2>1. /\ phase' = "ready" /\ boots' = boots + 1 /\ boots < MaxBoots
        /\ t' = 0 /\ stop' = "no"
    BY <1>2 DEF Boot
  <2>2. agents' \in BOOLEAN
    BY <1>2 DEF Boot
  <2>3. boots' \in 0..MaxBoots /\ t' \in 0..MaxTicks
    BY <1>0, <2>1 DEF MainTyped
  <2> QED
    BY <2>1, <2>2, <2>3 DEF MainTyped
<1>3. CASE BeginTick
  <2>1. PICK b \in BOOLEAN : agents' = b
    BY <1>3 DEF BeginTick, MainTyped
  <2> QED
    BY <1>3, <2>1 DEF BeginTick, MainTyped
<1>4. CASE EndTick \/ HandleSignal \/ Leave \/ Exit \/ SendSignal \/ Kill
  BY <1>0, <1>4 DEF EndTick, HandleSignal, Leave, Exit, SendSignal, Kill, MainTyped
<1>5. CASE Server
  BY <1>1, <1>5 DEF Server, ServerStarts, Poll, ListFiles, Consume, EndPoll,
                    SkipFile, ServerFails, ReadFile
<1>6. ASSUME NEW s \in Scripts, EditScripts(s) PROVE MainTyped'
  BY <1>1, <1>6 DEF EditScripts
<1>7. ASSUME NEW c \in Commands, Handle(c) \/ Client(c) PROVE MainTyped'
  BY <1>1, <1>7 DEF Handle, HandleInject, HandleReload, HandleMove, HandleClose,
         Answer, Client, BeginWrite, EndWrite, ReadAnswer, TimesOut
<1>8. CASE UNCHANGED vars
  BY <1>1, <1>8 DEF vars
<1> QED
  BY <1>2, <1>3, <1>4, <1>5, <1>6, <1>7, <1>8 DEF Next, Main

\* What is loaded stays loaded until the next boot.
LEMMA LoadedStep ==
    LoadedTyped /\ CountsTyped /\ FilesTyped /\ [Next]_vars => LoadedTyped'
<1> SUFFICES ASSUME LoadedTyped, CountsTyped, FilesTyped, [Next]_vars
             PROVE  LoadedTyped'
  OBVIOUS
<1>1. CASE UNCHANGED script_vars
  BY <1>1 DEF LoadedTyped, script_vars
<1>2. CASE Boot
  BY <1>2, RunnerAssumption DEF Boot, NoScript, LoadedTyped, CountsTyped
<1>3. CASE BeginTick
  <2>1. PICK due \in DueEvents : \E ok \in SUBSET due :
          \E written \in SUBSET ok :
             Apply(ok, written) /\ failed' = failed \cup (due \ ok)
    BY <1>3 DEF BeginTick
  <2>2. PICK ok \in SUBSET due : \E written \in SUBSET ok :
             Apply(ok, written) /\ failed' = failed \cup (due \ ok)
    BY <2>1
  <2>3. /\ applied' = applied \cup ok /\ waiting' = waiting \ ok
        /\ failed' = failed \cup (due \ ok)
        /\ log' \subseteq log \cup ok
    BY <2>2 DEF Apply
  <2>4. due \subseteq waiting
    BY DEF DueEvents
  <2>5. UNCHANGED <<loadedIds, injected, early>>
    BY <1>3 DEF BeginTick
  <2> QED
    BY <2>3, <2>4, <2>5 DEF LoadedTyped
<1>4. CASE EndTick \/ HandleSignal \/ Leave \/ Exit \/ SendSignal \/ Kill
  BY <1>1, <1>4 DEF EndTick, HandleSignal, Leave, Exit, SendSignal, Kill
<1>5. CASE Server
  BY <1>1, <1>5 DEF Server, ServerStarts, Poll, ListFiles, Consume, EndPoll,
                    SkipFile, ServerFails, ReadFile
<1>6. ASSUME NEW s \in Scripts, EditScripts(s) PROVE LoadedTyped'
  BY <1>6 DEF EditScripts, LoadedTyped
<1>7. ASSUME NEW c \in Commands, Handle(c) PROVE LoadedTyped'
  <2>1. kind[c].event \in Events
    BY RunnerAssumption DEF FilesTyped
  <2>2. CASE HandleInject(c)
    BY <2>1, <2>2 DEF HandleInject, LoadedTyped
  <2>3. CASE HandleReload(c)
    <3>1. Loads(t) \subseteq Events \ loadedIds
      BY RunnerAssumption DEF Loads, NewEvents, CountsTyped
    <3>2. early' \subseteq early \cup Loads(t)
      BY <2>3 DEF HandleReload
    <3> QED
      BY <2>3, <3>1, <3>2 DEF HandleReload, LoadedTyped
  <2>4. CASE HandleMove(c) \/ HandleClose(c)
    BY <1>1, <2>4 DEF HandleMove, HandleClose
  <2> QED
    BY <1>7, <2>2, <2>3, <2>4 DEF Handle
<1>8. ASSUME NEW c \in Commands, Client(c) PROVE LoadedTyped'
  BY <1>1, <1>8 DEF Client, BeginWrite, EndWrite, ReadAnswer, TimesOut
<1>9. CASE UNCHANGED vars
  BY <1>1, <1>9 DEF vars
<1> QED
  BY <1>2, <1>3, <1>4, <1>5, <1>6, <1>7, <1>8, <1>9 DEF Next, Main

\* What CommandInv leaves open of FilesTyped.
InHand ==
    /\ server \in {"off", "sleeping", "polling", "closed"}
    /\ env \in {None, "alive", "stopped"}
    /\ batch \cup responses \subseteq Commands
    /\ kind \in Kinds

\* The rest of the types follows from CommandInv.
LEMMA InHandTyped == CommandInv /\ InHand => FilesTyped
<1>1. CommandInv => /\ runs \in [Commands -> 0..2]
                    /\ out \cup taken \subseteq Commands
  BY DEF CommandInv
<1> QED
  BY <1>1 DEF InHand, FilesTyped, CommandInv

\* The server and its clients stay well typed.
LEMMA FilesStep ==
    FilesTyped /\ CommandInv /\ [Next]_vars => FilesTyped'
<1> SUFFICES ASSUME FilesTyped, CommandInv, [Next]_vars PROVE FilesTyped'
  OBVIOUS
<1>1. CommandInv'
  BY CommandStep
<1>3. CommandInv' /\ InHand' => FilesTyped'
  BY InHandTyped, PTL
<1>4. InHand
  BY DEF FilesTyped, InHand
<1>5. InHand'
  <2>1. CASE UNCHANGED <<server, env, batch, responses, kind>>
    BY <1>4, <2>1 DEF InHand
  <2>2. CASE Main
    BY <1>4, <2>1, <2>2 DEF InHand, Main, Boot, BeginTick, EndTick, HandleSignal, Leave,
           Exit, server_vars, poll_vars, file_vars, client_vars
  <2>3. CASE Server
    <3>1. CASE ServerStarts \/ Poll
      BY <1>4, <3>1 DEF InHand, ServerStarts, Poll, ListFiles, file_vars, client_vars
    <3>2. CASE Consume \/ EndPoll
      BY <1>4, <3>2 DEF InHand, Consume, EndPoll, file_vars, client_vars
    <3>3. ASSUME NEW c \in Commands, SkipFile(c) \/ ServerFails(c) \/ ReadFile(c)
          PROVE  InHand'
      BY <1>4, <3>3 DEF InHand, SkipFile, ServerFails, ReadFile, file_vars, client_vars
    <3> QED
      BY <2>3, <3>1, <3>2, <3>3 DEF InHand, Server
  <2>4. CASE SendSignal
    BY <2>1, <2>4 DEF InHand, SendSignal, server_vars, poll_vars, file_vars, client_vars
  <2>5. CASE Kill
    BY <1>4, <2>5 DEF InHand, Kill, file_vars, client_vars
  <2>6. ASSUME NEW s \in Scripts, EditScripts(s) PROVE InHand'
    BY <2>1, <2>6 DEF InHand, EditScripts, server_vars, poll_vars, file_vars, client_vars
  <2>7. ASSUME NEW c \in Commands, Handle(c) PROVE InHand'
    BY <1>4, <2>7 DEF InHand, Handle, HandleInject, HandleReload, HandleMove,
           HandleClose, Answer, poll_vars
  <2>8. ASSUME NEW c \in Commands, Client(c) PROVE InHand'
    BY <1>4, <2>8 DEF InHand, Client, BeginWrite, EndWrite, ReadAnswer, TimesOut,
           server_vars, poll_vars
  <2>9. CASE UNCHANGED vars
    BY <2>1, <2>9 DEF InHand, vars, server_vars, poll_vars, file_vars, client_vars
  <2> QED
    BY <2>2, <2>3, <2>4, <2>5, <2>6, <2>7, <2>8, <2>9 DEF InHand, Next
<1> QED
  BY <1>1, <1>3, <1>5

\* The counters of effects and rows stop at 2.
LEMMA CountsStep == CountsTyped /\ [Next]_vars => CountsTyped'
<1> SUFFICES ASSUME CountsTyped, [Next]_vars PROVE CountsTyped'
  OBVIOUS
<1>0. MaxEdits \in Nat
  BY RunnerAssumption
<1>1. CASE UNCHANGED <<edits, scriptsYaml, applies, rows>>
  BY <1>1 DEF CountsTyped
<1>2. CASE Boot
  BY <1>2 DEF Boot, NoScript, CountsTyped
<1>3. CASE BeginTick
  <2>1. PICK ok, written : Apply(ok, written)
    BY <1>3 DEF BeginTick
  <2>2. UNCHANGED <<edits, scriptsYaml>>
    BY <1>3 DEF BeginTick
  <2>3. \A e \in Events : /\ applies[e] < 2 => applies[e] + 1 \in 0..2
                         /\ rows[e] < 2 => rows[e] + 1 \in 0..2
    BY DEF CountsTyped
  <2> QED
    BY <2>1, <2>2, <2>3 DEF Apply, CountsTyped
<1>4. CASE EndTick \/ HandleSignal \/ Leave \/ Exit \/ SendSignal \/ Kill
  BY <1>1, <1>4 DEF EndTick, HandleSignal, Leave, Exit, SendSignal, Kill,
                    script_vars
<1>5. CASE Server
  BY <1>1, <1>5 DEF Server, ServerStarts, Poll, ListFiles, Consume, EndPoll,
                    SkipFile, ServerFails, ReadFile, script_vars
<1>6. ASSUME NEW s \in Scripts, EditScripts(s) PROVE CountsTyped'
  BY <1>0, <1>6 DEF EditScripts, CountsTyped
<1>7. ASSUME NEW c \in Commands, Handle(c) \/ Client(c) PROVE CountsTyped'
  BY <1>1, <1>7 DEF Handle, HandleInject, HandleReload, HandleMove, HandleClose,
         Client, BeginWrite, EndWrite, ReadAnswer, TimesOut, script_vars
<1>8. CASE UNCHANGED vars
  BY <1>1, <1>8 DEF vars, script_vars
<1> QED
  BY <1>2, <1>3, <1>4, <1>5, <1>6, <1>7, <1>8 DEF Next, Main

wait_vars == <<phase, t, waiting, injected, failed, early>>

\* An event that is due in a tick is tried in it.
LEMMA DueIsTried ==
    ASSUME RunnerInv, BeginTick PROVE NothingWaitsForThePast'
<1>1. PICK due \in DueEvents : \E ok \in SUBSET due :
        \E written \in SUBSET ok :
           Apply(ok, written) /\ failed' = failed \cup (due \ ok)
  BY DEF BeginTick
<1>2. PICK ok \in SUBSET due : \E written \in SUBSET ok :
           Apply(ok, written) /\ failed' = failed \cup (due \ ok)
  BY <1>1
<1>3. waiting' = waiting \ ok /\ failed' = failed \cup (due \ ok)
  BY <1>2 DEF Apply
<1>4. /\ phase = "ready" /\ phase' = "tick"
      /\ UNCHANGED <<t, injected, early>>
  BY DEF BeginTick
<1>5. SUFFICES ASSUME NEW e \in waiting' \ (injected' \cup failed' \cup early'),
                      Trigger[e].kind = "at_time"
               PROVE  Trigger[e].first > t'
  BY <1>4 DEF NothingWaitsForThePast
<1>6. e \in waiting \ (injected \cup failed \cup early) /\ e \notin due
  BY <1>3, <1>4, <1>5
<1>7. t # Trigger[e].first
  <2>1. (e \in due) \in Fires(e)
    BY <1>6 DEF DueEvents
  <2>2. Fires(e) = {t = Trigger[e].first}
    BY <1>5 DEF Fires, AtTime
  <2>3. (e \in due) = (t = Trigger[e].first)
    BY <2>1, <2>2, Zenon
  <2> QED
    BY <1>6, <2>3, Zenon
<1>8. Trigger[e].first >= t
  BY <1>4, <1>5, <1>6 DEF RunnerInv, NothingWaitsForThePast
<1>9. Trigger[e].first \in Nat /\ t \in Nat
  <2>1. e \in Events
    BY <1>6 DEF RunnerInv, TypeOK
  <2> QED
    BY <2>1, RunnerAssumption DEF RunnerInv, TypeOK
<1> QED
  BY <1>4, <1>7, <1>8, <1>9

\* A reload leaves out what is past-due, an injected event is excused.
LEMMA HandleWaits ==
    ASSUME RunnerInv, NEW c \in Commands, Handle(c)
    PROVE  NothingWaitsForThePast'
<1>1. UNCHANGED <<phase, t, failed>>
  BY DEF Handle, HandleInject, HandleReload, HandleMove, HandleClose, Answer,
         main_vars, script_vars
<1>2. CASE HandleInject(c)
  <2>1. /\ waiting' \ injected' \subseteq waiting \ injected
        /\ early' = early
    BY <1>2 DEF HandleInject
  <2> QED
    BY <1>1, <2>1 DEF RunnerInv, NothingWaitsForThePast
<1>3. CASE HandleReload(c)
  <2>1. /\ waiting' = waiting \cup Loads(t)
        /\ early' = IF t = 0 THEN early \cup Loads(t) ELSE early
        /\ injected' = injected
    BY <1>3 DEF HandleReload
  <2>2. phase # "ready"
    BY DEF Handle, LoopFree
  <2>3. SUFFICES ASSUME NEW e \in waiting' \ (injected' \cup failed' \cup early'),
                        Trigger[e].kind = "at_time", phase = "tick"
                 PROVE  Trigger[e].first > t
    BY <1>1, <2>2 DEF NothingWaitsForThePast
  <2>4. CASE e \in waiting
    BY <1>1, <2>1, <2>3, <2>4 DEF RunnerInv, NothingWaitsForThePast
  <2>5. CASE e \in Loads(t)
    <3>1. t # 0 /\ ~PastDue(e, t) /\ e \in Events
      BY <2>1, <2>3, <2>5, RunnerAssumption
         DEF Loads, NewEvents, RunnerInv, TypeOK
    <3>2. t \in Nat /\ Trigger[e].first \in Nat
      BY <3>1, RunnerAssumption DEF RunnerInv, TypeOK
    <3> QED
      BY <2>3, <3>1, <3>2 DEF PastDue
  <2> QED
    BY <2>1, <2>3, <2>4, <2>5
<1>4. CASE HandleMove(c) \/ HandleClose(c)
  BY <1>1, <1>4 DEF HandleMove, HandleClose, script_vars, RunnerInv,
                    NothingWaitsForThePast
<1> QED
  BY <1>2, <1>3, <1>4 DEF Handle

\* No step lets an event wait for a tick that has passed.
LEMMA WaitsStep == RunnerInv /\ [Next]_vars => NothingWaitsForThePast'
<1> SUFFICES ASSUME RunnerInv, [Next]_vars PROVE NothingWaitsForThePast'
  OBVIOUS
<1>1. CASE UNCHANGED wait_vars
  BY <1>1 DEF RunnerInv, NothingWaitsForThePast, wait_vars
<1>2. CASE Boot
  <2>1. scriptsYaml \subseteq Events
    BY RunnerAssumption DEF RunnerInv, TypeOK
  <2>2. waiting' = scriptsYaml /\ t' = 0 /\ phase' = "ready"
    BY <1>2 DEF Boot
  <2>3. \A e \in Events : Trigger[e].first >= 0
    BY RunnerAssumption
  <2> QED
    BY <2>1, <2>2, <2>3 DEF NothingWaitsForThePast
<1>3. CASE BeginTick
  BY <1>3, DueIsTried
<1>4. CASE EndTick
  <2>1. /\ phase = "tick" /\ phase' = "ready" /\ t' = t + 1
        /\ UNCHANGED <<waiting, injected, failed, early>>
    BY <1>4 DEF EndTick, script_vars
  <2>2. \A e \in waiting : Trigger[e].first \in Nat
    BY RunnerAssumption DEF RunnerInv, TypeOK
  <2>3. t \in Nat
    BY RunnerAssumption DEF RunnerInv, TypeOK
  <2>4. SUFFICES ASSUME NEW e \in waiting \ (injected \cup failed \cup early),
                        Trigger[e].kind = "at_time"
                 PROVE  Trigger[e].first >= t + 1
    BY <2>1 DEF NothingWaitsForThePast
  <2>5. Trigger[e].first > t
    BY <2>1, <2>4 DEF RunnerInv, NothingWaitsForThePast
  <2> QED
    BY <2>2, <2>3, <2>4, <2>5
<1>5. CASE Leave \/ Exit \/ Kill
  BY <1>5 DEF Leave, Exit, Kill, NothingWaitsForThePast
<1>6. CASE HandleSignal \/ SendSignal
  BY <1>1, <1>6 DEF HandleSignal, SendSignal, script_vars, wait_vars
<1>7. CASE Server
  BY <1>1, <1>7 DEF Server, ServerStarts, Poll, ListFiles, Consume, EndPoll,
                    SkipFile, ServerFails, ReadFile, main_vars, script_vars,
                    wait_vars
<1>8. ASSUME NEW s \in Scripts, EditScripts(s) PROVE NothingWaitsForThePast'
  BY <1>1, <1>8 DEF EditScripts, main_vars, wait_vars
<1>9. ASSUME NEW c \in Commands, Handle(c) PROVE NothingWaitsForThePast'
  BY <1>9, HandleWaits
<1>10. ASSUME NEW c \in Commands, Client(c) PROVE NothingWaitsForThePast'
  BY <1>1, <1>10 DEF Client, BeginWrite, EndWrite, ReadAnswer, TimesOut,
         main_vars, script_vars, wait_vars
<1>11. CASE UNCHANGED vars
  BY <1>1, <1>11 DEF vars, main_vars, script_vars, wait_vars
<1> QED
  BY <1>2, <1>3, <1>4, <1>5, <1>6, <1>7, <1>8, <1>9, <1>10, <1>11 DEF Next, Main

\* The invariant is inductive.
LEMMA RunnerInvStep == RunnerInv /\ [Next]_vars => RunnerInv'
<1> SUFFICES ASSUME RunnerInv, [Next]_vars PROVE RunnerInv'
  OBVIOUS
<1>1. MainTyped /\ LoadedTyped /\ FilesTyped /\ CountsTyped /\ CommandInv
  BY TypeParts DEF RunnerInv
<1>2. MainTyped' /\ LoadedTyped' /\ FilesTyped' /\ CountsTyped' /\ CommandInv'
  BY <1>1, MainKeepsPhase, LoadedStep, FilesStep, CountsStep, CommandStep
<1>3. NothingWaitsForThePast'
  BY WaitsStep
<1>4. TypeOK' /\ (phase = "tick" => t < MaxTicks)'
  BY <1>2, TypeParts, PTL
<1> QED
  BY <1>2, <1>3, <1>4 DEF RunnerInv

\* No process is up before the first boot.
LEMMA RunnerInit == Init => RunnerInv
<1> SUFFICES ASSUME Init PROVE RunnerInv
  OBVIOUS
<1>1. CommandInv
  BY RunnerAssumption DEF Init, CommandInv
<1>2. MainTyped
  <2>1. 0 \in 0..MaxTicks /\ 0 \in 0..MaxBoots
    BY RunnerAssumption
  <2> QED
    BY <2>1 DEF Init, MainTyped
<1>3. LoadedTyped
  BY DEF Init, LoadedTyped
<1>4. FilesTyped
  BY DEF Init, FilesTyped
<1>5. CountsTyped
  BY RunnerAssumption DEF Init, CountsTyped
<1>6. NothingWaitsForThePast
  BY DEF Init, NothingWaitsForThePast
<1> QED
  BY <1>1, <1>2, <1>3, <1>4, <1>5, <1>6, TypeParts DEF RunnerInv

\* The engine, the main loop, the server and its clients stay well typed; the
\* clock and the counters stay within their bounds.
THEOREM RunnerTyped == Spec => []TypeOK
<1>1. RunnerInv => TypeOK
  BY DEF RunnerInv
<1> QED
  BY <1>1, RunnerInit, RunnerInvStep, PTL DEF Spec

\* An event of scripts.yaml that waits for a tick is still going to meet it,
\* whatever is reloaded in between, unless its effect was tried and failed.
THEOREM WaitingIsNotInVain == Spec => []NothingWaitsForThePast
<1>1. RunnerInv => NothingWaitsForThePast
  BY DEF RunnerInv
<1> QED
  BY <1>1, RunnerInit, RunnerInvStep, PTL DEF Spec
=============================================================================
