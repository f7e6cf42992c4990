------------------------------- MODULE Runner -------------------------------
(***************************************************************************)
(* The process that runs a simulation, seen from its event loop: the main  *)
(* loop with the script engine, the IPC server that shares the loop with   *)
(* it, and the clients that talk to the server through files from other     *)
(* processes. It may be killed at any moment and started again on the same  *)
(* directory, where it finds what was left there.                           *)
(*                                                                         *)
(* The server only runs while the main loop is suspended: in a tick, while  *)
(* pools are updated or agents decide. What a command or an effect does to  *)
(* the world is left out (see WorldStores), as are scripts.yaml files that  *)
(* do not validate: they load nothing, like empty ones. Files of one batch  *)
(* are read in any order, since times of modification order them.           *)
(***************************************************************************)
EXTENDS Integers, FiniteSets

CONSTANTS
    Events,      \* event ids of scripts
    Trigger,     \* event -> [kind, first, last]
    Effect,      \* event -> type of its effect
    Scripts,     \* the contents scripts.yaml takes, sets of events
    Commands,    \* command ids
    Kinds,       \* what the clients may want: functions from commands to [op, event]
    Renames,     \* commands whose client writes with a rename (ipc/client.py);
                 \* the others are written in place (app/services)
    HasPools,    \* a feed pool could be added
    MaxTicks, MaxBoots, MaxEdits   \* bounds

None == "none"

ASSUME RunnerAssumption ==
    /\ \A e \in Events :
         /\ Trigger[e].kind \in
              {"at_time", "on_duration", "at_condition", "on_action"}
         /\ Trigger[e].first \in Nat /\ Trigger[e].last \in Nat
    /\ Scripts \subseteq SUBSET Events
    /\ None \notin Commands
    /\ Kinds \subseteq [Commands -> [op : {"inject", "reload", "move", "close"},
                                   event : Events]]
    /\ Renames \subseteq Commands
    /\ HasPools \in BOOLEAN
    /\ {MaxTicks, MaxBoots, MaxEdits} \subseteq Nat

VARIABLES
    phase,      \* where main() is
    t,          \* the clock, and the ticks run
    stop,       \* "no", "sent" (a signal waits for the loop), "set"
    agents,     \* WorldState.agents is not empty
    boots, edits,
    scriptsYaml,
    waiting,    \* ScriptEngine.events_by_id
    loadedIds,  \* loaded_event_ids
    applied,    \* applied_events
    applies,    \* how often an effect was applied in this process (history)
    rows,       \* how often this process wrote its row (history)
    log,        \* the events with a row in script_event_log
    injected, failed, early,  \* events that were injected, whose effect
                \* failed, that were reloaded in tick 0 (history)
    server, env,    \* the server's coroutine, env_status.json
    batch, held,    \* files of a poll not yet read, the one just read
    out, taken,     \* commands read in this poll; tasks of _handle_one
    file,       \* ipc_commands/: "none", "half" written or "whole"
    responses,  \* ipc_responses/
    client,     \* what the sender of a command knows of it
    kind,       \* what it asks for
    runs        \* how often a command was executed (history)

main_vars == <<phase, t, stop, agents, boots>>
script_vars == <<waiting, loadedIds, applied, applies, rows, injected, failed,
                 early, scriptsYaml, edits, log>>
poll_vars == <<batch, held, out>>
server_vars == <<server, env, taken, poll_vars>>
file_vars == <<file, responses>>
client_vars == <<client, kind, runs>>
vars == <<main_vars, script_vars, server_vars, file_vars, client_vars>>

TypeOK ==
    /\ phase \in {"down", "ready", "tick", "stopping", "done", "killed"}
    /\ t \in 0..MaxTicks /\ stop \in {"no", "sent", "set"}
    /\ agents \in BOOLEAN
    /\ boots \in 0..MaxBoots /\ edits \in 0..MaxEdits
    /\ scriptsYaml \in Scripts
    /\ waiting \subseteq loadedIds \ applied /\ log \subseteq Events
    /\ applied \subseteq loadedIds /\ loadedIds \subseteq Events
    /\ applies \in [Events -> 0..2] /\ rows \in [Events -> 0..2]
    /\ injected \cup early \cup failed \subseteq loadedIds
    /\ server \in {"off", "sleeping", "polling", "closed"}
    /\ env \in {None, "alive", "stopped"}
    /\ batch \cup out \cup taken \cup responses \subseteq Commands
    /\ held \in Commands \cup {None}
    /\ file \in [Commands -> {None, "half", "whole"}]
    /\ client \in [Commands -> {"new", "writing", "waiting", "answered",
                                "gaveup", "withdrawn"}]
    /\ kind \in Kinds
    /\ runs \in [Commands -> 0..2]

NoScript ==
    /\ applied' = {} /\ injected' = {} /\ failed' = {} /\ early' = {}
    /\ applies' = [e \in Events |-> 0] /\ rows' = [e \in Events |-> 0]

Init ==
    /\ phase = "down" /\ t = 0 /\ stop = "no" /\ agents = FALSE
    /\ boots = 0 /\ edits = 0
    /\ scriptsYaml \in Scripts
    /\ waiting = {} /\ loadedIds = {} /\ applied = {}
    /\ injected = {} /\ failed = {} /\ early = {}
    /\ applies = [e \in Events |-> 0] /\ rows = [e \in Events |-> 0]
    /\ log = {}
    /\ server = "off" /\ env = None
    /\ batch = {} /\ held = None /\ out = {} /\ taken = {}
    /\ file = [c \in Commands |-> None] /\ responses = {}
    /\ client = [c \in Commands |-> "new"]
    /\ kind \in Kinds
    /\ runs = [c \in Commands |-> 0]

-----------------------------------------------------------------------------
(* ScriptEngine *)

\* Mutant: an event due in the tick that goes on is not past-due.
PastDueStrictly(e, now) ==
    Trigger[e].kind = "at_time" /\ Trigger[e].first < now /\ now > 0

\* _is_past_due: only at_time triggers have a t.
PastDue(e, now) ==
    Trigger[e].kind = "at_time" /\ Trigger[e].first <= now /\ now > 0

\* Events of scripts.yaml with an id that is not known yet.
NewEvents == scriptsYaml \ loadedIds

\* load_from_yaml at `now`.
Loads(now) == {e \in NewEvents : ~PastDue(e, now)}

\* Whether a trigger fires, by its type. A condition on the world may hold or
\* not, or fail to evaluate; nothing calls notify_action.
AtTime(e)      == {t = Trigger[e].first}
OnDuration(e)  == {Trigger[e].first <= t /\ t < Trigger[e].last}
AtCondition(e) == BOOLEAN
OnAction(e)    == {FALSE}

Fires(e) ==
    CASE Trigger[e].kind = "at_time"      -> AtTime(e)
      [] Trigger[e].kind = "on_duration"  -> OnDuration(e)
      [] Trigger[e].kind = "at_condition" -> AtCondition(e)
      [] Trigger[e].kind = "on_action"    -> OnAction(e)

\* The sets of events that may be due: all triggers are asked before the first
\* effect is applied.
DueEvents == {due \in SUBSET waiting : \A e \in waiting : (e \in due) \in Fires(e)}

\* Whether an effect succeeds, by its type. A broadcast finds nothing to write
\* with and says so in the log only. An agent that does not exist is passed
\* over; those that do are AgentRuntime stubs and have no update_memory.
\* PlaceStore has nothing place_mutation can call. Moves, relations and
\* capabilities fail for names that are not known.
Broadcast        == {TRUE}
StateChange      == {TRUE}
PlaceMutation    == {FALSE}
MoveEffect       == BOOLEAN
RelationChange   == BOOLEAN
CapabilityChange == BOOLEAN

DialogueInjection(due) ==
    IF agents \/ \E x \in due : Effect[x] = "state_change"
    THEN BOOLEAN ELSE {TRUE}

MaySucceed(e, due) ==
    CASE Effect[e] = "broadcast_event"    -> Broadcast
      [] Effect[e] = "state_change"       -> StateChange
      [] Effect[e] = "dialogue_injection" -> DialogueInjection(due)
      [] Effect[e] = "place_mutation"     -> PlaceMutation
      [] Effect[e] = "move"               -> MoveEffect
      [] Effect[e] = "relation_change"    -> RelationChange
      [] Effect[e] = "capability_change"  -> CapabilityChange

\* Mutant: an event whose row could not be written stays.
ApplyLogged(ok, written) ==
    /\ applied' = applied \cup written
    /\ waiting' = waiting \ written
    /\ applies' = [e \in Events |-> IF e \in ok /\ applies[e] < 2
                                      THEN applies[e] + 1 ELSE applies[e]]
    /\ rows' = [e \in Events |-> IF e \in written /\ rows[e] < 2
                                   THEN rows[e] + 1 ELSE rows[e]]
    /\ log' = log \cup written

\* Applied events go, whether their row could be written or not.
Apply(ok, written) ==
    /\ applied' = applied \cup ok
    /\ waiting' = waiting \ ok
    /\ applies' = [e \in Events |-> IF e \in ok /\ applies[e] < 2
                                      THEN applies[e] + 1 ELSE applies[e]]
    /\ rows' = [e \in Events |-> IF e \in written /\ rows[e] < 2
                                   THEN rows[e] + 1 ELSE rows[e]]
    /\ log' = log \cup written

\* The author of the scenario edits the file.
EditScripts(s) ==
    /\ edits < MaxEdits
    /\ s # scriptsYaml
    /\ edits' = edits + 1
    /\ scriptsYaml' = s
    /\ UNCHANGED <<main_vars, waiting, loadedIds, applied, applies, rows,
                   injected, failed, early, log, server_vars, file_vars,
                   client_vars>>

-----------------------------------------------------------------------------
(* main *)

\* What an earlier process wrote to script_event_log is not read back.
Boot ==
    /\ phase \in {"down", "done", "killed"}
    /\ boots < MaxBoots
    /\ phase' = "ready" /\ boots' = boots + 1
    /\ t' = 0 /\ stop' = "no" /\ agents' = FALSE
    /\ waiting' = scriptsYaml /\ loadedIds' = scriptsYaml
    /\ NoScript
    /\ server' = "off"
    /\ UNCHANGED <<scriptsYaml, edits, log, env, poll_vars, taken, file_vars,
                   client_vars>>

\* The scripts, up to where the loop may be suspended.
BeginTick ==
    /\ phase = "ready"
    /\ stop # "set"
    /\ t < MaxTicks
    /\ phase' = "tick"
    /\ \E due \in DueEvents :
         \E ok \in SUBSET due : \E written \in SUBSET ok :
              /\ \A e \in due : (e \in ok) \in MaySucceed(e, due)
              /\ Apply(ok, written)
              /\ failed' = failed \cup (due \ ok)
              /\ agents' = (agents \/ \E e \in ok : Effect[e] = "state_change")
    /\ UNCHANGED <<t, stop, boots, loadedIds, injected, early, scriptsYaml,
                   edits, server_vars, file_vars, client_vars>>

\* Something is awaited in this tick that does not return at once.
Suspends == HasPools \/ agents

LoopFree ==
    /\ server # "polling"
    /\ \/ phase = "tick" /\ Suspends
       \/ phase = "stopping"

\* The coroutine of the server was ready before what the tick waits for.
EndTick ==
    /\ phase = "tick"
    /\ Suspends => server # "off"
    /\ server # "polling"
    /\ phase' = "ready" /\ t' = t + 1
    /\ UNCHANGED <<stop, agents, boots, script_vars, server_vars, file_vars,
                   client_vars>>

SendSignal ==
    /\ phase \in {"ready", "tick"}
    /\ stop = "no"
    /\ stop' = "sent"
    /\ UNCHANGED <<phase, t, agents, boots, script_vars, server_vars, file_vars,
                   client_vars>>

\* The loop calls the handler of a signal like any other callback.
HandleSignal ==
    /\ LoopFree
    /\ stop = "sent"
    /\ stop' = "set"
    /\ UNCHANGED <<phase, t, agents, boots, script_vars, server_vars, file_vars,
                   client_vars>>

\* The finally clause, up to where it awaits the server.
Leave ==
    /\ phase = "ready"
    /\ stop = "set" \/ t = MaxTicks
    /\ phase' = "stopping"
    /\ server' = "closed" /\ env' = "stopped"
    /\ UNCHANGED <<t, stop, agents, boots, script_vars, poll_vars, taken,
                   file_vars, client_vars>>

\* Mutant: main() returns without awaiting the server.
ExitAtOnce ==
    /\ phase = "stopping"
    /\ phase' = "done"
    /\ UNCHANGED <<t, stop, agents, boots, script_vars, server_vars, file_vars,
                   client_vars>>

\* The tasks that exist are ahead of it.
Exit ==
    /\ phase = "stopping"
    /\ taken = {}
    /\ phase' = "done"
    /\ UNCHANGED <<t, stop, agents, boots, script_vars, server_vars, file_vars,
                   client_vars>>

Kill ==
    /\ phase \in {"ready", "tick", "stopping"}
    /\ phase' = "killed"
    /\ server' = "off"
    /\ batch' = {} /\ held' = None /\ out' = {} /\ taken' = {}
    /\ UNCHANGED <<t, stop, agents, boots, script_vars, env, file_vars,
                   client_vars>>

-----------------------------------------------------------------------------
(* IPCServer *)

ListFiles ==
    /\ server' = "polling"
    /\ batch' = {c \in Commands : file[c] # None}
    /\ UNCHANGED <<held, out, taken, main_vars, script_vars, file_vars,
                   client_vars>>

ServerStarts ==
    /\ phase = "tick" /\ Suspends
    /\ server = "off"
    /\ env' = "alive"
    /\ ListFiles

\* The tasks of the last poll are ahead of it.
Poll ==
    /\ phase = "tick" /\ LoopFree
    /\ server = "sleeping"
    /\ taken = {}
    /\ env' = env
    /\ ListFiles

\* A file that is gone or half written is skipped.
SkipFile(c) ==
    /\ c \in batch /\ held = None
    /\ file[c] # "whole"
    /\ batch' = batch \ {c}
    /\ UNCHANGED <<held, out, server, env, taken, main_vars, script_vars,
                   file_vars, client_vars>>

\* Half of a character is not text: UnicodeDecodeError is neither of the
\* exceptions that are caught, and ends the coroutine.
ServerFails(c) ==
    /\ c \in batch /\ held = None
    /\ file[c] = "half"
    /\ server' = "closed" /\ env' = "stopped"
    /\ batch' = {} /\ out' = {}
    /\ UNCHANGED <<held, taken, main_vars, script_vars, file_vars, client_vars>>

ReadFile(c) ==
    /\ c \in batch /\ held = None
    /\ file[c] = "whole"
    /\ held' = c
    /\ batch' = batch \ {c}
    /\ UNCHANGED <<out, server, env, taken, main_vars, script_vars, file_vars,
                   client_vars>>

\* Mutant: whether the file could be removed is not asked.
ConsumeAnyway ==
    /\ held # None
    /\ out' = out \cup {held}
    /\ file' = [file EXCEPT ![held] = None]
    /\ held' = None
    /\ UNCHANGED <<batch, server, env, taken, main_vars, script_vars, responses,
                   client_vars>>

\* os.remove: a client that has given up may have been faster.
Consume ==
    /\ held # None
    /\ out' = IF file[held] = "whole" THEN out \cup {held} ELSE out
    /\ file' = [file EXCEPT ![held] = None]
    /\ held' = None
    /\ UNCHANGED <<batch, server, env, taken, main_vars, script_vars, responses,
                   client_vars>>

EndPoll ==
    /\ server = "polling"
    /\ batch = {} /\ held = None
    /\ server' = "sleeping"
    /\ taken' = taken \cup out
    /\ out' = {}
    /\ UNCHANGED <<batch, held, env, main_vars, script_vars, file_vars,
                   client_vars>>

-----------------------------------------------------------------------------
(* Handlers: each runs without a suspension *)

Answer(c) ==
    /\ taken' = taken \ {c}
    /\ runs' = [runs EXCEPT ![c] = @ + 1]
    /\ responses' = responses \cup {c}
    /\ UNCHANGED <<main_vars, poll_vars, file, client, kind>>

\* Mutant: the id is not noted as loaded.
InjectUnnoted(c) ==
    /\ kind[c].op = "inject"
    /\ LET new == {kind[c].event} \ loadedIds IN
         /\ waiting' = waiting \cup new
         /\ injected' = injected \cup new
    /\ Answer(c)
    /\ UNCHANGED <<loadedIds, applied, applies, rows, log, failed, early,
                   scriptsYaml, edits, server, env>>

\* handle_inject_script_event: ids once loaded are ignored, and nobody asks
\* whether the event is past-due.
HandleInject(c) ==
    /\ kind[c].op = "inject"
    /\ LET new == {kind[c].event} \ loadedIds IN
         /\ waiting' = waiting \cup new
         /\ loadedIds' = loadedIds \cup new
         /\ injected' = injected \cup new
    /\ Answer(c)
    /\ UNCHANGED <<applied, applies, rows, log, failed, early, scriptsYaml,
                   edits, server, env>>

HandleReload(c) ==
    /\ kind[c].op = "reload"
    /\ waiting' = waiting \cup Loads(t)
    /\ loadedIds' = loadedIds \cup Loads(t)
    /\ early' = IF t = 0 THEN early \cup Loads(t) ELSE early
    /\ Answer(c)
    /\ UNCHANGED <<applied, applies, rows, log, failed, injected, scriptsYaml,
                   edits, server, env>>

\* MOVE_AGENT and LIST_PLACES.
HandleMove(c) ==
    /\ kind[c].op = "move"
    /\ Answer(c)
    /\ UNCHANGED <<script_vars, server, env>>

\* CLOSE_ENV ends the server; the main loop goes on.
HandleClose(c) ==
    /\ kind[c].op = "close"
    /\ server' = "closed" /\ env' = "stopped"
    /\ Answer(c)
    /\ UNCHANGED script_vars

Handle(c) ==
    /\ LoopFree
    /\ c \in taken
    /\ HandleInject(c) \/ HandleReload(c) \/ HandleMove(c) \/ HandleClose(c)

-----------------------------------------------------------------------------
(* Clients *)

\* open(.., "w"): the file is there before its contents are.
BeginWrite(c) ==
    /\ client[c] = "new"
    /\ c \notin Renames
    /\ client' = [client EXCEPT ![c] = "writing"]
    /\ file' = [file EXCEPT ![c] = "half"]
    /\ UNCHANGED <<main_vars, script_vars, server_vars, responses, kind, runs>>

EndWrite(c) ==
    /\ client[c] = IF c \in Renames THEN "new" ELSE "writing"
    /\ client' = [client EXCEPT ![c] = "waiting"]
    /\ file' = [file EXCEPT ![c] = "whole"]
    /\ UNCHANGED <<main_vars, script_vars, server_vars, responses, kind, runs>>

ReadAnswer(c) ==
    /\ client[c] = "waiting"
    /\ c \in responses
    /\ client' = [client EXCEPT ![c] = "answered"]
    /\ responses' = responses \ {c}
    /\ UNCHANGED <<main_vars, script_vars, server_vars, file, kind, runs>>

\* A client of app/services withdraws its command if it still can; one of
\* ipc/client.py leaves it there.
TimesOut(c) ==
    /\ client[c] = "waiting"
    /\ client' = [client EXCEPT ![c] = IF file[c] = "whole" /\ c \notin Renames
                                         THEN "withdrawn" ELSE "gaveup"]
    /\ file' = IF c \in Renames THEN file ELSE [file EXCEPT ![c] = None]
    /\ UNCHANGED <<main_vars, script_vars, server_vars, responses, kind, runs>>

-----------------------------------------------------------------------------
Main == Boot \/ BeginTick \/ EndTick \/ HandleSignal \/ Leave \/ Exit

Server ==
    \/ ServerStarts \/ Poll \/ Consume \/ EndPoll
    \/ \E c \in Commands : SkipFile(c) \/ ServerFails(c) \/ ReadFile(c)

Client(c) == BeginWrite(c) \/ EndWrite(c) \/ ReadAnswer(c) \/ TimesOut(c)

Next ==
    \/ Main \/ Server \/ SendSignal \/ Kill
    \/ \E s \in Scripts : EditScripts(s)
    \/ \E c \in Commands : Handle(c) \/ Client(c)

Spec == Init /\ [][Next]_vars

\* The loop never stops while it has something to do, and runs what is ready:
\* the handlers of commands, then what follows in main().
Fairness ==
    /\ WF_vars(BeginTick \/ EndTick \/ Leave \/ Exit)
    /\ WF_vars(ServerStarts \/ Consume \/ EndPoll)
    /\ WF_vars(\E c \in Commands : SkipFile(c) \/ ServerFails(c) \/ ReadFile(c))
    /\ \A c \in Commands : WF_vars(Handle(c))

FairSpec == Spec /\ Fairness

-----------------------------------------------------------------------------
(* Properties *)

\* "already-applied ids: skip (never re-fire)": in one process an event takes
\* effect at most once, whatever is loaded, reloaded or injected under its id
\* and whether its row in the log could be written, and is not logged unless
\* it took effect. It says nothing of the next process: Boot forgets what was
\* applied, since nothing reads the log, and an event fires once in each.
FiresOncePerProcess == \A e \in Events : rows[e] <= applies[e] /\ applies[e] <= 1

\* Nothing is queued in vain: an at_time event of scripts.yaml that waits is
\* still going to fire, unless it was tried and failed, or was reloaded in
\* tick 0, where nothing is past-due.
NothingWaitsForThePast ==
    \A e \in waiting \ (injected \cup failed \cup early) :
        Trigger[e].kind = "at_time" /\ phase \in {"ready", "tick"} =>
            IF phase = "tick" THEN Trigger[e].first > t ELSE Trigger[e].first >= t

\* A command runs at most once, over all restarts; one its sender withdrew
\* never does, and one that was answered did.
WithdrawnNeverRuns ==
    \A c \in Commands :
        /\ runs[c] <= 1
        /\ client[c] = "withdrawn" => runs[c] = 0 /\ c \notin out \cup taken
        /\ client[c] = "answered" => runs[c] = 1

\* A command for which there is a task is answered, also when the run ends or
\* another command closes the server, unless the process is killed.
TakenIsAnswered ==
    \A c \in Commands :
        c \in taken ~> (c \in responses \/ client[c] = "answered"
                          \/ phase = "killed")
=============================================================================
