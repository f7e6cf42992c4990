----------------------------- MODULE Supervisor -----------------------------
(***************************************************************************)
(* The service side of one simulation: SimulationManager prepares its      *)
(* directory, SimulationRunner starts and stops its process, and one       *)
(* daemon thread per start watches the process and tails actions.jsonl.    *)
(*                                                                         *)
(* Run i is the i-th start: its SimulationRunState object, its process and *)
(* its monitor thread carry that number. Requests are served one at a      *)
(* time; monitors, processes and requests interleave at every access to    *)
(* what they share. The service may die at any moment; its processes are   *)
(* sessions of their own and live on. Nobody calls register_cleanup, so    *)
(* cleanup_all_simulations does not run.                                   *)
(*                                                                         *)
(* The log is one file of lines, named by their position; its three copies *)
(* per platform are read the same way. PAUSED is never set.                *)
(***************************************************************************)
EXTENDS Integers, Sequences, FiniteSets, SequencesExt

CONSTANTS
    Patient,     \* whether callers give an ended run's monitor time to leave
    MaxRuns,     \* bound on starts
    MaxLines,    \* bound on the lines of actions.jsonl
    MaxCrashes,  \* bound on the deaths of the service
    MaxFaults    \* bound on deaths and failed monitors, for one more to fail

ASSUME SupervisorAssumption ==
    /\ Patient \in BOOLEAN
    /\ {MaxRuns, MaxLines, MaxCrashes, MaxFaults} \subseteq Nat

Runs == 1..MaxRuns

VARIABLES
    sim,       \* SimulationState.status
    config,    \* simulation_config.json: none, partial or whole
    nRuns,
    status,    \* runner_status of each state object
    cached,    \* _run_states: the object known for the simulation, 0 for none
    file,      \* run_state.json: which object was saved last, and how
    procs,     \* _processes: the process known for the simulation, 0 for none
    alive,     \* processes that have not exited
    code,      \* exit codes
    call,      \* the request being served: what it does next, and its object
    mon,       \* where the monitor thread of a run is
    monProc, monState,  \* the process and the object it took at its start
    log,       \* the lines of actions.jsonl: which run wrote each
    half,      \* the last line is not written to its end yet
    pos,       \* the monitor's position in half lines
    recorded,  \* the lines each object has counted
    torn,      \* lines that some monitor read in two pieces (history)
    crashes, left,  \* deaths of the service; processes alive at one (history)
    faulted    \* the runs whose monitor failed (history)

manager_vars == <<sim, config>>
state_vars == <<status, cached, file>>
proc_vars == <<procs, alive, code>>
mon_vars == <<mon, monProc, monState>>
tail_vars == <<pos, recorded, torn>>
world_vars == <<log, half, crashes, left, faulted>>
vars == <<manager_vars, nRuns, state_vars, proc_vars, call, mon_vars, tail_vars,
          world_vars>>

Active == {"starting", "running", "stopping"}
Terminal == {"stopped", "completed", "failed"}
Statuses == Active \cup Terminal \cup {"none"}
Steps == {"idle", "config", "dump", "ready", "spawn", "register", "save",
          "thread", "terminate", "wait"}
Idle == [next |-> "idle", run |-> 0, proc |-> 0]

TypeOK ==
    /\ sim \in {"created", "preparing", "ready"}
    /\ config \in {"none", "partial", "whole"}
    /\ nRuns \in 0..MaxRuns
    /\ status \in [Runs -> Statuses]
    /\ cached \in 0..MaxRuns
    /\ file \in [run : 0..MaxRuns, status : Statuses]
    /\ procs \in 0..MaxRuns
    /\ alive \subseteq Runs
    /\ code \in [Runs -> {"none", "zero", "nonzero"}]
    /\ call \in [next : Steps, run : 0..MaxRuns, proc : 0..MaxRuns]
    /\ mon \in [Runs -> {"none", "begin", "poll", "save", "pop", "done"}]
    /\ monProc \in [Runs -> 0..MaxRuns]
    /\ monState \in [Runs -> 0..MaxRuns]
    /\ log \in Seq(Runs) /\ Len(log) <= MaxLines
    /\ half \in BOOLEAN
    /\ pos \in [Runs -> 0..(2 * MaxLines)]
    /\ recorded \in [Runs -> Seq(1..MaxLines)]
    /\ torn \subseteq 1..MaxLines
    /\ crashes \in 0..MaxCrashes
    /\ left \subseteq Runs
    /\ faulted \subseteq Runs

Init ==
    /\ sim = "created" /\ config = "none"
    /\ nRuns = 0
    /\ status = [i \in Runs |-> "none"]
    /\ cached = 0
    /\ file = [run |-> 0, status |-> "none"]
    /\ procs = 0 /\ alive = {}
    /\ code = [i \in Runs |-> "none"]
    /\ call = Idle
    /\ mon = [i \in Runs |-> "none"]
    /\ monProc = [i \in Runs |-> 0]
    /\ monState = [i \in Runs |-> 0]
    /\ log = <<>> /\ half = FALSE
    /\ pos = [i \in Runs |-> 0]
    /\ recorded = [i \in Runs |-> <<>>]
    /\ torn = {}
    /\ crashes = 0 /\ left = {} /\ faulted = {}

-----------------------------------------------------------------------------
(* SimulationManager.prepare_simulation: state.json, the placeholder of the *)
(* configuration unless there is one, state.json again                      *)

PrepareBegins ==
    /\ call = Idle
    /\ sim' = "preparing"
    /\ call' = [Idle EXCEPT !.next = "config"]
    /\ UNCHANGED <<config, nRuns, state_vars, proc_vars, mon_vars, tail_vars,
                   world_vars>>

PrepareOpensConfig ==
    /\ call.next = "config"
    /\ IF config = "none"
         THEN /\ config' = "partial"
              /\ call' = [Idle EXCEPT !.next = "dump"]
         ELSE /\ config' = config
              /\ call' = [Idle EXCEPT !.next = "ready"]
    /\ UNCHANGED <<sim, nRuns, state_vars, proc_vars, mon_vars, tail_vars,
                   world_vars>>

PrepareDumpsConfig ==
    /\ call.next = "dump"
    /\ config' = "whole"
    /\ call' = [Idle EXCEPT !.next = "ready"]
    /\ UNCHANGED <<sim, nRuns, state_vars, proc_vars, mon_vars, tail_vars,
                   world_vars>>

PrepareEnds ==
    /\ call.next = "ready"
    /\ sim' = "ready"
    /\ call' = Idle
    /\ UNCHANGED <<config, nRuns, state_vars, proc_vars, mon_vars, tail_vars,
                   world_vars>>

-----------------------------------------------------------------------------
(* State I/O. An object never changes its status without being saved, so an *)
(* object loaded again has the status it had.                               *)

\* get_run_state: the object in memory, else the one on disk.
Known == IF cached # 0 THEN cached ELSE file.run

\* Object i takes status st, is written to disk and becomes the known one.
SaveRunState(i, st) ==
    /\ status' = [status EXCEPT ![i] = st]
    /\ file' = [run |-> i, status |-> st]
    /\ cached' = i

MonitorsAreGone == \A i \in Runs : mon[i] \in {"none", "done"}

\* Mutant: start does not ask whether the simulation is running.
StartsAnyway ==
    /\ call = Idle
    /\ nRuns < MaxRuns
    /\ Patient /\ file.status \in Terminal => MonitorsAreGone
    /\ config = "whole"
    /\ nRuns' = nRuns + 1
    /\ SaveRunState(nRuns', "starting")
    /\ call' = [next |-> "spawn", run |-> nRuns', proc |-> 0]
    /\ UNCHANGED <<manager_vars, proc_vars, mon_vars, tail_vars, world_vars>>

\* start_simulation up to its first save. A configuration that is missing or
\* does not parse raises before anything is written.
StartBegins ==
    /\ call = Idle
    /\ nRuns < MaxRuns
    /\ Patient /\ file.status \in Terminal => MonitorsAreGone
    /\ Known # 0 => status[Known] \notin {"running", "starting"}
    /\ config = "whole"
    /\ nRuns' = nRuns + 1
    /\ SaveRunState(nRuns', "starting")
    /\ call' = [next |-> "spawn", run |-> nRuns', proc |-> 0]
    /\ UNCHANGED <<manager_vars, proc_vars, mon_vars, tail_vars, world_vars>>

\* Popen returns a process, or raises.
Spawn ==
    /\ call.next = "spawn"
    /\ alive' = alive \cup {call.run}
    /\ call' = [call EXCEPT !.next = "register"]
    /\ UNCHANGED <<manager_vars, nRuns, state_vars, procs, code, mon_vars,
                   tail_vars, world_vars>>

SpawnFails ==
    /\ call.next = "spawn"
    /\ SaveRunState(call.run, "failed")
    /\ call' = Idle
    /\ UNCHANGED <<manager_vars, nRuns, proc_vars, mon_vars, tail_vars,
                   world_vars>>

Register ==
    /\ call.next = "register"
    /\ procs' = call.run
    /\ call' = [call EXCEPT !.next = "save"]
    /\ UNCHANGED <<manager_vars, nRuns, state_vars, alive, code, mon_vars,
                   tail_vars, world_vars>>

SaveRunning ==
    /\ call.next = "save"
    /\ SaveRunState(call.run, "running")
    /\ call' = [call EXCEPT !.next = "thread"]
    /\ UNCHANGED <<manager_vars, nRuns, proc_vars, mon_vars, tail_vars,
                   world_vars>>

StartMonitor ==
    /\ call.next = "thread"
    /\ mon' = [mon EXCEPT ![call.run] = "begin"]
    /\ call' = Idle
    /\ UNCHANGED <<manager_vars, nRuns, state_vars, proc_vars, monProc, monState,
                   tail_vars, world_vars>>

-----------------------------------------------------------------------------
(* stop_simulation *)

\* Any other status is returned as it is.
StopBegins ==
    /\ call = Idle
    /\ Known # 0
    /\ status[Known] = "running"
    /\ SaveRunState(Known, "stopping")
    /\ call' = [next |-> "terminate", run |-> Known, proc |-> 0]
    /\ UNCHANGED <<manager_vars, nRuns, proc_vars, mon_vars, tail_vars,
                   world_vars>>

\* SIGTERM to whatever process the supervisor knows now.
Terminate ==
    /\ call.next = "terminate"
    /\ call' = [call EXCEPT !.next = "wait", !.proc = procs]
    /\ UNCHANGED <<manager_vars, nRuns, state_vars, proc_vars, mon_vars,
                   tail_vars, world_vars>>

\* SIGKILL after the timeout.
Kill ==
    /\ call.next = "wait"
    /\ call.proc \in alive
    /\ alive' = alive \ {call.proc}
    /\ code' = [code EXCEPT ![call.proc] = "nonzero"]
    /\ UNCHANGED <<manager_vars, nRuns, state_vars, procs, call, mon_vars,
                   tail_vars, world_vars>>

\* Mutant: stop does not wait for the process to exit.
StopEndsAtOnce ==
    /\ call.next = "wait"
    /\ SaveRunState(call.run, "stopped")
    /\ call' = Idle
    /\ UNCHANGED <<manager_vars, nRuns, proc_vars, mon_vars, tail_vars,
                   world_vars>>

StopEnds ==
    /\ call.next = "wait"
    /\ call.proc \notin alive
    /\ SaveRunState(call.run, "stopped")
    /\ call' = Idle
    /\ UNCHANGED <<manager_vars, nRuns, proc_vars, mon_vars, tail_vars,
                   world_vars>>

-----------------------------------------------------------------------------
(* The process: it appends lines to actions.jsonl and exits, after SIGTERM  *)
(* like after its last round with exit code 0                               *)

WriteLine(i) ==
    /\ i \in alive
    /\ Len(log) < MaxLines
    /\ ~half
    /\ log' = Append(log, i)
    /\ half' \in BOOLEAN
    /\ UNCHANGED <<manager_vars, nRuns, state_vars, proc_vars, call, mon_vars,
                   tail_vars, crashes, left, faulted>>

WriteRest(i) ==
    /\ i \in alive
    /\ half
    /\ Last(log) = i
    /\ half' = FALSE
    /\ UNCHANGED <<manager_vars, nRuns, state_vars, proc_vars, call, mon_vars,
                   tail_vars, log, crashes, left, faulted>>

ProcessExits(i) ==
    /\ i \in alive
    /\ alive' = alive \ {i}
    /\ \E c \in {"zero", "nonzero"} : code' = [code EXCEPT ![i] = c]
    /\ UNCHANGED <<manager_vars, nRuns, state_vars, procs, call, mon_vars,
                   tail_vars, world_vars>>

-----------------------------------------------------------------------------
(* _monitor_simulation *)

\* The thread looks up its process and its object by the simulation's name.
MonitorBegins(i) ==
    /\ mon[i] = "begin"
    /\ monProc' = [monProc EXCEPT ![i] = procs]
    /\ monState' = [monState EXCEPT ![i] = Known]
    /\ cached' = Known
    /\ mon' = [mon EXCEPT ![i] = IF procs = 0 THEN "done" ELSE "poll"]
    /\ UNCHANGED <<manager_vars, nRuns, status, file, proc_vars, call, tail_vars,
                   world_vars>>

EndOfFile == 2 * Len(log) - (IF half THEN 1 ELSE 0)

\* Mutant: a line that has only begun is counted.
LinesBegunBetween(from, to) ==
    LET first == (from + 1) \div 2 + 1
        last  == to \div 2 + 1
    IN  [k \in 1..(last - first + 1) |-> first + k - 1]

\* The lines between two positions. A line that begins or ends in between is
\* not JSON and is skipped; the position moves past it all the same.
LinesBetween(from, to) ==
    LET first == (from + 1) \div 2 + 1
        last  == to \div 2
    IN  [k \in 1..(last - first + 1) |-> first + k - 1]

\* Mutant: the position is not kept.
ReadFromTheStart(i) ==
    /\ recorded' = [recorded EXCEPT ![monState[i]] =
                      @ \o LinesBetween(pos[i], EndOfFile)]
    /\ pos' = pos
    /\ torn' = IF half THEN torn \cup {Len(log)} ELSE torn

ReadActionLog(i) ==
    /\ recorded' = [recorded EXCEPT ![monState[i]] =
                      @ \o LinesBetween(pos[i], EndOfFile)]
    /\ pos' = [pos EXCEPT ![i] = EndOfFile]
    /\ torn' = IF half THEN torn \cup {Len(log)} ELSE torn

\* One turn of the loop while the process runs: read, then save and sleep.
MonitorPolls(i) ==
    /\ mon[i] = "poll"
    /\ monProc[i] \in alive
    /\ ReadActionLog(i)
    /\ mon' = [mon EXCEPT ![i] = "save"]
    /\ UNCHANGED <<manager_vars, nRuns, state_vars, proc_vars, call, monProc,
                   monState, world_vars>>

MonitorSaves(i) ==
    /\ mon[i] = "save"
    /\ SaveRunState(monState[i], status[monState[i]])
    /\ mon' = [mon EXCEPT ![i] = "poll"]
    /\ UNCHANGED <<manager_vars, nRuns, proc_vars, call, monProc, monState,
                   tail_vars, world_vars>>

\* Mutant: the outcome is not saved.
FinishesUnsaved(i) ==
    /\ mon[i] = "poll"
    /\ monProc[i] \notin alive
    /\ ReadActionLog(i)
    /\ mon' = [mon EXCEPT ![i] = "pop"]
    /\ UNCHANGED <<manager_vars, nRuns, state_vars, proc_vars, call, monProc,
                   monState, world_vars>>

\* The process has exited: the last lines, and the exit code as the status.
MonitorFinishes(i) ==
    /\ mon[i] = "poll"
    /\ monProc[i] \notin alive
    /\ ReadActionLog(i)
    /\ SaveRunState(monState[i],
                    IF code[monProc[i]] = "zero" THEN "completed" ELSE "failed")
    /\ mon' = [mon EXCEPT ![i] = "pop"]
    /\ UNCHANGED <<manager_vars, nRuns, proc_vars, call, monProc, monState,
                   world_vars>>

\* except Exception: the reader meets half of a character or a field that is
\* no number, after n of the new lines, or a save fails. The run is failed,
\* whatever its process does; nobody reads on.
MonitorFails(i) ==
    /\ \/ mon[i] = "save"
       \/ mon[i] = "poll" /\ (pos[i] < EndOfFile \/ monProc[i] \notin alive)
    /\ crashes + Cardinality(faulted) < MaxFaults
    /\ LET new == IF mon[i] = "poll" THEN LinesBetween(pos[i], EndOfFile) ELSE <<>>
       IN  \E n \in 0..Len(new) :
             recorded' = [recorded EXCEPT ![monState[i]] = @ \o SubSeq(new, 1, n)]
    /\ SaveRunState(monState[i], "failed")
    /\ faulted' = faulted \cup {i}
    /\ mon' = [mon EXCEPT ![i] = "pop"]
    /\ UNCHANGED <<manager_vars, nRuns, proc_vars, call, monProc, monState, pos,
                   torn, log, half, crashes, left>>

\* finally: forget the process of the simulation, whichever it is by now.
MonitorPops(i) ==
    /\ mon[i] = "pop"
    /\ procs' = 0
    /\ mon' = [mon EXCEPT ![i] = "done"]
    /\ UNCHANGED <<manager_vars, nRuns, state_vars, alive, code, call, monProc,
                   monState, tail_vars, world_vars>>

-----------------------------------------------------------------------------
(* The service dies, with its threads and everything in memory, and is back. *)

Crash ==
    /\ crashes < MaxCrashes
    /\ crashes' = crashes + 1
    /\ left' = left \cup alive
    /\ cached' = 0 /\ procs' = 0
    /\ call' = Idle
    /\ mon' = [i \in Runs |-> "none"]
    /\ UNCHANGED <<manager_vars, nRuns, status, file, alive, code, monProc,
                   monState, log, half, tail_vars, faulted>>

Continue ==
    \/ PrepareOpensConfig \/ PrepareDumpsConfig \/ PrepareEnds
    \/ Spawn \/ SpawnFails \/ Register \/ SaveRunning \/ StartMonitor
    \/ Terminate \/ Kill \/ StopEnds

Monitor(i) ==
    \/ MonitorBegins(i) \/ MonitorPolls(i) \/ MonitorSaves(i)
    \/ MonitorFinishes(i) \/ MonitorFails(i) \/ MonitorPops(i)

Next ==
    \/ PrepareBegins \/ StartBegins \/ StopBegins
    \/ Continue
    \/ \E i \in Runs :
         Monitor(i) \/ WriteLine(i) \/ WriteRest(i) \/ ProcessExits(i)
    \/ Crash

Spec == Init /\ [][Next]_vars

\* Threads make progress; a process need not write or exit, nor anybody call.
FairSpec ==
    /\ Spec
    /\ WF_vars(Continue)
    /\ \A i \in Runs : WF_vars(Monitor(i))

-----------------------------------------------------------------------------
(* Properties *)

\* The processes that this service started and whose monitor did not fail.
Watched == alive \ (left \cup faulted)

\* "simulation already running": there are never two processes, unless one
\* outlived the service that started it.
OneProcess == Cardinality(alive \ left) <= 1

\* However starts, stops, monitors and exits interleave, at most one process
\* runs besides those that outlived the service or the failure of their
\* monitor: a monitor that leaves late takes no other run's handle with it.
OneWatchedProcess == Cardinality(Watched) <= 1

\* A process the service started is shown as active and can be stopped, until
\* its monitor fails: once its start is over the supervisor has its handle and
\* says running, or stopping while a stop is under way.
LiveIsShown ==
    \A i \in Watched :
        /\ Known = i
        /\ status[i] \in Active
        /\ call.run # i => procs = i /\ status[i] = "running"

\* However often the log is polled, and across runs that append to the same
\* file, no object counts a line twice or out of order, even if its monitor
\* fails; and when a monitor is through without having failed, its object has
\* every line its process wrote but for those that were cut in two by a poll.
LinesAreCountedOnce ==
    \A i \in Runs :
        /\ \A j, k \in DOMAIN recorded[i] :
             j < k => recorded[i][j] < recorded[i][k]
        /\ mon[i] \in {"pop", "done"} /\ i \notin faulted =>
             \A k \in DOMAIN log :
                 log[k] = i => k \in torn \cup Range(recorded[i])

\* A run whose process ended is reported as ended, if the service survives it:
\* the state on disk does not say running or stopping for ever.
EndIsReported ==
    \A i \in Runs :
        code[i] # "none" /\ file.run = i /\ crashes = 0
            ~> file.status \in Terminal \/ crashes > 0
=============================================================================
