------------------------------- MODULE Memory -------------------------------
(***************************************************************************)
(* What agents remember: SegmentStore, BehaviorCompressor, and the         *)
(* MultiGraphManager with its MultiGraphUpdaters, under the tick that      *)
(* drives them. The dispatcher notes every action that succeeded; a move   *)
(* committed at the end of the tick starts a compression task; the barrier *)
(* waits for the tasks, the flush for the writes it starts itself. Each    *)
(* updater also flushes on its own.                                        *)
(*                                                                         *)
(* Texts are left out. An action is the number of the note in its agent's  *)
(* segment, a summary the set of the actions it was made from, an episode  *)
(* its position among the summaries queued for the agent's graph.          *)
(* force_compress_if_overflow and MultiGraphManager.shutdown have no       *)
(* caller and are left out.                                                *)
(***************************************************************************)
EXTENDS Integers, Sequences, FiniteSets, SequencesExt

CONSTANTS
    Agents,
    MaxRetries,  \* MultiGraphUpdater.MAX_RETRIES
    MaxT,        \* bound on the clock
    MaxNotes     \* bound on the actions of an agent

ASSUME MemoryAssumption ==
    /\ MaxRetries \in Nat \ {0}
    /\ MaxT \in Nat
    /\ MaxNotes \in Nat

VARIABLES
    wired,     \* what exists: a "model" for the compressor, a "zep" client,
               \* the "chat" callback to the agents' ChatMemory
    t,
    phase,     \* where the tick is
    moves,     \* ActionDispatcher.pending_moves, agents only
    noted,     \* how many actions were appended to the segment, ever
    seg,       \* SegmentStore._segments
    pending,   \* BehaviorCompressor._pending: the registered task, 0 for none
    awaited,   \* the tasks await_all_pending waits for, 0 for none
    tasks,     \* compression tasks that are not done, in the order of the lock
    stage,     \* what the task that holds the lock waits for
    read,      \* the copy of the segment it works on
    chat,      \* the summaries in the agent's ChatMemory
    updaters,  \* agents whose MultiGraphUpdater is in the registry
    made,      \* the summaries queued for the agent's graph, ever (history)
    buffer,    \* MultiGraphUpdater._buffers
    batches,   \* drained batches a _flush_one still tries to write
    graph,     \* the episodes Zep stored, with repetitions
    sent, failed, lost  \* what became of an episode

dispatch_vars == <<wired, t, phase, moves, noted>>
task_vars == <<pending, awaited, tasks, stage, read>>
zep_vars == <<updaters, made, buffer, batches, graph, sent, failed, lost>>
vars == <<dispatch_vars, seg, task_vars, chat, zep_vars>>

Batch(a, eps, tries, waited) ==
    [agent |-> a, eps |-> eps, tries |-> tries, waited |-> waited]

TypeOK ==
    /\ wired \subseteq {"model", "zep", "chat"}
    /\ t \in 0..MaxT
    /\ phase \in {"idle", "micro", "commit", "barrier", "flush", "exiting",
                  "stopped"}
    /\ moves \in Seq(Agents)
    /\ noted \in [Agents -> 0..MaxNotes]
    /\ seg \in [Agents -> SUBSET Nat]
    /\ pending \in [Agents -> Nat]
    /\ awaited \in [Agents -> Nat]
    /\ tasks \in [Agents -> Seq(Nat \ {0})]
    /\ stage \in [Agents -> {"idle", "asked", "told"}]
    /\ read \in [Agents -> SUBSET Nat]
    /\ chat \in [Agents -> Seq(SUBSET Nat)]
    /\ updaters \subseteq Agents
    /\ made \in [Agents -> Seq(SUBSET Nat)]
    /\ buffer \in [Agents -> Seq(Nat)]
    /\ \A b \in batches :
         b \in [agent : Agents, eps : Seq(Nat), tries : 0..(MaxRetries - 1),
                waited : BOOLEAN]
    /\ graph \in [Agents -> Seq(Nat)]
    /\ sent \cup failed \cup lost \subseteq Agents \X Nat

Init ==
    /\ wired \in SUBSET {"model", "zep", "chat"}
    /\ t = 0
    /\ phase = "idle"
    /\ moves = <<>>
    /\ noted = [a \in Agents |-> 0]
    /\ seg = [a \in Agents |-> {}]
    /\ pending = [a \in Agents |-> 0]
    /\ awaited = [a \in Agents |-> 0]
    /\ tasks = [a \in Agents |-> <<>>]
    /\ stage = [a \in Agents |-> "idle"]
    /\ read = [a \in Agents |-> {}]
    /\ chat = [a \in Agents |-> <<>>]
    /\ updaters = {}
    /\ made = [a \in Agents |-> <<>>]
    /\ buffer = [a \in Agents |-> <<>>]
    /\ batches = {}
    /\ graph = [a \in Agents |-> <<>>]
    /\ sent = {} /\ failed = {} /\ lost = {}

-----------------------------------------------------------------------------
(* The micro-tick: the dispatcher notes what succeeded *)

\* run_one_tick up to the micro-tick, which no memory takes part in.
StartTick ==
    /\ phase = "idle"
    /\ t < MaxT
    /\ phase' = "micro"
    /\ UNCHANGED <<wired, t, moves, noted, seg, task_vars, chat, zep_vars>>

AppendEntry(a) ==
    /\ noted[a] < MaxNotes
    /\ noted' = [noted EXCEPT ![a] = @ + 1]
    /\ seg' = [seg EXCEPT ![a] = @ \cup {noted'[a]}]

\* A tool call that does its work at once.
Dispatch(a) ==
    /\ phase = "micro"
    /\ AppendEntry(a)
    /\ UNCHANGED <<wired, t, phase, moves, task_vars, chat, zep_vars>>

\* REQUEST_MOVE is queued, and noted like any other action.
RequestMove(a) ==
    /\ phase = "micro"
    /\ AppendEntry(a)
    /\ moves' = Append(moves, a)
    /\ UNCHANGED <<wired, t, phase, task_vars, chat, zep_vars>>

EndMicro ==
    /\ phase = "micro"
    /\ phase' = "commit"
    /\ UNCHANGED <<wired, t, moves, noted, seg, task_vars, chat, zep_vars>>

-----------------------------------------------------------------------------
(* Steps 9 and 9.5: the moves and the barrier. Nothing suspends between the *)
(* first move and the barrier, so no task runs in the commit phase.         *)

\* A number no task of the agent that is not done has.
NewTask(a) == IF tasks[a] = <<>> THEN 1 ELSE Last(tasks[a]) + 1

\* Faulty variant of OnMove: the registry keeps the first task of a round.
OnMoveFirstOnly(a) ==
    IF seg[a] = {}
      THEN UNCHANGED <<tasks, pending>>
      ELSE /\ tasks' = [tasks EXCEPT ![a] = Append(@, NewTask(a))]
           /\ pending' = [pending EXCEPT ![a] =
                             IF @ = 0 THEN NewTask(a) ELSE @]

\* on_move: a task for a segment that is not empty; it replaces the one the
\* registry knows. Whether the move itself succeeds makes no difference.
OnMove(a) ==
    IF seg[a] = {}
      THEN UNCHANGED <<tasks, pending>>
      ELSE /\ tasks' = [tasks EXCEPT ![a] = Append(@, NewTask(a))]
           /\ pending' = [pending EXCEPT ![a] = NewTask(a)]

CommitMove ==
    /\ phase = "commit"
    /\ moves # <<>>
    /\ OnMove(Head(moves))
    /\ moves' = Tail(moves)
    /\ UNCHANGED <<wired, t, phase, noted, seg, awaited, stage, read, chat,
                   zep_vars>>

Done(a, task) == \A i \in DOMAIN tasks[a] : tasks[a][i] # task

\* Faulty variant of AwaitAllPending: the registry is cleared first.
AwaitNothing ==
    /\ phase = "commit"
    /\ moves = <<>>
    /\ awaited' = [a \in Agents |-> 0]
    /\ pending' = [a \in Agents |-> 0]
    /\ phase' = "barrier"
    /\ UNCHANGED <<wired, t, moves, noted, seg, tasks, stage, read, chat,
                   zep_vars>>

\* await_all_pending takes the tasks that are not done and forgets them all.
AwaitAllPending ==
    /\ phase = "commit"
    /\ moves = <<>>
    /\ awaited' = [a \in Agents |->
                     IF Done(a, pending[a]) THEN 0 ELSE pending[a]]
    /\ pending' = [a \in Agents |-> 0]
    /\ phase' = "barrier"
    /\ UNCHANGED <<wired, t, moves, noted, seg, tasks, stage, read, chat,
                   zep_vars>>

BarrierOver == \A a \in Agents : Done(a, awaited[a])

-----------------------------------------------------------------------------
(* _compress: the tasks of one agent take turns at its lock *)

LoopFree == phase \in {"idle", "micro", "barrier", "flush", "exiting"}

HoldsLock(a, st) ==
    /\ LoopFree
    /\ tasks[a] # <<>>
    /\ stage[a] = st

\* The task returns and releases the lock.
Return(a) ==
    /\ tasks' = [tasks EXCEPT ![a] = Tail(@)]
    /\ stage' = [stage EXCEPT ![a] = "idle"]
    /\ read' = [read EXCEPT ![a] = {}]
    /\ UNCHANGED <<pending, awaited>>

\* Nothing to summarise, or no model: the segment stays as it is.
SkipCompression(a) ==
    /\ HoldsLock(a, "idle")
    /\ seg[a] = {} \/ "model" \notin wired
    /\ Return(a)
    /\ UNCHANGED <<dispatch_vars, seg, chat, zep_vars>>

AskModel(a) ==
    /\ HoldsLock(a, "idle")
    /\ seg[a] # {} /\ "model" \in wired
    /\ stage' = [stage EXCEPT ![a] = "asked"]
    /\ read' = [read EXCEPT ![a] = seg[a]]
    /\ UNCHANGED <<dispatch_vars, seg, pending, awaited, tasks, chat, zep_vars>>

\* Timeout, error, empty summary, or a ChatMemory callback that raises.
ModelFails(a) ==
    /\ HoldsLock(a, "asked")
    /\ Return(a)
    /\ UNCHANGED <<dispatch_vars, seg, chat, zep_vars>>

\* Without a callback nothing is appended, and the task goes on as if it were.
AppendToChatMemory(a) ==
    /\ HoldsLock(a, "asked")
    /\ chat' = IF "chat" \in wired THEN [chat EXCEPT ![a] = Append(@, read[a])]
                                  ELSE chat
    /\ stage' = [stage EXCEPT ![a] = "told"]
    /\ UNCHANGED <<dispatch_vars, seg, pending, awaited, tasks, read, zep_vars>>

\* MultiGraphManager.for_agent: the updater is created and started on demand.
ForAgent(a) == updaters' = updaters \cup {a}

Enqueue(a, summary) ==
    /\ made' = [made EXCEPT ![a] = Append(@, summary)]
    /\ buffer' = [buffer EXCEPT ![a] = Append(@, Len(made'[a]))]

\* Faulty variant of EnqueueZep: Zep before ChatMemory.
EnqueueZepFirst(a) ==
    /\ HoldsLock(a, "asked")
    /\ ForAgent(a)
    /\ Enqueue(a, read[a])
    /\ seg' = [seg EXCEPT ![a] = {}]
    /\ Return(a)
    /\ UNCHANGED <<dispatch_vars, chat, batches, graph, sent, failed, lost>>

\* The second write, and then the whole segment is cleared.
EnqueueZep(a) ==
    /\ HoldsLock(a, "told")
    /\ ForAgent(a)
    /\ Enqueue(a, read[a])
    /\ seg' = [seg EXCEPT ![a] = {}]
    /\ Return(a)
    /\ UNCHANGED <<dispatch_vars, chat, batches, graph, sent, failed, lost>>

\* for_agent raises: the segment is kept although ChatMemory has the summary.
EnqueueFails(a) ==
    /\ HoldsLock(a, "told")
    /\ Return(a)
    /\ UNCHANGED <<dispatch_vars, seg, chat, zep_vars>>

-----------------------------------------------------------------------------
(* MultiGraphUpdater *)

Episodes(a, eps) == {<<a, eps[i]>> : i \in DOMAIN eps}

\* _flush_one drains the buffers of A under their locks; what it drained is
\* on its way to Zep, or counted as sent when there is no client.
FlushOne(A, waited) ==
    LET drained == {a \in A : buffer[a] # <<>>} IN
    /\ buffer' = [a \in Agents |-> IF a \in drained THEN <<>> ELSE buffer[a]]
    /\ IF "zep" \in wired
         THEN /\ batches' = batches \cup
                              {Batch(a, buffer[a], 0, waited) : a \in drained}
              /\ sent' = sent
         ELSE /\ batches' = batches
              /\ sent' = sent \cup UNION {Episodes(a, buffer[a]) : a \in drained}
    /\ UNCHANGED <<updaters, made, graph, failed, lost>>

\* The worker of an updater, or enqueue at BATCH_SIZE, flushes at its own
\* time; nobody awaits that task.
WorkerFlush(a) ==
    /\ LoopFree
    /\ a \in updaters
    /\ buffer[a] # <<>>
    /\ FlushOne({a}, FALSE)
    /\ UNCHANGED <<dispatch_vars, seg, task_vars, chat>>

\* One attempt: written; failed with or without having been stored. After
\* MAX_RETRIES attempts the batch is dropped.
WriteSucceeds(b) ==
    /\ LoopFree
    /\ batches' = batches \ {b}
    /\ graph' = [graph EXCEPT ![b.agent] = @ \o b.eps]
    /\ sent' = sent \cup Episodes(b.agent, b.eps)
    /\ UNCHANGED <<dispatch_vars, seg, task_vars, chat, updaters, made, buffer,
                   failed, lost>>

\* Faulty variants of WriteFails: an attempt too many, and attempts for ever.
WriteFailsOnceMore(b) ==
    /\ LoopFree
    /\ b.tries + 1 <= MaxRetries
    /\ batches' = (batches \ {b}) \cup {[b EXCEPT !.tries = @ + 1]}
    /\ UNCHANGED <<dispatch_vars, seg, task_vars, chat, updaters, made, buffer,
                   graph, sent, failed, lost>>

WriteFailsForEver(b) ==
    /\ LoopFree
    /\ batches' = (batches \ {b}) \cup {[b EXCEPT !.tries = 1 - @]}
    /\ UNCHANGED <<dispatch_vars, seg, task_vars, chat, updaters, made, buffer,
                   graph, sent, failed, lost>>

WriteFails(b) ==
    /\ LoopFree
    /\ \E stored \in BOOLEAN :
         graph' = IF stored THEN [graph EXCEPT ![b.agent] = @ \o b.eps]
                            ELSE graph
    /\ IF b.tries + 1 < MaxRetries
         THEN /\ batches' = (batches \ {b}) \cup
                              {[b EXCEPT !.tries = @ + 1]}
              /\ failed' = failed
         ELSE /\ batches' = batches \ {b}
              /\ failed' = failed \cup Episodes(b.agent, b.eps)
    /\ UNCHANGED <<dispatch_vars, seg, task_vars, chat, updaters, made, buffer,
                   sent, lost>>

\* MultiGraphManager.flush_all: every registered updater, waiting for the
\* batches this flush drained and for no other.
FlushAll == FlushOne(updaters, TRUE)

FlushOver == \A b \in batches : ~b.waited

-----------------------------------------------------------------------------
(* Step 10 and the end of the tick; the end of the process *)

StartFlush ==
    /\ phase = "barrier"
    /\ BarrierOver
    /\ phase' = "flush"
    /\ FlushAll
    /\ UNCHANGED <<wired, t, moves, noted, seg, task_vars, chat>>

AdvanceClock ==
    /\ phase = "flush"
    /\ FlushOver
    /\ phase' = "idle"
    /\ t' = t + 1
    /\ UNCHANGED <<wired, moves, noted, seg, task_vars, chat, zep_vars>>

\* The runner leaves its loop between two ticks and flushes once more.
BeginExit ==
    /\ phase = "idle"
    /\ phase' = "exiting"
    /\ FlushAll
    /\ UNCHANGED <<wired, t, moves, noted, seg, task_vars, chat>>

\* What a worker's flush still retries goes down with the event loop.
Exit ==
    /\ phase = "exiting"
    /\ FlushOver
    /\ phase' = "stopped"
    /\ batches' = {}
    /\ lost' = lost \cup UNION {Episodes(b.agent, b.eps) : b \in batches}
    /\ UNCHANGED <<wired, t, moves, noted, seg, task_vars, chat, updaters,
                   made, buffer, graph, sent, failed>>

Compress(a) ==
    \/ SkipCompression(a) \/ AskModel(a) \/ ModelFails(a)
    \/ AppendToChatMemory(a) \/ EnqueueZep(a) \/ EnqueueFails(a)

Write == \E b \in batches : WriteSucceeds(b) \/ WriteFails(b)

Round ==
    \/ EndMicro \/ CommitMove \/ AwaitAllPending \/ StartFlush
    \/ AdvanceClock

Next ==
    \/ \E a \in Agents :
         Dispatch(a) \/ RequestMove(a) \/ Compress(a) \/ WorkerFlush(a)
    \/ Write
    \/ StartTick
    \/ Round
    \/ BeginExit
    \/ Exit

Spec == Init /\ [][Next]_vars

\* The event loop runs what is ready; the model answers, fails or times out
\* after five seconds; a Zep call returns or raises. New ticks, actions and
\* the worker's timer are not fair.
FairSpec ==
    /\ Spec
    /\ \A a \in Agents : WF_vars(Compress(a))
    /\ WF_vars(Write)
    /\ WF_vars(Round)
    /\ WF_vars(Exit)

-----------------------------------------------------------------------------
(* Properties *)

\* The summaries that stand for what was cleared: those in the ChatMemory or,
\* if nothing leads there, those queued for the agent's graph.
Told(a) == IF "chat" \in wired THEN chat[a] ELSE made[a]

\* Whatever an agent did is still in its segment or in such a summary: the
\* segment is cleared after a suspension, and nothing may have been appended
\* since the copy was taken.
NothingForgotten == \A a \in Agents : 1..noted[a] = seg[a] \cup UNION Range(Told(a))

\* When agents perceive, no compression is under way, whichever task the
\* registry remembers, and every summary has left the buffers.
RoundsAreClosed ==
    phase \in {"idle", "micro", "stopped"} =>
        \A a \in Agents : tasks[a] = <<>> /\ buffer[a] = <<>>

Stored(a, i) == Cardinality({k \in DOMAIN graph[a] : graph[a][k] = i})

\* "Both writes or neither": where ChatMemory is called, the graph of an agent
\* never gets a summary that the agent's own ChatMemory does not contain. Every
\* episode is in exactly one place: a buffer, a batch, or accounted for. One
\* counted as sent is in the graph at least once and, because of retries, at
\* most MAX_RETRIES times.
EpisodesFollowChat ==
    \A a \in Agents :
        /\ "chat" \in wired => Range(made[a]) \subseteq Range(chat[a])
        /\ \A i \in DOMAIN made[a] :
             LET e == <<a, i>> IN
             /\ Cardinality({k \in DOMAIN buffer[a] : buffer[a][k] = i})
                  + Cardinality({b \in batches : e \in Episodes(b.agent, b.eps)})
                  + Cardinality({s \in {1, 2, 3} : e \in <<sent, failed, lost>>[s]})
                  = 1
             /\ e \in sent /\ "zep" \in wired => Stored(a, i) \in 1..MaxRetries

\* A tick that began comes to its end: neither the barrier nor the flush waits
\* for ever, however often the model or Zep fails.
EveryTickEnds == phase = "micro" ~> phase = "idle"
=============================================================================
