# A verification development for Agent World

Agent World simulates a population of language-model agents that live in
places, talk over three channels, move, and remember. This directory models its
kernel in TLA+, model-checks it with TLC and proves the results that should
hold for every size with TLAPS. Paths below are relative to `src/agent_world/`.

## 1. The system

| component | state | operations | who calls it |
|---|---|---|---|
| `world/step.py` WorldStep | none of its own; the phase of the tick is the program counter | `run_one_tick`, `run_loop` | the runner or the demo |
| `world/dispatcher.py` ActionDispatcher | `pending_moves` | `dispatch`, `enqueue_move`, `commit_pending_moves` | WorldStep |
| `world/perception.py` PerceptionBuilder | movement snapshot | `build` | the agent, before it asks the model |
| `buses/face_to_face.py`, `remote_message.py` | rows of `direct_message`, `overhear` | `send` | dispatcher |
| `buses/group_message.py` GroupMessageBus | `chat_group`, `group_member`, `group_message`, `group_event`, the copies in `direct_message` | create, join, leave, kick, send, sweep | dispatcher; WorldStep calls the sweep |
| `world/connectivity.py` ConnectivityResolver | `_group_members`, a mirror of `group_member` | `phi_f2f`, `phi_rdc`, `phi_grp` | buses |
| `world/place_store.py`, `capability_table.py`, `relation_graph.py`, `clock.py` | L, coverage; capabilities; relations; t | `move`; `grant`, `revoke`; `add`, `remove`; `advance` | dispatcher, scripts, WorldStep |
| `persistence/world_db.py` WorldDB | sqlite tables, one write lock, autocommit | one statement per method | all of the above |
| `script/` ScriptEngine | loaded, applied, pending notifications | load, `due_events`, `apply`, `pending_for` | WorldStep, IPC |
| `memory/` compressor, segments, updater, manager | raw segments, pending tasks, batch buffers | `on_move`, `await_all_pending`, `enqueue`, `flush` | dispatcher, WorldStep |
| `pools/` | the feed platforms | `dispatch`, `update_all` | dispatcher, WorldStep |
| `ipc/`, `runner/` | command and response files, `actions.jsonl` | poll, handle, respond | the service |
| `app/services/simulation_runner.py` | run states, processes, monitor threads | start, stop, monitor, cleanup | the Flask service |

**Concurrency.** The kernel is one asyncio event loop. A WorldDB write holds an
`asyncio.Lock` around a synchronous sqlite call, so the lock is never contended
and the write never suspends: a bus method is atomic for the rest of the
process. A coroutine suspends in a tick only when it awaits the language model
or a pool (FEED), and in the barrier and the flush of the memory. In the
micro-tick one coroutine per place lets the agents there decide one after the
other; the places interleave. The services use real threads and processes.

**What is hard here.** The watermark `last_message_seen_at` is moved to t while
messages with `arrive_at = t` can still be written; decisions are based on a
perception taken before a suspension; the membership exists twice; waiting
copies survive moves, leaves and rejoins; model calls fail at any point;
commands move agents in the middle of a tick; what a process leaves on disk is
met by the next one. The
hazards of `PROJECT.json` list each of them at its line.

**Two programs** wire the kernel. `demo/run_demo.py` has agents, no scheduler,
no scripts, no memory, no pools and no IPC. `runner/run_agent_world_simulation.py`
wires everything, but registers no agents of its own in `WorldState.agents`: its
micro-tick is empty until a script puts one there. WorldStep has constants for
both (`Tools`, `Scripts`, `ActiveSets`, `Ipc`), WorldStores models the boot of
either (`LoadsFirst`), Turn is the demo and Memory, Runner and Tools are the
runner. The scenario of GroupBus is that of the demo, an empty one is the
runner's.

**Interfaces.** Every module stands for the whole program seen from one side,
with the rest of it reduced to what that side can notice. The sides meet in
state that both name the same: the tick (`phase`) and the queued moves in
WorldStep, Memory and Turn; `L`, capabilities and membership in GroupBus,
WorldStores, Turn and Tools; a command that is executed in Runner is an action
of the others (MoveAgent of WorldStep and Tools, Move of WorldStores); the process that
Supervisor starts and kills is the one that boots, writes lines and exits in
Runner and WorldStores.

## 2. Modules

| module | models | extends or instantiates |
|---|---|---|
| `GroupInbox` | what the group channel promises, without places, signal, clock or tables | |
| `GroupBus` | the group channel: bus, tables, mirror, and what decides reachability | instantiates GroupInbox |
| `GroupBus_proofs` | theorems about GroupBus | GroupBus, TLAPS |
| `MCGroupBus` | instances for TLC | GroupBus |
| `WorldStep` | the tick: prelude, interleaved turns, dispatch, commit, clock, and the slices of the perception | instantiates GroupBus as `Bus` |
| `WorldStep_proofs` | theorems about WorldStep | WorldStep, TLAPS |
| `MCWorldStep` | instances for TLC | WorldStep |
| `Turn`, `MCTurn`, `Turn_proofs` | an agent's turn as the agent sees it: the observation and what becomes of the tool calls | |
| `Tools`, `MCTools`, `Tools_proofs` | feed pools and their routing, the tools an agent is offered, the calls that rest on them | |
| `Memory`, `Memory_proofs` | segments, compression tasks and their barrier, batches on their way to Zep | |
| `WorldStores`, `MCWorldStores`, `WorldStores_proofs` | places, capabilities, relations: memory, tables, follow projection, boots and deaths | |
| `Runner`, `MCRunner`, `Runner_proofs` | the event loop of the runner: ticks, script engine, IPC server and clients, signals, kills | |
| `Supervisor`, `Supervisor_proofs` | the service: prepare, start, stop, monitor threads, processes and their log | |

### GroupBus

`members` is the table group_member, `mirror` the copy ConnectivityResolver
keeps of it, `created` chat_group, `events` group_event, `nMsg` the last
group_message id and `dm` the rows of direct_message with a group_id, each
named by its message and its recipient. `L`, `uplink` and `t` are PlaceStore.L,
the holders of signal_uplink and the clock. Each method of GroupMessageBus is an
action: CreateGroup, JoinGroup, LeaveGroup, KickMember, SendToGroup and
SweepUndelivered; Move, Grant, Revoke and AdvanceClock are the calls that change
who is reachable. `phi_grp` and `Deliverable` are translated with their
asymmetries: the fan-out asks for coverage from the sender's place, the sweep
for the self-edge of the recipient's place only.

The boot state is that of `_seed_world`: members, mirror and a join event at
tick -1 for each row of the scenario, agents anywhere, any capabilities. Boot is
a further process on the same directory (`run_demo` with a `--sim-dir` used
before, or the runner with its empty scenario): `INSERT OR IGNORE` leaves the
memberships of the last process in the table, the log gets the joins of the
scenario again, and the mirror is that of the scenario alone.

### GroupInbox

Three actions move copies between two boxes, `kept` and `readable`. GroupBus
implements it under the mapping that takes the rows with delivered = 0 and
delivered = 1 for the boxes; places, signal, clock and mirror disappear.

### WorldStep

`phase` is where `run_one_tick` is: `scripts` (steps 1 to 3), `micro` (step 7)
and `commit` (steps 9 to 11); Prelude is steps 4 to 6. `queue[p]` holds the
agents of place p whose turn is not over, so its head is the agent whose
coroutine runs or waits. `mind[a]` is what the turn waits for: `thinking` (the
model), `feeding` (a pool), `acting` (nothing: this coroutine has the event
loop, so `LoopFree` forbids every other step). Decide and FailDecision are the
two answers of the model; both move the watermark, as the code does. Dispatch
has one disjunct per route of ActionDispatcher. CommitMove takes one queued move
at a time.

MoveAgent is the IPC handler, which calls `place_store.move` whenever the event
loop is free, in the middle of a micro-tick too: the agent stays in the queue of
the place it was grouped into and speaks where it is now.

`shown` and `been` are history variables: what the incoming, overheard and
recent_failed slices of each perception contained, and where each agent has been
in this tick.

`Bus!` actions are used as they are, so that WorldStep has no second version of
the bus; one process of it, since WorldStep does not boot again. A `NoPlace` move
target stands for any unknown place id.

Abstracted: texts, row ids beyond identity, the shuffle (any order; the code's
is seeded by the tick), Zep, segments and pools except as suspensions.

### Turn

The same tick without the buses, for what WorldStep leaves out: `view[a]` is the
last Observation of an agent, `before[a]` the one before it. `Observation` has
one operator per `_build_*` method of PerceptionBuilder; `snapshot`, `arrivals`
and `departures` are its movement cache, which `RefreshMovementCache` fills once
per tick, at the first perception of anybody. `calls` is every tool call made so
far, with whether it was well formed and whether it was done; `segment` is what
the dispatcher noted of each agent. Dispatch has one disjunct per route of the
demo; an argument that is missing ends a call before its first effect.

### Tools

`specs` are the pools `_infer_pools` infers, which AddPool adds one by
one or fails to; `byPlaceFeed` and `byPlace` are the two indexes of
MultiPoolPlatformManager. `offered[a]` is what `compute_available_tools`
returned before the model was asked; Dispatch are the calls the answer contains,
as the schemas of the offered tools lead to them. A call to a feed tool may name
another feed than the constant of its schema, or none: nobody compares them. MoveAgent comes over IPC while
agents think, BetweenTicks stands for scripts and for the moves of the last
tick. `compute_available_tools` is called by the agents of an external package,
with a world that may or may not carry a connectivity resolver (`Resolvers`).
The `place_id` a post may name (`pools/manager.py:243`) is left out, since every
inferred pool serves every place, and `Contacts` does not change: a
relation_change that names `dst` is in WorldStores.

### Memory

`phase` is the tick again. `tasks[a]` are the compression tasks of an agent in
the order in which they get its lock, `pending` the registry of
BehaviorCompressor (which knows one task per agent), `awaited` what
`await_all_pending` took from it; `stage[a]` is where the task that holds the
lock is suspended. `batches` are drained batches that some `_flush_one` tries to
write; `waited` tells those the barrier of `flush_all` waits for. An action is a
number, a summary the set of the actions it was made from. `wired` is what the
process was given: a model, a Zep client, a callback to ChatMemory. The runner
gives none of them today (`run_agent_world_simulation.py:435`); without a model
SkipCompression keeps the segment, without a callback AppendToChatMemory appends
nothing and the compression goes on.

### WorldStores

Three stores with their tables, and the rows of `follow` in a pool. AddRelation,
RemoveRelation, Grant, Revoke and Move are the methods; each is one step, since
nothing in them suspends, but DiesInChange ends the process after the first row
of a relation change. HookAdd and HookRemove carry out any part of their rows: a
pool that fails is logged and passed over. Boot seeds and loads in the order of
either program. `cut`, `loaded` and `refused` are history: the edges a death cut
in two, those the process found in the table, and the follow rows a pool failed
to remove.

### Runner

`phase` is where `main()` is; `Suspends` is whether anything in a tick yields to
the loop, which is when the server runs at all. The server reads a poll file by
file (`batch`, `held`, `out`), then starts one task per command (`taken`). A
client writes its file in place or by a rename, waits, reads its answer or gives
up. `waiting`, `loadedIds` and `applied` are the fields of ScriptEngine, which a
boot finds empty; `log`, the table script_event_log, outlives the process and is
read by nobody. Fires
and MaySucceed give the answers of the four triggers and seven effects.

### Supervisor

Run i is the i-th start; its state object, process and monitor thread carry the
number. `cached` and `procs` are the class-level registries a monitor looks its
run up in by name, `file` is run_state.json, `call` the request being served,
with one step per access to what the threads share. A line of actions.jsonl may
be half written when the monitor reads it (`half`, `torn`).

## 3. Checks

A run is listed in `PROJECT.json` with its properties and with a mutant for each
of them: a faulty variant of a modelled operator under which TLC finds the
property violated.

| run | shows |
|---|---|
| `group_bus` | two agents, an office and a basement without coverage, a group one of them is in and one that is created, or joined before it exists, and a second process: membership, mirror, log and copies stay consistent (PendingOnlyForMembers, MirrorTrailsTable, EventLogExplainsMembership, CopyLifecycle), the bus implements GroupInbox, and with a fair sweep QueueDrains |
| `step_demo` | the demo wiring over three ticks with three tool calls: what agents are shown, miss, are told about failures, and in which order they read (ShownOnce, DelayedIsReadSpeechIsHeard, FailuresAreReported, ReadInOrder) |
| `step_full` | scripts, any scheduler, every tool, MOVE_AGENT: SameTickMeansPresent and BusRefined do not depend on the wiring, and TicksGoOn |
| `turn` | three agents, two places, three ticks, two calls of any kind: RosterExplained (the arrivals and departures explain the roster), ObservationHolds (what the model works on stays true), DoneOrFailed (each well-formed call reaches its agent as done or as failed) |
| `tools` | two feeds, either missing, two calls, one change from outside: OffersHold, PostsAreServed |
| `memory` | two agents, two actions each, two ticks, with and without a model, Zep and ChatMemory: NothingForgotten, RoundsAreClosed, EpisodesFollowChat, and EveryTickEnds whatever fails |
| `stores` | three boots of either program on one directory, four changes, deaths between and within them, pools that fail: GraphKeepsItsRules, MemoryIsTable, FollowsAreJustified |
| `runner` | two boots of two ticks, a script that is edited, commands of both kinds of clients, signals and kills: FiresOncePerProcess, NothingWaitsForThePast, WithdrawnNeverRuns, TakenIsAnswered |
| `supervisor` | two starts, two lines, one death of the service or one failure of a monitor: OneWatchedProcess, LiveIsShown, LinesAreCountedOnce, EndIsReported |
| `step_remote_lost` | violated: a remote message within one place, to somebody whose turn is over, is never read |
| `supervisor_restart` | violated: after a start right behind a stop, the old monitor makes the service forget the new process, and a third start runs a second one beside it |
| `stores_restart` | violated: the runner, started again after an agent moved, has it in two places at once |

**Bounds.** GroupBus: each copy of a message is independent of the others in
everything but the watermark, so a sender and a recipient and one message
suffice; three events are the seeded one and leaving and joining again, the
shortest history in which a cancelled copy could wake up, or the seeded one, a
join, and the seeded one again after the second boot. WorldStep: three ticks
let a message be sent, passed over and overheard or reported in the next tick,
and the tick after that show that it is not shown again; MaxActs counts tool
calls, script effects and MOVE_AGENT, three are a message, a move and an answer. Turn: a
third agent is the one that comes or goes while two perceive; limits of one
(RecentLimit, Window) make reminders overflow. Tools: one pool missing and one
there; two calls are a change and one that it breaks, one edit is a move behind
a thinking agent. Memory: two actions of an agent, one before and one after its
summary, and two tasks at one lock; two ticks let a batch of the first reach
into the second. WorldStores: three boots see what a second boot left; four
changes are an edge, its opposite, its removal and one that conflicts. Runner:
two ticks are tick 0, where past-due has its exception, and one where it has
not; two commands are one in the hands of the server when the other closes it.
Supervisor: two runs are all that share one monitor's registries, two lines are
one for each side of a position; MaxFaults bounds the failures of monitors,
together with the crashes. The bounds (MaxT, MaxMsgs, MaxEvents, MaxActs,
MaxCalls, MaxEdits, MaxNotes, MaxBoots, MaxTicks, MaxRuns, MaxLines, MaxCrashes,
MaxFaults) are guards of the actions. Runs whose configuration says CHECK_DEADLOCK FALSE
end where their programs do: the process has stopped or a bound is reached.

**Fairness.** FairSpec of GroupBus is weak fairness of the sweep, which
`run_one_tick` calls on every tick and `run_loop` repeats. QueueDrains asks more
of an agent in a later process: that it is in the mirror, since nobody else is
ever reachable. In WorldStep, Memory
and Runner it is weak fairness of every step the event loop takes by itself, and
of the answers of model, pool and Zep: each call returns, raises or times out. A
decision is a finite list of tool calls, so Finish is fair and Dispatch is not.
New ticks of Memory, the timer of its workers, scripts, signals, clients and
kills are not fair. In Supervisor threads are scheduled and SIGKILL follows
SIGTERM; a process need not write or exit, nor anybody call.

**An assumption about callers.** `supervisor` has `Patient = TRUE`: after a stop
nobody starts the simulation again before the monitor of the old run has left,
which takes it up to one poll interval. Nothing in the code makes callers wait;
`supervisor_restart` is the same module without it.

**What a failing monitor leaves.** OneWatchedProcess, LiveIsShown and
LinesAreCountedOnce leave out the processes whose monitor has failed. A log that
cannot be read (half of a character, where `simulation_runner.py:420` catches
OSError only; a field that is no number, line 479) or a save that fails ends the
monitor at line 379: it writes FAILED for a process that lives, the finally block
forgets it, and the next start, however patient, runs a second one beside it.
That one is watched, and these properties hold of it. Two things are left out of the model: a disk
on which the save of that failure fails too, and what is written behind a line
that a dead process left half written: `WriteLine` waits for whole lines.

**Where documents and code part.** Besides the three violated runs, read while
modelling and modelled as the code has it:

* A second boot on one directory: the mirror is set from the scenario
  (`demo/run_demo.py:195`), or not at all (the runner), although
  `docs/impl/world_connectivity.md:90` has phi_grp ask the database; a member
  that stayed in the table gets copies that are never delivered. Applied events
  are forgotten, although `docs/impl/script_engine.md:54` has them restored from
  `script_event_log` and never fire again; nothing reads that table.
* MOVE_AGENT moves an agent while the places decide; in
  `docs/impl/world_place_store.md:176` `agents_at` stands still then.
* Group channel: `join_group` accepts a group nobody created; a copy already
  delivered is read after leaving (`docs/impl/bus_group_message.md:10`); a
  non-member's message waits and is delivered by the sweep
  (`docs/impl/world_dispatcher.md:47`); the sweep never reads the place of
  sending. `PlaceStore.move` reads no capacity
  (`docs/impl/world_place_store.md:85`). An utterance to somebody whose turn is
  over is overheard and never incoming, although the docstring of
  `face_to_face.py` promises both.
* Turn: `fetch_f2f_history_at` keeps the oldest lines of a long transcript; what
  nobody hears leaves no row, so that the speaker's own transcript lacks it; a
  move to nowhere is noted as done.
* Tools: the schema of `request_move` offers `target_place` where the dispatcher
  reads `place_id` or `target`, that of `relation_change` offers `target` where
  it needs `dst`: neither does what it was called for. WorldState has no
  `connectivity`, so that with it `send_message`, `leave_group` and
  `send_to_group` are never offered. `_build_feeds` looks for attributes on the
  strings `feeds_at` returns, so that no feed is ever shown. A post is queued and
  reported as done, and nobody runs the platform that would take it. The list of
  pools `_infer_pools` looks for first is refused by the schema.
* Memory: `docs/impl/memory_updater.md:56` promises the order of writing; a batch
  that is retried lets later ones pass. The summary of a move that fails is made
  all the same, and one that Zep did not take is made and remembered again. The
  documents disagree about a missing callback: the header of
  `memory/compressor.py` calls it a no-op, `docs/impl/memory_compressor.md:69`
  has a summary in ChatMemory after every success.
* Stores: seeds revive capabilities that were revoked and relations that were
  removed; removing `mutual_follow` deletes follow rows that a `follower`
  relation still justifies; an exclusion declared by one type only is asked when
  that type is added; `rebuild_follow_from_world` and `auto_revoke_on_leave` have
  no caller, so that a follow row which a pool failed to remove stays for ever
  (`docs/impl/persistence_pool_db.md:97`: the next start rebuilds it).
* Runner: without pools and agents no tick suspends, and neither commands nor
  signals are seen before the last tick, although the comment at
  `run_agent_world_simulation.py:697` keeps ticking "so IPC stays responsive".
  `docs/impl/ipc_layer.md:91` calls the command file atomic; `simulation_ipc`
  writes it in place, and half a character ends the server. A client of
  `ipc/client.py` that gives up leaves its command, and any client its answer.
  An event reloaded in tick 0 for tick 0, or injected for the past, waits for
  ever; an effect that failed is not tried again at its time; `place_mutation`
  always fails, `broadcast_event` delivers nothing and is logged as applied,
  `on_action` never fires.
* Service: a crash between the two saves of a start leaves `starting` on disk,
  which blocks the next start; a second run appends to the log of the first,
  whose lines its monitor counts again; `register_cleanup` has no caller.

## 4. Proofs

The theorems hold for any agents, groups, places, coverage, roster and bounds,
from the assumptions each module names beside its constants: sets of agents are
finite where something is counted, bounds and delays are natural numbers, the
seeds of a scenario are of its agents. Where a theorem needs more, its statement
says so (Patient, DelayedLinks, ...), and why that is fair is said below. Every
inductive invariant was first checked by TLC as an invariant of the instance of
its component.

**The group channel (GroupBus_proofs)**

* `TypeCorrect`: Spec => []TypeOK.
* `MirrorIsBehind`, `QueueIsForMembers`: from the inductive invariant `QueueInv`,
  TypeOK with the two. MirrorTrailsTable says that the mirror is the table in the
  first process and, in a later one, is that of the scenario and misses at most
  members the table has; it is inductive because every method that writes the
  table refreshes the mirror of its group last. PendingOnlyForMembers needs TypeOK
  for the shape of the rows; it is kept by SendToGroup because the fan-out reads
  the table, and by RemoveMember because the purge has the same key.
* `CopiesLiveOneLife`: CopyLifecycle. `CopyStep` shows for one row what each
  action makes of it; a sweep delivers only to members by QueueInv and the
  mirror.
* `LogIsTruthful`: EventLogExplainsMembership, by `LogChanges`: appending one
  event changes the last event of one agent in one group only; and the joins a
  boot appends are of members the table has then.
* `BusImplementsInbox`: the refinement. `InboxSweep` is its heart: whether a
  waiting copy becomes readable depends on its owner and group only, so that the
  copies the sweep wakes up are a set of the abstract box.
* `NamesKept` and `KeysStep`, lemmas the tick needs: message and recipient
  identify a copy for ever.

**The tick (WorldStep_proofs)**

* `PipelineUsesTheBus`: every step of WorldStep is a step of GroupBus or leaves
  it alone, with the typing of the queued moves as the invariant. Through it the
  invariant of GroupBus is one of WorldStep (`ChannelInv`), without a second
  proof.
* `PipelineTyped`, `NothingShownTwice`: TypeOK and ShownOnce, from `PipelineInv`.
  `QueuesInv`: every agent waits at most once, in the coroutine of one place,
  which MOVE_AGENT does not change. `TurnsInv` ties the
  watermark to the turn: it is t from the decision on, and older than t for
  whoever has not had its turn. `RowsInv` gives every row an identity, and
  `RowsEvolve` says what a step may make of a row: only a waiting copy changes.
  `ShownInv` puts what was shown as incoming behind the watermark: that is what
  keeps it from being shown again.
* `LockstepKept`: SameTickMeansPresent, under `DelayedLinks`: group messages and
  links between different places take at least one tick. The demo is wired so;
  `config/world_config.py:49` allows a latency of 0, under which the statement is
  not meant. Whoever reads a message in the tick it was sent in has been, in that
  tick, where it was sent, and no group message is read so early: without
  MOVE_AGENT that is the place it reads in. `ArrivalInv` relates the times of a
  row to where its recipient has been, `PresentInv` says that this includes where
  it is.
* `SendersLearnOfFailures`: FailuresAreReported, when every agent acts in every
  tick, as in the demo, which has no scheduler; the slices are one tick long, and
  somebody left out for a tick misses the reports of that tick by design.
  `EveryTickInv`: whoever has perceived before has done so in
  this tick or the last; `ReportInv` extends the property to an agent that is
  thinking.
* `NothingInTransitIsMissed`: DelayedIsReadSpeechIsHeard, from `PassedInv` and
  `ReportInv`, for the same wiring with a delay of groups of at least one tick;
  with none, a copy may arrive in the very tick its reader has perceived. A row
  that arrives later than it was sent is shown as incoming; speech is overheard in
  the next perception of its listener, the watermark notwithstanding. What remains are messages without delay, of which
  `step_remote_lost` shows that they are lost.
* `ThreadsAreReadInOrder`: ReadInOrder, under `SteadyTicks`: no tool that grants,
  revokes, joins or leaves within a tick, no MOVE_AGENT, and a delay of groups of
  at most one.
  Otherwise an agent that comes into reach between two messages reads the second
  before the sweep wakes up the first. `OrderInv`: during a micro-tick what waits
  could not be delivered now either, because the sweep has just looked.

**The turn (Turn_proofs)**

* `TurnTyped`: TypeOK, with the views as functions of the agents.
* `WhatIsSeenHolds`: ObservationHolds, from `QueueInv`: who is in the middle of
  its turn is at the head of the queue of its place, so that nobody else there
  speaks, and nobody moves before the commit.
* `RostersAreExplained`: RosterExplained, from `SnapInv`: the snapshot is of the
  places of one tick, the views of that tick agree with it, and a view of the
  tick before is led to the present by what the cache holds. It is this
  invariant that a cache refreshed at the wrong moment breaks.
* `NoCallIsForgotten`: DoneOrFailed, from `CallsInv`: calls are numbered as they
  are made and a segment notes, in that order, the calls of its agent that were
  done; so the newest entries of a segment are the newest calls.

**The memory (Memory_proofs)**

* `MemoryTyped`, `EveryRoundCloses`: TypeOK and RoundsAreClosed, from `RoundInv`.
  The registry forgets a task that a second move replaces; `TasksAreNamed` says
  that it always names the last one at the lock, and the lock is first come,
  first served. `BuffersAreKnown`: only tasks of the barrier fill buffers, of
  updaters that `flush_all` goes through.
* `MemoryForgetsNothing`: NothingForgotten: an action is in the segment or in a
  summary where summaries go, which is ChatMemory if a callback is wired and the
  graph's queue if not. `CopiesAreFresh` is what makes the
  clearing of the whole segment harmless: while a task is suspended nothing is
  appended, because by RoundInv there are tasks in commit and barrier only.
* `EpisodesKeepUp`: EpisodesFollowChat, from `EpisodeInv`; what it says of
  ChatMemory is for a process that has the callback. `PlacesInv` makes the
  places of an episode (buffers, batches under way, sent, failed, lost) a
  partition of what was queued, whose parts the actions move sets between.
  `CopiesInv` counts: of an episode in a buffer Zep has nothing, of one in a
  batch no more copies than the batch has tries, so that the last attempt makes
  MAX_RETRIES at most. `OccurrencesAppended` is the lemma about sequences.

**The stores (WorldStores_proofs)**

* `StoresTyped`, `MemoryAgreesWithTables`: every method writes through, and a
  boot ends with memory and table in step but for seeds (`TablesInv`).
* `RelationRulesHold`: GraphKeepsItsRules, from `RulesInv`, which adds that the
  table has the twin of every symmetric relation too: otherwise the next boot
  would load half of one. `AdditionKeepsRules` speaks of exclusions that both
  types declare, since `add` asks the new type only.
* `FollowsStayJustified`: FollowsAreJustified, from `FollowsHaveReasons`, the
  same over the table while the process is down: a row without a relation is one
  a pool refused to remove or one of a change that a death cut in two.

**Pools and tools (Tools_proofs)**

* `OfferedFeedsAreServed`: PostsAreServed, from `ServedInv`: both indexes have
  the same pools, and every pool serves every place, since pools are inferred.
* `OffersOutliveTheModel`: OffersHold, from `KeptInv`, one conjunct per thing an
  offer rests on and the history of what took it away.

**The runner (Runner_proofs)**

* `EventsFireOnce`: FiresOncePerProcess, from `FireInv`: an event that waits or is
  not known was not applied in this process; known ids only grow until the next
  boot, which forgets them.
* `CommandsRunOnce`: WithdrawnNeverRuns, from `CommandInv`: a command is in its
  file, in the hands of the server, or executed, and removing the file is what
  moves it on.

* `RunnerTyped`: TypeOK, in four parts (MainTyped, LoadedTyped, FilesTyped,
  CountsTyped), with CommandInv for the counter of runs and with the bound of the
  clock while a tick goes on.
* `WaitingIsNotInVain`: NothingWaitsForThePast, which is inductive with these
  types: what is due in a tick is tried in it, a boot comes before every time, a
  reload leaves out what is past-due, and only injections and reloads in tick 0
  do not ask.

**The service (Supervisor_proofs)**

* `SupervisorTyped`: TypeOK, whatever callers do.
* `OneProcessAtATime`, `WhatRunsIsShown`: OneWatchedProcess and LiveIsShown, under
  `Patient` (see section 3; `supervisor_restart` shows what happens without it),
  for all processes but those with a failed monitor, from `ServiceInv`. Its parts: memory and disk hold the state of the last
  run (`FilesInv`); how far a request is shows in that state and in the registry
  (`CallInv`); a monitor that watches watches the last run, and none does while
  a start is under way (`WatchInv`); a living process is the last one and is
  known (`LiveInv`); a monitor leaves its loop after its process (`ExitInv`).
* `EveryLineOnce`: LinesAreCountedOnce, under Patient too, from `LinesInv`: a
  state object has counted, in order, the whole lines before the position of its
  monitor; the position never passes the end of the file.

Only model-checked, and why:

* liveness (QueueDrains, TicksGoOn, EveryTickEnds, TakenIsAnswered,
  EndIsReported) is beyond these provers, like everything that needs ENABLED;
* RemoteIsRead, OnePlaceEach and OneProcess are what documents or comments say
  and the code does not do: their runs refute them.

Every invariant and every action property of a passing run is a theorem.
Recursive operators and induction over data do not occur in the modules with
theorems: sums and orders are stated with Cardinality, and what is appended to a
sequence or dropped from it by lemmas (`OccurrencesAppended`, `Suffix`,
`LastOnes`, `RangeOfAppend`). The transcript of Turn is the set of the oldest
MaxLines utterances by number, which is the order the query returns them in.

## 5. Plan

Done: the group channel and the tick, then turn, tools, memory, stores, runner
and supervisor, and a theorem for every safety property of their runs. Next:

1. Refinements between the sides: that the tick of WorldStep, seen by its phase
   and its moves, is the tick of Memory and Turn.
2. ReadInOrder and the reports under weaker wirings: which calls within a tick,
   and which absences of an agent, they really need to exclude.
3. Process death between the statements of a group method, over GroupBus, whose
   processes now end between two of them.
4. A second boot of WorldStep: the watermark over the messages of the last
   process, which has counted to other ticks.

## 6. Not modelled

Language model providers (`llm/`), the report agent, Zep tools, configuration
generators, profiles, ScriptTranslator and MultiGraphRetriever are request,
response and formatting code without protocol state. The platforms behind the
pools are an external package, and `update_all` changes only what is theirs. Of
the perception, group events, script notifications (nothing queues one),
short-term goals and retrieved memories are left out. Hooks of place types,
place requirements of capabilities and their expiry are left out: nothing in
either program registers or sets them. Methods without a caller are not actions
(`force_compress_if_overflow`, `MultiGraphManager.shutdown`,
`rebuild_follow_from_world`, `auto_revoke_on_leave`, `cleanup_all_simulations`).
A GroupBus method is one step; the death of the process inside one is in the
plan, and so is the second boot of a tick. WorldDB's schema bootstrap and the static configuration change no state
that these modules have.
