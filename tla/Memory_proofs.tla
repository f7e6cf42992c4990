---------------------------- MODULE Memory_proofs ----------------------------
(***************************************************************************)
(* Theorems about Memory, for every set of agents, any number of actions,  *)
(* ticks and retries, and every wiring: nothing an agent did is lost on    *)
(* its way into its memory, a round is closed before agents perceive, and  *)
(* the graph has of every summary what its account says, and no other.     *)
(***************************************************************************)
EXTENDS Memory, FiniteSetTheorems, TLAPS

\* What a task sees of the queue it is in when it returns, and what a new task
\* does to it.
LEMMA QueueFacts ==
    ASSUME NEW s \in Seq(Nat \ {0})
    PROVE  /\ s # <<>> => /\ Last(s) \in Nat \ {0}
                          /\ Len(s) \in DOMAIN s /\ s[Len(s)] = Last(s)
                          /\ Tail(s) \in Seq(Nat \ {0})
                          /\ Tail(s) # <<>> => Last(Tail(s)) = Last(s)
           /\ \A n \in Nat \ {0} : /\ Append(s, n) \in Seq(Nat \ {0})
                                   /\ Append(s, n) # <<>>
                                   /\ Last(Append(s, n)) = n
<1>1. ASSUME s # <<>>
      PROVE  /\ Last(s) \in Nat \ {0}
             /\ Len(s) \in DOMAIN s /\ s[Len(s)] = Last(s)
             /\ Tail(s) \in Seq(Nat \ {0})
             /\ Tail(s) # <<>> => Last(Tail(s)) = Last(s)
  <2>1. Len(s) \in Nat /\ Len(s) > 0
    BY <1>1
  <2> QED
    BY <1>1, <2>1 DEF Last
<1>2. ASSUME NEW n \in Nat \ {0}
      PROVE  /\ Append(s, n) \in Seq(Nat \ {0})
             /\ Append(s, n) # <<>>
             /\ Last(Append(s, n)) = n
  BY DEF Last
<1> QED
  BY <1>1, <1>2

\* A new task has a number above 0.
LEMMA NewTaskTyped ==
    ASSUME TypeOK, NEW a \in Agents
    PROVE  NewTask(a) \in Nat \ {0}
<1>1. tasks[a] \in Seq(Nat \ {0})
  BY DEF TypeOK
<1>2. tasks[a] # <<>> => Last(tasks[a]) \in Nat
  BY <1>1, QueueFacts
<1> QED
  BY <1>2 DEF NewTask

-----------------------------------------------------------------------------
(* Type correctness *)

\* Before the first tick everything is empty.
LEMMA InitTyped == Init => TypeOK
BY MemoryAssumption DEF Init, TypeOK

\* What a flush drains becomes batches that have not been tried, or is
\* accounted for.
LEMMA FlushTyped ==
    ASSUME TypeOK, NEW A \in SUBSET Agents, NEW waited \in BOOLEAN,
           FlushOne(A, waited)
    PROVE  /\ buffer' \in [Agents -> Seq(Nat)]
           /\ \A b \in batches' :
                b \in [agent : Agents, eps : Seq(Nat),
                       tries : 0..(MaxRetries - 1), waited : BOOLEAN]
           /\ sent' \cup failed' \cup lost' \subseteq Agents \X Nat
           /\ updaters' \subseteq Agents
           /\ made' \in [Agents -> Seq(SUBSET Nat)]
           /\ graph' \in [Agents -> Seq(Nat)]
<1> DEFINE drained == {a \in A : buffer[a] # <<>>}
<1>1. buffer' = [a \in Agents |-> IF a \in drained THEN <<>> ELSE buffer[a]]
  BY DEF FlushOne
<1>2. buffer' \in [Agents -> Seq(Nat)]
  BY <1>1 DEF TypeOK
<1>3. ASSUME NEW a \in drained
      PROVE  /\ Batch(a, buffer[a], 0, waited) \in
                  [agent : Agents, eps : Seq(Nat),
                   tries : 0..(MaxRetries - 1), waited : BOOLEAN]
             /\ Episodes(a, buffer[a]) \subseteq Agents \X Nat
  BY MemoryAssumption DEF TypeOK, Batch, Episodes
<1>4. \A b \in batches' :
        b \in [agent : Agents, eps : Seq(Nat),
               tries : 0..(MaxRetries - 1), waited : BOOLEAN]
  BY <1>3 DEF TypeOK, FlushOne
<1>5. sent' \subseteq sent \cup UNION {Episodes(a, buffer[a]) : a \in drained}
  BY DEF FlushOne
<1>6. sent' \subseteq Agents \X Nat
  BY <1>3, <1>5 DEF TypeOK
<1> QED
  BY <1>2, <1>4, <1>6 DEF TypeOK, FlushOne

\* A task that returns leaves the queue of its agent.
LEMMA ReturnTyped ==
    ASSUME TypeOK, NEW a \in Agents, tasks[a] # <<>>, Return(a)
    PROVE  /\ tasks' \in [Agents -> Seq(Nat \ {0})]
           /\ stage' \in [Agents -> {"idle", "asked", "told"}]
           /\ read' \in [Agents -> SUBSET Nat]
           /\ pending' \in [Agents -> Nat]
           /\ awaited' \in [Agents -> Nat]
<1>1. tasks[a] \in Seq(Nat \ {0}) /\ Tail(tasks[a]) \in Seq(Nat \ {0})
  BY QueueFacts DEF TypeOK
<1> QED
  BY <1>1 DEF TypeOK, Return

\* The steps of the dispatcher keep the types.
LEMMA DispatchTyped ==
    ASSUME TypeOK, NEW a \in Agents, Dispatch(a) \/ RequestMove(a)
    PROVE  TypeOK'
<1>1. AppendEntry(a)
  BY DEF Dispatch, RequestMove
<1>2. noted[a] + 1 \in 0..MaxNotes
  BY <1>1, MemoryAssumption DEF TypeOK, AppendEntry
<1>3. noted' = [noted EXCEPT ![a] = noted[a] + 1]
  BY <1>1 DEF AppendEntry
<1>4. noted' \in [Agents -> 0..MaxNotes] /\ noted'[a] \in Nat
  BY <1>2, <1>3 DEF TypeOK
<1>5. seg' \in [Agents -> SUBSET Nat]
  BY <1>1, <1>4 DEF TypeOK, AppendEntry
<1>6. moves' \in Seq(Agents)
  <2>1. Append(moves, a) \in Seq(Agents)
    BY DEF TypeOK
  <2> QED
    BY <2>1 DEF TypeOK, Dispatch, RequestMove
<1> QED
  BY <1>4, <1>5, <1>6 DEF TypeOK, Dispatch, RequestMove, task_vars, zep_vars

\* The steps of a compression task keep the types.
LEMMA CompressTyped ==
    ASSUME TypeOK, NEW a \in Agents, Compress(a)
    PROVE  TypeOK'
<1>1. tasks[a] # <<>>
  BY DEF Compress, SkipCompression, AskModel, ModelFails, AppendToChatMemory,
         EnqueueZep, EnqueueFails, HoldsLock
<1>2. CASE SkipCompression(a) \/ ModelFails(a) \/ EnqueueFails(a)
  <2>1. Return(a)
    BY <1>2 DEF SkipCompression, ModelFails, EnqueueFails
  <2> QED
    BY <1>1, <1>2, <2>1, ReturnTyped
    DEF TypeOK, SkipCompression, ModelFails, EnqueueFails, dispatch_vars,
        zep_vars
<1>3. CASE AskModel(a)
  BY <1>3 DEF TypeOK, AskModel, dispatch_vars, zep_vars
<1>4. CASE AppendToChatMemory(a)
  <2>1. Append(chat[a], read[a]) \in Seq(SUBSET Nat)
    BY DEF TypeOK
  <2> QED
    BY <1>4, <2>1 DEF TypeOK, AppendToChatMemory, dispatch_vars, zep_vars, task_vars
<1>5. CASE EnqueueZep(a)
  <2>1. Append(made[a], read[a]) \in Seq(SUBSET Nat)
    BY DEF TypeOK
  <2>2. made' \in [Agents -> Seq(SUBSET Nat)]
    BY <1>5, <2>1 DEF TypeOK, EnqueueZep, Enqueue
  <2>3. Len(made'[a]) \in Nat
    BY <2>2
  <2>4. Append(buffer[a], Len(made'[a])) \in Seq(Nat)
    BY <2>3 DEF TypeOK
  <2>5. buffer' \in [Agents -> Seq(Nat)]
    BY <1>5, <2>4 DEF TypeOK, EnqueueZep, Enqueue
  <2> QED
    BY <1>1, <1>5, <2>2, <2>5, ReturnTyped
    DEF TypeOK, EnqueueZep, ForAgent, dispatch_vars
<1> QED
  BY <1>2, <1>3, <1>4, <1>5 DEF Compress

\* What a batch is.
LEMMA BatchTyped ==
    ASSUME TypeOK, NEW b \in batches
    PROVE  /\ b.agent \in Agents /\ b.eps \in Seq(Nat)
           /\ b.tries \in 0..(MaxRetries - 1) /\ b.waited \in BOOLEAN
           /\ \A k \in DOMAIN b.eps : b.eps[k] \in Nat
           /\ Episodes(b.agent, b.eps) \subseteq Agents \X Nat
<1>1. b \in [agent : Agents, eps : Seq(Nat), tries : 0..(MaxRetries - 1),
            waited : BOOLEAN]
  BY DEF TypeOK
<1>2. b.eps \in Seq(Nat)
  BY <1>1
<1>3. \A k \in DOMAIN b.eps : b.eps[k] \in Nat
  BY <1>2
<1>4. b.agent \in Agents
  BY <1>1
<1>5. Episodes(b.agent, b.eps) \subseteq Agents \X Nat
  BY <1>3, <1>4 DEF Episodes
<1> QED
  BY <1>1, <1>2, <1>3, <1>5

\* The steps of a batch keep the types.
LEMMA WriteTyped ==
    ASSUME TypeOK, NEW b \in batches, WriteSucceeds(b) \/ WriteFails(b)
    PROVE  TypeOK'
<1>1. /\ b \in [agent : Agents, eps : Seq(Nat), tries : 0..(MaxRetries - 1),
                waited : BOOLEAN]
      /\ Episodes(b.agent, b.eps) \subseteq Agents \X Nat
  BY BatchTyped DEF TypeOK
<1>2. graph[b.agent] \o b.eps \in Seq(Nat)
  BY <1>1 DEF TypeOK
<1>3. graph' \in [Agents -> Seq(Nat)]
  <2>1. graph' \in {graph, [graph EXCEPT ![b.agent] = graph[b.agent] \o b.eps]}
    BY DEF WriteSucceeds, WriteFails
  <2>2. graph \in [Agents -> Seq(Nat)]
    BY DEF TypeOK
  <2>3. [graph EXCEPT ![b.agent] = graph[b.agent] \o b.eps] \in
          [Agents -> Seq(Nat)]
    BY <1>2, <2>2
  <2> QED
    BY <2>1, <2>2, <2>3
<1>4. CASE WriteSucceeds(b)
  BY <1>1, <1>3, <1>4
  DEF TypeOK, WriteSucceeds, dispatch_vars, task_vars
<1>5. CASE WriteFails(b)
  <2>1. b.tries + 1 < MaxRetries =>
          [b EXCEPT !.tries = @ + 1] \in
            [agent : Agents, eps : Seq(Nat), tries : 0..(MaxRetries - 1),
             waited : BOOLEAN]
    <3>1. b.tries + 1 < MaxRetries => b.tries + 1 \in 0..(MaxRetries - 1)
      BY <1>1, MemoryAssumption
    <3> QED
      BY <1>1, <3>1
  <2>2. \A c \in batches' :
          c \in [agent : Agents, eps : Seq(Nat), tries : 0..(MaxRetries - 1),
                 waited : BOOLEAN]
    <3>1. batches' \subseteq batches \cup {[b EXCEPT !.tries = @ + 1]}
          /\ (b.tries + 1 >= MaxRetries => batches' \subseteq batches)
      BY <1>1, <1>5, MemoryAssumption DEF WriteFails
    <3>2. b.tries + 1 < MaxRetries \/ b.tries + 1 >= MaxRetries
      BY <1>1, MemoryAssumption
    <3> QED
      BY <2>1, <3>1, <3>2 DEF TypeOK
  <2>3. failed' \subseteq Agents \X Nat
    <3>1. failed \subseteq Agents \X Nat
      BY DEF TypeOK
    <3>2. failed' = failed \/ failed' = failed \cup Episodes(b.agent, b.eps)
      BY <1>5 DEF WriteFails
    <3> QED
      BY <1>1, <3>1, <3>2
  <2> QED
    BY <1>3, <1>5, <2>2, <2>3 DEF TypeOK, WriteFails, dispatch_vars, task_vars
<1> QED
  BY <1>4, <1>5

\* The bound on the clock leaves room for the tick that has begun.
TickFits == phase \in {"micro", "commit", "barrier", "flush"} => t < MaxT

\* Every step keeps the types.
LEMMA StepTyped == TypeOK /\ TickFits /\ [Next]_vars => TypeOK'
<1> SUFFICES ASSUME TypeOK, TickFits, [Next]_vars PROVE TypeOK'
  OBVIOUS
<1>1. ASSUME NEW a \in Agents, Dispatch(a) \/ RequestMove(a) PROVE TypeOK'
  BY <1>1, DispatchTyped
<1>2. ASSUME NEW a \in Agents, Compress(a) PROVE TypeOK'
  BY <1>2, CompressTyped
<1>3. ASSUME NEW a \in Agents, WorkerFlush(a) PROVE TypeOK'
  <2>1. FlushOne({a}, FALSE)
    BY <1>3 DEF WorkerFlush
  <2> QED
    BY <1>3, <2>1, FlushTyped DEF TypeOK, WorkerFlush, dispatch_vars, task_vars
<1>4. CASE Write
  BY <1>4, WriteTyped DEF Write
<1>5. CASE StartTick \/ EndMicro
  BY <1>5 DEF TypeOK, StartTick, EndMicro, task_vars, zep_vars
<1>6. CASE CommitMove
  <2>1. Head(moves) \in Agents /\ Tail(moves) \in Seq(Agents)
    BY <1>6 DEF TypeOK, CommitMove
  <2>2. PICK a \in Agents : OnMove(a)
    BY <1>6, <2>1 DEF CommitMove
  <2>3. NewTask(a) \in Nat \ {0}
    BY NewTaskTyped
  <2>4. Append(tasks[a], NewTask(a)) \in Seq(Nat \ {0})
    BY <2>3, QueueFacts DEF TypeOK
  <2>5. tasks' \in [Agents -> Seq(Nat \ {0})] /\ pending' \in [Agents -> Nat]
    <3>1. tasks' \in {tasks, [tasks EXCEPT ![a] = Append(tasks[a], NewTask(a))]}
      BY <2>2 DEF OnMove
    <3>2. pending' \in {pending, [pending EXCEPT ![a] = NewTask(a)]}
      BY <2>2 DEF OnMove
    <3>3. /\ tasks \in [Agents -> Seq(Nat \ {0})]
          /\ pending \in [Agents -> Nat]
      BY DEF TypeOK
    <3>4. [tasks EXCEPT ![a] = Append(tasks[a], NewTask(a))] \in
            [Agents -> Seq(Nat \ {0})]
      BY <2>4, <3>3
    <3> QED
      BY <2>3, <3>1, <3>2, <3>3, <3>4
  <2> QED
    BY <1>6, <2>1, <2>5 DEF TypeOK, CommitMove, zep_vars
<1>7. CASE AwaitAllPending
  BY <1>7 DEF TypeOK, AwaitAllPending, zep_vars
<1>8. CASE StartFlush \/ BeginExit
  <2>1. FlushOne(updaters, TRUE)
    BY <1>8 DEF StartFlush, BeginExit, FlushAll
  <2>2. updaters \in SUBSET Agents
    BY DEF TypeOK
  <2>3. /\ buffer' \in [Agents -> Seq(Nat)]
        /\ \A b \in batches' :
             b \in [agent : Agents, eps : Seq(Nat),
                    tries : 0..(MaxRetries - 1), waited : BOOLEAN]
        /\ sent' \cup failed' \cup lost' \subseteq Agents \X Nat
        /\ updaters' \subseteq Agents
        /\ made' \in [Agents -> Seq(SUBSET Nat)]
        /\ graph' \in [Agents -> Seq(Nat)]
    BY <2>1, <2>2, FlushTyped
  <2> QED
    BY <1>8, <2>3 DEF TypeOK, StartFlush, BeginExit, task_vars
<1>9. CASE AdvanceClock
  <2>1. t + 1 \in 0..MaxT
    BY <1>9, MemoryAssumption DEF TypeOK, TickFits, AdvanceClock
  <2> QED
    BY <1>9, <2>1 DEF TypeOK, AdvanceClock, task_vars, zep_vars
<1>10. CASE Exit
  <2>1. \A b \in batches : Episodes(b.agent, b.eps) \subseteq Agents \X Nat
    BY BatchTyped
  <2>2. lost' \subseteq Agents \X Nat
    BY <1>10, <2>1 DEF TypeOK, Exit
  <2> QED
    BY <1>10, <2>2 DEF TypeOK, Exit, task_vars
<1>11. CASE UNCHANGED vars
  BY <1>11 DEF TypeOK, vars, dispatch_vars, task_vars, zep_vars
<1> QED
  BY <1>1, <1>2, <1>3, <1>4, <1>5, <1>6, <1>7, <1>8, <1>9, <1>10, <1>11
  DEF Next, Round

-----------------------------------------------------------------------------
(* Rounds *)

\* Between the moves and the barrier the registry names the last task of each
\* agent, in the barrier the list that is awaited does; elsewhere there is no
\* task. The lock of an agent is first come, first served: when its last task
\* is done, so are the others.
TasksAreNamed ==
    \A a \in Agents :
        /\ stage[a] # "idle" => tasks[a] # <<>>
        /\ tasks[a] # <<>> =>
             \/ phase = "commit" /\ pending[a] = Last(tasks[a])
             \/ phase = "barrier" /\ awaited[a] = Last(tasks[a])

\* Only a task that the barrier waits for fills a buffer, and the updater it
\* belongs to is in the registry that flush_all goes through.
BuffersAreKnown ==
    \A a \in Agents : buffer[a] # <<>> => phase = "barrier" /\ a \in updaters

RoundInv == TypeOK /\ TickFits /\ TasksAreNamed /\ BuffersAreKnown

\* Before the first tick there are no tasks.
LEMMA RoundInit == Init => RoundInv
BY InitTyped DEF Init, RoundInv, TickFits, TasksAreNamed, BuffersAreKnown

\* A task runs in the barrier only.
LEMMA TasksRunInTheBarrier ==
    ASSUME RoundInv, NEW a \in Agents, Compress(a)
    PROVE  phase = "barrier" /\ tasks[a] # <<>> /\ awaited[a] = Last(tasks[a])
BY DEF RoundInv, TasksAreNamed, Compress, SkipCompression, AskModel,
       ModelFails, AppendToChatMemory, EnqueueZep, EnqueueFails, HoldsLock,
       LoopFree

\* When the tasks that are awaited are done, all tasks are.
LEMMA BarrierClosesRound ==
    ASSUME RoundInv, phase = "barrier", BarrierOver, NEW a \in Agents
    PROVE  tasks[a] = <<>>
<1>1. tasks[a] \in Seq(Nat \ {0})
  BY DEF RoundInv, TypeOK
<1>2. tasks[a] # <<>> => /\ Len(tasks[a]) \in DOMAIN tasks[a]
                         /\ tasks[a][Len(tasks[a])] = awaited[a]
  BY <1>1, QueueFacts DEF RoundInv, TasksAreNamed
<1> QED
  BY <1>2 DEF BarrierOver, Done

\* A step of a task keeps the round's invariant.
LEMMA CompressKeepsRound ==
    ASSUME RoundInv, NEW a \in Agents, Compress(a)
    PROVE  TasksAreNamed' /\ BuffersAreKnown'
<1>1. phase = "barrier" /\ tasks[a] # <<>> /\ awaited[a] = Last(tasks[a])
  BY TasksRunInTheBarrier
<1>2. /\ tasks \in [Agents -> Seq(Nat \ {0})]
      /\ stage \in [Agents -> {"idle", "asked", "told"}]
      /\ buffer \in [Agents -> Seq(Nat)]
  BY DEF RoundInv, TypeOK
<1>3. tasks[a] \in Seq(Nat \ {0})
  BY <1>2
<1>4. Tail(tasks[a]) # <<>> => Last(Tail(tasks[a])) = Last(tasks[a])
  BY <1>1, <1>3, QueueFacts
<1>5. ASSUME Return(a), phase' = phase PROVE TasksAreNamed'
  BY <1>1, <1>2, <1>4, <1>5 DEF RoundInv, TasksAreNamed, Return
<1>6. CASE SkipCompression(a) \/ ModelFails(a) \/ EnqueueFails(a)
  BY <1>5, <1>6
  DEF SkipCompression, ModelFails, EnqueueFails, RoundInv, BuffersAreKnown,
      dispatch_vars, zep_vars
<1>7. CASE AskModel(a) \/ AppendToChatMemory(a)
  BY <1>1, <1>2, <1>7
  DEF AskModel, AppendToChatMemory, RoundInv, TasksAreNamed, BuffersAreKnown,
      dispatch_vars, zep_vars
<1>8. CASE EnqueueZep(a)
  <2>1. TasksAreNamed'
    BY <1>5, <1>8 DEF EnqueueZep, dispatch_vars
  <2>2. \A b \in Agents : b # a => buffer'[b] = buffer[b]
    BY <1>2, <1>8 DEF EnqueueZep, Enqueue
  <2>3. updaters' = updaters \cup {a} /\ phase' = "barrier"
    BY <1>1, <1>8 DEF EnqueueZep, ForAgent, dispatch_vars
  <2> QED
    BY <2>1, <2>2, <2>3 DEF RoundInv, BuffersAreKnown
<1> QED
  BY <1>6, <1>7, <1>8 DEF Compress

\* A flush leaves no buffer that is not empty among those it goes through.
LEMMA FlushDrains ==
    ASSUME RoundInv, NEW A \in SUBSET Agents, NEW waited \in BOOLEAN,
           FlushOne(A, waited), NEW a \in Agents
    PROVE  /\ buffer'[a] # <<>> => buffer[a] # <<>> /\ a \notin A
           /\ updaters' = updaters
BY DEF FlushOne

\* Every step keeps the round's invariant.
LEMMA RoundStep == RoundInv /\ [Next]_vars => RoundInv'
<1> SUFFICES ASSUME RoundInv, [Next]_vars
             PROVE  TickFits' /\ TasksAreNamed' /\ BuffersAreKnown'
  BY StepTyped DEF RoundInv
<1> USE DEF RoundInv
<1>1. ASSUME NEW a \in Agents, Dispatch(a) \/ RequestMove(a)
      PROVE  TickFits' /\ TasksAreNamed' /\ BuffersAreKnown'
  BY <1>1
  DEF Dispatch, RequestMove, TickFits, TasksAreNamed, BuffersAreKnown,
      task_vars, zep_vars
<1>2. ASSUME NEW a \in Agents, Compress(a)
      PROVE  TickFits' /\ TasksAreNamed' /\ BuffersAreKnown'
  <2>1. phase' = phase /\ t' = t
    BY <1>2
    DEF Compress, SkipCompression, AskModel, ModelFails, AppendToChatMemory,
        EnqueueZep, EnqueueFails, dispatch_vars
  <2> QED
    BY <1>2, <2>1, CompressKeepsRound DEF TickFits
<1>3. ASSUME NEW a \in Agents, WorkerFlush(a)
      PROVE  TickFits' /\ TasksAreNamed' /\ BuffersAreKnown'
  <2>1. FlushOne({a}, FALSE)
    BY <1>3 DEF WorkerFlush
  <2>2. \A b \in Agents :
          (buffer'[b] # <<>> => buffer[b] # <<>>) /\ updaters' = updaters
    BY <2>1, FlushDrains
  <2> QED
    BY <1>3, <2>2
    DEF WorkerFlush, TickFits, TasksAreNamed, BuffersAreKnown, dispatch_vars,
        task_vars
<1>4. CASE Write
  BY <1>4
  DEF Write, WriteSucceeds, WriteFails, TickFits, TasksAreNamed,
      BuffersAreKnown, dispatch_vars, task_vars
<1>5. CASE StartTick \/ EndMicro
  BY <1>5
  DEF StartTick, EndMicro, TickFits, TasksAreNamed, BuffersAreKnown, task_vars,
      zep_vars
<1>6. CASE CommitMove
  <2>0. Head(moves) \in Agents
    BY <1>6 DEF CommitMove, TypeOK
  <2>1. PICK a \in Agents : OnMove(a)
    BY <1>6, <2>0 DEF CommitMove
  <2>2. NewTask(a) \in Nat \ {0}
    BY NewTaskTyped
  <2>3. Last(Append(tasks[a], NewTask(a))) = NewTask(a)
    BY <2>2, QueueFacts DEF TypeOK
  <2>4. \A b \in Agents : b # a => tasks'[b] = tasks[b] /\ pending'[b] = pending[b]
    BY <2>1 DEF OnMove, TypeOK
  <2>5. \/ tasks'[a] = tasks[a] /\ pending'[a] = pending[a]
        \/ tasks'[a] = Append(tasks[a], NewTask(a)) /\ pending'[a] = NewTask(a)
    BY <2>1 DEF OnMove, TypeOK
  <2>6. Append(tasks[a], NewTask(a)) # <<>>
    BY <2>2, QueueFacts DEF TypeOK
  <2>7. TasksAreNamed'
    BY <1>6, <2>3, <2>4, <2>5, <2>6 DEF CommitMove, TasksAreNamed
  <2> QED
    BY <1>6, <2>7 DEF CommitMove, TickFits, BuffersAreKnown, zep_vars
<1>7. CASE AwaitAllPending
  <2>1. ASSUME NEW a \in Agents, tasks[a] # <<>>
        PROVE  ~Done(a, pending[a])
    <3>1. tasks[a] \in Seq(Nat \ {0})
      BY DEF TypeOK
    <3>2. Len(tasks[a]) \in DOMAIN tasks[a] /\ tasks[a][Len(tasks[a])] = pending[a]
      BY <1>7, <2>1, <3>1, QueueFacts DEF TasksAreNamed, AwaitAllPending
    <3> QED
      BY <3>2 DEF Done
  <2>2. TasksAreNamed'
    BY <1>7, <2>1 DEF AwaitAllPending, TasksAreNamed
  <2> QED
    BY <1>7, <2>2 DEF AwaitAllPending, TickFits, BuffersAreKnown, zep_vars
<1>8. CASE StartFlush \/ BeginExit
  <2>1. FlushOne(updaters, TRUE)
    BY <1>8 DEF StartFlush, BeginExit, FlushAll
  <2>2. \A a \in Agents : buffer'[a] = <<>>
    BY <2>1, FlushDrains DEF TypeOK, BuffersAreKnown
  <2>3. \A a \in Agents : tasks[a] = <<>>
    BY <1>8, BarrierClosesRound DEF StartFlush, BeginExit, TasksAreNamed
  <2> QED
    BY <1>8, <2>2, <2>3
    DEF StartFlush, BeginExit, TickFits, TasksAreNamed, BuffersAreKnown,
        task_vars
<1>9. CASE AdvanceClock
  BY <1>9
  DEF AdvanceClock, TickFits, TasksAreNamed, BuffersAreKnown, task_vars,
      zep_vars
<1>10. CASE Exit
  BY <1>10
  DEF Exit, TickFits, TasksAreNamed, BuffersAreKnown, task_vars
<1>11. CASE UNCHANGED vars
  BY <1>11
  DEF vars, dispatch_vars, task_vars, zep_vars, TickFits, TasksAreNamed,
      BuffersAreKnown
<1> QED
  BY <1>1, <1>2, <1>3, <1>4, <1>5, <1>6, <1>7, <1>8, <1>9, <1>10, <1>11
  DEF Next, Round

\* The buffers, segments and task queues stay well typed.
THEOREM MemoryTyped == Spec => []TypeOK
<1>1. RoundInv => TypeOK
  BY DEF RoundInv
<1> QED
  BY <1>1, RoundInit, RoundStep, PTL DEF Spec

\* However the tasks of a round are registered, overwritten, served and
\* failed: when agents perceive, none is left, and every summary has been
\* handed to Zep.
THEOREM EveryRoundCloses == Spec => []RoundsAreClosed
<1>1. RoundInv => RoundsAreClosed
  BY DEF RoundInv, TasksAreNamed, BuffersAreKnown, RoundsAreClosed
<1> QED
  BY <1>1, RoundInit, RoundStep, PTL DEF Spec

-----------------------------------------------------------------------------
(* Nothing is forgotten *)

\* While a task waits for the model, and while it writes, nothing is appended
\* to the segment it has copied: clearing the whole segment loses nothing.
CopiesAreFresh ==
    \A a \in Agents :
        /\ stage[a] # "idle" => read[a] = seg[a]
        /\ stage[a] = "told" /\ "chat" \in wired => read[a] \in Range(chat[a])

MemoryInv == RoundInv /\ CopiesAreFresh /\ NothingForgotten

\* One more summary.
LEMMA RangeOfAppend ==
    ASSUME NEW S, NEW s \in Seq(S), NEW e \in S
    PROVE  Range(Append(s, e)) = Range(s) \cup {e}
<1>1. Append(s, e) \in Seq(S)
  OBVIOUS
<1>2. /\ Len(Append(s, e)) = Len(s) + 1
      /\ \A i \in 1..Len(s) : Append(s, e)[i] = s[i]
      /\ Append(s, e)[Len(s) + 1] = e
  OBVIOUS
<1>3. Len(s) \in Nat /\ DOMAIN s = 1..Len(s)
      /\ DOMAIN Append(s, e) = 1..(Len(s) + 1)
  BY <1>1, <1>2
<1> QED
  BY <1>2, <1>3 DEF Range

\* What the summaries say, and what one more adds.
Known(s) == UNION Range(s)

LEMMA KnownOfAppend ==
    ASSUME NEW S, NEW s \in Seq(S), NEW e \in S
    PROVE  Known(Append(s, e)) = Known(s) \cup e
<1>1. Range(Append(s, e)) = Range(s) \cup {e}
  BY RangeOfAppend
<1>2. ASSUME NEW x
      PROVE  (\E y \in Range(Append(s, e)) : x \in y)
               <=> (\E y \in Range(s) : x \in y) \/ x \in e
  BY <1>1
<1> QED
  BY <1>2 DEF Known

\* An agent that acts has no task, and what it does is in its segment.
LEMMA ActingIsNoted ==
    ASSUME MemoryInv, NEW a \in Agents, Dispatch(a) \/ RequestMove(a)
    PROVE  CopiesAreFresh' /\ NothingForgotten'
<1>1. AppendEntry(a) /\ UNCHANGED <<task_vars, chat, made, wired>> /\ phase = "micro"
  BY DEF Dispatch, RequestMove, zep_vars
<1>2. \A b \in Agents : stage[b] = "idle"
  BY <1>1 DEF MemoryInv, RoundInv, TypeOK, TasksAreNamed
<1>3. /\ noted'[a] = noted[a] + 1 /\ noted[a] \in Nat
      /\ seg'[a] = seg[a] \cup {noted[a] + 1}
      /\ \A b \in Agents : b # a => noted'[b] = noted[b] /\ seg'[b] = seg[b]
  BY <1>1 DEF AppendEntry, MemoryInv, RoundInv, TypeOK
<1>4. 1..(noted[a] + 1) = 1..noted[a] \cup {noted[a] + 1}
  BY <1>3
<1>5. CopiesAreFresh'
  BY <1>1, <1>2 DEF CopiesAreFresh, task_vars
<1>6. \A b \in Agents : Told(b)' = Told(b)
  BY <1>1 DEF Told
<1>7. ASSUME NEW b \in Agents
      PROVE  1..noted'[b] = seg'[b] \cup UNION Range(Told(b)')
  <2>1. 1..noted[b] = seg[b] \cup UNION Range(Told(b))
    BY DEF MemoryInv, NothingForgotten
  <2> QED
    BY <1>3, <1>4, <1>6, <2>1
<1> QED
  BY <1>5, <1>7 DEF NothingForgotten

\* A task moves what it has read from the segment to the summaries: to the
\* ChatMemory before the segment is cleared, to the graph's queue with it.
LEMMA CompressLosesNothing ==
    ASSUME MemoryInv, NEW a \in Agents, Compress(a)
    PROVE  CopiesAreFresh' /\ NothingForgotten'
<1>1. /\ stage \in [Agents -> {"idle", "asked", "told"}]
      /\ read \in [Agents -> SUBSET Nat]
      /\ seg \in [Agents -> SUBSET Nat]
      /\ chat \in [Agents -> Seq(SUBSET Nat)]
      /\ made \in [Agents -> Seq(SUBSET Nat)]
  BY DEF MemoryInv, RoundInv, TypeOK
<1>2. \A b \in Agents : 1..noted[b] = seg[b] \cup Known(Told(b))
  BY DEF MemoryInv, NothingForgotten, Known
<1>3. noted' = noted /\ wired' = wired
  BY DEF Compress, SkipCompression, AskModel, ModelFails, AppendToChatMemory,
         EnqueueZep, EnqueueFails, dispatch_vars
<1>4. ASSUME UNCHANGED <<seg, chat, made>> PROVE NothingForgotten'
  <2>1. \A b \in Agents : Told(b)' = Told(b)
    BY <1>3, <1>4 DEF Told
  <2> QED
    BY <1>2, <1>3, <1>4, <2>1 DEF NothingForgotten, Known
<1>5. CASE SkipCompression(a) \/ ModelFails(a) \/ EnqueueFails(a)
  <2>1. UNCHANGED <<seg, chat, made>> /\ Return(a)
    BY <1>5 DEF SkipCompression, ModelFails, EnqueueFails, zep_vars
  <2>2. CopiesAreFresh'
    BY <1>1, <1>3, <2>1 DEF Return, MemoryInv, CopiesAreFresh
  <2> QED
    BY <1>4, <2>1, <2>2
<1>6. CASE AskModel(a)
  <2>1. UNCHANGED <<seg, chat, made>>
    BY <1>6 DEF AskModel, zep_vars
  <2>2. CopiesAreFresh'
    BY <1>1, <1>3, <1>6, <2>1 DEF AskModel, MemoryInv, CopiesAreFresh
  <2> QED
    BY <1>4, <2>1, <2>2
<1>7. CASE AppendToChatMemory(a)
  <2>1. read[a] = seg[a]
    BY <1>7 DEF AppendToChatMemory, HoldsLock, MemoryInv, CopiesAreFresh
  <2>2. /\ UNCHANGED <<seg, read, made>>
        /\ stage' = [stage EXCEPT ![a] = "told"]
    BY <1>7 DEF AppendToChatMemory, zep_vars
  <2>3. CASE "chat" \notin wired
    <3>1. chat' = chat
      BY <1>7, <2>3 DEF AppendToChatMemory
    <3>2. CopiesAreFresh'
      BY <1>1, <1>3, <2>1, <2>2, <2>3 DEF MemoryInv, CopiesAreFresh
    <3> QED
      BY <1>4, <2>2, <3>1, <3>2
  <2>4. CASE "chat" \in wired
    <3>1. chat'[a] = Append(chat[a], read[a])
          /\ \A b \in Agents : b # a => chat'[b] = chat[b]
      BY <1>1, <1>7, <2>4 DEF AppendToChatMemory
    <3>2. Range(chat'[a]) = Range(chat[a]) \cup {read[a]}
      <4>1. chat[a] \in Seq(SUBSET Nat) /\ read[a] \in SUBSET Nat
        BY <1>1
      <4> QED
        BY <3>1, <4>1, RangeOfAppend
    <3>3. CopiesAreFresh'
      BY <1>1, <1>3, <2>1, <2>2, <3>1, <3>2 DEF MemoryInv, CopiesAreFresh
    <3>4. \A b \in Agents : Told(b) = chat[b] /\ Told(b)' = chat'[b]
      BY <1>3, <2>4 DEF Told
    <3>5. ASSUME NEW b \in Agents
          PROVE  1..noted'[b] = seg'[b] \cup Known(Told(b)')
      <4>1. CASE b = a
        <5>1. 1..noted'[a] = seg[a] \cup Known(chat[a])
          BY <1>2, <1>3, <3>4
        <5>2. Known(chat'[a]) = Known(chat[a]) \cup read[a]
          <6>1. chat[a] \in Seq(SUBSET Nat) /\ read[a] \in SUBSET Nat
            BY <1>1
          <6>2. Known(Append(chat[a], read[a])) =
                  Known(chat[a]) \cup read[a]
            BY <6>1, KnownOfAppend
          <6> QED
            BY <3>1, <6>2
        <5>3. 1..noted'[a] = seg'[a] \cup Known(chat'[a])
          BY <2>1, <2>2, <5>1, <5>2
        <5> QED
          BY <3>4, <4>1, <5>3
      <4>2. CASE b # a
        BY <1>2, <1>3, <2>2, <3>1, <3>4, <4>2
      <4> QED
        BY <4>1, <4>2
    <3> QED
      BY <3>3, <3>5 DEF NothingForgotten, Known
  <2> QED
    BY <2>3, <2>4
<1>8. CASE EnqueueZep(a)
  <2>1. read[a] = seg[a] /\ ("chat" \in wired => read[a] \in Range(chat[a]))
    BY <1>8 DEF EnqueueZep, HoldsLock, MemoryInv, CopiesAreFresh
  <2>2. /\ seg'[a] = {} /\ chat' = chat
        /\ \A b \in Agents : b # a => seg'[b] = seg[b]
        /\ made'[a] = Append(made[a], read[a])
        /\ \A b \in Agents : b # a => made'[b] = made[b]
    BY <1>1, <1>8 DEF EnqueueZep, Enqueue
  <2>3. CopiesAreFresh'
    BY <1>1, <1>3, <1>8, <2>2 DEF EnqueueZep, Return, MemoryInv, CopiesAreFresh
  <2>4. Known(made'[a]) = Known(made[a]) \cup read[a]
    <3>1. made[a] \in Seq(SUBSET Nat) /\ read[a] \in SUBSET Nat
      BY <1>1
    <3>2. Known(Append(made[a], read[a])) = Known(made[a]) \cup read[a]
      BY <3>1, KnownOfAppend
    <3> QED
      BY <2>2, <3>2
  <2>5. Known(Told(a)') = Known(Told(a)) \cup read[a]
    <3>1. CASE "chat" \in wired
      <4>1. Told(a) = chat[a] /\ Told(a)' = chat[a]
        BY <1>3, <2>2, <3>1 DEF Told
      <4>2. read[a] \subseteq Known(chat[a])
        BY <2>1, <3>1 DEF Known
      <4>3. Known(chat[a]) = Known(chat[a]) \cup read[a]
        BY <4>2
      <4> QED
        BY <4>1, <4>3
    <3>2. CASE "chat" \notin wired
      <4>1. Told(a) = made[a] /\ Told(a)' = made'[a]
        BY <1>3, <3>2 DEF Told
      <4> QED
        BY <2>4, <4>1
    <3> QED
      BY <3>1, <3>2
  <2>6. ASSUME NEW b \in Agents
        PROVE  1..noted'[b] = seg'[b] \cup Known(Told(b)')
    <3>1. CASE b = a
      <4>1. 1..noted'[a] = seg[a] \cup Known(Told(a))
        BY <1>2, <1>3
      <4>2. 1..noted'[a] = seg'[a] \cup Known(Told(a)')
        BY <2>1, <2>2, <2>5, <4>1
      <4> QED
        BY <3>1, <4>2
    <3>2. CASE b # a
      <4>1. Told(b)' = Told(b)
        BY <1>3, <2>2, <3>2 DEF Told
      <4> QED
        BY <1>2, <1>3, <2>2, <3>2, <4>1
    <3> QED
      BY <3>1, <3>2
  <2> QED
    BY <2>3, <2>6 DEF NothingForgotten, Known
<1> QED
  BY <1>5, <1>6, <1>7, <1>8 DEF Compress

\* Every step keeps the memory's invariant: the others touch neither segments
\* nor summaries.
LEMMA MemoryStep == MemoryInv /\ [Next]_vars => MemoryInv'
<1> SUFFICES ASSUME MemoryInv, [Next]_vars
             PROVE  CopiesAreFresh' /\ NothingForgotten'
  BY RoundStep DEF MemoryInv
<1>1. ASSUME UNCHANGED <<noted, seg, stage, read, chat, made, wired>>
      PROVE  CopiesAreFresh' /\ NothingForgotten'
  BY <1>1 DEF MemoryInv, CopiesAreFresh, NothingForgotten, Told
<1>2. ASSUME NEW a \in Agents, Dispatch(a) \/ RequestMove(a)
      PROVE  CopiesAreFresh' /\ NothingForgotten'
  BY <1>2, ActingIsNoted
<1>3. ASSUME NEW a \in Agents, Compress(a)
      PROVE  CopiesAreFresh' /\ NothingForgotten'
  BY <1>3, CompressLosesNothing
<1>4. ASSUME NEW a \in Agents, WorkerFlush(a)
      PROVE  CopiesAreFresh' /\ NothingForgotten'
  BY <1>1, <1>4 DEF WorkerFlush, FlushOne, dispatch_vars, task_vars
<1>5. CASE Write
  BY <1>1, <1>5 DEF Write, WriteSucceeds, WriteFails, dispatch_vars, task_vars
<1>6. CASE StartTick \/ EndMicro \/ CommitMove \/ AwaitAllPending
  BY <1>1, <1>6
  DEF StartTick, EndMicro, CommitMove, AwaitAllPending, task_vars, zep_vars
<1>7. CASE StartFlush \/ AdvanceClock \/ BeginExit \/ Exit
  BY <1>1, <1>7 DEF StartFlush, AdvanceClock, BeginExit, Exit, FlushAll, FlushOne,
                    task_vars, zep_vars
<1>8. CASE UNCHANGED vars
  BY <1>1, <1>8 DEF vars, dispatch_vars, task_vars, zep_vars
<1> QED
  BY <1>2, <1>3, <1>4, <1>5, <1>6, <1>7, <1>8 DEF Next, Round

\* Whatever fails, every action is in the segment or in a summary in the
\* ChatMemory (in the graph's queue, if nothing leads there), although the
\* segment is cleared after two suspensions.
THEOREM MemoryForgetsNothing == Spec => []NothingForgotten
<1>1. Init => MemoryInv
  <2>1. ASSUME Init PROVE CopiesAreFresh /\ NothingForgotten
    <3>1. \A a \in Agents : noted[a] = 0 /\ seg[a] = {} /\ chat[a] = <<>>
                            /\ made[a] = <<>> /\ stage[a] = "idle"
      BY <2>1 DEF Init
    <3> QED
      BY <3>1 DEF CopiesAreFresh, NothingForgotten, Told, Range
  <2> QED
    BY <2>1, RoundInit DEF MemoryInv
<1>2. MemoryInv => NothingForgotten
  BY DEF MemoryInv
<1> QED
  BY <1>1, <1>2, MemoryStep, PTL DEF Spec

-----------------------------------------------------------------------------
(* Where an episode is, and how often Zep has it *)

Buffered == UNION {Episodes(a, buffer[a]) : a \in Agents}
InFlight == UNION {Episodes(b.agent, b.eps) : b \in batches}
Queued == {e \in Agents \X Nat : e[2] \in DOMAIN made[e[1]]}

\* The graph has no summary the ChatMemory lacks, where that is called.
Written ==
    "chat" \in wired => \A a \in Agents : Range(made[a]) \subseteq Range(chat[a])

\* Every episode is in exactly one place, and there once.
PlacesInv ==
    /\ \A a \in Agents : IsInjective(buffer[a])
    /\ \A b \in batches : IsInjective(b.eps)
    /\ \A b, c \in batches :
         b # c => Episodes(b.agent, b.eps) \cap Episodes(c.agent, c.eps) = {}
    /\ Queued = Buffered \cup InFlight \cup sent \cup failed \cup lost
    /\ Buffered \cap (InFlight \cup sent \cup failed \cup lost) = {}
    /\ InFlight \cap (sent \cup failed \cup lost) = {}
    /\ sent \cap (failed \cup lost) = {} /\ failed \cap lost = {}

\* Zep has nothing of what was never drained, and of a batch under way no more
\* copies than attempts were made.
CopiesInv ==
    /\ \A a \in Agents : \A i \in Nat :
         <<a, i>> \in Buffered \/ <<a, i>> \notin Queued => Stored(a, i) = 0
    /\ \A b \in batches : \A k \in DOMAIN b.eps :
         Stored(b.agent, b.eps[k]) <= b.tries
    /\ "zep" \in wired =>
         \A a \in Agents : \A i \in Nat :
           <<a, i>> \in sent => Stored(a, i) \in 1..MaxRetries

EpisodeInv == MemoryInv /\ Written /\ PlacesInv /\ CopiesInv

\* Positions at which a sequence has a value.
Occurrences(s, i) == {k \in DOMAIN s : s[k] = i}

\* Appending a sequence without repetitions adds one occurrence of each of its
\* values.
LEMMA OccurrencesAppended ==
    ASSUME NEW s \in Seq(Nat), NEW eps \in Seq(Nat), IsInjective(eps), NEW i
    PROVE  /\ Cardinality(Occurrences(s, i)) \in Nat
           /\ i \in Range(eps) => Cardinality(Occurrences(s \o eps, i)) =
                                    Cardinality(Occurrences(s, i)) + 1
           /\ i \notin Range(eps) => Cardinality(Occurrences(s \o eps, i)) =
                                       Cardinality(Occurrences(s, i))
<1>1. /\ DOMAIN s = 1..Len(s) /\ DOMAIN eps = 1..Len(eps)
      /\ Len(s) \in Nat /\ Len(eps) \in Nat
  OBVIOUS
<1>2. /\ DOMAIN (s \o eps) = 1..(Len(s) + Len(eps))
      /\ \A k \in 1..Len(s) : (s \o eps)[k] = s[k]
      /\ \A k \in 1..Len(eps) : (s \o eps)[Len(s) + k] = eps[k]
  OBVIOUS
<1>3. IsFiniteSet(Occurrences(s, i))
  <2>1. IsFiniteSet(1..Len(s)) /\ Occurrences(s, i) \subseteq 1..Len(s)
    BY <1>1, FS_Interval DEF Occurrences
  <2> QED
    BY <2>1, FS_Subset
<1>4. \A k \in DOMAIN (s \o eps) :
        k \notin DOMAIN s => k - Len(s) \in DOMAIN eps
                             /\ (s \o eps)[k] = eps[k - Len(s)]
  <2> TAKE k \in DOMAIN (s \o eps)
  <2> HAVE k \notin DOMAIN s
  <2>1. k \in 1..(Len(s) + Len(eps)) /\ k \notin 1..Len(s)
    BY <1>1, <1>2
  <2>2. k - Len(s) \in 1..Len(eps) /\ Len(s) + (k - Len(s)) = k
    BY <1>1, <2>1
  <2> QED
    BY <1>1, <1>2, <2>2
<1>5. CASE i \in Range(eps)
  <2>1. PICK k \in DOMAIN eps : eps[k] = i
    BY <1>5 DEF Range
  <2>2. \A j \in DOMAIN eps : eps[j] = i => j = k
    BY <2>1 DEF IsInjective
  <2>3. Occurrences(s \o eps, i) = Occurrences(s, i) \cup {Len(s) + k}
    <3>1. Occurrences(s \o eps, i) \subseteq Occurrences(s, i) \cup {Len(s) + k}
      <4>1. SUFFICES ASSUME NEW j \in DOMAIN (s \o eps), (s \o eps)[j] = i,
                            j \notin Occurrences(s, i)
                     PROVE  j = Len(s) + k
        BY DEF Occurrences
      <4>2. j \notin DOMAIN s
        BY <1>1, <1>2, <4>1 DEF Occurrences
      <4>3. j - Len(s) = k
        BY <1>4, <2>2, <4>1, <4>2
      <4>4. j \in Nat
        BY <1>1, <1>2
      <4> QED
        BY <1>1, <4>3, <4>4
    <3>2. Occurrences(s, i) \subseteq Occurrences(s \o eps, i)
      BY <1>1, <1>2 DEF Occurrences
    <3>3. Len(s) + k \in Occurrences(s \o eps, i)
      <4>1. Len(s) + k \in 1..(Len(s) + Len(eps)) /\ (s \o eps)[Len(s) + k] = i
        BY <1>1, <1>2, <2>1
      <4> QED
        BY <1>2, <4>1 DEF Occurrences
    <3> QED
      BY <3>1, <3>2, <3>3
  <2>4. Len(s) + k \notin Occurrences(s, i)
    BY <1>1, <2>1 DEF Occurrences
  <2> QED
    BY <1>3, <1>5, <2>3, <2>4, FS_AddElement, FS_CardinalityType
<1>6. CASE i \notin Range(eps)
  <2>1. Occurrences(s \o eps, i) = Occurrences(s, i)
    <3>1. ASSUME NEW j \in DOMAIN (s \o eps), (s \o eps)[j] = i
          PROVE  j \in Occurrences(s, i)
      <4>1. j \in DOMAIN s
        BY <1>4, <1>6, <3>1 DEF Range
      <4> QED
        BY <1>1, <1>2, <3>1, <4>1 DEF Occurrences
    <3>2. Occurrences(s, i) \subseteq Occurrences(s \o eps, i)
      BY <1>1, <1>2 DEF Occurrences
    <3> QED
      BY <3>1, <3>2 DEF Occurrences
  <2> QED
    BY <1>3, <1>6, <2>1, FS_CardinalityType
<1> QED
  BY <1>5, <1>6

\* Storing a batch adds one copy of each of its episodes, and of no other.
LEMMA StoringCounts ==
    ASSUME TypeOK, NEW x \in Agents, NEW eps \in Seq(Nat), IsInjective(eps),
           graph' = [graph EXCEPT ![x] = @ \o eps]
    PROVE  \A a \in Agents : \A i \in Nat :
             /\ Stored(a, i) \in Nat
             /\ <<a, i>> \in Episodes(x, eps) => Stored(a, i)' = Stored(a, i) + 1
             /\ <<a, i>> \notin Episodes(x, eps) => Stored(a, i)' = Stored(a, i)
<1> TAKE a \in Agents
<1> TAKE i \in Nat
<1>1. graph[a] \in Seq(Nat)
  BY DEF TypeOK
<1>2. /\ Stored(a, i) = Cardinality(Occurrences(graph[a], i))
      /\ Stored(a, i)' = Cardinality(Occurrences(graph'[a], i))
  BY DEF Stored, Occurrences
<1>3. Stored(a, i) \in Nat
  BY <1>1, <1>2, OccurrencesAppended
<1>4. <<a, i>> \in Episodes(x, eps) <=> a = x /\ i \in Range(eps)
  BY DEF Episodes, Range
<1>5. graph'[a] = IF a = x THEN graph[a] \o eps ELSE graph[a]
  BY DEF TypeOK
<1>6. CASE a = x
  <2>1. Stored(a, i)' = Cardinality(Occurrences(graph[a] \o eps, i))
    BY <1>2, <1>5, <1>6
  <2>2. CASE i \in Range(eps)
    BY <1>1, <1>2, <1>3, <1>4, <1>6, <2>1, <2>2, OccurrencesAppended
  <2>3. CASE i \notin Range(eps)
    BY <1>1, <1>2, <1>3, <1>4, <1>6, <2>1, <2>3, OccurrencesAppended
  <2> QED
    BY <2>2, <2>3
<1>7. CASE a # x
  BY <1>2, <1>3, <1>4, <1>5, <1>7
<1> QED
  BY <1>6, <1>7

\* Copies are counted in natural numbers.
LEMMA StoredTyped ==
    ASSUME TypeOK
    PROVE  \A a \in Agents : \A i \in Nat : Stored(a, i) \in Nat
<1> TAKE a \in Agents
<1> TAKE i \in Nat
<1>1. graph[a] \in Seq(Nat) /\ IsInjective(<<>>) /\ <<>> \in Seq(Nat)
  BY DEF TypeOK, IsInjective
<1>2. Stored(a, i) = Cardinality(Occurrences(graph[a], i))
  BY DEF Stored, Occurrences
<1> QED
  BY <1>1, <1>2, OccurrencesAppended

\* The numbers of episodes are natural numbers.
LEMMA PlacesTyped ==
    ASSUME TypeOK
    PROVE  /\ Buffered \cup InFlight \cup Queued \subseteq Agents \X Nat
           /\ sent \cup failed \cup lost \subseteq Agents \X Nat
<1>1. \A a \in Agents : \A s \in Seq(Nat) : Episodes(a, s) \subseteq Agents \X Nat
  BY DEF Episodes
<1>2. Buffered \subseteq Agents \X Nat
  BY <1>1 DEF Buffered, TypeOK
<1>3. InFlight \subseteq Agents \X Nat
  BY <1>1 DEF InFlight, TypeOK
<1> QED
  BY <1>2, <1>3 DEF Queued, TypeOK

\* A flush moves what it drains from the buffers into new batches or, without
\* a client, counts it as sent.
LEMMA FlushKeepsPlaces ==
    ASSUME TypeOK, PlacesInv, CopiesInv, wired' = wired,
           NEW A \in SUBSET Agents, NEW waited \in BOOLEAN, FlushOne(A, waited)
    PROVE  PlacesInv' /\ CopiesInv'
<1> DEFINE drained == {a \in A : buffer[a] # <<>>}
           moved == UNION {Episodes(a, buffer[a]) : a \in drained}
           new == {Batch(a, buffer[a], 0, waited) : a \in drained}
<1>1. /\ buffer' = [a \in Agents |-> IF a \in drained THEN <<>> ELSE buffer[a]]
      /\ "zep" \in wired => batches' = batches \cup new /\ sent' = sent
      /\ "zep" \notin wired => batches' = batches /\ sent' = sent \cup moved
      /\ UNCHANGED <<made, graph, failed, lost>>
  BY DEF FlushOne
<1>2. \A a \in Agents : \A s : \A e \in Episodes(a, s) : e[1] = a
  BY DEF Episodes
<1>3. \A a \in drained : buffer'[a] = <<>> /\ Episodes(a, <<>>) = {}
  BY <1>1 DEF Episodes
<1>4. \A a \in Agents \ drained : buffer'[a] = buffer[a]
  BY <1>1
<1> HIDE DEF drained
<1>5. Buffered' = Buffered \ moved /\ moved \subseteq Buffered
  <2>1. drained \subseteq Agents
    BY DEF drained
  <2>2. Buffered' = UNION {Episodes(a, buffer'[a]) : a \in Agents}
    BY DEF Buffered, Episodes
  <2>3. ASSUME NEW e PROVE e \in Buffered' <=> e \in Buffered /\ e \notin moved
    <3>1. ASSUME NEW a \in Agents, e \in Episodes(a, buffer'[a])
          PROVE  e \in Buffered /\ e \notin moved
      BY <1>2, <1>3, <1>4, <2>1, <3>1 DEF Buffered
    <3>2. ASSUME NEW a \in Agents, e \in Episodes(a, buffer[a]), e \notin moved
          PROVE  e \in Buffered'
      BY <1>4, <2>2, <3>2
    <3> QED
      BY <2>2, <3>1, <3>2 DEF Buffered
  <2> QED
    BY <2>1, <2>3 DEF Buffered
<1>6. \A a \in Agents : IsInjective(buffer'[a])
  BY <1>3, <1>4 DEF PlacesInv, IsInjective
<1>7. Queued' = Queued
  BY <1>1 DEF Queued
<1>8. \A a \in Agents : \A i \in Nat : Stored(a, i)' = Stored(a, i)
  BY <1>1 DEF Stored
<1>9. \A a \in Agents : \A i \in Nat :
        <<a, i>> \in Buffered' \/ <<a, i>> \notin Queued' => Stored(a, i)' = 0
  BY <1>5, <1>7, <1>8 DEF CopiesInv
<1>10. CASE "zep" \in wired
  <2>1. batches' = batches \cup new /\ UNCHANGED <<sent, failed, lost>>
    BY <1>1, <1>10
  <2>2. /\ \A b \in new : \E a \in drained : b.agent = a /\ b.eps = buffer[a]
                                             /\ b.tries = 0
        /\ \A b, c \in new : b.agent = c.agent => b = c
    BY DEF Batch
  <2>3. UNION {Episodes(b.agent, b.eps) : b \in new} = moved
    <3>1. \A a \in drained : /\ Batch(a, buffer[a], 0, waited) \in new
                             /\ Batch(a, buffer[a], 0, waited).agent = a
                             /\ Batch(a, buffer[a], 0, waited).eps = buffer[a]
      BY DEF Batch
    <3> QED
      BY <2>2, <3>1
  <2>4. InFlight' = InFlight \cup moved
    <3>1. InFlight' = UNION {Episodes(b.agent, b.eps) : b \in batches'}
      BY DEF InFlight, Episodes
    <3> QED
      BY <2>1, <2>3, <3>1 DEF InFlight
  <2>5. drained \subseteq Agents
    BY DEF drained
  <2>6. \A b \in batches' : IsInjective(b.eps)
    BY <2>1, <2>2, <2>5 DEF PlacesInv
  <2>7. ASSUME NEW b \in batches', NEW c \in batches', b # c
        PROVE  Episodes(b.agent, b.eps) \cap Episodes(c.agent, c.eps) = {}
    <3>1. \A d \in batches : Episodes(d.agent, d.eps) \subseteq InFlight
      BY DEF InFlight
    <3>2. \A d \in new : Episodes(d.agent, d.eps) \subseteq Buffered
      BY <1>5, <2>3
    <3>3. Buffered \cap InFlight = {}
      BY DEF PlacesInv
    <3>4. CASE b \in batches /\ c \in batches
      BY <2>7, <3>4 DEF PlacesInv
    <3>5. CASE b \in new /\ c \in new
      BY <1>2, <2>2, <2>5, <2>7, <3>5
    <3> QED
      BY <2>1, <3>1, <3>2, <3>3, <3>4, <3>5
  <2>8. PlacesInv'
    BY <1>5, <1>6, <1>7, <2>1, <2>4, <2>6, <2>7 DEF PlacesInv
  <2>9. \A b \in batches' : \A k \in DOMAIN b.eps :
          Stored(b.agent, b.eps[k])' <= b.tries
    <3>1. ASSUME NEW b \in batches, NEW k \in DOMAIN b.eps
          PROVE  Stored(b.agent, b.eps[k])' <= b.tries
      <4>1. b.agent \in Agents /\ b.eps[k] \in Nat
        BY BatchTyped
      <4> QED
        BY <1>8, <4>1 DEF CopiesInv
    <3>2. ASSUME NEW b \in new, NEW k \in DOMAIN b.eps
          PROVE  Stored(b.agent, b.eps[k])' <= b.tries
      <4>1. PICK a \in drained : b.agent = a /\ b.eps = buffer[a] /\ b.tries = 0
        BY <2>2
      <4>2. <<a, b.eps[k]>> \in Buffered
        BY <2>5, <4>1 DEF Buffered, Episodes
      <4>3. a \in Agents /\ b.eps[k] \in Nat
        <5>1. a \in Agents /\ buffer[a] \in Seq(Nat)
          BY <2>5 DEF TypeOK
        <5>2. k \in DOMAIN buffer[a]
          BY <4>1
        <5>3. buffer[a][k] \in Nat
          BY <5>1, <5>2
        <5> QED
          BY <4>1, <5>1, <5>3
      <4> QED
        BY <1>8, <4>1, <4>2, <4>3 DEF CopiesInv
    <3> QED
      BY <2>1, <3>1, <3>2
  <2>10. \A a \in Agents : \A i \in Nat :
           <<a, i>> \in sent' => Stored(a, i)' \in 1..MaxRetries
    BY <1>8, <1>10, <2>1 DEF CopiesInv
  <2> QED
    BY <1>9, <2>8, <2>9, <2>10 DEF CopiesInv
<1>11. CASE "zep" \notin wired
  <2>1. /\ batches' = batches /\ sent' = sent \cup moved
        /\ UNCHANGED <<failed, lost>>
    BY <1>1, <1>11
  <2>2. InFlight' = InFlight
    BY <2>1 DEF InFlight, Episodes
  <2>3. PlacesInv'
    BY <1>5, <1>6, <1>7, <2>1, <2>2 DEF PlacesInv
  <2>4. \A b \in batches' : \A k \in DOMAIN b.eps :
          Stored(b.agent, b.eps[k])' <= b.tries
    BY <1>1, <2>1 DEF CopiesInv, Stored
  <2> QED
    BY <1>9, <1>11, <2>3, <2>4 DEF CopiesInv
<1> QED
  BY <1>10, <1>11

\* An episode is queued under a number its agent's graph has not seen.
LEMMA EnqueueKeepsPlaces ==
    ASSUME TypeOK, PlacesInv, CopiesInv, NEW a \in Agents, EnqueueZep(a)
    PROVE  PlacesInv' /\ CopiesInv'
<1> DEFINE n == Len(made[a]) + 1
           e == <<a, n>>
<1>1. /\ made' = [made EXCEPT ![a] = Append(@, read[a])]
      /\ buffer' = [buffer EXCEPT ![a] = Append(@, Len(made'[a]))]
      /\ UNCHANGED <<wired, batches, graph, sent, failed, lost>>
  BY DEF EnqueueZep, Enqueue, dispatch_vars
<1>2. /\ made[a] \in Seq(SUBSET Nat) /\ read[a] \in SUBSET Nat
      /\ buffer[a] \in Seq(Nat)
  BY DEF TypeOK
<1>3. made'[a] = Append(made[a], read[a]) /\ n \in Nat
  BY <1>1, <1>2 DEF TypeOK
<1>4. Len(made'[a]) = n /\ DOMAIN made'[a] = DOMAIN made[a] \cup {n}
      /\ n \notin DOMAIN made[a]
  BY <1>2, <1>3
<1>5. /\ buffer'[a] = Append(buffer[a], n)
      /\ \A b \in Agents : b # a => buffer'[b] = buffer[b] /\ made'[b] = made[b]
  BY <1>1, <1>4 DEF TypeOK
<1>6. Queued' = Queued \cup {e} /\ e \notin Queued
  <2>1. Queued' = {x \in Agents \X Nat : x[2] \in DOMAIN made'[x[1]]}
    BY DEF Queued
  <2>2. ASSUME NEW b \in Agents, NEW i \in Nat
        PROVE  i \in DOMAIN made'[b] <=> i \in DOMAIN made[b] \/ <<b, i>> = e
    <3>1. CASE b = a
      BY <1>4, <3>1
    <3>2. CASE b # a
      BY <1>5, <3>2
    <3> QED
      BY <3>1, <3>2
  <2>3. e \in Agents \X Nat
    BY <1>3
  <2> QED
    BY <1>4, <2>1, <2>2, <2>3 DEF Queued
<1>7. Range(Append(buffer[a], n)) = Range(buffer[a]) \cup {n}
  BY <1>2, <1>3, RangeOfAppend
<1>8. Buffered' = Buffered \cup {e}
  <2>1. \A b \in Agents : \A s : Episodes(b, s) = {<<b, i>> : i \in Range(s)}
    BY DEF Episodes, Range
  <2>2. Buffered' = UNION {Episodes(b, buffer'[b]) : b \in Agents}
    BY DEF Buffered, Episodes
  <2>3. Episodes(a, buffer'[a]) = Episodes(a, buffer[a]) \cup {e}
    BY <1>5, <1>7, <2>1
  <2>4. \A b \in Agents : b # a => Episodes(b, buffer'[b]) = Episodes(b, buffer[b])
    BY <1>5
  <2> QED
    BY <2>2, <2>3, <2>4 DEF Buffered
<1>9. e \notin Buffered \cup InFlight \cup sent \cup failed \cup lost
  BY <1>6 DEF PlacesInv
<1>10. InFlight' = InFlight
  BY <1>1 DEF InFlight, Episodes
<1>11. \A b \in Agents : IsInjective(buffer'[b])
  <2>1. n \notin Range(buffer[a])
    BY <1>9 DEF Buffered, Episodes, Range
  <2>2. IsInjective(buffer[a])
    BY DEF PlacesInv
  <2>3. IsInjective(Append(buffer[a], n))
    <3>1. /\ Len(buffer[a]) \in Nat /\ DOMAIN buffer[a] = 1..Len(buffer[a])
          /\ DOMAIN Append(buffer[a], n) = 1..(Len(buffer[a]) + 1)
          /\ \A k \in DOMAIN buffer[a] : Append(buffer[a], n)[k] = buffer[a][k]
          /\ Append(buffer[a], n)[Len(buffer[a]) + 1] = n
      BY <1>2, <1>3
    <3>2. \A k \in DOMAIN buffer[a] : buffer[a][k] # n
      BY <2>1 DEF Range
    <3>3. \A k \in DOMAIN Append(buffer[a], n) :
            k \notin DOMAIN buffer[a] => k = Len(buffer[a]) + 1
      BY <3>1
    <3>4. ASSUME NEW j \in DOMAIN Append(buffer[a], n),
                 NEW k \in DOMAIN Append(buffer[a], n),
                 Append(buffer[a], n)[j] = Append(buffer[a], n)[k]
          PROVE  j = k
      <4>1. CASE j \in DOMAIN buffer[a] /\ k \in DOMAIN buffer[a]
        BY <2>2, <3>1, <3>4, <4>1 DEF IsInjective
      <4>2. CASE j \notin DOMAIN buffer[a] /\ k \in DOMAIN buffer[a]
        BY <3>1, <3>2, <3>3, <3>4, <4>2
      <4>3. CASE j \in DOMAIN buffer[a] /\ k \notin DOMAIN buffer[a]
        BY <3>1, <3>2, <3>3, <3>4, <4>3
      <4>4. CASE j \notin DOMAIN buffer[a] /\ k \notin DOMAIN buffer[a]
        BY <3>3, <4>4
      <4> QED
        BY <4>1, <4>2, <4>3, <4>4
    <3> QED
      BY <3>4 DEF IsInjective
  <2> QED
    BY <1>5, <2>3 DEF PlacesInv
<1>12. PlacesInv'
  <2>1. /\ \A b \in batches' : IsInjective(b.eps)
        /\ \A b, c \in batches' :
             b # c => Episodes(b.agent, b.eps) \cap Episodes(c.agent, c.eps) = {}
    BY <1>1 DEF PlacesInv
  <2>2. /\ Queued' = Buffered' \cup InFlight' \cup sent' \cup failed' \cup lost'
        /\ Buffered' \cap (InFlight' \cup sent' \cup failed' \cup lost') = {}
        /\ InFlight' \cap (sent' \cup failed' \cup lost') = {}
        /\ sent' \cap (failed' \cup lost') = {} /\ failed' \cap lost' = {}
    BY <1>1, <1>6, <1>8, <1>9, <1>10 DEF PlacesInv
  <2> QED
    BY <1>11, <2>1, <2>2 DEF PlacesInv
<1>13. \A b \in Agents : \A i \in Nat : Stored(b, i)' = Stored(b, i)
  BY <1>1 DEF Stored
<1>14. \A b \in Agents : \A i \in Nat :
         <<b, i>> \in Buffered' \/ <<b, i>> \notin Queued' => Stored(b, i)' = 0
  BY <1>6, <1>8, <1>13 DEF CopiesInv
<1>15. \A b \in batches' : \A k \in DOMAIN b.eps :
         Stored(b.agent, b.eps[k])' <= b.tries
  BY <1>1 DEF CopiesInv, Stored
<1> QED
  BY <1>1, <1>12, <1>13, <1>14, <1>15 DEF CopiesInv

\* An attempt to write a batch: it goes to what was sent or failed, or stays
\* with one more try; Zep may have one copy more.
LEMMA WriteKeepsPlaces ==
    ASSUME TypeOK, PlacesInv, CopiesInv, Write
    PROVE  PlacesInv' /\ CopiesInv'
<1>1. PICK b \in batches : WriteSucceeds(b) \/ WriteFails(b)
  BY DEF Write
<1> DEFINE E == Episodes(b.agent, b.eps)
           again == [b EXCEPT !.tries = @ + 1]
<1>2. /\ b.agent \in Agents /\ b.eps \in Seq(Nat)
      /\ b.tries \in 0..(MaxRetries - 1)
  BY BatchTyped
<1>3. IsInjective(b.eps) /\ MaxRetries \in Nat
  BY MemoryAssumption DEF PlacesInv
<1>4. UNCHANGED <<wired, buffer, made, lost>>
  BY <1>1 DEF WriteSucceeds, WriteFails, dispatch_vars
<1>5. Buffered' = Buffered /\ Queued' = Queued
  BY <1>4 DEF Buffered, Queued, Episodes
<1>6. E \subseteq InFlight
  BY DEF InFlight
<1>7. \A c \in batches \ {b} : Episodes(c.agent, c.eps) \cap E = {}
  BY DEF PlacesInv
<1>8. \A a \in Agents : \A i \in Nat :
        /\ Stored(a, i) \in Nat
        /\ <<a, i>> \in E => Stored(a, i)' \in {Stored(a, i), Stored(a, i) + 1}
        /\ <<a, i>> \notin E => Stored(a, i)' = Stored(a, i)
  <2>1. CASE graph' = [graph EXCEPT ![b.agent] = @ \o b.eps]
    <3>1. \A a \in Agents : \A i \in Nat :
            /\ Stored(a, i) \in Nat
            /\ <<a, i>> \in E => Stored(a, i)' = Stored(a, i) + 1
            /\ <<a, i>> \notin E => Stored(a, i)' = Stored(a, i)
      BY <1>2, <1>3, <2>1, StoringCounts
    <3> QED
      BY <3>1
  <2>2. CASE graph' = graph
    <3>1. \A a \in Agents : \A i \in Nat : Stored(a, i)' = Stored(a, i)
      BY <2>2 DEF Stored
    <3>2. \A a \in Agents : \A i \in Nat : Stored(a, i) \in Nat
      BY StoredTyped
    <3> QED
      BY <3>1, <3>2
  <2> QED
    BY <1>1, <2>1, <2>2 DEF WriteSucceeds, WriteFails
<1>9. \A a \in Agents : \A i \in Nat :
        <<a, i>> \in Buffered' \/ <<a, i>> \notin Queued' => Stored(a, i)' = 0
  <2>1. \A a \in Agents : \A i \in Nat :
          <<a, i>> \in Buffered \/ <<a, i>> \notin Queued => <<a, i>> \notin E
    BY <1>6 DEF PlacesInv
  <2> QED
    BY <1>5, <1>8, <2>1 DEF CopiesInv
<1>10. ASSUME NEW c \in batches \ {b}, NEW k \in DOMAIN c.eps
       PROVE  Stored(c.agent, c.eps[k])' <= c.tries
  <2>1. c.agent \in Agents /\ c.eps[k] \in Nat
    BY BatchTyped
  <2>2. <<c.agent, c.eps[k]>> \notin E
    BY <1>7 DEF Episodes
  <2> QED
    BY <1>8, <2>1, <2>2 DEF CopiesInv
<1>11. ASSUME "zep" \in wired, NEW a \in Agents, NEW i \in Nat, <<a, i>> \in sent
       PROVE  Stored(a, i)' \in 1..MaxRetries
  <2>1. <<a, i>> \notin E
    BY <1>6, <1>11 DEF PlacesInv
  <2> QED
    BY <1>8, <1>11, <2>1 DEF CopiesInv
<1>12. \A a \in Agents : \A i \in Nat : <<a, i>> \in E => Stored(a, i) <= b.tries
  <2> TAKE a \in Agents
  <2> TAKE i \in Nat
  <2> HAVE <<a, i>> \in E
  <2>1. PICK k \in DOMAIN b.eps : b.agent = a /\ b.eps[k] = i
    BY DEF Episodes
  <2>2. Stored(b.agent, b.eps[k]) <= b.tries
    BY DEF CopiesInv
  <2> QED
    BY <2>1, <2>2
<1>13. ASSUME batches' = batches \ {b}
       PROVE  InFlight' = InFlight \ E
  <2>1. InFlight' = UNION {Episodes(c.agent, c.eps) : c \in batches \ {b}}
    BY <1>13 DEF InFlight, Episodes
  <2> QED
    BY <1>7, <2>1 DEF InFlight
<1>14. CASE WriteSucceeds(b)
  <2>1. /\ batches' = batches \ {b} /\ sent' = sent \cup E /\ failed' = failed
        /\ graph' = [graph EXCEPT ![b.agent] = @ \o b.eps]
    BY <1>14 DEF WriteSucceeds
  <2>2. PlacesInv'
    BY <1>4, <1>5, <1>6, <1>13, <2>1 DEF PlacesInv
  <2>3. \A a \in Agents : \A i \in Nat :
          <<a, i>> \in E => Stored(a, i)' \in 1..MaxRetries
    <3>1. \A a \in Agents : \A i \in Nat :
            <<a, i>> \in E => Stored(a, i)' = Stored(a, i) + 1
      BY <1>2, <1>3, <2>1, StoringCounts
    <3> QED
      BY <1>2, <1>3, <1>8, <1>12, <3>1
  <2> QED
    BY <1>4, <1>9, <1>10, <1>11, <2>1, <2>2, <2>3 DEF CopiesInv
<1>15. CASE WriteFails(b) /\ b.tries + 1 < MaxRetries
  <2>1. /\ batches' = (batches \ {b}) \cup {again}
        /\ UNCHANGED <<sent, failed>>
    BY <1>15 DEF WriteFails
  <2>2. again.agent = b.agent /\ again.eps = b.eps /\ again.tries = b.tries + 1
    <3>1. b \in [agent : Agents, eps : Seq(Nat), tries : 0..(MaxRetries - 1),
                waited : BOOLEAN]
      BY DEF TypeOK
    <3> QED
      BY <3>1
  <2> HIDE DEF again
  <2>3. InFlight' = InFlight
    <3>1. InFlight' = UNION {Episodes(c.agent, c.eps) : c \in batches'}
      BY DEF InFlight, Episodes
    <3>2. Episodes(again.agent, again.eps) = E
      BY <2>2
    <3> QED
      BY <2>1, <3>1, <3>2 DEF InFlight
  <2>4. ASSUME NEW c \in batches', NEW d \in batches', c # d
        PROVE  Episodes(c.agent, c.eps) \cap Episodes(d.agent, d.eps) = {}
    BY <1>7, <2>1, <2>2, <2>4 DEF PlacesInv
  <2>5. \A c \in batches' : IsInjective(c.eps)
    BY <2>1, <2>2 DEF PlacesInv
  <2>6. PlacesInv'
    BY <1>4, <1>5, <2>1, <2>3, <2>4, <2>5 DEF PlacesInv
  <2>7. ASSUME NEW k \in DOMAIN again.eps
        PROVE  Stored(again.agent, again.eps[k])' <= again.tries
    <3>1. b.agent \in Agents /\ b.eps[k] \in Nat /\ <<b.agent, b.eps[k]>> \in E
      BY <2>2, BatchTyped DEF Episodes
    <3>2. /\ Stored(b.agent, b.eps[k])' \in {Stored(b.agent, b.eps[k]),
                                             Stored(b.agent, b.eps[k]) + 1}
          /\ Stored(b.agent, b.eps[k]) \in Nat
          /\ Stored(b.agent, b.eps[k]) <= b.tries
      BY <1>8, <1>12, <3>1
    <3>3. Stored(b.agent, b.eps[k])' <= b.tries + 1
      BY <1>2, <3>2
    <3>4. Stored(again.agent, again.eps[k])' = Stored(b.agent, b.eps[k])'
      BY <2>2 DEF Stored
    <3> QED
      BY <2>2, <3>3, <3>4
  <2>8. \A c \in batches' : \A k \in DOMAIN c.eps :
          Stored(c.agent, c.eps[k])' <= c.tries
    BY <1>10, <2>1, <2>7
  <2> QED
    BY <1>4, <1>9, <1>11, <2>1, <2>6, <2>8 DEF CopiesInv
<1>16. CASE WriteFails(b) /\ ~(b.tries + 1 < MaxRetries)
  <2>1. batches' = batches \ {b} /\ failed' = failed \cup E /\ sent' = sent
    BY <1>16 DEF WriteFails
  <2>2. PlacesInv'
    BY <1>4, <1>5, <1>6, <1>13, <2>1 DEF PlacesInv
  <2> QED
    BY <1>4, <1>9, <1>10, <1>11, <2>1, <2>2 DEF CopiesInv
<1> QED
  BY <1>1, <1>14, <1>15, <1>16

\* The process ends: what is under way is lost.
LEMMA ExitKeepsPlaces ==
    ASSUME PlacesInv, CopiesInv, Exit PROVE PlacesInv' /\ CopiesInv'
<1>1. /\ batches' = {} /\ lost' = lost \cup InFlight
      /\ UNCHANGED <<wired, made, buffer, graph, sent, failed>>
  BY DEF Exit, InFlight
<1>2. Buffered' = Buffered /\ Queued' = Queued
  BY <1>1 DEF Buffered, Queued, Episodes
<1>3. InFlight' = {}
  BY <1>1 DEF InFlight, Episodes
<1>4. PlacesInv'
  BY <1>1, <1>2, <1>3 DEF PlacesInv
<1>5. \A a \in Agents : \A i \in Nat : Stored(a, i)' = Stored(a, i)
  BY <1>1 DEF Stored
<1> QED
  BY <1>1, <1>2, <1>4, <1>5 DEF CopiesInv

place_vars == <<wired, buffer, batches, made, graph, sent, failed, lost>>

\* Everything else leaves the episodes where they are.
LEMMA PlacesStep ==
    TypeOK /\ PlacesInv /\ CopiesInv /\ [Next]_vars => PlacesInv' /\ CopiesInv'
<1> SUFFICES ASSUME TypeOK, PlacesInv, CopiesInv, [Next]_vars
             PROVE  PlacesInv' /\ CopiesInv'
  OBVIOUS
<1>1. ASSUME UNCHANGED place_vars PROVE PlacesInv' /\ CopiesInv'
  BY <1>1 DEF place_vars, PlacesInv, CopiesInv, Buffered, InFlight, Queued,
              Episodes, Stored
<1>2. ASSUME NEW a \in Agents, Dispatch(a) \/ RequestMove(a)
      PROVE  PlacesInv' /\ CopiesInv'
  BY <1>1, <1>2 DEF Dispatch, RequestMove, zep_vars, place_vars
<1>3. ASSUME NEW a \in Agents, Compress(a) PROVE PlacesInv' /\ CopiesInv'
  BY <1>1, <1>3, EnqueueKeepsPlaces
  DEF Compress, SkipCompression, AskModel, ModelFails, AppendToChatMemory,
      EnqueueFails, dispatch_vars, zep_vars, place_vars
<1>4. ASSUME NEW a \in Agents, WorkerFlush(a) PROVE PlacesInv' /\ CopiesInv'
  <2>1. FlushOne({a}, FALSE) /\ wired' = wired /\ {a} \in SUBSET Agents
    BY <1>4 DEF WorkerFlush, dispatch_vars
  <2> QED
    BY <2>1, FlushKeepsPlaces
<1>5. CASE Write
  BY <1>5, WriteKeepsPlaces
<1>6. CASE StartTick \/ EndMicro \/ CommitMove \/ AwaitAllPending \/ AdvanceClock
  BY <1>1, <1>6
  DEF StartTick, EndMicro, CommitMove, AwaitAllPending, AdvanceClock, zep_vars,
      place_vars
<1>7. CASE StartFlush \/ BeginExit
  <2>1. FlushOne(updaters, TRUE) /\ wired' = wired /\ updaters \in SUBSET Agents
    BY <1>7 DEF StartFlush, BeginExit, FlushAll, TypeOK
  <2> QED
    BY <2>1, FlushKeepsPlaces
<1>8. CASE Exit
  BY <1>8, ExitKeepsPlaces
<1>9. CASE UNCHANGED vars
  BY <1>1, <1>9 DEF vars, dispatch_vars, zep_vars, place_vars
<1> QED
  BY <1>2, <1>3, <1>4, <1>5, <1>6, <1>7, <1>8, <1>9 DEF Next, Round

\* What is wired stays wired.
LEMMA WiringStays == [Next]_vars => wired' = wired
BY DEF Next, Dispatch, RequestMove, Compress, SkipCompression, AskModel,
       ModelFails, AppendToChatMemory, EnqueueZep, EnqueueFails, WorkerFlush,
       Write, WriteSucceeds, WriteFails, StartTick, Round, EndMicro, CommitMove,
       AwaitAllPending, StartFlush, AdvanceClock, BeginExit, Exit, vars,
       dispatch_vars

\* A summary reaches the graph's queue after the ChatMemory.
LEMMA WrittenStep == MemoryInv /\ Written /\ [Next]_vars => Written'
<1> SUFFICES ASSUME MemoryInv, Written, [Next]_vars PROVE Written'
  OBVIOUS
<1>0. wired' = wired
  BY WiringStays
<1>1. ASSUME UNCHANGED <<made, chat>> \/ "chat" \notin wired PROVE Written'
  BY <1>0, <1>1 DEF Written
<1>2. ASSUME NEW a \in Agents, AppendToChatMemory(a) PROVE Written'
  <2> SUFFICES ASSUME "chat" \in wired PROVE Written'
    BY <1>1
  <2>1. chat[a] \in Seq(SUBSET Nat) /\ read[a] \in SUBSET Nat
    BY DEF MemoryInv, RoundInv, TypeOK
  <2>2. chat'[a] = Append(chat[a], read[a]) /\ made' = made
        /\ \A b \in Agents : b # a => chat'[b] = chat[b]
    BY <1>2 DEF AppendToChatMemory, zep_vars, MemoryInv, RoundInv, TypeOK
  <2>3. Range(chat'[a]) = Range(chat[a]) \cup {read[a]}
    BY <2>1, <2>2, RangeOfAppend
  <2> QED
    BY <1>0, <2>2, <2>3 DEF Written
<1>3. ASSUME NEW a \in Agents, EnqueueZep(a) PROVE Written'
  <2> SUFFICES ASSUME "chat" \in wired PROVE Written'
    BY <1>1
  <2>1. made[a] \in Seq(SUBSET Nat) /\ read[a] \in SUBSET Nat
    BY DEF MemoryInv, RoundInv, TypeOK
  <2>2. made'[a] = Append(made[a], read[a]) /\ chat' = chat
        /\ \A b \in Agents : b # a => made'[b] = made[b]
    BY <1>3 DEF EnqueueZep, Enqueue, MemoryInv, RoundInv, TypeOK
  <2>3. Range(made'[a]) = Range(made[a]) \cup {read[a]}
    BY <2>1, <2>2, RangeOfAppend
  <2>4. read[a] \in Range(chat[a])
    BY <1>3 DEF EnqueueZep, HoldsLock, MemoryInv, CopiesAreFresh
  <2> QED
    BY <1>0, <2>2, <2>3, <2>4 DEF Written
<1>4. ASSUME NEW a \in Agents, Compress(a) PROVE Written'
  BY <1>1, <1>2, <1>3, <1>4
  DEF Compress, SkipCompression, AskModel, ModelFails, EnqueueFails, zep_vars
<1>5. ASSUME NEW a \in Agents, Dispatch(a) \/ RequestMove(a) \/ WorkerFlush(a)
      PROVE  Written'
  BY <1>1, <1>5 DEF Dispatch, RequestMove, WorkerFlush, FlushOne, zep_vars
<1>6. CASE Write
  BY <1>1, <1>6 DEF Write, WriteSucceeds, WriteFails
<1>7. CASE StartTick \/ Round \/ BeginExit \/ Exit
  BY <1>1, <1>7
  DEF StartTick, Round, EndMicro, CommitMove, AwaitAllPending, StartFlush,
      AdvanceClock, BeginExit, Exit, FlushAll, FlushOne, zep_vars
<1>8. CASE UNCHANGED vars
  BY <1>1, <1>8 DEF vars, zep_vars
<1> QED
  BY <1>4, <1>5, <1>6, <1>7, <1>8 DEF Next

\* One place means a count of one.
LEMMA CountedOnce ==
    ASSUME TypeOK, PlacesInv, NEW a \in Agents, NEW i \in DOMAIN made[a]
    PROVE  Cardinality({k \in DOMAIN buffer[a] : buffer[a][k] = i})
             + Cardinality({b \in batches : <<a, i>> \in Episodes(b.agent, b.eps)})
             + Cardinality({s \in {1, 2, 3} : <<a, i>> \in <<sent, failed, lost>>[s]})
             = 1
<1> DEFINE e == <<a, i>>
           inBuffer == {k \in DOMAIN buffer[a] : buffer[a][k] = i}
           inBatch == {b \in batches : e \in Episodes(b.agent, b.eps)}
           accounted == {s \in {1, 2, 3} : e \in <<sent, failed, lost>>[s]}
<1>1. /\ e \in Buffered \cup InFlight \cup sent \cup failed \cup lost
      /\ made[a] \in Seq(SUBSET Nat) /\ i \in Nat
  <2>1. made[a] \in Seq(SUBSET Nat)
    BY DEF TypeOK
  <2>2. i \in Nat
    BY <2>1
  <2>3. e \in Queued
    BY <2>2 DEF Queued
  <2> QED
    BY <2>1, <2>2, <2>3 DEF PlacesInv
<1>2. /\ e \in Buffered => Cardinality(inBuffer) = 1
      /\ e \notin Buffered => Cardinality(inBuffer) = 0
  <2>1. e \in Buffered <=> inBuffer # {}
    BY DEF Buffered, Episodes
  <2>2. ASSUME NEW k \in inBuffer PROVE inBuffer = {k}
    BY <2>2 DEF PlacesInv, IsInjective
  <2>3. \A k : Cardinality({k}) = 1
    BY FS_Singleton
  <2> HIDE DEF inBuffer
  <2> QED
    BY <2>1, <2>2, <2>3, FS_EmptySet
<1>3. /\ e \in InFlight => Cardinality(inBatch) = 1
      /\ e \notin InFlight => Cardinality(inBatch) = 0
  <2>1. e \in InFlight <=> inBatch # {}
    BY DEF InFlight
  <2>2. ASSUME NEW b \in inBatch PROVE inBatch = {b}
    BY <2>2 DEF PlacesInv
  <2>3. \A k : Cardinality({k}) = 1
    BY FS_Singleton
  <2> HIDE DEF inBatch
  <2> QED
    BY <2>1, <2>2, <2>3, FS_EmptySet
<1>4. /\ e \in sent \cup failed \cup lost => Cardinality(accounted) = 1
      /\ e \notin sent \cup failed \cup lost => Cardinality(accounted) = 0
  <2>1. \A s \in {1, 2, 3} :
          s \in accounted <=> (s = 1 /\ e \in sent) \/ (s = 2 /\ e \in failed)
                               \/ (s = 3 /\ e \in lost)
    OBVIOUS
  <2>2. /\ e \in sent => accounted = {1}
        /\ e \in failed => accounted = {2}
        /\ e \in lost => accounted = {3}
        /\ e \notin sent \cup failed \cup lost => accounted = {}
    <3>1. accounted \subseteq {1, 2, 3}
      OBVIOUS
    <3>2. sent \cap (failed \cup lost) = {} /\ failed \cap lost = {}
      BY DEF PlacesInv
    <3> HIDE DEF accounted
    <3> QED
      BY <2>1, <3>1, <3>2
  <2>3. \A k : Cardinality({k}) = 1
    BY FS_Singleton
  <2> HIDE DEF accounted
  <2> QED
    BY <2>2, <2>3, FS_EmptySet
<1> HIDE DEF e, inBuffer, inBatch, accounted
<1>5. Cardinality(inBuffer) + Cardinality(inBatch) + Cardinality(accounted) = 1
  <2>1. CASE e \in Buffered
    BY <1>2, <1>3, <1>4, <2>1 DEF PlacesInv
  <2>2. CASE e \in InFlight
    BY <1>2, <1>3, <1>4, <2>2 DEF PlacesInv
  <2>3. CASE e \in sent \cup failed \cup lost
    BY <1>2, <1>3, <1>4, <2>3 DEF PlacesInv
  <2> QED
    BY <1>1, <2>1, <2>2, <2>3
<1> QED
  BY <1>5 DEF e, inBuffer, inBatch, accounted

\* Where ChatMemory is called, the graph of an agent gets no summary that the
\* agent's own ChatMemory lacks;
\* every episode is in a buffer, in a batch or accounted for, in one of them
\* only; and one counted as sent is in the graph, once or, because a write that
\* failed may have been stored, as often as it was tried.
THEOREM EpisodesKeepUp == Spec => []EpisodesFollowChat
<1>1. Init => EpisodeInv
  <2> SUFFICES ASSUME Init PROVE EpisodeInv
    OBVIOUS
  <2>1. /\ \A a \in Agents : /\ noted[a] = 0 /\ seg[a] = {} /\ chat[a] = <<>>
                             /\ stage[a] = "idle" /\ made[a] = <<>>
                             /\ buffer[a] = <<>> /\ graph[a] = <<>>
        /\ batches = {} /\ sent = {} /\ failed = {} /\ lost = {}
    BY DEF Init
  <2>2. MemoryInv
    BY <2>1, RoundInit DEF MemoryInv, CopiesAreFresh, NothingForgotten, Told, Range
  <2>3. Written
    BY <2>1 DEF Written
  <2>4. Buffered = {} /\ InFlight = {} /\ Queued = {}
    BY <2>1 DEF Buffered, InFlight, Queued, Episodes
  <2>5. PlacesInv
    BY <2>1, <2>4 DEF PlacesInv, IsInjective
  <2>6. \A a \in Agents : \A i \in Nat : Stored(a, i) = 0
    <3>1. \A a \in Agents : \A i \in Nat :
            {k \in DOMAIN graph[a] : graph[a][k] = i} = {}
      BY <2>1
    <3> QED
      BY <3>1, FS_EmptySet DEF Stored
  <2>7. CopiesInv
    BY <2>1, <2>6 DEF CopiesInv
  <2> QED
    BY <2>2, <2>3, <2>5, <2>7 DEF EpisodeInv
<1>2. EpisodeInv /\ [Next]_vars => EpisodeInv'
  BY MemoryStep, WrittenStep, PlacesStep DEF EpisodeInv, MemoryInv, RoundInv
<1>3. EpisodeInv => EpisodesFollowChat
  <2> SUFFICES ASSUME EpisodeInv PROVE EpisodesFollowChat
    OBVIOUS
  <2>1. TypeOK /\ PlacesInv
    BY DEF EpisodeInv, MemoryInv, RoundInv
  <2>2. \A a \in Agents : \A i \in DOMAIN made[a] : i \in Nat
    BY <2>1 DEF TypeOK
  <2>3. ASSUME NEW a \in Agents, NEW i \in DOMAIN made[a],
               <<a, i>> \in sent, "zep" \in wired
        PROVE  Stored(a, i) \in 1..MaxRetries
    BY <2>2, <2>3 DEF EpisodeInv, CopiesInv
  <2> QED
    BY <2>1, <2>3, CountedOnce DEF EpisodeInv, Written, EpisodesFollowChat
<1> QED
  BY <1>1, <1>2, <1>3, PTL DEF Spec
=============================================================================
