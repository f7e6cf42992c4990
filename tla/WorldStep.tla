------------------------------ MODULE WorldStep ------------------------------
(***************************************************************************)
(* WorldStep.run_one_tick with the dispatcher, the three message buses and *)
(* the part of PerceptionBuilder that reads direct_message.                *)
(*                                                                         *)
(* A tick has a prelude (scripts, group sweep, grouping by place), a       *)
(* micro-tick, in which one coroutine per place lets the agents there      *)
(* decide one after the other while the places interleave, and a post-pass *)
(* (queued moves, clock). A coroutine gives the event loop away only while *)
(* it awaits the language model or a FEED action; from the answer of the   *)
(* model to the next such point it runs alone. Where a server of commands  *)
(* runs beside the loop, it may move an agent between two such points.     *)
(*                                                                         *)
(* The group channel is GroupBus, whose actions are the steps taken here,  *)
(* in the first process on its directory.                                  *)
(* Memory, pools and Zep appear only as points of suspension.              *)
(***************************************************************************)
EXTENDS Integers, Sequences, FiniteSets, SequencesExt

CONSTANTS
    Agents, Groups, Places, NoPlace, Coverage, GrpDelay, Scenario, Roster,
    MaxT, MaxMsgs, MaxEvents,
    Contacts,    \* pairs <<a, b>>: b is in RelationGraph.contacts_of(a)
    Latency,     \* latency_ticks of each coverage edge
    ActiveSets,  \* what pick_active may return; {Agents} without a scheduler
    Tools,       \* the tools the agents use
    Scripts,     \* whether a script engine is wired
    Ipc,         \* whether an IPC server takes commands meanwhile
    MaxActs      \* bound on tool calls, script effects and commands

ASSUME WiringAssumption ==
    /\ IsFiniteSet(Agents)
    /\ Contacts \subseteq Agents \X Agents
    /\ Latency \in [Coverage -> Nat]
    /\ ActiveSets \subseteq SUBSET Agents
    /\ Scripts \in BOOLEAN
    /\ Ipc \in BOOLEAN
    /\ Tools \subseteq {"speak", "message", "group", "lifecycle", "move",
                        "capability", "feed"}
    /\ MaxActs \in Nat

VARIABLES
    t, L, uplink, created, members, mirror, nMsg, dm, events,  \* GroupBus
    phase,      \* where run_one_tick is
    queue,      \* per place, the agents whose turn is not over
    mind,       \* what an agent's turn waits for
    direct,     \* the direct_message rows without a group_id
    nDirect,    \* utterances and remote messages so far
    lastSeen,   \* last_message_seen_at
    moves,      \* ActionDispatcher.pending_moves
    nActs,      \* tool calls, script effects and commands so far
    shown,      \* what each perception has shown (history)
    been        \* where each agent has been since the prelude (history)

Bus == INSTANCE GroupBus WITH boots <- 0, MaxBoots <- 0

ASSUME BusAssumption ==
    /\ Bus!NoPlaceAssumption /\ Bus!CoverageAssumption /\ Bus!DelayAssumption
    /\ Bus!BootAssumption /\ Bus!BoundsAssumption

bus_vars == <<created, members, mirror, nMsg, dm, events>>
step_vars == <<phase, queue, mind, direct, nDirect, lastSeen, moves, nActs,
               shown, been>>
vars == <<t, L, uplink, bus_vars, step_vars>>

\* A row of direct_message, whatever its channel.
GroupRow(r) == [channel |-> "GRP", id |-> r.msg, sender |-> r.sender,
                recipient |-> r.recipient, place |-> r.place,
                attempted |-> r.attempted, arrive |-> r.arrive,
                delivered |-> r.delivered]

Rows == direct \union {GroupRow(r) : r \in dm}

Latest(x, y) == IF x > y THEN x ELSE y

-----------------------------------------------------------------------------
(* Faulty variants, as in GroupBus: put in the place of the operator they   *)
(* are named after, they show that a property notices the fault. Those that *)
(* use the pipeline stand before what they replace.                         *)

\* The slices of the current tick where those of the last one are due.
OverheardNow(a) == {r \in Rows : /\ r.channel = "F2F" /\ r.recipient = a
                                 /\ r.attempted >= t}

RecentFailedNow(a) == {r \in Rows : /\ r.sender = a /\ r.delivered = 0
                                    /\ r.attempted = t}

\* The watermark one tick behind.
MarkSeenBehind(a) == lastSeen' = [lastSeen EXCEPT ![a] = t - 1]

-----------------------------------------------------------------------------
(* PerceptionBuilder.build: the slices read from direct_message *)

Incoming(a) == {r \in Rows : /\ r.recipient = a /\ r.delivered = 1
                             /\ lastSeen[a] < r.arrive /\ r.arrive <= t}

\* Every recipient of an utterance has an overhear row for it.
Overheard(a) == {r \in Rows : /\ r.channel = "F2F" /\ r.recipient = a
                              /\ r.attempted >= Latest(t - 1, 0)}

RecentFailed(a) == {r \in Rows : /\ r.sender = a /\ r.delivered = 0
                                 /\ r.attempted = t - 1}

Shown(slice, a, rows) ==
    {[slice |-> slice, agent |-> a, at |-> t, channel |-> r.channel,
      id |-> r.id, recipient |-> r.recipient] : r \in rows}

-----------------------------------------------------------------------------
(* The scheduling of run_one_tick *)

Init == /\ Bus!Init
        /\ phase = "scripts"
        /\ queue = [p \in Places |-> <<>>]
        /\ mind = [a \in Agents |-> "idle"]
        /\ direct = {}
        /\ nDirect = 0
        /\ lastSeen = [a \in Agents |-> -1]
        /\ moves = <<>>
        /\ nActs = 0
        /\ shown = {}
        /\ been = [a \in Agents |-> {L[a]}]

\* Steps 1 and 2: effects of due scripts reach PlaceStore and
\* CapabilityTable directly.
ScriptEffect ==
    /\ Scripts /\ phase = "scripts" /\ t < MaxT
    /\ nActs < MaxActs
    /\ nActs' = nActs + 1
    /\ \/ \E a \in Agents, p \in Places : Bus!Move(a, p)
       \/ \E a \in Agents : Bus!Grant(a) \/ Bus!Revoke(a)
    /\ UNCHANGED <<phase, queue, mind, direct, nDirect, lastSeen, moves, shown,
                   been>>

\* Every order an agent set can be shuffled into.
Orders(S) == SetToSeqs(S)

\* Steps 4 to 6: pick the active agents, sweep, bucket by place and shuffle.
\* An agent without a place is in no bucket.
Prelude ==
    /\ phase = "scripts" /\ t < MaxT
    /\ Bus!SweepUndelivered
    /\ \E active \in ActiveSets :
         queue' \in {q \in [Places -> UNION {Orders(S) : S \in SUBSET Agents}] :
                       \A p \in Places : q[p] \in Orders({a \in active : L[a] = p})}
    /\ phase' = "micro"
    /\ been' = [a \in Agents |-> {L[a]}]
    /\ UNCHANGED <<mind, direct, nDirect, lastSeen, moves, nActs, shown>>

\* It is a's turn in the place whose coroutine has it at the head.
Turn(a) == \E p \in Places : queue[p] # <<>> /\ Head(queue[p]) = a

\* No coroutine is between two points of suspension.
LoopFree == \A a \in Agents : mind[a] # "acting"

\* The IPC command MOVE_AGENT, whose handler calls PlaceStore.move whenever it
\* gets the event loop. The coroutines of the places keep their agents.
MoveAgent(a, p) ==
    /\ Ipc /\ LoopFree /\ t < MaxT
    /\ nActs < MaxActs
    /\ nActs' = nActs + 1
    /\ Bus!Move(a, p)
    /\ been' = [been EXCEPT ![a] = @ \union {p}]
    /\ UNCHANGED <<phase, queue, mind, direct, nDirect, lastSeen, moves, shown>>

EndTurn(a) == queue' = [p \in Places |->
                          IF queue[p] # <<>> /\ Head(queue[p]) = a
                          THEN Tail(queue[p]) ELSE queue[p]]

\* Perception is built and the model called: the coroutine suspends.
Perceive(a) ==
    /\ phase = "micro" /\ LoopFree
    /\ Turn(a) /\ mind[a] = "idle"
    /\ mind' = [mind EXCEPT ![a] = "thinking"]
    /\ shown' = shown \union Shown("incoming", a, Incoming(a))
                      \union Shown("overheard", a, Overheard(a))
                      \union Shown("failed", a, RecentFailed(a))
    /\ UNCHANGED <<t, L, uplink, bus_vars, phase, queue, direct, nDirect,
                   lastSeen, moves, nActs, been>>

\* The watermark moves whether or not the model answered.
MarkSeen(a) == lastSeen' = [lastSeen EXCEPT ![a] = t]

\* The model answers with tool calls.
Decide(a) ==
    /\ phase = "micro" /\ LoopFree
    /\ mind[a] = "thinking"
    /\ MarkSeen(a)
    /\ mind' = [mind EXCEPT ![a] = "acting"]
    /\ UNCHANGED <<t, L, uplink, bus_vars, phase, queue, direct, nDirect,
                   moves, nActs, shown, been>>

\* Variant: a failing call is made again in the same turn.
FailDecisionRetries(a) ==
    /\ phase = "micro" /\ LoopFree
    /\ mind[a] = "thinking"
    /\ MarkSeen(a)
    /\ mind' = [mind EXCEPT ![a] = "idle"]
    /\ UNCHANGED <<t, L, uplink, bus_vars, phase, queue, direct, nDirect,
                   moves, nActs, shown, been>>

\* The call fails: the turn is over, the next agent of the place goes on.
FailDecision(a) ==
    /\ phase = "micro" /\ LoopFree
    /\ mind[a] = "thinking"
    /\ MarkSeen(a)
    /\ mind' = [mind EXCEPT ![a] = "idle"]
    /\ EndTurn(a)
    /\ UNCHANGED <<t, L, uplink, bus_vars, phase, direct, nDirect, moves,
                   nActs, shown, been>>

\* The list of tool calls is used up.
Finish(a) ==
    /\ mind[a] = "acting"
    /\ mind' = [mind EXCEPT ![a] = "idle"]
    /\ EndTurn(a)
    /\ UNCHANGED <<t, L, uplink, bus_vars, phase, direct, nDirect, lastSeen,
                   moves, nActs, shown, been>>

-----------------------------------------------------------------------------
(* ActionDispatcher.dispatch: the tool calls of one decision *)

\* One call of a tool that does not suspend; the turn goes on.
Call(a, tool) ==
    /\ mind[a] = "acting" /\ tool \in Tools
    /\ nActs < MaxActs
    /\ nActs' = nActs + 1
    /\ UNCHANGED <<phase, queue, lastSeen, shown, been>>

\* FaceToFaceBus.send: one row per agent in the sender's place, readable now.
Speak(a) ==
    /\ Call(a, "speak")
    /\ nDirect' = nDirect + 1
    /\ direct' = direct \union
         {[channel |-> "F2F", id |-> nDirect', sender |-> a, recipient |-> b,
           place |-> L[a], attempted |-> t, arrive |-> t, delivered |-> 1] :
             b \in {b \in Agents \ {a} : L[a] # NoPlace /\ L[b] = L[a]}}
    /\ UNCHANGED <<t, L, uplink, bus_vars, mind, moves>>

phi_rdc(a, b) == /\ a # b
                 /\ <<a, b>> \in Contacts
                 /\ {a, b} \subseteq uplink
                 /\ L[a] # NoPlace /\ L[b] # NoPlace
                 /\ <<L[a], L[b]>> \in Coverage

\* RemoteMessageBus.send: a failure leaves a row that is never retried.
SendMessage(a, b) ==
    /\ Call(a, "message")
    /\ nDirect' = nDirect + 1
    /\ LET ok == phi_rdc(a, b)
       IN  direct' = direct \union
             {[channel |-> "RDC", id |-> nDirect', sender |-> a,
               recipient |-> b, place |-> L[a], attempted |-> t,
               arrive |-> IF ok THEN t + Latency[<<L[a], L[b]>>] ELSE t,
               delivered |-> IF ok THEN 1 ELSE 0]}
    /\ UNCHANGED <<t, L, uplink, bus_vars, mind, moves>>

\* SEND_TO_GROUP, and CREATE_GROUP, JOIN_GROUP, LEAVE_GROUP.
UseGroup(a) ==
    /\ \/ Call(a, "group") /\ \E g \in Groups : Bus!SendToGroup(a, g)
       \/ /\ Call(a, "lifecycle")
          /\ \E g \in Groups : \/ Bus!CreateGroup(a, g)
                               \/ Bus!JoinGroup(a, g)
                               \/ Bus!LeaveGroup(a, g)
    /\ UNCHANGED <<mind, direct, nDirect, moves>>

\* REQUEST_MOVE is queued unchecked; NoPlace is a place that does not exist.
RequestMove(a, p) ==
    /\ Call(a, "move")
    /\ moves' = Append(moves, <<a, p>>)
    /\ UNCHANGED <<t, L, uplink, bus_vars, mind, direct, nDirect>>

\* CAPABILITY_CHANGE may name any agent and takes effect at once.
ChangeCapability(a, b) ==
    /\ Call(a, "capability")
    /\ Bus!Grant(b) \/ Bus!Revoke(b)
    /\ UNCHANGED <<mind, direct, nDirect, moves>>

\* A FEED action awaits the pool: the other places run meanwhile.
Feed(a) ==
    /\ Call(a, "feed")
    /\ mind' = [mind EXCEPT ![a] = "feeding"]
    /\ UNCHANGED <<t, L, uplink, bus_vars, direct, nDirect, moves>>

FeedDone(a) ==
    /\ phase = "micro" /\ LoopFree
    /\ mind[a] = "feeding"
    /\ mind' = [mind EXCEPT ![a] = "acting"]
    /\ UNCHANGED <<t, L, uplink, bus_vars, phase, queue, direct, nDirect,
                   lastSeen, moves, nActs, shown, been>>

Dispatch(a) ==
    \/ Speak(a)
    \/ \E b \in Agents : SendMessage(a, b)
    \/ UseGroup(a)
    \/ \E p \in Places \union {NoPlace} : RequestMove(a, p)
    \/ \E b \in Agents : ChangeCapability(a, b)
    \/ Feed(a)

-----------------------------------------------------------------------------
(* The post-pass *)

\* asyncio.gather returns when every place is through.
EndMicro ==
    /\ phase = "micro"
    /\ \A p \in Places : queue[p] = <<>>
    /\ phase' = "commit"
    /\ UNCHANGED <<t, L, uplink, bus_vars, queue, mind, direct, nDirect,
                   lastSeen, moves, nActs, shown, been>>

\* Step 9, one queued move: an unknown or the same place changes nothing, and
\* there is no other condition.
CommitMove ==
    /\ phase = "commit" /\ moves # <<>>
    /\ LET a == Head(moves)[1]
           p == Head(moves)[2]
       IN  IF p = NoPlace \/ L[a] = p
           THEN UNCHANGED <<t, L, uplink, bus_vars>>
           ELSE Bus!Move(a, p)
    /\ moves' = Tail(moves)
    /\ UNCHANGED <<phase, queue, mind, direct, nDirect, lastSeen, nActs, shown,
                   been>>

\* Variant: the clock is advanced by the loop and by the step.
AdvanceTwice ==
    /\ phase = "commit" /\ moves = <<>>
    /\ t < MaxT /\ t' = t + 2
    /\ phase' = "scripts"
    /\ UNCHANGED <<L, uplink, bus_vars, queue, mind, direct, nDirect, lastSeen,
                   moves, nActs, shown, been>>

\* Step 11.
Advance ==
    /\ phase = "commit" /\ moves = <<>>
    /\ Bus!AdvanceClock
    /\ phase' = "scripts"
    /\ UNCHANGED <<queue, mind, direct, nDirect, lastSeen, moves, nActs, shown,
                   been>>

\* run_loop has made its ticks.
Stopped == phase = "scripts" /\ t = MaxT /\ UNCHANGED vars

Micro(a) == \/ Perceive(a) \/ Decide(a) \/ FailDecision(a)
            \/ Dispatch(a) \/ FeedDone(a) \/ Finish(a)

Next == \/ ScriptEffect \/ Prelude
        \/ \E a \in Agents : Micro(a)
        \/ EndMicro \/ CommitMove \/ Advance
        \/ \E a \in Agents, p \in Places : MoveAgent(a, p)
        \/ Stopped

Spec == Init /\ [][Next]_vars

\* The event loop resumes every coroutine that can go on, the model and the
\* pool answer or fail, and a decision has finitely many tool calls.
FairSpec ==
    /\ Spec
    /\ WF_vars(Prelude) /\ WF_vars(EndMicro) /\ WF_vars(CommitMove)
    /\ WF_vars(Advance)
    /\ \A a \in Agents :
        /\ WF_vars(Perceive(a))
        /\ WF_vars(Decide(a) \/ FailDecision(a))
        /\ WF_vars(FeedDone(a))
        /\ WF_vars(Finish(a))

-----------------------------------------------------------------------------
(* Properties *)

Channels == {"F2F", "RDC", "GRP"}

\* The variables of the pipeline have their types.
TypeOK ==
    /\ Bus!TypeOK
    /\ phase \in {"scripts", "micro", "commit"}
    /\ queue \in [Places -> Seq(Agents)]
    /\ mind \in [Agents -> {"idle", "thinking", "acting", "feeding"}]
    /\ direct \subseteq [channel : {"F2F", "RDC"}, id : Nat, sender : Agents,
                         recipient : Agents, place : Places \union {NoPlace},
                         attempted : Nat, arrive : Nat, delivered : {0, 1}]
    /\ nDirect \in Nat /\ nActs \in Nat
    /\ lastSeen \in [Agents -> Int]
    /\ moves \in Seq(Agents \X (Places \union {NoPlace}))
    /\ shown \subseteq [slice : {"incoming", "overheard", "failed"},
                        agent : Agents, at : Nat, channel : Channels,
                        id : Nat, recipient : Agents]
    /\ been \in [Agents -> SUBSET (Places \union {NoPlace})]

\* r was in the given slice of one of a's perceptions.
WasShown(slice, a, r) ==
    \E s \in shown : /\ s.slice = slice /\ s.agent = a
                     /\ s.channel = r.channel /\ s.id = r.id
                     /\ s.recipient = r.recipient

\* r was overheard in the tick after the one it was said in.
HeardNext(r) ==
    \E s \in shown : /\ s.slice = "overheard" /\ s.agent = r.recipient
                     /\ s.channel = r.channel /\ s.id = r.id
                     /\ s.recipient = r.recipient
                     /\ s.at = r.attempted + 1

\* The tick pipeline uses the group channel only through the bus: whatever
\* holds of every behaviour of GroupBus holds here.
BusRefined == Bus!Spec

\* The watermark keeps a message from being an incoming message twice, and a
\* failed attempt is reported in one tick only.
ShownOnce ==
    \A x, y \in {s \in shown : s.slice \in {"incoming", "failed"}} :
        [x EXCEPT !.at = y.at] = y => x = y

\* Passed over: the watermark has gone past a readable row never shown as
\* incoming.
PassedOver(r) == /\ r.delivered = 1
                 /\ r.arrive <= lastSeen[r.recipient]
                 /\ ~WasShown("incoming", r.recipient, r)

\* What takes time is read: a delivered message that travels, and any group
\* message, is never passed over. And what is said in a place is heard: whether
\* the watermark passed over it or not, the next perception of everybody it was
\* said to overhears it. (A remote message without delay is neither; see
\* RemoteIsRead.)
DelayedIsReadSpeechIsHeard ==
    \A r \in Rows : r.delivered = 1 =>
        /\ r.channel = "GRP" \/ r.arrive > r.attempted => ~PassedOver(r)
        /\ r.channel = "F2F" /\ r.attempted < lastSeen[r.recipient]
             => HeardNext(r)

\* Lockstep: a message read in the tick it was sent in is no group message and
\* comes from a place where its reader has been in that tick, which without a
\* command is the one place he is in; between places nothing travels within a
\* tick unless the reader is carried himself.
SameTickMeansPresent ==
    [][\A s \in shown' \ shown : \A r \in Rows :
        /\ s.slice = "incoming" /\ r.channel = s.channel
        /\ r.id = s.id /\ r.recipient = s.recipient
        /\ r.attempted = s.at
        => r.channel # "GRP" /\ r.place \in been[s.agent]]_vars

\* A sender learns in the next tick of each attempt that is still failed.
FailuresAreReported ==
    \A r \in Rows : r.delivered = 0 /\ r.attempted < lastSeen[r.sender]
                        => WasShown("failed", r.sender, r)

\* Two copies for the same reader from the same sender in the same group are
\* read in the order of sending.
ReadInOrder ==
    \A r, q \in dm :
        /\ r.sender = q.sender /\ r.recipient = q.recipient
        /\ r.group = q.group /\ r.msg < q.msg
        /\ r.delivered \in {0, 1} /\ q.delivered = 1 /\ q.arrive <= t
        => r.delivered = 1 /\ r.arrive <= q.arrive

\* Every tick comes to its end, whatever the models answer or fail to.
TicksGoOn == \A n \in 0..(MaxT - 1) : t = n ~> t = n + 1

-----------------------------------------------------------------------------
(* What the documents say and the code does not do *)

\* bus_remote_message.md: once the world reaches arrive_at the target reads
\* the message.
RemoteIsRead == \A r \in Rows : r.channel = "RDC" => ~PassedOver(r)
=============================================================================
