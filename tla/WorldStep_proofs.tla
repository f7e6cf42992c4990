-------------------------- MODULE WorldStep_proofs --------------------------
(***************************************************************************)
(* Theorems about WorldStep.                                               *)
(***************************************************************************)
EXTENDS WorldStep, FiniteSetTheorems, TLAPS

\* The world and the group channel as GroupBus sees them.
LEMMA BusVars == UNCHANGED vars => UNCHANGED Bus!vars
BY DEF vars, bus_vars, Bus!vars, Bus!world

\* A turn touches the bus by bus steps only.
LEMMA MicroIsBusStep ==
    ASSUME NEW a \in Agents, Micro(a)
    PROVE  Bus!Next \/ UNCHANGED Bus!vars
<1>1. CASE \/ Perceive(a) \/ Decide(a) \/ FailDecision(a) \/ FeedDone(a)
           \/ Finish(a)
  BY <1>1 DEF Perceive, Decide, FailDecision, FeedDone, Finish, bus_vars, Bus!vars, Bus!world
<1>2. CASE Speak(a) \/ Feed(a)
  BY <1>2 DEF Speak, Feed, bus_vars, Bus!vars, Bus!world
<1>3. ASSUME NEW b \in Agents, SendMessage(a, b) PROVE UNCHANGED Bus!vars
  BY <1>3 DEF SendMessage, bus_vars, Bus!vars, Bus!world
<1>4. ASSUME NEW p, RequestMove(a, p) PROVE UNCHANGED Bus!vars
  BY <1>4 DEF RequestMove, bus_vars, Bus!vars, Bus!world
<1>5. CASE UseGroup(a)
  BY <1>5 DEF UseGroup, Bus!Next, Bus!Membership
<1>6. ASSUME NEW b \in Agents, ChangeCapability(a, b) PROVE Bus!Next
  BY <1>6 DEF ChangeCapability, Bus!Next, Bus!Environment
<1> QED
  BY <1>1, <1>2, <1>3, <1>4, <1>5, <1>6 DEF Micro, Dispatch

\* What is queued is an agent with a place or a name that is none.
MovesTyped == moves \in Seq(Agents \X (Places \union {NoPlace}))

\* Only REQUEST_MOVE adds to the queue, and the commit drains it.
LEMMA MovesTypedStep == MovesTyped /\ [Next]_vars => MovesTyped'
<1> SUFFICES ASSUME MovesTyped, [Next]_vars PROVE MovesTyped'
  OBVIOUS
<1>1. ASSUME NEW a \in Agents, NEW p \in Places \union {NoPlace},
             RequestMove(a, p)
      PROVE  MovesTyped'
  BY <1>1 DEF RequestMove, MovesTyped
<1>2. CASE CommitMove
  BY <1>2 DEF CommitMove, MovesTyped
<1>3. CASE UNCHANGED moves
  BY <1>3 DEF MovesTyped
<1> QED
  BY <1>1, <1>2, <1>3 DEF Next, MoveAgent, Micro, Dispatch, ScriptEffect, Prelude,
     Perceive, Decide, FailDecision, Speak, SendMessage, UseGroup,
     ChangeCapability, Feed, FeedDone, Finish, EndMicro, Advance, Stopped,
     vars, step_vars

\* Every step of the pipeline is a step of the bus or leaves it alone.
LEMMA StepIsBusStep == MovesTyped /\ [Next]_vars => [Bus!Next]_Bus!vars
<1> SUFFICES ASSUME MovesTyped, [Next]_vars
             PROVE  Bus!Next \/ UNCHANGED Bus!vars
  OBVIOUS
<1>1. CASE ScriptEffect
  BY <1>1 DEF ScriptEffect, Bus!Next, Bus!Environment
<1>2. CASE Prelude
  BY <1>2 DEF Prelude, Bus!Next
<1>3. CASE EndMicro \/ Stopped \/ UNCHANGED vars
  BY <1>3, BusVars DEF EndMicro, Stopped, bus_vars, Bus!vars, Bus!world
<1>4. CASE CommitMove
  <2>1. PICK a \in Agents, p \in Places \union {NoPlace} : Head(moves) = <<a, p>>
    BY <1>4 DEF CommitMove, MovesTyped
  <2> QED
    BY <1>4, <2>1 DEF CommitMove, bus_vars, Bus!vars, Bus!world, Bus!Next, Bus!Environment
<1>5. CASE Advance
  BY <1>5 DEF Advance, Bus!Next, Bus!Environment
<1>6. ASSUME NEW a \in Agents, NEW p \in Places, MoveAgent(a, p)
      PROVE  Bus!Next
  BY <1>6 DEF MoveAgent, Bus!Next, Bus!Environment
<1> QED
  BY <1>1, <1>2, <1>3, <1>4, <1>5, <1>6, MicroIsBusStep DEF Next

\* The tick pipeline, with any wiring, scheduler and scripts, drives the group
\* channel only as GroupBus allows.
THEOREM PipelineUsesTheBus == Spec => BusRefined
<1>1. Init => Bus!Init /\ MovesTyped
  BY DEF Init, MovesTyped
<1> QED
  BY <1>1, MovesTypedStep, StepIsBusStep, PTL DEF Spec, BusRefined, Bus!Spec
-----------------------------------------------------------------------------
(* What is known of the group channel: the facts of GroupBus_proofs hold of *)
(* the instance that the pipeline drives                                    *)

Channel == INSTANCE GroupBus_proofs WITH boots <- 0, MaxBoots <- 0

\* The assumptions of the channel are assumed of the pipeline.
LEMMA ChannelAssumed ==
    /\ Channel!NoPlaceAssumption /\ Channel!CoverageAssumption
    /\ Channel!DelayAssumption /\ Channel!BootAssumption
    /\ Channel!BoundsAssumption
BY BusAssumption DEF Bus!NoPlaceAssumption, Bus!CoverageAssumption,
   Bus!DelayAssumption, Bus!BootAssumption, Bus!BoundsAssumption,
   Channel!NoPlaceAssumption, Channel!CoverageAssumption,
   Channel!DelayAssumption, Channel!BootAssumption, Channel!BoundsAssumption

\* Both instances of GroupBus name the same states and steps.
LEMMA SameStates ==
    /\ Bus!TypeOK <=> Channel!TypeOK
    /\ Bus!MirrorTrailsTable <=> Channel!MirrorTrailsTable
    /\ Bus!PendingOnlyForMembers <=> Channel!PendingOnlyForMembers
BY DEF Bus!TypeOK, Channel!TypeOK, Bus!Row, Channel!Row, Bus!Event,
   Channel!Event, Bus!MirrorTrailsTable, Channel!MirrorTrailsTable,
   Bus!SeededMembers, Channel!SeededMembers,
   Bus!PendingOnlyForMembers, Channel!PendingOnlyForMembers, Bus!Pending,
   Channel!Pending

\* The same of the next state.
LEMMA SameStatesPrimed ==
    /\ Bus!TypeOK' <=> Channel!TypeOK'
    /\ Bus!MirrorTrailsTable' <=> Channel!MirrorTrailsTable'
    /\ Bus!PendingOnlyForMembers' <=> Channel!PendingOnlyForMembers'
BY DEF Bus!TypeOK, Channel!TypeOK, Bus!Row, Channel!Row, Bus!Event,
   Channel!Event, Bus!MirrorTrailsTable, Channel!MirrorTrailsTable,
   Bus!SeededMembers, Channel!SeededMembers,
   Bus!PendingOnlyForMembers, Channel!PendingOnlyForMembers, Bus!Pending,
   Channel!Pending

\* The same of their steps.
LEMMA SameSteps == [Bus!Next]_(Bus!vars) => [Channel!Next]_(Channel!vars)
BY DEF Bus!Next, Channel!Next, Bus!vars, Channel!vars, Bus!Membership,
   Channel!Membership, Bus!CreateGroup, Channel!CreateGroup, Bus!JoinGroup,
   Channel!JoinGroup, Bus!LeaveGroup, Channel!LeaveGroup, Bus!KickMember,
   Channel!KickMember, Bus!RemoveMember, Channel!RemoveMember,
   Bus!SendToGroup, Channel!SendToGroup, Bus!SweepUndelivered,
   Channel!SweepUndelivered, Bus!Environment, Channel!Environment,
   Bus!AddMember, Channel!AddMember, Bus!Log, Channel!Log, Bus!TouchMirror,
   Channel!TouchMirror, Bus!Purged, Channel!Purged, Bus!Copy, Channel!Copy,
   Bus!Swept, Channel!Swept, Bus!Pending, Channel!Pending, Bus!Cancelled,
   Channel!Cancelled, Bus!Delivered, Channel!Delivered, Bus!phi_grp,
   Channel!phi_grp, Bus!Deliverable, Channel!Deliverable, Bus!Covered,
   Channel!Covered, Bus!Move, Channel!Move, Bus!Grant, Channel!Grant,
   Bus!Revoke, Channel!Revoke, Bus!AdvanceClock, Channel!AdvanceClock,
   Bus!world, Channel!world, Bus!group_vars, Channel!group_vars, Bus!Boot,
   Channel!Boot, Bus!SeededMembers, Channel!SeededMembers, Bus!SeededEvents,
   Channel!SeededEvents

\* The channel's part of the invariant: its types, the agreement of mirror and
\* table, the queue for members, and names that are not given twice.
ChannelInv ==
    /\ Bus!TypeOK
    /\ Bus!MirrorTrailsTable
    /\ Bus!PendingOnlyForMembers
    /\ Channel!CopyKeys

\* Every step of the bus keeps what its own module proves of it.
LEMMA ChannelStep == ChannelInv /\ [Bus!Next]_(Bus!vars) => ChannelInv'
<1> SUFFICES ASSUME ChannelInv, [Bus!Next]_(Bus!vars) PROVE ChannelInv'
  OBVIOUS
<1>1. Channel!QueueInv /\ Channel!CopyKeys /\ [Channel!Next]_(Channel!vars)
  BY SameStates, SameSteps DEF ChannelInv, Channel!QueueInv
<1>2. Channel!QueueInv'
  BY <1>1, ChannelAssumed, Channel!QueueStep DEF Channel!QueueStep
<1>3. Channel!CopyKeys'
  BY <1>1, ChannelAssumed, Channel!KeysStep DEF Channel!KeysStep, Channel!QueueInv
<1> QED
  BY <1>2, <1>3, SameStatesPrimed DEF ChannelInv, Channel!QueueInv

\* It holds when the world starts.
LEMMA ChannelInit == Bus!Init => ChannelInv
<1> SUFFICES ASSUME Bus!Init PROVE ChannelInv
  OBVIOUS
<1>1. Channel!Init
  BY DEF Bus!Init, Channel!Init, Bus!SeededMembers, Channel!SeededMembers,
         Bus!SeededEvents, Channel!SeededEvents
<1>2. Channel!QueueInv
  BY <1>1, ChannelAssumed, Channel!QueueInit DEF Channel!QueueInit
<1>3. Channel!CopyKeys
  BY <1>1 DEF Channel!Init, Channel!CopyKeys
<1> QED
  BY <1>2, <1>3, SameStates DEF ChannelInv, Channel!QueueInv

-----------------------------------------------------------------------------
(* Type correctness *)

RowSet == [channel : Channels, id : Nat, sender : Agents, recipient : Agents,
           place : Places \union {NoPlace}, attempted : Nat, arrive : Nat,
           delivered : {-1, 0, 1}]

\* What direct_message holds, of whatever channel.
LEMMA RowsTyped == TypeOK => Rows \subseteq RowSet
<1> SUFFICES ASSUME TypeOK, NEW r \in Rows PROVE r \in RowSet
  OBVIOUS
<1>1. CASE r \in direct
  BY <1>1 DEF TypeOK, RowSet, Channels
<1>2. ASSUME NEW q \in dm, r = GroupRow(q) PROVE r \in RowSet
  BY <1>2 DEF TypeOK, Bus!TypeOK, Bus!Row, GroupRow, RowSet, Channels
<1> QED
  BY <1>1, <1>2 DEF Rows

\* The same of the next state.
LEMMA RowsTypedPrimed == TypeOK' => (Rows \subseteq RowSet)'
BY RowsTyped, PTL

\* A shuffled set of agents is a sequence of them.
LEMMA OrdersTyped ==
    ASSUME NEW S \in SUBSET Agents, NEW q \in Orders(S)
    PROVE  /\ q \in Seq(Agents)
           /\ \A i \in 1..Len(q) : q[i] \in S
           /\ \A i, j \in 1..Len(q) : i # j => q[i] # q[j]
<1>1. Cardinality(S) \in Nat
  BY WiringAssumption, FS_Subset, FS_CardinalityType
<1>2. q \in [1..Cardinality(S) -> S] /\ \A i, j \in 1..Cardinality(S) : i # j => q[i] # q[j]
  BY DEF Orders, SetToSeqs
<1>3. q \in Seq(S) /\ Len(q) = Cardinality(S)
  BY <1>1, <1>2
<1> QED
  BY <1>2, <1>3

\* Taking an agent from the heads of the queues.
LEMMA EndTurnTyped ==
    ASSUME queue \in [Places -> Seq(Agents)], NEW a, EndTurn(a)
    PROVE  queue' \in [Places -> Seq(Agents)]
BY DEF EndTurn

\* A perception shows rows.
LEMMA ShownTyped ==
    ASSUME TypeOK, NEW a \in Agents, NEW rows \in SUBSET Rows,
           NEW slice \in {"incoming", "overheard", "failed"}
    PROVE  Shown(slice, a, rows) \subseteq
             [slice : {"incoming", "overheard", "failed"}, agent : Agents,
              at : Nat, channel : Channels, id : Nat, recipient : Agents]
<1>1. t \in Nat
  BY DEF TypeOK, Bus!TypeOK
<1>2. \A r \in rows : r.channel \in Channels /\ r.id \in Nat /\ r.recipient \in Agents
  BY RowsTyped DEF RowSet
<1> QED
  BY <1>1, <1>2 DEF Shown

\* The rows a tool call writes.
LEMMA SpeakTyped == ASSUME TypeOK, NEW a \in Agents, Speak(a) PROVE TypeOK'
<1>1. t \in Nat /\ nDirect \in Nat /\ nActs \in Nat /\ L \in [Agents -> Places \union {NoPlace}]
  BY DEF TypeOK, Bus!TypeOK
<1>2. Bus!TypeOK'
  BY DEF Speak, bus_vars, TypeOK, Bus!TypeOK, Bus!Row, Bus!Event
<1>3. direct' \subseteq [channel : {"F2F", "RDC"}, id : Nat, sender : Agents,
                         recipient : Agents, place : Places \union {NoPlace},
                         attempted : Nat, arrive : Nat, delivered : {0, 1}]
  BY <1>1 DEF Speak, TypeOK
<1> QED
  BY <1>1, <1>2, <1>3 DEF Speak, Call, TypeOK

\* A message to a remote agent keeps the types, sent or refused.
LEMMA SendMessageTyped ==
    ASSUME TypeOK, NEW a \in Agents, NEW b \in Agents, SendMessage(a, b)
    PROVE  TypeOK'
<1>1. t \in Nat /\ nDirect \in Nat /\ nActs \in Nat /\ L \in [Agents -> Places \union {NoPlace}]
  BY DEF TypeOK, Bus!TypeOK
<1>2. Bus!TypeOK'
  BY DEF SendMessage, bus_vars, TypeOK, Bus!TypeOK, Bus!Row, Bus!Event
<1>3. phi_rdc(a, b) => Latency[<<L[a], L[b]>>] \in Nat
  BY WiringAssumption DEF phi_rdc
<1> DEFINE ok == phi_rdc(a, b)
           at == IF ok THEN t + Latency[<<L[a], L[b]>>] ELSE t
           row == [channel |-> "RDC", id |-> nDirect + 1, sender |-> a,
                   recipient |-> b, place |-> L[a], attempted |-> t,
                   arrive |-> at, delivered |-> IF ok THEN 1 ELSE 0]
<1>4. at \in Nat
  BY <1>1, <1>3
<1>5. row \in [channel : {"F2F", "RDC"}, id : Nat, sender : Agents,
              recipient : Agents, place : Places \union {NoPlace},
              attempted : Nat, arrive : Nat, delivered : {0, 1}]
  <2> HIDE DEF at, ok
  <2> QED
    BY <1>1, <1>4
<1>6. direct' = direct \union {row}
  BY DEF SendMessage
<1>7. /\ UNCHANGED <<phase, queue, lastSeen, shown, been, mind, moves>>
      /\ nActs' = nActs + 1 /\ nDirect' = nDirect + 1
  BY DEF SendMessage, Call
<1> HIDE DEF row
<1>8. direct' \subseteq [channel : {"F2F", "RDC"}, id : Nat, sender : Agents,
                         recipient : Agents, place : Places \union {NoPlace},
                         attempted : Nat, arrive : Nat, delivered : {0, 1}]
  BY <1>5, <1>6 DEF TypeOK
<1> QED
  BY <1>1, <1>2, <1>7, <1>8 DEF TypeOK

\* Every step keeps the types; the channel's own part is ChannelStep.
LEMMA TypeStep == TypeOK /\ [Next]_vars /\ Bus!TypeOK' => TypeOK'
<1> SUFFICES ASSUME TypeOK, [Next]_vars, Bus!TypeOK' PROVE TypeOK'
  OBVIOUS
<1>0. t \in Nat /\ nActs \in Nat /\ L \in [Agents -> Places \union {NoPlace}]
  BY DEF TypeOK, Bus!TypeOK
<1>1. CASE ScriptEffect
  BY <1>0, <1>1 DEF ScriptEffect, TypeOK
<1>2. CASE Prelude
  <2>1. queue' \in [Places -> Seq(Agents)]
    <3>1. PICK active \in ActiveSets :
            queue' \in {q \in [Places -> UNION {Orders(S) : S \in SUBSET Agents}] :
                          \A p \in Places : q[p] \in Orders({a \in active : L[a] = p})}
      BY <1>2 DEF Prelude
    <3>2. \A p \in Places : {a \in active : L[a] = p} \in SUBSET Agents
      BY WiringAssumption
    <3> QED
      BY <3>1, <3>2, OrdersTyped
  <2> QED
    BY <1>0, <1>2, <2>1 DEF Prelude, TypeOK
<1>3. ASSUME NEW a \in Agents, Perceive(a) PROVE TypeOK'
  <2>1. /\ Shown("incoming", a, Incoming(a)) \subseteq
             [slice : {"incoming", "overheard", "failed"}, agent : Agents,
              at : Nat, channel : Channels, id : Nat, recipient : Agents]
        /\ Shown("overheard", a, Overheard(a)) \subseteq
             [slice : {"incoming", "overheard", "failed"}, agent : Agents,
              at : Nat, channel : Channels, id : Nat, recipient : Agents]
        /\ Shown("failed", a, RecentFailed(a)) \subseteq
             [slice : {"incoming", "overheard", "failed"}, agent : Agents,
              at : Nat, channel : Channels, id : Nat, recipient : Agents]
    <3>1. /\ Incoming(a) \in SUBSET Rows /\ Overheard(a) \in SUBSET Rows
          /\ RecentFailed(a) \in SUBSET Rows
      BY DEF Incoming, Overheard, RecentFailed
    <3> QED
      BY <3>1, ShownTyped
  <2>2. shown' \subseteq [slice : {"incoming", "overheard", "failed"},
                          agent : Agents, at : Nat, channel : Channels,
                          id : Nat, recipient : Agents]
    BY <1>3, <2>1 DEF Perceive, TypeOK
  <2> QED
    BY <1>3, <2>2 DEF Perceive, TypeOK
<1>4. ASSUME NEW a \in Agents, Decide(a) PROVE TypeOK'
  BY <1>0, <1>4 DEF Decide, MarkSeen, TypeOK
<1>5. ASSUME NEW a \in Agents, FailDecision(a) PROVE TypeOK'
  BY <1>0, <1>5, EndTurnTyped DEF FailDecision, MarkSeen, TypeOK
<1>6. ASSUME NEW a \in Agents, Finish(a) PROVE TypeOK'
  BY <1>6, EndTurnTyped DEF Finish, TypeOK
<1>7. ASSUME NEW a \in Agents, FeedDone(a) PROVE TypeOK'
  BY <1>7 DEF FeedDone, TypeOK
<1>8. ASSUME NEW a \in Agents, UseGroup(a) \/ Feed(a) PROVE TypeOK'
  BY <1>0, <1>8 DEF UseGroup, Feed, Call, TypeOK
<1>9. ASSUME NEW a \in Agents, NEW p \in Places \union {NoPlace},
             RequestMove(a, p)
      PROVE  TypeOK'
  BY <1>0, <1>9 DEF RequestMove, Call, TypeOK
<1>10. ASSUME NEW a \in Agents, NEW b \in Agents, ChangeCapability(a, b)
       PROVE  TypeOK'
  BY <1>0, <1>10 DEF ChangeCapability, Call, TypeOK
<1>11. CASE CommitMove
  BY <1>11 DEF CommitMove, TypeOK
<1>12. CASE EndMicro \/ Advance \/ Stopped \/ UNCHANGED vars
  BY <1>12 DEF EndMicro, Advance, Stopped, vars, step_vars, TypeOK
<1>13. ASSUME NEW a \in Agents, NEW p \in Places, MoveAgent(a, p)
       PROVE  TypeOK'
  BY <1>0, <1>13 DEF MoveAgent, TypeOK
<1> QED
  BY <1>1, <1>2, <1>3, <1>4, <1>5, <1>6, <1>7, <1>8, <1>9, <1>10, <1>11, <1>12,
     <1>13, SpeakTyped, SendMessageTyped DEF Next, Micro, Dispatch

-----------------------------------------------------------------------------
(* What one step does to direct_message *)

\* q is what has become of r: the same row, a waiting copy that was cancelled,
\* or one that the sweep of the prelude has delivered.
Heir(r, q) ==
    /\ q.channel = r.channel /\ q.id = r.id /\ q.recipient = r.recipient
    /\ q.sender = r.sender /\ q.place = r.place /\ q.attempted = r.attempted
    /\ \/ q.delivered = r.delivered /\ q.arrive = r.arrive
       \/ /\ r.channel = "GRP" /\ r.delivered = 0
          /\ \/ q.delivered = -1 /\ q.arrive = r.arrive
             \/ q.delivered = 1 /\ q.arrive = t /\ phase = "scripts"

\* q is written by this step: by an agent that acts, in this tick, from the
\* place where the agent is.
Born(q) ==
    /\ q.attempted = t /\ q.place = L[q.sender]
    /\ mind[q.sender] = "acting"
    /\ q.id = IF q.channel = "GRP" THEN nMsg + 1 ELSE nDirect + 1
    /\ q.delivered = 0 \/ q.delivered = 1
    /\ q.delivered = 0 => q.channel # "F2F"
    /\ q.delivered = 1 =>
         /\ q.channel = "F2F" =>
              /\ q.arrive = t
              /\ L[q.recipient] = L[q.sender] /\ q.recipient # q.sender
         /\ q.channel = "RDC" =>
              /\ <<L[q.sender], L[q.recipient]>> \in Coverage
              /\ q.arrive = t + Latency[<<L[q.sender], L[q.recipient]>>]
         /\ q.channel = "GRP" => q.arrive = t + GrpDelay

\* Every row of the next state is the heir of a row or written now, and every
\* row has an heir.
RowsEvolve ==
    /\ \A r \in Rows : \E q \in Rows' : Heir(r, q)
    /\ \A q \in Rows' : Born(q) \/ \E r \in Rows : Heir(r, q)

\* The two updates of a waiting copy, and the writing of one, as rows.
LEMMA CopyHeirs ==
    ASSUME TypeOK, NEW r \in dm
    PROVE  /\ Heir(GroupRow(r), GroupRow(r))
           /\ Bus!Pending(r) => Heir(GroupRow(r), GroupRow(Bus!Cancelled(r)))
           /\ Bus!Pending(r) /\ phase = "scripts"
                => Heir(GroupRow(r), GroupRow(Bus!Delivered(r)))
BY DEF TypeOK, Bus!TypeOK, Bus!Row, Heir, GroupRow, Bus!Pending,
   Bus!Cancelled, Bus!Delivered

\* The copy of a group message is as a new row should be.
LEMMA CopyBorn ==
    ASSUME NEW a, NEW g, NEW m, mind[a] = "acting"
    PROVE  Born(GroupRow(Bus!Copy(a, g, m)))
<1> DEFINE ok == Bus!Deliverable(a, m, g)
           copy == [msg |-> nMsg + 1, sender |-> a, recipient |-> m, group |-> g,
                    place |-> L[a], attempted |-> t,
                    arrive |-> IF ok THEN t + GrpDelay ELSE t,
                    delivered |-> IF ok THEN 1 ELSE 0]
<1>1. Bus!Copy(a, g, m) = copy
  BY DEF Bus!Copy
<1> HIDE DEF ok
<1> QED
  BY <1>1 DEF Born, GroupRow

\* When the group channel keeps its rows and direct_message gets new ones.
LEMMA DirectGrows ==
    ASSUME dm' = dm, NEW new, direct' = direct \union new,
           \A q \in new : Born(q)
    PROVE  RowsEvolve
<1>1. \A r : Heir(r, r)
  BY DEF Heir
<1>2. Rows' = Rows \union new
  BY DEF Rows, GroupRow
<1> QED
  BY <1>1, <1>2 DEF RowsEvolve

\* When the copies are rewritten one by one.
LEMMA CopiesRewritten ==
    ASSUME direct' = direct, NEW F, dm' = {F[r] : r \in dm},
           \A r \in dm : Heir(GroupRow(r), GroupRow(F[r]))
    PROVE  RowsEvolve
<1>1. \A r : Heir(r, r)
  BY DEF Heir
<1>2. Rows' = direct \union {GroupRow(s) : s \in dm'}
  BY DEF Rows, GroupRow
<1>3. ASSUME NEW r \in Rows PROVE \E q \in Rows' : Heir(r, q)
  <2>1. CASE r \in direct
    BY <1>1, <1>2, <2>1
  <2>2. ASSUME NEW c \in dm, r = GroupRow(c) PROVE \E q \in Rows' : Heir(r, q)
    <3>1. F[c] \in dm'
      OBVIOUS
    <3> QED
      BY <1>2, <2>2, <3>1
  <2> QED
    BY <2>1, <2>2 DEF Rows
<1>4. ASSUME NEW q \in Rows' PROVE \E r \in Rows : Heir(r, q)
  <2>1. CASE q \in direct
    BY <1>1, <2>1 DEF Rows
  <2>2. ASSUME NEW s \in dm', q = GroupRow(s) PROVE \E r \in Rows : Heir(r, q)
    <3>1. PICK c \in dm : s = F[c]
      OBVIOUS
    <3> QED
      BY <2>2, <3>1 DEF Rows
  <2> QED
    BY <1>2, <2>1, <2>2
<1> QED
  BY <1>3, <1>4 DEF RowsEvolve

\* A step that leaves both kinds of rows alone.
LEMMA RowsKept == UNCHANGED <<direct, dm>> => RowsEvolve
<1> SUFFICES ASSUME UNCHANGED <<direct, dm>> PROVE RowsEvolve
  OBVIOUS
<1> DEFINE new == {}
<1>1. direct' = direct \union new /\ dm' = dm /\ \A q \in new : Born(q)
  OBVIOUS
<1> HIDE DEF new
<1> QED
  BY <1>1, DirectGrows

\* Speech adds rows, one for each that is there.
LEMMA SpeakRows == ASSUME NEW a \in Agents, Speak(a) PROVE RowsEvolve
<1> DEFINE new == {[channel |-> "F2F", id |-> nDirect + 1, sender |-> a,
                    recipient |-> b, place |-> L[a], attempted |-> t,
                    arrive |-> t, delivered |-> 1] :
                     b \in {b \in Agents \ {a} : L[a] # NoPlace /\ L[b] = L[a]}}
<1>1. direct' = direct \union new /\ dm' = dm /\ mind[a] = "acting"
  BY DEF Speak, Call, bus_vars
<1>2. \A q \in new : Born(q)
  BY <1>1 DEF Born
<1> HIDE DEF new
<1> QED
  BY <1>1, <1>2, DirectGrows

\* A remote message adds a row, delivered or failed.
LEMMA SendMessageRows ==
    ASSUME NEW a \in Agents, NEW b \in Agents, SendMessage(a, b)
    PROVE  RowsEvolve
<1> DEFINE ok == phi_rdc(a, b)
           row == [channel |-> "RDC", id |-> nDirect + 1, sender |-> a,
                   recipient |-> b, place |-> L[a], attempted |-> t,
                   arrive |-> IF ok THEN t + Latency[<<L[a], L[b]>>] ELSE t,
                   delivered |-> IF ok THEN 1 ELSE 0]
           new == {row}
<1>1. direct' = direct \union new /\ dm' = dm /\ mind[a] = "acting"
  BY DEF SendMessage, Call, bus_vars
<1>2. ok => <<L[a], L[b]>> \in Coverage
  BY DEF phi_rdc
<1>3. Born(row)
  <2> HIDE DEF ok
  <2> QED
    BY <1>1, <1>2 DEF Born
<1>4. \A q \in new : Born(q)
  BY <1>3
<1> HIDE DEF row, new
<1> QED
  BY <1>1, <1>4, DirectGrows

\* The group tools: a message is written as one row per member, a departure
\* cancels what waits for the one who leaves.
LEMMA UseGroupRows ==
    ASSUME TypeOK, NEW a \in Agents, UseGroup(a)
    PROVE  RowsEvolve
<1>1. direct' = direct /\ mind[a] = "acting"
  BY DEF UseGroup, Call
<1>2. ASSUME NEW g \in Groups, Bus!SendToGroup(a, g) PROVE RowsEvolve
  <2>1. dm' = dm \union {Bus!Copy(a, g, m) : m \in members[g] \ {a}}
    BY <1>2 DEF Bus!SendToGroup
  <2>2. \A r : Heir(r, r)
    BY DEF Heir
  <2>3. Rows' = Rows \union {GroupRow(Bus!Copy(a, g, m)) : m \in members[g] \ {a}}
    BY <1>1, <2>1 DEF Rows, GroupRow
  <2> QED
    BY <1>1, <2>2, <2>3, CopyBorn DEF RowsEvolve
<1>3. ASSUME NEW g \in Groups, Bus!CreateGroup(a, g) \/ Bus!JoinGroup(a, g)
      PROVE  RowsEvolve
  BY <1>1, <1>3, RowsKept DEF Bus!CreateGroup, Bus!JoinGroup
<1>4. ASSUME NEW g \in Groups, Bus!LeaveGroup(a, g) PROVE RowsEvolve
  <2> DEFINE F == [r \in dm |-> IF r.recipient = a /\ r.group = g /\ Bus!Pending(r)
                                THEN Bus!Cancelled(r) ELSE r]
  <2>1. dm' = {F[r] : r \in dm}
    BY <1>4 DEF Bus!LeaveGroup, Bus!RemoveMember, Bus!Purged
  <2>2. \A r \in dm : Heir(GroupRow(r), GroupRow(F[r]))
    BY CopyHeirs
  <2> HIDE DEF F
  <2> QED
    BY <1>1, <2>1, <2>2, CopiesRewritten
<1> QED
  BY <1>2, <1>3, <1>4 DEF UseGroup

\* The sweep turns copies that are due into delivered or failed ones.
LEMMA PreludeRows == ASSUME TypeOK, Prelude PROVE RowsEvolve
<1> DEFINE F == [r \in dm |-> Bus!Swept(r)]
<1>1. dm' = {F[r] : r \in dm} /\ direct' = direct /\ phase = "scripts"
  BY DEF Prelude, Bus!SweepUndelivered
<1>2. \A r \in dm : Heir(GroupRow(r), GroupRow(F[r]))
  BY <1>1, CopyHeirs DEF Bus!Swept
<1> HIDE DEF F
<1> QED
  BY <1>1, <1>2, CopiesRewritten

\* A row is written only by an agent that acts, in the tick it acts in, and is
\* changed only as a waiting group copy, in the prelude or by a departure.
LEMMA RowsStep == TypeOK /\ [Next]_vars => RowsEvolve
<1> SUFFICES ASSUME TypeOK, [Next]_vars PROVE RowsEvolve
  OBVIOUS
<1>1. ASSUME NEW a \in Agents, Micro(a) PROVE RowsEvolve
  <2>1. CASE \/ Perceive(a) \/ Decide(a) \/ FailDecision(a) \/ FeedDone(a)
             \/ Finish(a) \/ Feed(a)
    BY <2>1, RowsKept DEF Perceive, Decide, FailDecision, FeedDone, Finish,
       Feed, bus_vars
  <2>2. ASSUME NEW p, RequestMove(a, p) PROVE RowsEvolve
    BY <2>2, RowsKept DEF RequestMove, bus_vars
  <2>3. ASSUME NEW b, ChangeCapability(a, b) PROVE RowsEvolve
    BY <2>3, RowsKept DEF ChangeCapability, Bus!Grant, Bus!Revoke, Bus!group_vars
  <2> QED
    BY <1>1, <2>1, <2>2, <2>3, SpeakRows, SendMessageRows, UseGroupRows
       DEF Micro, Dispatch
<1>2. CASE ScriptEffect
  BY <1>2, RowsKept DEF ScriptEffect, Bus!Move, Bus!Grant, Bus!Revoke,
     Bus!group_vars
<1>3. CASE CommitMove
  BY <1>3, RowsKept DEF CommitMove, bus_vars, Bus!Move, Bus!group_vars
<1>4. CASE EndMicro \/ Advance \/ Stopped \/ UNCHANGED vars
  BY <1>4, RowsKept DEF EndMicro, Advance, Bus!AdvanceClock, Bus!group_vars,
     Stopped, vars, bus_vars, step_vars
<1>5. ASSUME NEW a, NEW p, MoveAgent(a, p) PROVE RowsEvolve
  BY <1>5, RowsKept DEF MoveAgent, Bus!Move, Bus!group_vars
<1> QED
  BY <1>1, <1>2, <1>3, <1>4, <1>5, PreludeRows DEF Next

-----------------------------------------------------------------------------
(* The turns of one tick *)

Queued(a) == \E p \in Places : \E i \in 1..Len(queue[p]) : queue[p][i] = a

\* Every agent waits at most once, in the coroutine of one place.
QueuesInv ==
    /\ phase # "micro" => \A p \in Places : queue[p] = <<>>
    /\ \A p, q \in Places :
         \A i \in 1..Len(queue[p]), j \in 1..Len(queue[q]) :
            queue[p][i] = queue[q][j] => p = q /\ i = j

\* An agent that does something has its turn; it has the watermark of the tick
\* from its decision on, and before it an older one.
TurnsInv ==
    /\ QueuesInv
    /\ \A a \in Agents :
         /\ mind[a] # "idle" => phase = "micro" /\ Turn(a)
         /\ mind[a] \in {"acting", "feeding"} => lastSeen[a] = t
         /\ mind[a] \in {"idle", "thinking"} /\ Queued(a) => lastSeen[a] < t
         /\ lastSeen[a] <= t /\ lastSeen[a] >= -1
         /\ phase = "scripts" => lastSeen[a] < t

\* The head of a queue, taken away, is in none.
LEMMA EndTurnQueues ==
    ASSUME queue \in [Places -> Seq(Agents)], QueuesInv, phase = "micro",
           phase' = "micro", NEW a \in Agents, Turn(a), EndTurn(a)
    PROVE  /\ QueuesInv'
           /\ ~Queued(a)'
           /\ \A b \in Agents : Queued(b)' => Queued(b)
           /\ \A b \in Agents \ {a} : Turn(b) => Turn(b)'
<1>1. ASSUME NEW p \in Places
      PROVE  /\ Len(queue'[p]) \in Nat
             /\ queue'[p] = IF queue[p] # <<>> /\ Head(queue[p]) = a
                            THEN Tail(queue[p]) ELSE queue[p]
  BY DEF EndTurn
<1>2. PICK p0 \in Places : queue[p0] # <<>> /\ Head(queue[p0]) = a
  BY DEF Turn
<1>3. \A p \in Places : (queue[p] # <<>> /\ Head(queue[p]) = a) <=> p = p0
  <2>1. \A p \in Places : queue[p] # <<>> => 1 \in 1..Len(queue[p])
                                            /\ Head(queue[p]) = queue[p][1]
    OBVIOUS
  <2> QED
    BY <1>2, <2>1 DEF QueuesInv
<1>4. ASSUME NEW p \in Places \ {p0} PROVE queue'[p] = queue[p]
  BY <1>1, <1>3
<1>5. /\ Len(queue'[p0]) = Len(queue[p0]) - 1
      /\ \A i \in 1..Len(queue'[p0]) : /\ i + 1 \in 1..Len(queue[p0])
                                       /\ queue'[p0][i] = queue[p0][i + 1]
  <2>1. queue[p0] \in Seq(Agents) /\ queue[p0] # <<>> /\ queue'[p0] = Tail(queue[p0])
    BY <1>1, <1>2
  <2> QED
    BY ONLY <2>1
<1>6. ASSUME NEW p \in Places, NEW q \in Places,
             NEW i \in 1..Len(queue'[p]), NEW j \in 1..Len(queue'[q]),
             queue'[p][i] = queue'[q][j]
      PROVE  p = q /\ i = j
  <2>1. PICK u \in 1..Len(queue[p]) : /\ u = IF p = p0 THEN i + 1 ELSE i
                                      /\ queue'[p][i] = queue[p][u]
    BY <1>4, <1>5
  <2>2. PICK v \in 1..Len(queue[q]) : /\ v = IF q = p0 THEN j + 1 ELSE j
                                      /\ queue'[q][j] = queue[q][v]
    BY <1>4, <1>5
  <2>3. p = q /\ u = v
    <3>1. queue[p][u] = queue[q][v]
      BY <1>6, <2>1, <2>2
    <3> QED
      BY ONLY QueuesInv, <3>1, p \in Places, q \in Places,
              u \in 1..Len(queue[p]), v \in 1..Len(queue[q]) DEF QueuesInv
  <2>4. i \in Nat /\ j \in Nat
    BY <1>1
  <2> QED
    BY <2>1, <2>2, <2>3, <2>4
<1>7. ~Queued(a)'
  <2>1. \A i \in 1..Len(queue'[p0]) : queue'[p0][i] # a
    BY <1>2, <1>5 DEF QueuesInv
  <2>2. \A p \in Places \ {p0} : \A i \in 1..Len(queue'[p]) : queue'[p][i] # a
    BY <1>2, <1>4 DEF QueuesInv
  <2> QED
    BY <2>1, <2>2 DEF Queued
<1>8. ASSUME NEW b \in Agents, Queued(b)' PROVE Queued(b)
  BY <1>4, <1>5, <1>8 DEF Queued
<1>9. ASSUME NEW b \in Agents \ {a}, Turn(b) PROVE Turn(b)'
  BY <1>1, <1>9 DEF Turn
<1> QED
  BY <1>6, <1>7, <1>8, <1>9 DEF QueuesInv

\* The agent at the head of a queue is in it.
LEMMA TurnIsQueued ==
    ASSUME queue \in [Places -> Seq(Agents)], NEW a \in Agents, Turn(a)
    PROVE  Queued(a)
<1>1. PICK p \in Places : queue[p] # <<>> /\ Head(queue[p]) = a
  BY DEF Turn
<1>2. 1 \in 1..Len(queue[p]) /\ queue[p][1] = a
  BY <1>1
<1> QED
  BY <1>2 DEF Queued

\* The shuffle leaves nobody out.
LEMMA OrdersCover ==
    ASSUME NEW S \in SUBSET Agents, NEW q \in Orders(S), NEW a \in S
    PROVE  \E i \in 1..Len(q) : q[i] = a
<1> DEFINE N == Cardinality(S)
           D == 1..N
           T == S \ {a}
<1>1. IsFiniteSet(S) /\ N \in Nat
  BY WiringAssumption, FS_Subset, FS_CardinalityType
<1>2. q \in [D -> S] /\ \A i, j \in D : i # j => q[i] # q[j]
  BY DEF Orders, SetToSeqs
<1>3. Len(q) = N
  BY <1>1, <1>2
<1>4. IsFiniteSet(D) /\ Cardinality(D) = N
  BY <1>1, FS_Interval
<1>5. IsFiniteSet(T) /\ Cardinality(T) = N - 1
  BY <1>1, FS_RemoveElement
<1>6. SUFFICES ASSUME \A i \in D : q[i] # a PROVE FALSE
  BY <1>3
<1>7. q \in [D -> T]
  BY <1>2, <1>6
<1>8. Cardinality(T) < Cardinality(D)
  BY <1>1, <1>4, <1>5
<1> HIDE DEF N, D, T
<1>9. \E i, j \in D : i # j /\ q[i] = q[j]
  BY <1>4, <1>5, <1>7, <1>8, FS_PigeonHole
<1> QED
  BY <1>2, <1>9

\* The prelude queues the active agents that have a place.
LEMMA PreludeQueues ==
    ASSUME TypeOK, Prelude
    PROVE  /\ QueuesInv'
           /\ \A p \in Places : \A i \in 1..Len(queue'[p]) : L[queue'[p][i]] = p
           /\ ActiveSets = {Agents} =>
                \A a \in Agents : L[a] # NoPlace => Queued(a)'
<1>1. PICK active \in ActiveSets :
        queue' \in {q \in [Places -> UNION {Orders(S) : S \in SUBSET Agents}] :
                       \A p \in Places : q[p] \in Orders({a \in active : L[a] = p})}
  BY DEF Prelude
<1>2. \A p \in Places : /\ {a \in active : L[a] = p} \in SUBSET Agents
                        /\ queue'[p] \in Orders({a \in active : L[a] = p})
  BY <1>1, WiringAssumption
<1>3. \A p \in Places : \A i, j \in 1..Len(queue'[p]) :
         /\ L[queue'[p][i]] = p
         /\ i # j => queue'[p][i] # queue'[p][j]
  BY <1>2, OrdersTyped
<1>4. L' = L /\ phase' = "micro"
  BY DEF Prelude, Bus!SweepUndelivered, Bus!world
<1>5. ASSUME ActiveSets = {Agents}, NEW a \in Agents, L[a] # NoPlace
      PROVE  Queued(a)'
  <2>1. L[a] \in Places /\ a \in {b \in active : L[b] = L[a]}
    BY <1>1, <1>5 DEF TypeOK, Bus!TypeOK
  <2>2. PICK q : q = queue'[L[a]]
    OBVIOUS
  <2>3. \E i \in 1..Len(q) : q[i] = a
    <3>1. PICK S \in SUBSET Agents : S = {b \in active : L[b] = L[a]}
      BY <1>2, <2>1
    <3>2. q \in Orders(S) /\ a \in S
      BY <1>2, <2>1, <2>2, <3>1
    <3> QED
      BY <3>2, OrdersCover
  <2> QED
    BY <2>1, <2>2, <2>3 DEF Queued
<1>6. ASSUME NEW p \in Places, NEW q \in Places,
             NEW i \in 1..Len(queue'[p]), NEW j \in 1..Len(queue'[q]),
             queue'[p][i] = queue'[q][j]
      PROVE  p = q /\ i = j
  <2>1. p = q
    BY <1>3, <1>6
  <2> QED
    BY <1>3, <1>6, <2>1
<1> QED
  BY <1>3, <1>4, <1>5, <1>6 DEF QueuesInv

\* A tool call leaves the clock, the places and the turns alone.
LEMMA DispatchFrame ==
    ASSUME NEW a \in Agents, Dispatch(a)
    PROVE  /\ UNCHANGED <<t, L, phase, queue, lastSeen, shown, been>>
           /\ mind[a] = "acting"
           /\ mind' = mind \/ mind' = [mind EXCEPT ![a] = "feeding"]
<1>1. ASSUME NEW b, SendMessage(a, b)
      PROVE  UNCHANGED <<t, L, phase, queue, lastSeen, shown, been, mind>> /\ mind[a] = "acting"
  BY <1>1 DEF SendMessage, Call
<1>2. ASSUME NEW p, RequestMove(a, p)
      PROVE  UNCHANGED <<t, L, phase, queue, lastSeen, shown, been, mind>> /\ mind[a] = "acting"
  BY <1>2 DEF RequestMove, Call
<1>3. ASSUME NEW b, ChangeCapability(a, b)
      PROVE  UNCHANGED <<t, L, phase, queue, lastSeen, shown, been, mind>> /\ mind[a] = "acting"
  BY <1>3 DEF ChangeCapability, Call, Bus!Grant, Bus!Revoke
<1>4. CASE Speak(a) \/ Feed(a)
  BY <1>4 DEF Speak, Feed, Call
<1>5. CASE UseGroup(a)
  BY <1>5 DEF UseGroup, Call, Bus!SendToGroup, Bus!CreateGroup, Bus!JoinGroup,
     Bus!LeaveGroup, Bus!RemoveMember, Bus!world
<1> QED
  BY <1>1, <1>2, <1>3, <1>4, <1>5 DEF Dispatch

\* The end of a turn.
LEMMA EndTurnStep ==
    ASSUME TypeOK, TurnsInv, NEW a \in Agents, FailDecision(a) \/ Finish(a)
    PROVE  TurnsInv'
<1>1. /\ UNCHANGED <<t, L, phase>> /\ EndTurn(a)
      /\ mind' = [mind EXCEPT ![a] = "idle"] /\ mind[a] # "idle"
      /\ lastSeen' = lastSeen \/ MarkSeen(a)
  BY DEF FailDecision, Finish
<1>2. phase = "micro" /\ Turn(a) /\ queue \in [Places -> Seq(Agents)]
  BY <1>1 DEF TurnsInv, TypeOK
<1>3. /\ QueuesInv'
      /\ ~Queued(a)'
      /\ \A b \in Agents : Queued(b)' => Queued(b)
      /\ \A b \in Agents \ {a} : Turn(b) => Turn(b)'
  BY <1>1, <1>2, EndTurnQueues DEF TurnsInv
<1>4. /\ t \in Nat
      /\ mind \in [Agents -> {"idle", "thinking", "acting", "feeding"}]
      /\ lastSeen \in [Agents -> Int]
  BY DEF TypeOK, Bus!TypeOK
<1>5. mind'[a] = "idle" /\ lastSeen'[a] \in Int /\ lastSeen'[a] <= t
      /\ lastSeen'[a] >= -1
  BY <1>1, <1>4 DEF MarkSeen, TurnsInv
<1>6. \A b \in Agents \ {a} : mind'[b] = mind[b] /\ lastSeen'[b] = lastSeen[b]
  BY <1>1, <1>4 DEF MarkSeen
<1> QED
  BY <1>1, <1>2, <1>3, <1>5, <1>6 DEF TurnsInv

\* The places take turns as said.
LEMMA TurnsStep == TypeOK /\ TurnsInv /\ [Next]_vars => TurnsInv'
<1> SUFFICES ASSUME TypeOK, TurnsInv, [Next]_vars PROVE TurnsInv'
  OBVIOUS
<1>0. /\ t \in Nat
      /\ mind \in [Agents -> {"idle", "thinking", "acting", "feeding"}]
      /\ lastSeen \in [Agents -> Int]
      /\ queue \in [Places -> Seq(Agents)]
  BY DEF TypeOK, Bus!TypeOK
<1>1. ASSUME phase # "micro", UNCHANGED <<t, mind, queue, lastSeen>>,
             phase' = phase
      PROVE  TurnsInv'
  BY <1>0, <1>1 DEF TurnsInv, QueuesInv, Queued, Turn
<1>2. CASE ScriptEffect
  BY <1>1, <1>2 DEF ScriptEffect, Bus!Move, Bus!Grant, Bus!Revoke
<1>3. CASE Prelude
  <2>1. /\ phase = "scripts" /\ phase' = "micro"
        /\ UNCHANGED <<t, mind, lastSeen>>
    BY <1>3 DEF Prelude, Bus!SweepUndelivered, Bus!world
  <2>2. \A a \in Agents : mind[a] = "idle" /\ lastSeen[a] < t
    BY <2>1 DEF TurnsInv
  <2> QED
    BY <1>3, <2>1, <2>2, PreludeQueues DEF TurnsInv
<1>4. ASSUME NEW a \in Agents, Perceive(a) PROVE TurnsInv'
  <2>1. UNCHANGED <<t, L, phase, queue, lastSeen>> /\ phase = "micro" /\ Turn(a)
        /\ mind[a] = "idle" /\ mind' = [mind EXCEPT ![a] = "thinking"]
    BY <1>4 DEF Perceive
  <2> QED
    BY <1>0, <2>1 DEF TurnsInv, QueuesInv, Queued, Turn
<1>5. ASSUME NEW a \in Agents, Decide(a) PROVE TurnsInv'
  <2>1. /\ UNCHANGED <<t, L, phase, queue>> /\ phase = "micro"
        /\ mind[a] = "thinking" /\ mind' = [mind EXCEPT ![a] = "acting"]
        /\ lastSeen' = [lastSeen EXCEPT ![a] = t]
    BY <1>5 DEF Decide, MarkSeen
  <2> QED
    BY <1>0, <2>1 DEF TurnsInv, QueuesInv, Queued, Turn
<1>6. ASSUME NEW a \in Agents, Dispatch(a) PROVE TurnsInv'
  <2>1. /\ UNCHANGED <<t, L, phase, queue, lastSeen>> /\ mind[a] = "acting"
        /\ mind' = mind \/ mind' = [mind EXCEPT ![a] = "feeding"]
    BY <1>6, DispatchFrame
  <2>2. \A b \in Agents \ {a} : mind'[b] = mind[b]
    BY <1>0, <2>1
  <2>3. mind'[a] \in {"acting", "feeding"}
    BY <1>0, <2>1
  <2>4. QueuesInv' /\ \A b \in Agents : Turn(b)' = Turn(b) /\ Queued(b)' = Queued(b)
    BY <2>1 DEF TurnsInv, QueuesInv, Queued, Turn
  <2> QED
    BY <2>1, <2>2, <2>3, <2>4 DEF TurnsInv
<1>7. ASSUME NEW a \in Agents, FeedDone(a) PROVE TurnsInv'
  <2>1. UNCHANGED <<t, L, phase, queue, lastSeen>> /\ phase = "micro"
        /\ mind[a] = "feeding" /\ mind' = [mind EXCEPT ![a] = "acting"]
    BY <1>7 DEF FeedDone
  <2> QED
    BY <1>0, <2>1 DEF TurnsInv, QueuesInv, Queued, Turn
<1>8. CASE EndMicro
  <2>1. /\ phase' = "commit" /\ \A p \in Places : queue[p] = <<>>
        /\ UNCHANGED <<t, L, mind, queue, lastSeen>>
    BY <1>8 DEF EndMicro
  <2>2. \A a \in Agents : ~Turn(a)
    BY <2>1 DEF Turn
  <2> QED
    BY <1>0, <2>1, <2>2 DEF TurnsInv, QueuesInv, Queued, Turn
<1>9. CASE CommitMove
  BY <1>1, <1>9 DEF CommitMove, Bus!Move
<1>10. CASE Advance
  <2>1. /\ phase = "commit" /\ phase' = "scripts" /\ t' = t + 1
        /\ UNCHANGED <<mind, queue, lastSeen>>
    BY <1>10 DEF Advance, Bus!AdvanceClock
  <2>2. \A a \in Agents : mind[a] = "idle" /\ lastSeen[a] <= t
    BY <2>1 DEF TurnsInv
  <2> QED
    BY <1>0, <2>1, <2>2 DEF TurnsInv, QueuesInv, Queued, Turn
<1>11. CASE UNCHANGED vars
  BY <1>11 DEF vars, step_vars, TurnsInv, QueuesInv, Queued, Turn
<1>12. ASSUME NEW a \in Agents, NEW p \in Places, MoveAgent(a, p)
       PROVE  TurnsInv'
  BY <1>12 DEF MoveAgent, Bus!Move, TurnsInv, QueuesInv, Queued, Turn
<1> QED
  BY <1>2, <1>3, <1>4, <1>5, <1>6, <1>7, <1>8, <1>9, <1>10, <1>11, <1>12,
     EndTurnStep DEF Next, Micro, Stopped

-----------------------------------------------------------------------------
(* The identity of a row, and when it was written *)

SameKey(r, q) == r.channel = q.channel /\ r.id = q.id /\ r.recipient = q.recipient

DirectKeys ==
    /\ \A r \in direct : r.id <= nDirect
    /\ \A r, q \in direct : SameKey(r, q) => r = q

\* Channel, number and recipient identify a row, and no row is from the future.
RowsInv ==
    /\ DirectKeys
    /\ \A r \in Rows : /\ r.attempted <= t
                       /\ phase = "scripts" => r.attempted < t

\* A direct message or an utterance takes the next number.
LEMMA DirectKeysStep == TypeOK /\ DirectKeys /\ [Next]_vars => DirectKeys'
<1> SUFFICES ASSUME TypeOK, DirectKeys, [Next]_vars PROVE DirectKeys'
  OBVIOUS
<1>1. CASE UNCHANGED <<direct, nDirect>>
  BY <1>1 DEF DirectKeys
<1>2. ASSUME NEW new, direct' = direct \union new, nDirect' = nDirect + 1,
             \A r \in new : r.id = nDirect + 1,
             \A r, q \in new : r.recipient = q.recipient => r = q
      PROVE  DirectKeys'
  <2>1. nDirect \in Nat /\ \A r \in direct : r.id \in Nat /\ r.id <= nDirect
    BY DEF TypeOK, DirectKeys
  <2> QED
    BY <1>2, <2>1 DEF DirectKeys, SameKey
<1>3. ASSUME NEW a \in Agents, Speak(a) PROVE DirectKeys'
  <2> DEFINE new == {[channel |-> "F2F", id |-> nDirect', sender |-> a,
                      recipient |-> b, place |-> L[a], attempted |-> t,
                      arrive |-> t, delivered |-> 1] :
                       b \in {b \in Agents \ {a} : L[a] # NoPlace /\ L[b] = L[a]}}
  <2>1. direct' = direct \union new /\ nDirect' = nDirect + 1
    BY <1>3 DEF Speak
  <2>2. /\ \A r \in new : r.id = nDirect + 1
        /\ \A r, q \in new : r.recipient = q.recipient => r = q
    BY <2>1
  <2> HIDE DEF new
  <2> QED
    BY <1>2, <2>1, <2>2
<1>4. ASSUME NEW a \in Agents, NEW b \in Agents, SendMessage(a, b)
      PROVE  DirectKeys'
  <2> DEFINE ok == phi_rdc(a, b)
             new == {[channel |-> "RDC", id |-> nDirect', sender |-> a,
                      recipient |-> b, place |-> L[a], attempted |-> t,
                      arrive |-> IF ok THEN t + Latency[<<L[a], L[b]>>] ELSE t,
                      delivered |-> IF ok THEN 1 ELSE 0]}
  <2>1. direct' = direct \union new /\ nDirect' = nDirect + 1
    BY <1>4 DEF SendMessage
  <2> HIDE DEF ok
  <2>2. /\ \A r \in new : r.id = nDirect + 1
        /\ \A r, q \in new : r.recipient = q.recipient => r = q
    BY <2>1
  <2> HIDE DEF new
  <2> QED
    BY <1>2, <2>1, <2>2
<1> QED
  BY <1>1, <1>3, <1>4 DEF Next, Micro, Dispatch, ScriptEffect, Prelude, Perceive,
     Decide, FailDecision, UseGroup, RequestMove, ChangeCapability, Feed,
     FeedDone, Finish, EndMicro, CommitMove, Advance, MoveAgent, Stopped, vars,
     step_vars

\* The keys of all rows.
LEMMA RowKeys ==
    ASSUME TypeOK, ChannelInv, DirectKeys, NEW r \in Rows, NEW q \in Rows,
           SameKey(r, q)
    PROVE  r = q
<1>1. CASE r \in direct /\ q \in direct
  BY <1>1 DEF DirectKeys
<1>2. ASSUME NEW c \in dm, NEW d \in dm, r = GroupRow(c), q = GroupRow(d)
      PROVE  r = q
  <2>1. Channel!SameCopy(c, d)
    BY <1>2 DEF SameKey, GroupRow, Channel!SameCopy
  <2> QED
    BY <1>2, <2>1 DEF ChannelInv, Channel!CopyKeys
<1>3. \A c \in dm : GroupRow(c).channel = "GRP"
  BY DEF GroupRow
<1>4. \A c \in direct : c.channel # "GRP"
  BY DEF TypeOK
<1> QED
  BY <1>1, <1>2, <1>3, <1>4 DEF Rows, SameKey

\* No step breaks what holds of the rows.
LEMMA RowsInvStep ==
    TypeOK /\ TurnsInv /\ RowsInv /\ [Next]_vars /\ TypeOK' => RowsInv'
<1> SUFFICES ASSUME TypeOK, TurnsInv, RowsInv, [Next]_vars, TypeOK'
             PROVE  RowsInv'
  OBVIOUS
<1>1. DirectKeys'
  BY DirectKeysStep DEF RowsInv
<1>2. t \in Nat /\ t' \in Nat
  BY DEF TypeOK, Bus!TypeOK
<1>3. \/ UNCHANGED <<t, phase>>
      \/ t' = t /\ phase' # "scripts"
      \/ t' = t + 1 /\ phase = "commit"
  BY DispatchFrame DEF Next, Micro, ScriptEffect, Bus!Move, Bus!Grant,
     Bus!Revoke, Prelude, Bus!SweepUndelivered, Bus!world, Perceive, Decide,
     FailDecision, FeedDone, Finish, EndMicro, CommitMove, Advance,
     Bus!AdvanceClock, MoveAgent, Stopped, vars, step_vars
<1>4. ASSUME NEW q \in Rows'
      PROVE  q.attempted <= t' /\ (phase' = "scripts" => q.attempted < t')
  <2>1. q.attempted \in Nat /\ q.sender \in Agents
    <3>1. Rows' \subseteq RowSet
      BY RowsTyped, RowsTypedPrimed
    <3> QED
      BY <3>1 DEF RowSet
  <2>2. CASE Born(q)
    <3>1. phase = "micro" /\ q.attempted = t
      BY <2>1, <2>2 DEF Born, TurnsInv
    <3> QED
      BY <1>2, <1>3, <3>1
  <2>3. ASSUME NEW r \in Rows, Heir(r, q)
        PROVE  q.attempted <= t' /\ (phase' = "scripts" => q.attempted < t')
    BY <1>2, <1>3, <2>1, <2>3 DEF Heir, RowsInv
  <2> QED
    BY <2>2, <2>3, RowsStep DEF RowsEvolve
<1> QED
  BY <1>1, <1>4 DEF RowsInv

-----------------------------------------------------------------------------
(* What a perception has shown *)

ShownSlice(name) == {s \in shown : s.slice = name}

\* An incoming message is a delivered row that had arrived; a reported failure
\* is a row attempted in the tick before; what was shown lies behind the
\* watermark, unless the agent still thinks about it.
ShownInv ==
    /\ \A s \in ShownSlice("incoming") :
         \E r \in Rows : /\ SameKey(r, s) /\ r.recipient = s.agent
                         /\ r.delivered = 1 /\ r.arrive <= s.at
    /\ \A s \in ShownSlice("failed") :
         \E r \in Rows : /\ SameKey(r, s) /\ r.sender = s.agent
                         /\ r.attempted = s.at - 1
    /\ \A s \in shown : \/ s.at <= lastSeen[s.agent]
                        \/ mind[s.agent] = "thinking" /\ s.at = t
    /\ ShownOnce

\* Only a perception adds to what was shown.
LEMMA ShownFrame ==
    ASSUME [Next]_vars, ~\E a \in Agents : Perceive(a)
    PROVE  shown' = shown
BY DispatchFrame DEF Next, Micro, ScriptEffect, Prelude, Decide, FailDecision,
   FeedDone, Finish, EndMicro, CommitMove, Advance, MoveAgent, Stopped, vars,
   step_vars

\* The watermark of an agent moves to the current tick when it has decided,
\* and an agent leaves its thoughts only so.
LEMMA MarkFrame ==
    ASSUME TypeOK, TurnsInv, [Next]_vars, NEW a \in Agents
    PROVE  \/ lastSeen'[a] = lastSeen[a] /\ (mind[a] = "thinking" =>
                                       mind'[a] = "thinking" /\ t' = t)
           \/ lastSeen'[a] = t /\ t' = t /\ mind[a] = "thinking"
<1>0. /\ mind \in [Agents -> {"idle", "thinking", "acting", "feeding"}]
      /\ lastSeen \in [Agents -> Int]
  BY DEF TypeOK
<1> DEFINE Goal == \/ lastSeen'[a] = lastSeen[a] /\ (mind[a] = "thinking" =>
                                       mind'[a] = "thinking" /\ t' = t)
                   \/ lastSeen'[a] = t /\ t' = t /\ mind[a] = "thinking"
<1>1. ASSUME NEW b \in Agents, Micro(b) PROVE Goal
  <2>1. CASE Perceive(b)
    BY <1>0, <2>1 DEF Perceive
  <2>2. CASE Decide(b) \/ FailDecision(b)
    BY <1>0, <2>2 DEF Decide, FailDecision, MarkSeen
  <2>3. CASE Dispatch(b)
    BY <1>0, <2>3, DispatchFrame
  <2>4. CASE FeedDone(b) \/ Finish(b)
    BY <1>0, <2>4 DEF FeedDone, Finish
  <2> QED
    BY <1>1, <2>1, <2>2, <2>3, <2>4 DEF Micro
<1>2. CASE ScriptEffect \/ Prelude \/ EndMicro \/ CommitMove \/ UNCHANGED vars
  BY <1>2 DEF ScriptEffect, Bus!Move, Bus!Grant, Bus!Revoke, Prelude,
     Bus!SweepUndelivered, Bus!world, EndMicro, CommitMove, vars, step_vars
<1>3. CASE Advance
  BY <1>3 DEF Advance, TurnsInv
<1>4. ASSUME NEW b, NEW p, MoveAgent(b, p) PROVE Goal
  BY <1>4 DEF MoveAgent, Bus!Move
<1> QED
  BY <1>1, <1>2, <1>3, <1>4 DEF Next, Stopped

\* What was shown keeps its row.
LEMMA ShownKeepsRows ==
    ASSUME RowsEvolve, NEW s, NEW r \in Rows, SameKey(r, s)
    PROVE  \E q \in Rows' : /\ SameKey(q, s) /\ q.sender = r.sender
                            /\ q.recipient = r.recipient
                            /\ q.attempted = r.attempted
                            /\ r.delivered = 1 => q.delivered = 1 /\ q.arrive = r.arrive
BY DEF RowsEvolve, Heir, SameKey

\* A perception shows an incoming row that lies between watermark and clock,
\* or the failure of a row of the tick before.
LEMMA PerceiveShows ==
    ASSUME TypeOK, NEW a \in Agents, Perceive(a), NEW s \in shown', s \notin shown
    PROVE  /\ s.agent = a /\ s.at = t
           /\ s.slice = "incoming" => \E r \in Incoming(a) : SameKey(r, s)
           /\ s.slice = "failed" => \E r \in RecentFailed(a) : SameKey(r, s)
BY DEF Perceive, Shown, SameKey

\* No step shows a row in two slices, or again.
LEMMA ShownInvStep ==
    TypeOK /\ ChannelInv /\ TurnsInv /\ RowsInv /\ ShownInv /\ [Next]_vars
      /\ TypeOK' => ShownInv'
<1> SUFFICES ASSUME TypeOK, ChannelInv, TurnsInv, RowsInv, ShownInv, [Next]_vars,
                    TypeOK'
             PROVE  ShownInv'
  OBVIOUS
<1>0. /\ t \in Nat /\ \A s \in shown : s.agent \in Agents /\ s.at \in Nat
      /\ lastSeen \in [Agents -> Int]
      /\ mind \in [Agents -> {"idle", "thinking", "acting", "feeding"}]
  BY DEF TypeOK, Bus!TypeOK
<1>1. RowsEvolve
  BY RowsStep
<1>2. ASSUME NEW s \in shown
      PROVE  /\ s.slice = "incoming" =>
                  \E r \in Rows' : /\ SameKey(r, s) /\ r.recipient = s.agent
                                   /\ r.delivered = 1 /\ r.arrive <= s.at
             /\ s.slice = "failed" =>
                  \E r \in Rows' : /\ SameKey(r, s) /\ r.sender = s.agent
                                   /\ r.attempted = s.at - 1
  BY <1>1, ShownKeepsRows DEF ShownInv, ShownSlice
<1>3. ASSUME NEW s \in shown
      PROVE  \/ s.at <= lastSeen'[s.agent]
             \/ mind'[s.agent] = "thinking" /\ s.at = t'
  <2>1. s.agent \in Agents /\ s.at \in Nat /\ lastSeen[s.agent] <= t
    BY <1>0 DEF TurnsInv
  <2>2. s.at <= lastSeen[s.agent] \/ (mind[s.agent] = "thinking" /\ s.at = t)
    BY DEF ShownInv
  <2>3. PICK a \in Agents : a = s.agent
    BY <2>1
  <2> QED
    BY <1>0, <2>1, <2>2, <2>3, MarkFrame
<1>4. CASE ~\E a \in Agents : Perceive(a)
  <2>1. shown' = shown
    BY <1>4, ShownFrame
  <2> QED
    BY <1>2, <1>3, <2>1 DEF ShownInv, ShownSlice, ShownOnce
<1>5. ASSUME NEW a \in Agents, Perceive(a) PROVE ShownInv'
  <2>1. Rows' = Rows /\ t' = t /\ lastSeen' = lastSeen /\ mind[a] = "idle"
        /\ mind' = [mind EXCEPT ![a] = "thinking"] /\ shown \subseteq shown'
    BY <1>5 DEF Perceive, Rows, GroupRow, bus_vars
  <2>2. ASSUME NEW s \in shown', s \notin shown
        PROVE  /\ s.agent = a /\ s.at = t
               /\ s.slice = "incoming" =>
                    \E r \in Rows : /\ SameKey(r, s) /\ r.recipient = a
                                    /\ r.delivered = 1 /\ r.arrive <= t
                                    /\ lastSeen[a] < r.arrive
               /\ s.slice = "failed" =>
                    \E r \in Rows : /\ SameKey(r, s) /\ r.sender = a
                                    /\ r.attempted = t - 1
    BY <1>5, <2>2, PerceiveShows DEF Incoming, RecentFailed
  <2>3. \A s \in ShownSlice("incoming")' :
          \E r \in Rows' : /\ SameKey(r, s) /\ r.recipient = s.agent
                           /\ r.delivered = 1 /\ r.arrive <= s.at
    BY <1>2, <2>1, <2>2 DEF ShownSlice
  <2>4. \A s \in ShownSlice("failed")' :
          \E r \in Rows' : /\ SameKey(r, s) /\ r.sender = s.agent
                           /\ r.attempted = s.at - 1
    BY <1>2, <2>1, <2>2 DEF ShownSlice
  <2>5. \A s \in shown' : \/ s.at <= lastSeen'[s.agent]
                          \/ mind'[s.agent] = "thinking" /\ s.at = t'
    BY <1>0, <1>3, <2>1, <2>2
  <2>6. ASSUME NEW x \in shown', NEW y \in shown',
               x.slice \in {"incoming", "failed"}, [x EXCEPT !.at = y.at] = y
        PROVE  x = y
    <3>1. /\ x.slice = y.slice /\ x.agent = y.agent /\ SameKey(x, y)
          /\ x.at = y.at => x = y
      BY <2>6 DEF TypeOK, SameKey
    <3>2. CASE x.slice = "failed"
      <4>1. PICK r \in Rows, q \in Rows : /\ SameKey(r, x) /\ r.attempted = x.at - 1
                                          /\ SameKey(q, y) /\ q.attempted = y.at - 1
        BY <2>1, <2>4, <3>1, <3>2 DEF ShownSlice
      <4>2. r = q
        BY <3>1, <4>1, RowKeys DEF SameKey, RowsInv
      <4>3. x.at \in Nat /\ y.at \in Nat
        BY <2>6 DEF TypeOK
      <4> QED
        BY <3>1, <4>1, <4>2, <4>3
    <3>3. CASE x.slice = "incoming"
      <4>1. ASSUME NEW u \in shown, NEW v \in shown', v \notin shown,
                   SameKey(u, v), u.agent = v.agent, u.slice = "incoming",
                   v.slice = "incoming"
            PROVE  FALSE
        <5>1. PICK q \in Rows : /\ SameKey(q, v) /\ lastSeen[a] < q.arrive
          BY <2>2, <4>1
        <5>2. u.agent = a /\ u.at <= lastSeen[a]
          BY <2>1, <2>2, <4>1 DEF ShownInv
        <5>3. PICK r \in Rows : SameKey(r, u) /\ r.arrive <= u.at
          BY <4>1 DEF ShownInv, ShownSlice
        <5>4. r = q
          BY <4>1, <5>1, <5>3, RowKeys DEF SameKey, RowsInv
        <5>5. r.arrive \in Nat /\ u.at \in Nat /\ lastSeen[a] \in Int
          BY <1>0, RowsTyped DEF RowSet
        <5> QED
          BY <5>1, <5>2, <5>3, <5>4, <5>5
      <4>2. CASE x \in shown /\ y \in shown
        <5>1. /\ x \in {s \in shown : s.slice \in {"incoming", "failed"}}
              /\ y \in {s \in shown : s.slice \in {"incoming", "failed"}}
          BY <3>1, <2>6, <4>2
        <5>2. [x EXCEPT !.at = y.at] = y
          BY <2>6
        <5>3. ShownOnce
          BY DEF ShownInv
        <5> QED
          BY ONLY <5>1, <5>2, <5>3, Zenon DEF ShownOnce
      <4>3. CASE x \notin shown /\ y \notin shown
        BY <2>2, <3>1, <4>3
      <4> QED
        BY <3>1, <3>3, <4>1, <4>2, <4>3 DEF SameKey
    <3> QED
      BY <2>6, <3>2, <3>3
  <2> QED
    BY <2>3, <2>4, <2>5, <2>6 DEF ShownInv, ShownSlice, ShownOnce
<1> QED
  BY <1>4, <1>5

-----------------------------------------------------------------------------
(* The invariant of the pipeline *)

\* Types, the channel's invariant, the turns, the rows and the perceptions.
PipelineInv == TypeOK /\ ChannelInv /\ TurnsInv /\ RowsInv /\ ShownInv

\* The parts hold when the world starts.
LEMMA PipelineInit == Init => PipelineInv
<1> SUFFICES ASSUME Init PROVE PipelineInv
  OBVIOUS
<1>1. ChannelInv
  BY ChannelInit DEF Init
<1>2. t = 0 /\ dm = {} /\ Rows = {}
  BY DEF Init, Bus!Init, Rows
<1>3. TypeOK
  <2>1. Bus!TypeOK /\ L \in [Agents -> Places \union {NoPlace}]
    BY <1>1 DEF ChannelInv, Bus!TypeOK
  <2> QED
    BY <1>2, <2>1 DEF Init, TypeOK
<1>4. TurnsInv
  BY <1>2 DEF Init, TurnsInv, QueuesInv
<1>5. RowsInv /\ ShownInv
  BY <1>2 DEF Init, RowsInv, DirectKeys, ShownInv, ShownSlice, ShownOnce
<1> QED
  BY <1>1, <1>3, <1>4, <1>5 DEF PipelineInv

\* Together they are inductive.
LEMMA PipelineStep == PipelineInv /\ [Next]_vars => PipelineInv'
<1> SUFFICES ASSUME PipelineInv, [Next]_vars PROVE PipelineInv'
  OBVIOUS
<1>1. MovesTyped
  BY DEF PipelineInv, TypeOK, MovesTyped
<1>2. ChannelInv'
  BY <1>1, StepIsBusStep, ChannelStep DEF PipelineInv
<1>3. TypeOK'
  BY <1>2, TypeStep DEF PipelineInv, ChannelInv
<1>4. TurnsInv' /\ RowsInv'
  BY <1>3, TurnsStep, RowsInvStep DEF PipelineInv
<1>5. ShownInv'
  BY <1>3, ShownInvStep DEF PipelineInv
<1> QED
  BY <1>2, <1>3, <1>4, <1>5 DEF PipelineInv

\* So they always hold.
LEMMA PipelineAlways == Spec => []PipelineInv
BY PipelineInit, PipelineStep, PTL DEF Spec

\* In every reachable state the variables of the pipeline have their types.
THEOREM PipelineTyped == Spec => []TypeOK
<1>1. PipelineInv => TypeOK
  BY DEF PipelineInv
<1> QED
  BY <1>1, PipelineAlways, PTL

\* No perception shows a message as incoming, or a failure as recent, that an
\* earlier perception of the same agent has shown.
THEOREM NothingShownTwice == Spec => []ShownOnce
<1>1. PipelineInv => ShownOnce
  BY DEF PipelineInv, ShownInv
<1> QED
  BY <1>1, PipelineAlways, PTL

-----------------------------------------------------------------------------
(* Lockstep *)

\* Group messages wait at least a tick, and so does what goes from one place
\* to another.
DelayedLinks ==
    /\ GrpDelay > 0
    /\ \A p, q \in Places : <<p, q>> \in Coverage /\ p # q
                               => Latency[<<p, q>>] > 0

\* Where an agent is, it has been in this tick.
PresentInv == phase = "micro" => \A a \in Agents : L[a] \in been[a]

\* A delivered row arrives when it was attempted or later; a row that arrives
\* at once was written in a place where its reader has been in this tick.
ArrivalInv ==
    \A r \in Rows : r.delivered = 1 =>
        /\ r.attempted <= r.arrive
        /\ r.channel = "F2F" => r.arrive = r.attempted
        /\ r.channel = "GRP" /\ GrpDelay > 0 => r.attempted < r.arrive
        /\ DelayedLinks /\ phase = "micro" /\ r.channel # "GRP"
           /\ r.attempted = t /\ r.arrive = t => r.place \in been[r.recipient]

\* During a micro-tick the clock stands still, and where an agent has been is
\* not forgotten.
LEMMA MicroFrame ==
    ASSUME TypeOK, [Next]_vars, phase' = "micro"
    PROVE  /\ t' = t
           /\ phase = "micro" \/ Prelude
           /\ phase = "micro" => \A a \in Agents : been[a] \subseteq been'[a]
<1>1. CASE Prelude
  BY <1>1 DEF Prelude, Bus!SweepUndelivered, Bus!world
<1>2. ASSUME NEW a \in Agents, Micro(a)
      PROVE  UNCHANGED <<t, phase, been>>
  BY <1>2, DispatchFrame DEF Micro, Perceive, Decide, FailDecision, FeedDone,
     Finish
<1>3. CASE UNCHANGED vars
  BY <1>3 DEF vars, step_vars
<1>4. ~(ScriptEffect \/ EndMicro \/ CommitMove \/ Advance)
  BY DEF ScriptEffect, EndMicro, CommitMove, Advance
<1>5. ASSUME NEW a \in Agents, NEW p \in Places, MoveAgent(a, p)
      PROVE  UNCHANGED <<t, phase>> /\ \A b \in Agents : been[b] \subseteq been'[b]
  BY <1>5 DEF MoveAgent, Bus!Move, TypeOK
<1> QED
  BY <1>1, <1>2, <1>3, <1>4, <1>5 DEF Next, Stopped

\* A command moves an agent to where it then has been; nothing else does
\* within a tick.
LEMMA PresentStep == TypeOK /\ PresentInv /\ [Next]_vars => PresentInv'
<1> SUFFICES ASSUME TypeOK, PresentInv, [Next]_vars, phase' = "micro",
                    NEW b \in Agents
             PROVE  L'[b] \in been'[b]
  BY DEF PresentInv
<1>1. CASE Prelude
  BY <1>1 DEF Prelude, Bus!SweepUndelivered, Bus!world
<1>2. ASSUME NEW a \in Agents, Micro(a)
      PROVE  UNCHANGED <<L, phase, been>>
  BY <1>2, DispatchFrame DEF Micro, Perceive, Decide, FailDecision, FeedDone,
     Finish
<1>3. CASE UNCHANGED vars
  BY <1>3 DEF vars, step_vars, PresentInv
<1>4. ~(ScriptEffect \/ EndMicro \/ CommitMove \/ Advance)
  BY DEF ScriptEffect, EndMicro, CommitMove, Advance
<1>5. ASSUME NEW a \in Agents, NEW p \in Places, MoveAgent(a, p)
      PROVE  L'[b] \in been'[b]
  <2>1. phase = "micro" /\ L[b] \in been[b]
    BY <1>5 DEF MoveAgent, PresentInv
  <2> QED
    BY <1>5, <2>1 DEF MoveAgent, Bus!Move, TypeOK, Bus!TypeOK
<1> QED
  BY <1>1, <1>2, <1>3, <1>4, <1>5 DEF Next, Stopped, PresentInv

\* A new row arrives when its channel says.
LEMMA BornArrives ==
    ASSUME TypeOK, NEW q \in RowSet, Born(q), q.delivered = 1
    PROVE  /\ q.attempted <= q.arrive /\ q.attempted = t
           /\ q.channel = "F2F" => q.arrive = q.attempted
           /\ q.channel = "GRP" => q.arrive = t + GrpDelay
           /\ DelayedLinks /\ q.channel # "GRP" /\ q.arrive = t
                => q.place = L[q.recipient]
<1>1. t \in Nat /\ GrpDelay \in Nat
  BY BusAssumption DEF TypeOK, Bus!TypeOK, Bus!DelayAssumption
<1>2. /\ q.channel \in Channels /\ q.attempted = t /\ q.place = L[q.sender]
      /\ q.channel = "GRP" => q.arrive = t + GrpDelay
      /\ q.channel = "F2F" => q.arrive = t /\ L[q.recipient] = q.place
  BY DEF RowSet, Born
<1>3. CASE q.channel = "RDC"
  <2>1. /\ <<L[q.sender], L[q.recipient]>> \in Coverage
        /\ q.arrive = t + Latency[<<L[q.sender], L[q.recipient]>>]
    BY <1>3 DEF Born
  <2>2. Latency[<<L[q.sender], L[q.recipient]>>] \in Nat
    BY <2>1, WiringAssumption
  <2>3. L[q.sender] \in Places /\ L[q.recipient] \in Places
    BY <2>1, BusAssumption DEF Bus!CoverageAssumption
  <2>4. DelayedLinks /\ L[q.sender] # L[q.recipient]
          => Latency[<<L[q.sender], L[q.recipient]>>] > 0
    BY <2>1, <2>3 DEF DelayedLinks
  <2> QED
    BY <1>1, <1>2, <1>3, <2>1, <2>2, <2>4
<1> QED
  BY <1>1, <1>2, <1>3 DEF Channels

\* Rows are written as it says, and their times never change.
LEMMA ArrivalStep ==
    PipelineInv /\ PresentInv /\ ArrivalInv /\ [Next]_vars /\ PipelineInv'
        => ArrivalInv'
<1> SUFFICES ASSUME PipelineInv, PresentInv, ArrivalInv, [Next]_vars,
                    PipelineInv', NEW q \in Rows', q.delivered = 1
             PROVE  /\ q.attempted <= q.arrive
                    /\ q.channel = "F2F" => q.arrive = q.attempted
                    /\ q.channel = "GRP" /\ GrpDelay > 0 => q.attempted < q.arrive
                    /\ DelayedLinks /\ phase' = "micro" /\ q.channel # "GRP"
                       /\ q.attempted = t' /\ q.arrive = t'
                         => q.place \in been'[q.recipient]
  BY DEF ArrivalInv, DelayedLinks
<1>1. /\ t \in Nat /\ GrpDelay \in Nat /\ q \in RowSet /\ TypeOK
      /\ q.recipient \in Agents /\ q.sender \in Agents /\ q.attempted \in Nat
  BY BusAssumption, RowsTypedPrimed
     DEF PipelineInv, TypeOK, Bus!TypeOK, Bus!DelayAssumption, RowSet
<1>2. CASE Born(q)
  <2>1. phase = "micro"
    BY <1>1, <1>2 DEF Born, PipelineInv, TurnsInv
  <2>2. phase' = "micro" => t' = t /\ been[q.recipient] \subseteq been'[q.recipient]
    BY <1>1, <2>1, MicroFrame
  <2>3. L[q.recipient] \in been[q.recipient]
    BY <1>1, <2>1 DEF PresentInv
  <2>4. /\ q.attempted <= q.arrive /\ q.attempted = t
        /\ q.channel = "F2F" => q.arrive = q.attempted
        /\ q.channel = "GRP" => q.arrive = t + GrpDelay
        /\ DelayedLinks /\ q.channel # "GRP" /\ q.arrive = t
             => q.place = L[q.recipient]
    BY <1>1, <1>2, BornArrives
  <2> QED
    BY <1>1, <2>2, <2>3, <2>4
<1>3. ASSUME NEW r \in Rows, Heir(r, q), r.delivered = 1
      PROVE  /\ q.attempted <= q.arrive
             /\ q.channel = "F2F" => q.arrive = q.attempted
             /\ q.channel = "GRP" /\ GrpDelay > 0 => q.attempted < q.arrive
             /\ DelayedLinks /\ phase' = "micro" /\ q.channel # "GRP"
                /\ q.attempted = t' /\ q.arrive = t'
                  => q.place \in been'[q.recipient]
  <2>1. /\ q.attempted = r.attempted /\ q.arrive = r.arrive
        /\ q.channel = r.channel /\ q.place = r.place /\ q.recipient = r.recipient
    BY <1>3 DEF Heir
  <2>2. r.attempted <= t /\ (phase = "scripts" => r.attempted < t)
    BY DEF PipelineInv, RowsInv
  <2>3. phase' = "micro" /\ r.attempted = t'
          => /\ phase = "micro" /\ t' = t
             /\ been[q.recipient] \subseteq been'[q.recipient]
    BY <1>1, <2>1, <2>2, MicroFrame DEF Prelude
  <2> QED
    BY <1>3, <2>1, <2>3 DEF ArrivalInv
<1>4. ASSUME NEW r \in Rows, Heir(r, q), r.delivered # 1
      PROVE  q.channel = "GRP" /\ q.attempted < q.arrive
  <2>1. q.channel = "GRP" /\ q.arrive = t /\ phase = "scripts"
        /\ q.attempted = r.attempted
    BY <1>4 DEF Heir
  <2> QED
    BY <2>1 DEF PipelineInv, RowsInv
<1> QED
  BY <1>1, <1>2, <1>3, <1>4, RowsStep DEF PipelineInv, RowsEvolve, RowSet

\* So both always hold.
LEMMA ArrivalAlways == Spec => []PresentInv /\ []ArrivalInv
<1>1. Init => PresentInv /\ ArrivalInv
  BY DEF Init, Bus!Init, PresentInv, ArrivalInv, Rows
<1>2. PipelineInv => TypeOK
  BY DEF PipelineInv
<1> QED
  BY <1>1, <1>2, PresentStep, ArrivalStep, PipelineAlways, PTL DEF Spec

\* If every link between different places takes a tick and so does a group
\* message, then what is read in the tick it was sent in is from no group and
\* comes from a place where the reader has been in that tick, whether or not
\* commands move agents while the places decide.
THEOREM LockstepKept == DelayedLinks => (Spec => SameTickMeansPresent)
<1> SUFFICES ASSUME DelayedLinks PROVE Spec => SameTickMeansPresent
  OBVIOUS
<1> DEFINE Step == \A s \in shown' \ shown : \A r \in Rows :
                     /\ s.slice = "incoming" /\ r.channel = s.channel
                     /\ r.id = s.id /\ r.recipient = s.recipient
                     /\ r.attempted = s.at
                     => r.channel # "GRP" /\ r.place \in been[s.agent]
<1>1. PipelineInv /\ ArrivalInv /\ [Next]_vars => [Step]_vars
  <2> SUFFICES ASSUME PipelineInv, ArrivalInv, [Next]_vars,
                      NEW s \in shown', s \notin shown, NEW r \in Rows,
                      s.slice = "incoming", SameKey(r, s), r.attempted = s.at
               PROVE  r.channel # "GRP" /\ r.place \in been[s.agent]
    BY DEF SameKey
  <2>1. PICK a \in Agents : Perceive(a)
    BY ShownFrame
  <2>2. /\ s.agent = a /\ s.at = t /\ phase = "micro"
        /\ \E q \in Incoming(a) : SameKey(q, s)
    BY <2>1, PerceiveShows DEF PipelineInv, Perceive
  <2>3. r \in Incoming(a)
    BY <2>2, RowKeys DEF Incoming, SameKey, PipelineInv, RowsInv
  <2>4. r.delivered = 1 /\ r.arrive <= t /\ r.recipient = a /\ r.attempted = t
    BY <2>2, <2>3 DEF Incoming
  <2>5. t \in Nat /\ r.arrive \in Nat /\ GrpDelay > 0
    BY RowsTyped DEF PipelineInv, TypeOK, Bus!TypeOK, RowSet, DelayedLinks
  <2> QED
    BY <2>2, <2>4, <2>5 DEF ArrivalInv
<1> QED
  BY <1>1, PipelineAlways, ArrivalAlways, PTL DEF Spec, SameTickMeansPresent

-----------------------------------------------------------------------------
(* Frames: what a step leaves of minds, places and perceptions *)

\* An agent begins to think by perceiving.
LEMMA ThinkFrame ==
    ASSUME TypeOK, TurnsInv, [Next]_vars, NEW a \in Agents, mind'[a] = "thinking"
    PROVE  t' = t /\ (mind[a] = "thinking" \/ Perceive(a))
<1>0. mind \in [Agents -> {"idle", "thinking", "acting", "feeding"}]
  BY DEF TypeOK
<1> DEFINE Goal == t' = t /\ (mind[a] = "thinking" \/ Perceive(a))
<1>1. ASSUME NEW b \in Agents, Micro(b) PROVE Goal
  <2>1. CASE Perceive(b)
    BY <1>0, <2>1 DEF Perceive
  <2>2. CASE Decide(b) \/ FailDecision(b)
    BY <1>0, <2>2 DEF Decide, FailDecision
  <2>3. CASE Dispatch(b)
    BY <1>0, <2>3, DispatchFrame
  <2>4. CASE FeedDone(b) \/ Finish(b)
    BY <1>0, <2>4 DEF FeedDone, Finish
  <2> QED
    BY <1>1, <2>1, <2>2, <2>3, <2>4 DEF Micro
<1>2. CASE ScriptEffect \/ Prelude \/ EndMicro \/ CommitMove \/ UNCHANGED vars
  <2>1. MovesTyped
    BY DEF TypeOK, MovesTyped
  <2> QED
    BY <1>2, <2>1 DEF ScriptEffect, Bus!Move, Bus!Grant, Bus!Revoke, Prelude,
       Bus!SweepUndelivered, Bus!world, EndMicro, CommitMove, vars, step_vars
<1>3. CASE Advance
  BY <1>3 DEF Advance, TurnsInv
<1>4. ASSUME NEW b, NEW p, MoveAgent(b, p) PROVE Goal
  BY <1>4 DEF MoveAgent, Bus!Move
<1> QED
  BY <1>1, <1>2, <1>3, <1>4 DEF Next, Stopped

\* What was shown stays shown, and is shown of the heir of a row as well.
LEMMA ShownStays ==
    ASSUME [Next]_vars, NEW slice, NEW a, NEW r, NEW q, Heir(r, q),
           WasShown(slice, a, r)
    PROVE  WasShown(slice, a, q)'
<1>1. shown \subseteq shown'
  BY ShownFrame DEF Perceive
<1> QED
  BY <1>1 DEF WasShown, Heir

\* The same of what was overheard in the tick after.
LEMMA HeardStays ==
    ASSUME [Next]_vars, NEW r, NEW q, Heir(r, q), HeardNext(r)
    PROVE  HeardNext(q)'
<1>1. shown \subseteq shown'
  BY ShownFrame DEF Perceive
<1> QED
  BY <1>1 DEF HeardNext, Heir

\* A perception overhears what was said a tick ago.
LEMMA PerceiveHears ==
    ASSUME NEW a \in Agents, Perceive(a), NEW r \in Overheard(a),
           r.attempted + 1 = t
    PROVE  HeardNext(r)'
<1>1. PICK s : s = [slice |-> "overheard", agent |-> a, at |-> t,
                    channel |-> r.channel, id |-> r.id,
                    recipient |-> r.recipient]
  OBVIOUS
<1>2. s \in shown' /\ r.recipient = a
  BY <1>1 DEF Perceive, Shown, Overheard
<1> QED
  BY <1>1, <1>2 DEF HeardNext

\* A perception shows its three slices.
LEMMA PerceiveAll ==
    ASSUME NEW a \in Agents, Perceive(a)
    PROVE  /\ \A r \in Incoming(a) : WasShown("incoming", a, r)'
           /\ \A r \in Overheard(a) : WasShown("overheard", a, r)'
           /\ \A r \in RecentFailed(a) : WasShown("failed", a, r)'
<1>1. ASSUME NEW slice, NEW rows, Shown(slice, a, rows) \subseteq shown',
             NEW r \in rows
      PROVE  WasShown(slice, a, r)'
  <2>1. PICK s : s = [slice |-> slice, agent |-> a, at |-> t,
                      channel |-> r.channel, id |-> r.id,
                      recipient |-> r.recipient]
    OBVIOUS
  <2>2. s \in shown'
    BY <1>1, <2>1 DEF Shown
  <2> QED
    BY <2>1, <2>2 DEF WasShown
<1>2. /\ Shown("incoming", a, Incoming(a)) \subseteq shown'
      /\ Shown("overheard", a, Overheard(a)) \subseteq shown'
      /\ Shown("failed", a, RecentFailed(a)) \subseteq shown'
  BY DEF Perceive
<1> QED
  BY <1>1, <1>2

\* An agent that has a place keeps one.
LEMMA PlacesFrame ==
    ASSUME TypeOK, [Next]_vars, NEW a \in Agents, L[a] # NoPlace
    PROVE  L'[a] # NoPlace
<1>0. L \in [Agents -> Places \union {NoPlace}] /\ NoPlace \notin Places
  BY BusAssumption DEF TypeOK, Bus!TypeOK, Bus!NoPlaceAssumption
<1>1. CASE L' = L
  BY <1>1
<1>2. ASSUME NEW b, NEW p, p # NoPlace, Bus!Move(b, p) PROVE L'[a] # NoPlace
  BY <1>0, <1>2 DEF Bus!Move
<1>3. CASE ScriptEffect
  BY <1>0, <1>1, <1>2, <1>3 DEF ScriptEffect, Bus!Grant, Bus!Revoke
<1>4. CASE CommitMove
  BY <1>1, <1>2, <1>4 DEF CommitMove
<1>5. CASE Prelude \/ EndMicro \/ Advance \/ UNCHANGED vars
  BY <1>1, <1>5 DEF Prelude, Bus!SweepUndelivered, Bus!world, EndMicro, Advance,
     Bus!AdvanceClock, vars
<1>6. ASSUME NEW b \in Agents, Micro(b) PROVE L' = L
  BY <1>6, DispatchFrame DEF Micro, Perceive, Decide, FailDecision, FeedDone,
     Finish
<1>7. ASSUME NEW b \in Agents, NEW p \in Places, MoveAgent(b, p)
      PROVE  L'[a] # NoPlace
  BY <1>0, <1>2, <1>7 DEF MoveAgent
<1> QED
  BY <1>1, <1>3, <1>4, <1>5, <1>6, <1>7 DEF Next, Stopped

\* Ending a turn takes nobody else from the queues.
LEMMA EndTurnKeeps ==
    ASSUME queue \in [Places -> Seq(Agents)], NEW a, EndTurn(a),
           NEW b \in Agents, b # a, Queued(b)
    PROVE  Queued(b)'
<1>1. PICK p \in Places : \E i \in 1..Len(queue[p]) : queue[p][i] = b
  BY DEF Queued
<1>2. queue'[p] = IF queue[p] # <<>> /\ Head(queue[p]) = a
                  THEN Tail(queue[p]) ELSE queue[p]
  BY DEF EndTurn
<1>3. queue[p] \in Seq(Agents)
  OBVIOUS
<1> PICK i \in 1..Len(queue[p]) : queue[p][i] = b
  BY <1>1
<1>4. CASE queue[p] # <<>> /\ Head(queue[p]) = a
  <2>1. i # 1 /\ queue'[p] = Tail(queue[p]) /\ queue[p] # <<>>
    BY <1>2, <1>4
  <2>2. i - 1 \in 1..Len(queue'[p]) /\ queue'[p][i - 1] = b
    BY <1>3, <2>1
  <2> QED
    BY <2>2 DEF Queued
<1>5. CASE ~(queue[p] # <<>> /\ Head(queue[p]) = a)
  BY <1>2, <1>5 DEF Queued
<1> QED
  BY <1>4, <1>5

\* Within a micro-tick, who is no longer queued has the watermark.
LEMMA QueueFrame ==
    ASSUME TypeOK, TurnsInv, [Next]_vars, phase = "micro",
           NEW a \in Agents, Queued(a)
    PROVE  Queued(a)' \/ lastSeen'[a] = t
<1>0. queue \in [Places -> Seq(Agents)] /\ lastSeen \in [Agents -> Int]
  BY DEF TypeOK
<1>1. CASE queue' = queue
  BY <1>1 DEF Queued
<1>2. ASSUME NEW b \in Agents, FailDecision(b) \/ Finish(b)
      PROVE  Queued(a)' \/ lastSeen'[a] = t
  <2>1. EndTurn(b)
    BY <1>2 DEF FailDecision, Finish
  <2>2. CASE a # b
    BY <1>0, <2>1, <2>2, EndTurnKeeps
  <2>3. lastSeen'[b] = t
    BY <1>0, <1>2 DEF FailDecision, Finish, MarkSeen, TurnsInv
  <2> QED
    BY <2>2, <2>3
<1>3. ASSUME NEW b \in Agents, Micro(b)
      PROVE  queue' = queue \/ FailDecision(b) \/ Finish(b)
  BY <1>3, DispatchFrame DEF Micro, Perceive, Decide, FeedDone
<1>4. CASE EndMicro \/ UNCHANGED vars
  BY <1>1, <1>4 DEF EndMicro, vars, step_vars
<1>5. ASSUME NEW b, NEW p, MoveAgent(b, p) PROVE queue' = queue
  BY <1>5 DEF MoveAgent
<1> QED
  BY <1>1, <1>2, <1>3, <1>4, <1>5 DEF Next, ScriptEffect, Prelude, CommitMove,
     Advance, Stopped

\* Only the prelude queues agents.
LEMMA QueuedFrame ==
    ASSUME TypeOK, TurnsInv, [Next]_vars, NEW a \in Agents, Queued(a)'
    PROVE  Queued(a) \/ Prelude
<1>0. queue \in [Places -> Seq(Agents)]
  BY DEF TypeOK
<1>1. CASE queue' = queue
  BY <1>1 DEF Queued
<1>2. ASSUME NEW b \in Agents, FailDecision(b) \/ Finish(b)
      PROVE  Queued(a)
  <2>1. /\ EndTurn(b) /\ phase' = phase
        /\ mind[b] # "idle"
    BY <1>2 DEF FailDecision, Finish
  <2>2. phase = "micro" /\ Turn(b) /\ QueuesInv
    BY <2>1 DEF TurnsInv
  <2> QED
    BY <1>0, <2>1, <2>2, EndTurnQueues
<1>3. ASSUME NEW b \in Agents, Micro(b)
      PROVE  queue' = queue \/ FailDecision(b) \/ Finish(b)
  BY <1>3, DispatchFrame DEF Micro, Perceive, Decide, FeedDone
<1> QED
  BY <1>1, <1>2, <1>3 DEF Next, ScriptEffect, EndMicro, CommitMove, Advance,
     MoveAgent, Stopped, vars, step_vars

-----------------------------------------------------------------------------
(* What the watermark passes over, and what is reported *)

\* A readable row behind the watermark, or before an agent that thinks, was
\* shown as incoming, unless it was there at once and from no group.
PassedInv ==
    \A r \in Rows :
        /\ r.delivered = 1
        /\ \/ r.arrive <= lastSeen[r.recipient]
           \/ mind[r.recipient] = "thinking" /\ r.arrive <= t
        => \/ WasShown("incoming", r.recipient, r)
           \/ r.channel # "GRP" /\ r.attempted = r.arrive

\* With a delay of groups, no other readable row gets behind a watermark unshown.
LEMMA PassedStep ==
    ASSUME GrpDelay > 0, PipelineInv, ArrivalInv, PassedInv, [Next]_vars,
           PipelineInv'
    PROVE  PassedInv'
<1> SUFFICES ASSUME NEW q \in Rows', q.delivered = 1,
                    \/ q.arrive <= lastSeen'[q.recipient]
                    \/ mind'[q.recipient] = "thinking" /\ q.arrive <= t'
             PROVE  \/ WasShown("incoming", q.recipient, q)'
                    \/ q.channel # "GRP" /\ q.attempted = q.arrive
  BY DEF PassedInv
<1> PICK a : a = q.recipient
  OBVIOUS
<1>0. /\ TypeOK /\ TurnsInv /\ q \in RowSet /\ a \in Agents /\ q.arrive \in Nat
      /\ t \in Nat /\ lastSeen[a] \in Int /\ GrpDelay \in Nat
  BY RowsTypedPrimed, BusAssumption
     DEF PipelineInv, TypeOK, Bus!TypeOK, RowSet, Bus!DelayAssumption
<1>1. /\ lastSeen[a] <= t
      /\ mind[a] # "idle" => phase = "micro"
      /\ phase = "scripts" => lastSeen[a] < t
  BY <1>0 DEF TurnsInv
<1>2. \/ q.arrive <= lastSeen[a]
      \/ mind[a] = "thinking" /\ q.arrive <= t
      \/ Perceive(a) /\ q.arrive <= t
  BY <1>0, MarkFrame, ThinkFrame
<1>3. CASE Born(q)
  <2>1. q.attempted <= q.arrive /\ q.attempted = t
        /\ (q.channel = "GRP" => q.arrive = t + GrpDelay)
    BY <1>0, <1>3, BornArrives
  <2> QED
    BY <1>0, <1>1, <1>2, <2>1
<1>4. ASSUME NEW r \in Rows, Heir(r, q)
      PROVE  \/ WasShown("incoming", a, q)'
             \/ q.channel # "GRP" /\ q.attempted = q.arrive
  <2>0. /\ r.recipient = a /\ r.channel = q.channel /\ r.attempted = q.attempted
    BY <1>4 DEF Heir
  <2>1. CASE r.delivered = 1
    <3>1. r.arrive = q.arrive
      BY <1>4, <2>1 DEF Heir
    <3>2. CASE \/ q.arrive <= lastSeen[a]
               \/ mind[a] = "thinking" /\ q.arrive <= t
      BY <1>4, <2>0, <2>1, <3>1, <3>2, ShownStays DEF PassedInv
    <3>3. CASE Perceive(a) /\ q.arrive <= t /\ lastSeen[a] < q.arrive
      <4>1. r \in Incoming(a)
        BY <2>0, <2>1, <3>1, <3>3 DEF Incoming
      <4>2. WasShown("incoming", a, r)'
        BY <1>0, <3>3, <4>1, PerceiveAll
      <4> QED
        BY <1>4, <4>2 DEF WasShown, Heir
    <3>4. q.arrive <= lastSeen[a] \/ lastSeen[a] < q.arrive
      BY <1>0
    <3> QED
      BY <1>2, <3>2, <3>3, <3>4
  <2>2. CASE r.delivered # 1
    <3>1. q.arrive = t /\ phase = "scripts"
      BY <1>4, <2>2 DEF Heir
    <3> QED
      BY <1>0, <1>1, <1>2, <3>1 DEF Perceive
  <2> QED
    BY <2>1, <2>2
<1> QED
  BY <1>0, <1>3, <1>4, RowsStep DEF RowsEvolve

\* With every agent active in every tick: who has perceived before has
\* perceived in this tick or the last one, or is about to. What was said to
\* somebody is not behind his watermark unless it was said in this tick or in
\* the last one, and then he has a place and this turn to come.
EveryTickInv ==
    /\ \A a \in Agents :
         /\ Queued(a) => L[a] # NoPlace
         /\ lastSeen[a] >= 0 => /\ L[a] # NoPlace
                                /\ lastSeen[a] >= t - 1
                                /\ phase = "commit" => lastSeen[a] = t
                                /\ phase = "micro" => Queued(a) \/ lastSeen[a] = t
    /\ \A r \in Rows :
         /\ r.channel = "F2F" =>
              \/ r.attempted <= lastSeen[r.recipient]
              \/ /\ L[r.recipient] # NoPlace
                 /\ \/ r.attempted = t
                    \/ /\ r.attempted = t - 1
                       /\ \/ phase = "scripts"
                          \/ phase = "micro" /\ Queued(r.recipient)
         /\ r.delivered = 0 => r.attempted <= lastSeen[r.sender]

\* When all agents act in every tick, the last tick an agent has seen is this
\* one or the one before.
LEMMA EveryTickStep ==
    ASSUME ActiveSets = {Agents}, PipelineInv, EveryTickInv, [Next]_vars,
           PipelineInv'
    PROVE  EveryTickInv'
<1>0. /\ TypeOK /\ TurnsInv /\ t \in Nat /\ t' \in Nat
      /\ lastSeen \in [Agents -> Int] /\ lastSeen' \in [Agents -> Int]
      /\ L \in [Agents -> Places \union {NoPlace}] /\ NoPlace \notin Places
      /\ queue \in [Places -> Seq(Agents)]
      /\ phase \in {"scripts", "micro", "commit"}
  BY BusAssumption DEF PipelineInv, TypeOK, Bus!TypeOK, Bus!NoPlaceAssumption
<1>1. \A a \in Agents : lastSeen[a] <= lastSeen'[a]
  BY <1>0, MarkFrame DEF TurnsInv
\* An agent that has its turn is in a place.
<1>2. \A a \in Agents : Turn(a) => L[a] # NoPlace
  BY <1>0, TurnIsQueued DEF EveryTickInv
\* The phases, and what ends them.
<1>3. \/ phase' = phase /\ t' = t
      \/ phase = "scripts" /\ phase' = "micro" /\ t' = t /\ Prelude
      \/ phase = "micro" /\ phase' = "commit" /\ t' = t /\ EndMicro
      \/ phase = "commit" /\ phase' = "scripts" /\ t' = t + 1
  BY DispatchFrame DEF Next, Micro, ScriptEffect, Bus!Move, Bus!Grant,
     Bus!Revoke, Prelude, Bus!SweepUndelivered, Bus!world, Perceive, Decide,
     FailDecision, FeedDone, Finish, EndMicro, CommitMove, Advance,
     Bus!AdvanceClock, MoveAgent, Stopped, vars, step_vars
<1>4. \A a \in Agents : Queued(a) => phase' # "commit" \/ phase = "commit"
  BY <1>3 DEF EndMicro, Queued
<1>5. ASSUME NEW a \in Agents, L[a] # NoPlace, Prelude
      PROVE  Queued(a)'
  BY <1>0, <1>5, PreludeQueues
<1>6. ASSUME NEW a \in Agents
      PROVE  /\ Queued(a)' => L'[a] # NoPlace
             /\ lastSeen'[a] >= 0 =>
                  /\ L'[a] # NoPlace
                  /\ lastSeen'[a] >= t' - 1
                  /\ phase' = "commit" => lastSeen'[a] = t'
                  /\ phase' = "micro" => Queued(a)' \/ lastSeen'[a] = t'
  <2>1. \/ lastSeen'[a] = lastSeen[a]
        \/ lastSeen'[a] = t /\ t' = t /\ phase = "micro" /\ L[a] # NoPlace
    BY <1>0, <1>2, MarkFrame DEF TurnsInv
  <2>2. ASSUME Queued(a)' PROVE L'[a] # NoPlace
    <3>1. CASE Queued(a)
      BY <1>0, <3>1, PlacesFrame DEF EveryTickInv
    <3>2. CASE Prelude
      <4>1. L[a] \in Places /\ L' = L
        BY <1>0, <2>2, <3>2, PreludeQueues
           DEF Queued, Prelude, Bus!SweepUndelivered, Bus!world
      <4> QED
        BY <1>0, <4>1
    <3> QED
      BY <1>0, <2>2, <3>1, <3>2, QueuedFrame
  <2>3. lastSeen'[a] >= 0 => L'[a] # NoPlace
    BY <1>0, <2>1, PlacesFrame DEF EveryTickInv
  <2>4. ASSUME lastSeen'[a] >= 0
        PROVE  /\ lastSeen'[a] >= t' - 1
               /\ phase' = "commit" => lastSeen'[a] = t'
    <3>1. CASE lastSeen'[a] = t /\ t' = t
      BY <1>0, <3>1
    <3>2. CASE lastSeen'[a] = lastSeen[a] /\ EndMicro
      BY <1>0, <1>3, <2>4, <3>2 DEF EveryTickInv, EndMicro, Queued
    <3>3. CASE lastSeen'[a] = lastSeen[a] /\ ~EndMicro
      BY <1>0, <1>3, <2>4, <3>3 DEF EveryTickInv
    <3> QED
      BY <2>1, <3>1, <3>2, <3>3
  <2>5. ASSUME lastSeen'[a] >= 0, phase' = "micro"
        PROVE  Queued(a)' \/ lastSeen'[a] = t'
    <3>1. t' = t /\ (phase = "micro" \/ Prelude)
      BY <1>0, <2>5, MicroFrame
    <3>2. CASE Prelude
      <4>1. lastSeen[a] >= 0
        BY <1>0, <2>1, <2>5, <3>2 DEF Prelude
      <4> QED
        BY <1>5, <3>2, <4>1 DEF EveryTickInv
    <3>3. CASE phase = "micro"
      BY <1>0, <2>1, <2>5, <3>1, <3>3, QueueFrame DEF EveryTickInv
    <3> QED
      BY <3>1, <3>2, <3>3
  <2> QED
    BY <2>2, <2>3, <2>4, <2>5
<1>7. ASSUME NEW q \in Rows'
      PROVE  /\ q.channel = "F2F" =>
                  \/ q.attempted <= lastSeen'[q.recipient]
                  \/ /\ L'[q.recipient] # NoPlace
                     /\ \/ q.attempted = t'
                        \/ /\ q.attempted = t' - 1
                           /\ \/ phase' = "scripts"
                              \/ phase' = "micro" /\ Queued(q.recipient)'
             /\ q.delivered = 0 => q.attempted <= lastSeen'[q.sender]
  <2>0. q.sender \in Agents /\ q.recipient \in Agents /\ q.attempted \in Nat
    BY RowsTypedPrimed DEF PipelineInv, RowSet
  <2>1. CASE Born(q)
    <3>1. /\ q.attempted = t /\ mind[q.sender] = "acting"
          /\ q.channel = "F2F" => L[q.recipient] = L[q.sender]
      <4>1. q.channel = "F2F" => q.delivered = 1
        BY <2>1 DEF Born
      <4> QED
        BY <2>1, <4>1 DEF Born
    <3>2. lastSeen[q.sender] = t /\ Turn(q.sender) /\ phase = "micro"
      BY <1>0, <2>0, <3>1 DEF TurnsInv
    <3>3. t' = t
      BY <1>3, <3>2
    <3>4. q.channel = "F2F" => L'[q.recipient] # NoPlace
      BY <1>0, <1>2, <2>0, <3>1, <3>2, PlacesFrame
    <3> QED
      BY <1>0, <1>1, <2>0, <3>1, <3>2, <3>3, <3>4
  <2>2. ASSUME NEW r \in Rows, Heir(r, q)
        PROVE  /\ q.channel = "F2F" =>
                    \/ q.attempted <= lastSeen'[q.recipient]
                    \/ /\ L'[q.recipient] # NoPlace
                       /\ \/ q.attempted = t'
                          \/ /\ q.attempted = t' - 1
                             /\ \/ phase' = "scripts"
                                \/ phase' = "micro" /\ Queued(q.recipient)'
               /\ q.delivered = 0 => q.attempted <= lastSeen'[q.sender]
    <3> PICK b \in Agents : b = q.recipient
      BY <2>0
    <3>1. /\ r.recipient = b /\ r.sender = q.sender
          /\ r.channel = q.channel /\ r.attempted = q.attempted
          /\ q.delivered = 0 => r.delivered = 0
      BY <2>2 DEF Heir
    <3>2. ASSUME q.attempted = t, L[b] # NoPlace
          PROVE  /\ L'[b] # NoPlace
                 /\ q.attempted = t' \/ (q.attempted = t' - 1 /\ phase' = "scripts")
      <4>1. L'[b] # NoPlace
        BY <1>0, <3>2, PlacesFrame
      <4>2. t' = t \/ (t' = t + 1 /\ phase' = "scripts")
        BY <1>3
      <4>3. t' = t + 1 => t = t' - 1
        BY <1>0
      <4> QED
        BY <3>2, <4>1, <4>2, <4>3
    <3>3. ASSUME q.attempted = t - 1, L[b] # NoPlace, phase = "scripts"
          PROVE  /\ L'[b] # NoPlace /\ q.attempted = t' - 1
                 /\ phase' = "scripts" \/ (phase' = "micro" /\ Queued(b)')
      BY <1>0, <1>3, <1>5, <3>3, PlacesFrame
    <3>4. ASSUME q.attempted = t - 1, L[b] # NoPlace, phase = "micro", Queued(b)
          PROVE  \/ q.attempted <= lastSeen'[b]
                 \/ /\ L'[b] # NoPlace /\ q.attempted = t' - 1
                    /\ phase' = "micro" /\ Queued(b)'
      <4>1. phase' = "micro" /\ t' = t
        BY <1>3, <1>4, <3>4
      <4> QED
        BY <1>0, <3>4, <4>1, PlacesFrame, QueueFrame
    <3>5. q.delivered = 0 => q.attempted <= lastSeen'[q.sender]
      BY <1>0, <1>1, <2>0, <3>1 DEF EveryTickInv
    <3>6. r.attempted <= lastSeen[b] => q.attempted <= lastSeen'[b]
      BY <1>0, <1>1, <2>0, <3>1
    <3> QED
      BY <3>1, <3>2, <3>3, <3>4, <3>5, <3>6 DEF EveryTickInv
  <2> QED
    BY <1>0, <2>1, <2>2, RowsStep DEF RowsEvolve
<1> QED
  BY <1>6, <1>7 DEF EveryTickInv

\* An agent whose watermark, or whose thought, is past a failed attempt of its
\* own has been shown it, and so it is with what was said to it.
ReportInv ==
    \A r \in Rows :
        /\ /\ r.delivered = 0
           /\ \/ r.attempted < lastSeen[r.sender]
              \/ mind[r.sender] = "thinking" /\ r.attempted < t
           => WasShown("failed", r.sender, r)
        /\ /\ r.channel = "F2F"
           /\ \/ r.attempted < lastSeen[r.recipient]
              \/ mind[r.recipient] = "thinking" /\ r.attempted < t
           => HeardNext(r)

\* No step passes over a failure of its sender.
LEMMA ReportStep ==
    ASSUME PipelineInv, EveryTickInv, ReportInv, [Next]_vars, PipelineInv'
    PROVE  ReportInv'
<1> SUFFICES ASSUME NEW q \in Rows'
             PROVE  /\ /\ q.delivered = 0
                       /\ \/ q.attempted < lastSeen'[q.sender]
                          \/ mind'[q.sender] = "thinking" /\ q.attempted < t'
                       => WasShown("failed", q.sender, q)'
                    /\ /\ q.channel = "F2F"
                       /\ \/ q.attempted < lastSeen'[q.recipient]
                          \/ mind'[q.recipient] = "thinking" /\ q.attempted < t'
                       => HeardNext(q)'
  BY DEF ReportInv
<1>0. /\ TypeOK /\ TurnsInv /\ t \in Nat /\ q.attempted \in Nat
      /\ q.sender \in Agents /\ q.recipient \in Agents
      /\ lastSeen \in [Agents -> Int]
  BY RowsTypedPrimed DEF PipelineInv, TypeOK, Bus!TypeOK, RowSet
<1>1. ASSUME NEW a \in Agents,
             \/ q.attempted < lastSeen'[a]
             \/ mind'[a] = "thinking" /\ q.attempted < t'
      PROVE  \/ q.attempted < lastSeen[a]
             \/ mind[a] = "thinking" /\ q.attempted < t
             \/ Perceive(a) /\ q.attempted < t
  BY <1>0, <1>1, MarkFrame, ThinkFrame
<1>2. CASE Born(q)
  <2>1. \A a \in Agents : lastSeen[a] <= t
    BY <1>0 DEF TurnsInv
  <2> QED
    BY <1>0, <1>1, <1>2, <2>1 DEF Born
<1>3. ASSUME NEW r \in Rows, Heir(r, q)
      PROVE  /\ /\ q.delivered = 0
                /\ \/ q.attempted < lastSeen'[q.sender]
                   \/ mind'[q.sender] = "thinking" /\ q.attempted < t'
                => WasShown("failed", q.sender, q)'
             /\ /\ q.channel = "F2F"
                /\ \/ q.attempted < lastSeen'[q.recipient]
                   \/ mind'[q.recipient] = "thinking" /\ q.attempted < t'
                => HeardNext(q)'
  <2>0. /\ r.recipient = q.recipient /\ r.sender = q.sender
        /\ r.channel = q.channel /\ r.attempted = q.attempted
        /\ q.delivered = 0 => r.delivered = 0
    BY <1>3 DEF Heir
  <2>1. ASSUME q.delivered = 0,
               \/ q.attempted < lastSeen'[q.sender]
               \/ mind'[q.sender] = "thinking" /\ q.attempted < t'
        PROVE  WasShown("failed", q.sender, q)'
    <3> PICK a \in Agents : a = q.sender
      BY <1>0
    <3>1. CASE \/ q.attempted < lastSeen[a]
               \/ mind[a] = "thinking" /\ q.attempted < t
      BY <1>3, <2>0, <2>1, <3>1, ShownStays DEF ReportInv
    <3>2. CASE Perceive(a) /\ q.attempted < t /\ ~(q.attempted < lastSeen[a])
      <4>1. r.attempted <= lastSeen[a]
        BY <2>0, <2>1 DEF EveryTickInv
      <4>2. r.attempted = t - 1
        BY <1>0, <2>0, <3>2, <4>1 DEF EveryTickInv
      <4>3. r \in RecentFailed(a)
        BY <2>0, <2>1, <4>2 DEF RecentFailed
      <4>4. WasShown("failed", a, r)'
        BY <3>2, <4>3, PerceiveAll
      <4> QED
        BY <1>3, <4>4 DEF WasShown, Heir
    <3>3. \/ q.attempted < lastSeen[a]
          \/ mind[a] = "thinking" /\ q.attempted < t
          \/ Perceive(a) /\ q.attempted < t
      BY <1>1, <2>1
    <3> QED
      BY <3>1, <3>2, <3>3
  <2>2. ASSUME q.channel = "F2F",
               \/ q.attempted < lastSeen'[q.recipient]
               \/ mind'[q.recipient] = "thinking" /\ q.attempted < t'
        PROVE  HeardNext(q)'
    <3> PICK a \in Agents : a = q.recipient
      BY <1>0
    <3>1. CASE \/ q.attempted < lastSeen[a]
               \/ mind[a] = "thinking" /\ q.attempted < t
      BY <1>3, <2>0, <2>2, <3>1, HeardStays DEF ReportInv
    <3>2. CASE Perceive(a) /\ q.attempted < t /\ ~(q.attempted < lastSeen[a])
      <4>1. r.attempted <= lastSeen[a] \/ r.attempted = t - 1
        BY <1>0, <2>0, <2>2, <3>2 DEF EveryTickInv
      <4>2. r.attempted = t - 1
        BY <1>0, <2>0, <3>2, <4>1 DEF EveryTickInv
      <4>3. r \in Overheard(a)
        BY <1>0, <2>0, <2>2, <4>2 DEF Overheard, Latest
      <4>4. HeardNext(r)'
        BY <1>0, <3>2, <4>2, <4>3, PerceiveHears
      <4> QED
        BY <1>3, <4>4 DEF HeardNext, Heir
    <3>3. \/ q.attempted < lastSeen[a]
          \/ mind[a] = "thinking" /\ q.attempted < t
          \/ Perceive(a) /\ q.attempted < t
      BY <1>1, <2>2
    <3> QED
      BY <3>1, <3>2, <3>3
  <2> QED
    BY <2>1, <2>2
<1> QED
  BY <1>0, <1>2, <1>3, RowsStep DEF RowsEvolve

\* At boot nothing was sent or shown.
LEMMA ReportsInit == Init => EveryTickInv /\ ReportInv /\ PassedInv
<1> SUFFICES ASSUME Init PROVE EveryTickInv /\ ReportInv /\ PassedInv
  OBVIOUS
<1>1. Rows = {} /\ phase = "scripts" /\ \A a \in Agents : ~(lastSeen[a] >= 0)
  BY DEF Init, Bus!Init, Rows
<1>2. \A a \in Agents : ~Queued(a)
  BY DEF Init, Queued
<1> QED
  BY <1>1, <1>2 DEF EveryTickInv, ReportInv, PassedInv

\* Both hold always.
LEMMA ReportsAlways ==
    ActiveSets = {Agents} => (Spec => []EveryTickInv /\ []ReportInv)
<1> SUFFICES ASSUME ActiveSets = {Agents}
             PROVE  Spec => []EveryTickInv /\ []ReportInv
  OBVIOUS
<1>1. PipelineInv /\ EveryTickInv /\ [Next]_vars /\ PipelineInv' => EveryTickInv'
  BY EveryTickStep
<1>2. PipelineInv /\ EveryTickInv /\ ReportInv /\ [Next]_vars /\ PipelineInv'
        => ReportInv'
  BY ReportStep
<1> QED
  BY <1>1, <1>2, ReportsInit, PipelineAlways, PTL DEF Spec

\* Without a scheduler that leaves agents out, a sender learns in its next
\* tick of each attempt that is still failed.
THEOREM SendersLearnOfFailures ==
    ActiveSets = {Agents} => (Spec => []FailuresAreReported)
<1>1. ReportInv => FailuresAreReported
  BY DEF ReportInv, FailuresAreReported
<1> QED
  BY <1>1, ReportsAlways, PTL

\* Without a scheduler that leaves agents out, and with group messages that
\* take a tick, every message that travels is read by the time the watermark
\* passes it, and everything said is overheard in the next tick, whether or
\* not commands move agents meanwhile.
THEOREM NothingInTransitIsMissed ==
    ActiveSets = {Agents} /\ GrpDelay > 0
        => (Spec => []DelayedIsReadSpeechIsHeard)
<1> SUFFICES ASSUME ActiveSets = {Agents}, GrpDelay > 0
             PROVE  Spec => []DelayedIsReadSpeechIsHeard
  OBVIOUS
<1>1. PipelineInv /\ ArrivalInv /\ PassedInv /\ [Next]_vars /\ PipelineInv'
        => PassedInv'
  BY PassedStep
<1>2. PipelineInv /\ PassedInv /\ ReportInv => DelayedIsReadSpeechIsHeard
  <2> SUFFICES ASSUME PipelineInv, PassedInv, ReportInv, NEW r \in Rows,
                      r.delivered = 1
               PROVE  /\ r.channel = "GRP" \/ r.arrive > r.attempted => ~PassedOver(r)
                      /\ r.channel = "F2F" /\ r.attempted < lastSeen[r.recipient]
                           => HeardNext(r)
    BY DEF DelayedIsReadSpeechIsHeard
  <2>1. r.attempted \in Nat /\ r.arrive \in Nat
    BY RowsTyped DEF PipelineInv, RowSet
  <2> QED
    BY <2>1 DEF PassedInv, ReportInv, PassedOver
<1> QED
  BY <1>1, <1>2, ReportsInit, ReportsAlways, PipelineAlways, ArrivalAlways, PTL
     DEF Spec

-----------------------------------------------------------------------------
(* The order of reading *)

\* The agents have no tool that changes who reaches whom within a tick, and
\* what is written as delivered is readable in the next tick at the latest.
SteadyTicks == /\ "capability" \notin Tools /\ "lifecycle" \notin Tools /\ ~Ipc
               /\ GrpDelay <= 1

SameThread(r, q) == /\ r.sender = q.sender /\ r.recipient = q.recipient
                    /\ r.group = q.group

\* Within a micro-tick what waits could not be delivered now either; what has
\* been delivered is readable in the next tick; an older copy of a thread is
\* readable when a younger one is.
OrderInv ==
    /\ phase = "micro" =>
         \A r \in dm : Bus!Pending(r) =>
                         ~Bus!Deliverable(r.sender, r.recipient, r.group)
    /\ \A r \in dm : r.delivered = 1 =>
         /\ r.arrive <= t + GrpDelay
         /\ phase = "scripts" => r.arrive <= t
    /\ \A r, q \in dm :
         /\ SameThread(r, q) /\ r.msg < q.msg
         /\ r.delivered \in {0, 1} /\ q.delivered = 1
         => r.delivered = 1 /\ r.arrive <= q.arrive

\* Deliverability depends on places, uplinks and mirror alone.
LEMMA DeliverableKept ==
    ASSUME UNCHANGED <<L, uplink, mirror>>, NEW s, NEW m, NEW g
    PROVE  Bus!Deliverable(s, m, g)' = Bus!Deliverable(s, m, g)
BY DEF Bus!Deliverable, Bus!phi_grp, Bus!Covered

\* What a steady tick does to the group channel.
LEMMA SteadyFrame ==
    ASSUME SteadyTicks, [Next]_vars, phase = "micro"
    PROVE  /\ UNCHANGED <<t, L, uplink, mirror>>
           /\ \/ UNCHANGED dm
              \/ \E s \in Agents, g \in Groups : Bus!SendToGroup(s, g)
<1> DEFINE Goal == /\ UNCHANGED <<t, L, uplink, mirror>>
                   /\ \/ UNCHANGED dm
                      \/ \E s \in Agents, g \in Groups : Bus!SendToGroup(s, g)
<1>1. ASSUME NEW a \in Agents, Micro(a) PROVE Goal
  <2>1. CASE \/ Perceive(a) \/ Decide(a) \/ FailDecision(a) \/ FeedDone(a)
             \/ Finish(a) \/ Feed(a) \/ Speak(a)
    BY <2>1 DEF Perceive, Decide, FailDecision, FeedDone, Finish, Feed, Speak,
       bus_vars
  <2>2. ASSUME NEW b, SendMessage(a, b) PROVE Goal
    BY <2>2 DEF SendMessage, bus_vars
  <2>3. ASSUME NEW p, RequestMove(a, p) PROVE Goal
    BY <2>3 DEF RequestMove, bus_vars
  <2>4. ASSUME NEW b, ChangeCapability(a, b) PROVE Goal
    BY <2>4 DEF ChangeCapability, Call, SteadyTicks
  <2>5. CASE UseGroup(a)
    BY <2>5 DEF UseGroup, Call, SteadyTicks, Bus!SendToGroup, Bus!world
  <2> QED
    BY <1>1, <2>1, <2>2, <2>3, <2>4, <2>5 DEF Micro, Dispatch
<1>2. CASE EndMicro \/ UNCHANGED vars
  BY <1>2 DEF EndMicro, vars, bus_vars
<1> QED
  BY <1>1, <1>2 DEF Next, ScriptEffect, Prelude, CommitMove, Advance, MoveAgent,
     SteadyTicks, Stopped

\* Outside the micro-tick the sweep alone touches the copies.
LEMMA OutsideFrame ==
    ASSUME [Next]_vars, TypeOK, TurnsInv, phase # "micro", ~Prelude
    PROVE  /\ UNCHANGED dm /\ phase' # "micro"
           /\ UNCHANGED <<t, phase>> \/ t' = t + 1
<1>1. \A a \in Agents : mind[a] = "idle"
  BY DEF TurnsInv
<1>2. \A a \in Agents : ~Micro(a)
  BY <1>1, DispatchFrame DEF Micro, Perceive, Decide, FailDecision, FeedDone,
     Finish
<1> QED
  BY <1>2 DEF Next, ScriptEffect, Bus!Move, Bus!Grant, Bus!Revoke,
     Bus!group_vars, EndMicro, CommitMove, bus_vars, Advance, Bus!AdvanceClock,
     MoveAgent, Stopped, vars, step_vars

\* One more message in a thread.
LEMMA OrderSend ==
    ASSUME SteadyTicks, TypeOK, ChannelInv, OrderInv, phase = "micro",
           phase' # "scripts",
           UNCHANGED <<t, L, uplink, mirror>>, NEW s \in Agents, NEW g \in Groups,
           Bus!SendToGroup(s, g)
    PROVE  OrderInv'
<1>0. t \in Nat /\ nMsg \in Nat /\ GrpDelay \in Nat /\ dm \subseteq Bus!Row
  BY BusAssumption DEF TypeOK, Bus!TypeOK, Bus!DelayAssumption
<1>1. ASSUME NEW q \in dm', q \notin dm
      PROVE  /\ q.msg = nMsg + 1 /\ q.sender = s /\ q.group = g
             /\ q.delivered = IF Bus!Deliverable(s, q.recipient, g) THEN 1 ELSE 0
             /\ q.delivered = 1 => q.arrive = t + GrpDelay
  BY <1>1 DEF Bus!SendToGroup, Bus!Copy
<1>2. ASSUME NEW r \in dm', Bus!Pending(r)
      PROVE  ~Bus!Deliverable(r.sender, r.recipient, r.group)'
  BY <1>1, <1>2, DeliverableKept DEF OrderInv, Bus!Pending
<1>3. ASSUME NEW r \in dm', r.delivered = 1
      PROVE  r.arrive <= t' + GrpDelay
  BY <1>0, <1>1, <1>3 DEF OrderInv
<1>4. ASSUME NEW r \in dm', NEW q \in dm', SameThread(r, q), r.msg < q.msg,
             r.delivered \in {0, 1}, q.delivered = 1
      PROVE  r.delivered = 1 /\ r.arrive <= q.arrive
  <2>1. CASE r \in dm /\ q \in dm
    BY <1>4, <2>1 DEF OrderInv
  <2>2. CASE r \notin dm
    <3>1. r.msg = nMsg + 1 /\ (q.msg = nMsg + 1 \/ q.msg <= nMsg)
      BY <1>1, <2>2 DEF ChannelInv, Channel!CopyKeys
    <3>2. q.msg \in Nat
      BY <1>0, <1>1 DEF Bus!Row
    <3> QED
      BY <1>0, <1>4, <3>1, <3>2
  <2>3. CASE r \in dm /\ q \notin dm
    <3>1. Bus!Deliverable(r.sender, r.recipient, r.group) /\ q.arrive = t + GrpDelay
      BY <1>1, <1>4, <2>3 DEF SameThread
    <3>2. r.delivered = 1
      BY <1>4, <2>3, <3>1 DEF OrderInv, Bus!Pending
    <3> QED
      BY <2>3, <3>1, <3>2 DEF OrderInv
  <2> QED
    BY <2>1, <2>2, <2>3
<1> QED
  BY <1>2, <1>3, <1>4 DEF OrderInv

\* The sweep delivers the waiting copies of a thread together.
LEMMA OrderSweep ==
    ASSUME TypeOK, OrderInv, Prelude
    PROVE  OrderInv'
<1>0. /\ t \in Nat /\ GrpDelay \in Nat /\ dm \subseteq Bus!Row
      /\ phase = "scripts" /\ phase' = "micro" /\ UNCHANGED <<t, L, uplink, mirror>>
      /\ dm' = {Bus!Swept(r) : r \in dm}
  BY BusAssumption DEF TypeOK, Bus!TypeOK, Bus!DelayAssumption, Prelude,
     Bus!SweepUndelivered, Bus!world
<1>1. ASSUME NEW q \in dm'
      PROVE  \E r \in dm :
               /\ SameThread(r, q) /\ r.msg = q.msg
               /\ \/ q = r /\ ~(r.delivered = 0 /\ Bus!phi_grp(r.recipient, r.group))
                  \/ /\ r.delivered = 0 /\ Bus!phi_grp(r.recipient, r.group)
                     /\ q.delivered = 1 /\ q.arrive = t
  <2>1. PICK r \in dm : q = Bus!Swept(r)
    BY <1>0
  <2>2. r \in Bus!Row
    BY <1>0
  <2> QED
    BY <2>1, <2>2 DEF Bus!Swept, Bus!Pending, Bus!Delivered, SameThread, Bus!Row
<1>2. ASSUME NEW q \in dm', Bus!Pending(q)
      PROVE  ~Bus!Deliverable(q.sender, q.recipient, q.group)'
  <2>1. ~Bus!phi_grp(q.recipient, q.group)
    BY <1>1, <1>2 DEF Bus!Pending
  <2> QED
    BY <1>0, <2>1, DeliverableKept DEF Bus!Deliverable
<1>3. ASSUME NEW q \in dm', q.delivered = 1 PROVE q.arrive <= t' + GrpDelay
  BY <1>0, <1>1, <1>3 DEF OrderInv
<1>4. ASSUME NEW r \in dm', NEW q \in dm', SameThread(r, q), r.msg < q.msg,
             r.delivered \in {0, 1}, q.delivered = 1
      PROVE  r.delivered = 1 /\ r.arrive <= q.arrive
  <2>1. PICK c \in dm :
          /\ SameThread(c, r) /\ c.msg = r.msg
          /\ \/ r = c /\ ~(c.delivered = 0 /\ Bus!phi_grp(c.recipient, c.group))
             \/ /\ c.delivered = 0 /\ Bus!phi_grp(c.recipient, c.group)
                /\ r.delivered = 1 /\ r.arrive = t
    BY <1>1
  <2>2. PICK d \in dm :
          /\ SameThread(d, q) /\ d.msg = q.msg
          /\ \/ q = d /\ ~(d.delivered = 0 /\ Bus!phi_grp(d.recipient, d.group))
             \/ /\ d.delivered = 0 /\ Bus!phi_grp(d.recipient, d.group)
                /\ q.delivered = 1 /\ q.arrive = t
    BY <1>1
  <2>3. SameThread(c, d) /\ c.msg < d.msg /\ c.delivered \in {0, 1}
        /\ c.recipient = d.recipient /\ c.group = d.group
    BY <1>4, <2>1, <2>2 DEF SameThread
  <2>4. CASE q = d
    <3>1. c.delivered = 1 /\ c.arrive <= d.arrive
      BY <1>4, <2>3, <2>4 DEF OrderInv
    <3> QED
      BY <2>1, <2>4, <3>1
  <2>5. CASE d.delivered = 0 /\ Bus!phi_grp(d.recipient, d.group) /\ q.arrive = t
    <3>1. CASE c.delivered = 0
      BY <1>0, <2>1, <2>3, <2>5, <3>1
    <3>2. CASE c.delivered = 1
      BY <1>0, <2>1, <2>5, <3>2 DEF OrderInv
    <3> QED
      BY <2>3, <3>1, <3>2
  <2> QED
    BY <2>2, <2>4, <2>5
<1> QED
  BY <1>0, <1>2, <1>3, <1>4 DEF OrderInv

\* While nobody is moved or stopped within a tick, slices come in the order of
\* arrival.
LEMMA OrderStep ==
    ASSUME SteadyTicks, PipelineInv, OrderInv, [Next]_vars, PipelineInv'
    PROVE  OrderInv'
<1>0. /\ TypeOK /\ ChannelInv /\ TurnsInv /\ t \in Nat /\ GrpDelay \in Nat
      /\ dm \subseteq Bus!Row
  BY BusAssumption DEF PipelineInv, TypeOK, Bus!TypeOK, Bus!DelayAssumption
<1>1. CASE phase = "micro"
  <2>1. phase' # "scripts"
    BY <1>1, DispatchFrame DEF Next, Micro, ScriptEffect, Prelude, Perceive,
       Decide, FailDecision, FeedDone, Finish, EndMicro, CommitMove, Advance,
       MoveAgent, Stopped, vars, step_vars
  <2>2. CASE dm' = dm
    BY <1>1, <2>1, <2>2, SteadyFrame, DeliverableKept DEF OrderInv
  <2>3. ASSUME NEW s \in Agents, NEW g \in Groups, Bus!SendToGroup(s, g)
        PROVE  OrderInv'
    BY <1>0, <1>1, <2>1, <2>3, SteadyFrame, OrderSend
  <2> QED
    BY <1>1, <2>2, <2>3, SteadyFrame
<1>2. CASE Prelude
  BY <1>0, <1>2, OrderSweep
<1>3. CASE phase # "micro" /\ ~Prelude
  <2>1. /\ dm' = dm /\ phase' # "micro"
        /\ (t' = t /\ phase' = phase) \/ t' = t + 1
    BY <1>0, <1>3, OutsideFrame
  <2>2. GrpDelay <= 1 /\ \A r \in dm : r.arrive \in Nat
    BY <1>0 DEF SteadyTicks, Bus!Row
  <2> QED
    BY <1>0, <2>1, <2>2 DEF OrderInv
<1> QED
  BY <1>1, <1>2, <1>3

\* If agents cannot change who reaches whom during a tick, and group messages
\* take one tick at most, then what one member sends to another in one group
\* is read in the order of sending, whatever waits and is swept meanwhile.
THEOREM ThreadsAreReadInOrder == SteadyTicks => (Spec => []ReadInOrder)
<1> SUFFICES ASSUME SteadyTicks PROVE Spec => []ReadInOrder
  OBVIOUS
<1>1. Init => OrderInv
  BY DEF Init, Bus!Init, OrderInv
<1>2. PipelineInv /\ OrderInv /\ [Next]_vars /\ PipelineInv' => OrderInv'
  BY OrderStep
<1>3. OrderInv => ReadInOrder
  BY DEF OrderInv, SameThread, ReadInOrder
<1> QED
  BY <1>1, <1>2, <1>3, PipelineAlways, PTL DEF Spec
=============================================================================
