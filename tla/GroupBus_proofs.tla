--------------------------- MODULE GroupBus_proofs ---------------------------
(***************************************************************************)
(* Theorems about GroupBus, for every set of agents, groups and places,    *)
(* every coverage, every boot roster, any number of processes on the same  *)
(* directory and no bound but the constants'.                              *)
(***************************************************************************)
EXTENDS GroupBus, TLAPS

\* The boot code writes well-formed events.
LEMMA SeededEventsTyped == SeededEvents \in Seq(Event)
<1>1. Roster \in Seq(Scenario \X Agents) /\ Scenario \subseteq Groups
  BY BootAssumption
<1>2. ASSUME NEW i \in 1..Len(Roster)
      PROVE  Roster[i][1] \in Groups /\ Roster[i][2] \in Agents
  BY <1>1
<1>3. SeededEvents \in [1..Len(Roster) -> Event]
  BY <1>2 DEF SeededEvents, Event
<1> QED
  BY <1>1, <1>3

\* Logging an event appends one well-formed event.
LEMMA LogTyped ==
    ASSUME TypeOK, NEW a \in Agents, NEW g \in Groups,
           NEW type \in {"join", "leave", "kick"}, Log(a, g, type)
    PROVE  events' \in Seq(Event)
BY DEF TypeOK, Log, Event

\* What the two updates of a row change, and what they leave alone.
LEMMA RowUpdates ==
    ASSUME TypeOK, NEW r \in dm
    PROVE  /\ r \in Row
           /\ Cancelled(r) \in Row
           /\ Cancelled(r).delivered = -1
           /\ Cancelled(r).recipient = r.recipient
           /\ Cancelled(r).msg = r.msg
           /\ Cancelled(r).group = r.group
           /\ Delivered(r) \in Row
           /\ Delivered(r).delivered = 1
           /\ Delivered(r).recipient = r.recipient
           /\ Delivered(r).msg = r.msg
           /\ Delivered(r).group = r.group
BY DEF Row, TypeOK, Cancelled, Delivered

-----------------------------------------------------------------------------
(* Type correctness *)

\* The seeded memberships are sets of agents.
LEMMA SeededMembersTyped == SeededMembers \in [Groups -> SUBSET Agents]
BY DEF SeededMembers

\* Another boot keeps the types.
LEMMA BootTyped == TypeOK /\ Boot => TypeOK'
<1> SUFFICES ASSUME TypeOK, Boot PROVE TypeOK'
  OBVIOUS
<1>1. events' \in Seq(Event)
  <2>1. events \in Seq(Event) /\ SeededEvents \in Seq(Event)
    BY SeededEventsTyped DEF TypeOK
  <2> QED
    BY <2>1 DEF Boot
<1>2. members' \in [Groups -> SUBSET Agents] /\ mirror' \in [Groups -> SUBSET Agents]
  BY SeededMembersTyped DEF Boot, TypeOK
<1>3. created' \subseteq Groups
  BY BootAssumption DEF Boot, TypeOK
<1> QED
  BY <1>1, <1>2, <1>3 DEF Boot, TypeOK

\* The boot state is well typed.
LEMMA InitTyped == Init => TypeOK
BY SeededEventsTyped, BootAssumption DEF Init, TypeOK, SeededMembers, Row

\* A membership change keeps the types.
LEMMA MembershipTyped ==
    ASSUME TypeOK, NEW a \in Agents, NEW g \in Groups
    PROVE  /\ CreateGroup(a, g) => TypeOK'
           /\ JoinGroup(a, g) => TypeOK'
           /\ \A type \in {"leave", "kick"} :
                RemoveMember(a, g, type) => TypeOK'
<1>1. ASSUME CreateGroup(a, g) PROVE TypeOK'
  <2>1. events' \in Seq(Event)
    BY <1>1, LogTyped DEF CreateGroup
  <2> QED
    BY <1>1, <2>1 DEF CreateGroup, AddMember, TouchMirror, world, TypeOK
<1>2. ASSUME JoinGroup(a, g) PROVE TypeOK'
  <2>1. events' \in Seq(Event)
    BY <1>2, LogTyped DEF JoinGroup
  <2> QED
    BY <1>2, <2>1 DEF JoinGroup, AddMember, TouchMirror, world, TypeOK
<1>3. ASSUME NEW type \in {"leave", "kick"}, RemoveMember(a, g, type)
      PROVE  TypeOK'
  <2>1. events' \in Seq(Event)
    BY <1>3, LogTyped DEF RemoveMember
  <2>2. dm' \subseteq Row
    <3>1. ASSUME NEW r \in dm PROVE r \in Row /\ Cancelled(r) \in Row
      BY RowUpdates
    <3> QED
      BY <1>3, <3>1 DEF RemoveMember, Purged
  <2> QED
    BY <1>3, <2>1, <2>2 DEF RemoveMember, TouchMirror, world, TypeOK
<1> QED
  BY <1>1, <1>2, <1>3

\* Every step keeps the types.
LEMMA StepTyped == TypeOK /\ [Next]_vars => TypeOK'
<1> SUFFICES ASSUME TypeOK, [Next]_vars PROVE TypeOK'
  OBVIOUS
<1>1. CASE Membership
  BY <1>1, MembershipTyped DEF Membership, LeaveGroup, KickMember
<1>2. ASSUME NEW s \in Agents, NEW g \in Groups, SendToGroup(s, g)
      PROVE  TypeOK'
  <2>1. ASSUME NEW m \in members[g] PROVE Copy(s, g, m) \in Row
    BY <2>1, DelayAssumption DEF Copy, Row, TypeOK
  <2> QED
    BY <1>2, <2>1 DEF SendToGroup, world, TypeOK
<1>3. CASE SweepUndelivered
  <2>1. dm' \subseteq Row
    BY <1>3, RowUpdates DEF SweepUndelivered, Swept
  <2> QED
    BY <1>3, <2>1 DEF SweepUndelivered, world, TypeOK
<1>4. CASE Environment
  BY <1>4 DEF Environment, Move, Grant, Revoke, AdvanceClock, group_vars, TypeOK
<1>5. CASE UNCHANGED vars
  BY <1>5 DEF vars, world, TypeOK
<1> QED
  BY <1>1, <1>2, <1>3, <1>4, <1>5, BootTyped DEF Next

\* In every reachable state the tables and indexes are well typed.
THEOREM TypeCorrect == Spec => []TypeOK
BY InitTyped, StepTyped, PTL DEF Spec

-----------------------------------------------------------------------------
(* The mirror and the queue *)

\* What makes the two invariants inductive: the mirror is the table or what the
\* scenario says, and what waits is addressed to members.
QueueInv == TypeOK /\ MirrorTrailsTable /\ PendingOnlyForMembers

\* At boot nothing waits and the mirror is loaded from the roster.
LEMMA QueueInit == Init => QueueInv
BY InitTyped DEF Init, QueueInv, MirrorTrailsTable, PendingOnlyForMembers

\* Every step keeps the queue for members: what makes the fan-out write a
\* waiting copy is that the table names the recipient, and leaving cancels it.
LEMMA QueueStep == QueueInv /\ [Next]_vars => QueueInv'
<1> SUFFICES ASSUME QueueInv, [Next]_vars PROVE QueueInv'
  OBVIOUS
<1>0. TypeOK /\ TypeOK'
  BY StepTyped DEF QueueInv
<1>1. ASSUME NEW a \in Agents, NEW g \in Groups,
             CreateGroup(a, g) \/ JoinGroup(a, g)
      PROVE  QueueInv'
  <2>1. MirrorTrailsTable'
    BY <1>0, <1>1 DEF CreateGroup, JoinGroup, AddMember, TouchMirror, QueueInv,
                      MirrorTrailsTable, TypeOK, world
  <2>2. PendingOnlyForMembers'
    BY <1>0, <1>1 DEF CreateGroup, JoinGroup, AddMember, QueueInv, Pending,
                      PendingOnlyForMembers, TypeOK, Row
  <2> QED
    BY <1>0, <2>1, <2>2 DEF QueueInv
<1>2. ASSUME NEW a \in Agents, NEW g \in Groups,
             NEW type \in {"leave", "kick"}, RemoveMember(a, g, type)
      PROVE  QueueInv'
  <2>1. MirrorTrailsTable'
    BY <1>0, <1>2 DEF RemoveMember, TouchMirror, QueueInv, MirrorTrailsTable,
                      TypeOK, world
  <2>2. ASSUME NEW r \in dm', Pending(r) PROVE r.recipient \in members'[r.group]
    <3>1. r \in dm /\ ~(r.recipient = a /\ r.group = g)
      <4>1. PICK q \in dm : r = IF q.recipient = a /\ q.group = g /\ Pending(q)
                                THEN Cancelled(q) ELSE q
        BY <1>2, <2>2 DEF RemoveMember, Purged
      <4>2. Cancelled(q).delivered = -1
        BY <1>0, RowUpdates
      <4> QED
        BY <2>2, <4>1, <4>2 DEF Pending
    <3> QED
      BY <1>0, <1>2, <2>2, <3>1 DEF RemoveMember, QueueInv,
                      PendingOnlyForMembers, TypeOK, Row
  <2>3. PendingOnlyForMembers'
    BY <2>2 DEF PendingOnlyForMembers, Pending
  <2> QED
    BY <1>0, <2>1, <2>3 DEF QueueInv
<1>3. ASSUME NEW s \in Agents, NEW g \in Groups, SendToGroup(s, g)
      PROVE  QueueInv'
  <2>1. ASSUME NEW r \in dm', Pending(r) PROVE r.recipient \in members'[r.group]
    BY <1>0, <1>3, <2>1 DEF SendToGroup, Copy, QueueInv, PendingOnlyForMembers
  <2> QED
    BY <1>0, <1>3, <2>1 DEF SendToGroup, QueueInv, MirrorTrailsTable,
                      PendingOnlyForMembers, Pending, world
<1>4. CASE SweepUndelivered
  <2>1. ASSUME NEW r \in dm', Pending(r) PROVE r \in dm
    <3>1. PICK q \in dm : r = Swept(q)
      BY <1>4, <2>1 DEF SweepUndelivered
    <3>2. Delivered(q).delivered = 1
      BY <1>0, RowUpdates
    <3>3. r = q \/ r = Delivered(q)
      BY <3>1 DEF Swept
    <3>4. r # Delivered(q)
      BY <2>1, <3>2 DEF Pending
    <3> QED
      BY <3>3, <3>4
  <2> QED
    BY <1>0, <1>4, <2>1 DEF SweepUndelivered, QueueInv, MirrorTrailsTable,
                      PendingOnlyForMembers, Pending, world
<1>5. CASE Environment \/ UNCHANGED vars
  BY <1>0, <1>5 DEF Environment, Move, Grant, Revoke, AdvanceClock, group_vars,
                    vars, world, QueueInv, MirrorTrailsTable, PendingOnlyForMembers,
                    Pending
\* The table keeps its members over a boot, and the mirror has no other.
<1>6. CASE Boot
  <2>1. MirrorTrailsTable'
    BY <1>0, <1>6, SeededMembersTyped DEF Boot, MirrorTrailsTable, SeededMembers, TypeOK
  <2>2. PendingOnlyForMembers'
    BY <1>0, <1>6 DEF Boot, QueueInv, PendingOnlyForMembers, Pending, TypeOK, Row
  <2> QED
    BY <1>0, <2>1, <2>2 DEF QueueInv
<1> QED
  BY <1>1, <1>2, <1>3, <1>4, <1>5, <1>6 DEF Next, Membership, LeaveGroup, KickMember

\* The queue invariant holds of every behaviour.
LEMMA QueueAlways == Spec => []QueueInv
BY QueueInit, QueueStep, PTL DEF Spec

\* In the first process phi_grp never decides on stale memberships; in a later
\* one the mirror of a group may still be what the scenario says of it, but it
\* never names anybody who is not a member.
THEOREM MirrorIsBehind == Spec => []MirrorTrailsTable
<1>1. QueueInv => MirrorTrailsTable
  BY DEF QueueInv
<1> QED
  BY <1>1, QueueAlways, PTL

\* The sweep finds no row of a former member.
THEOREM QueueIsForMembers == Spec => []PendingOnlyForMembers
<1>1. QueueInv => PendingOnlyForMembers
  BY DEF QueueInv
<1> QED
  BY <1>1, QueueAlways, PTL
-----------------------------------------------------------------------------
(* The life of a copy *)

\* One step of the bus, seen by one row.
LEMMA CopyStep ==
    ASSUME QueueInv, [Next]_vars, NEW r \in dm
    PROVE  \E s \in dm' : SameCopy(r, s) /\ CopyEvolves(r, s)
<1>0. TypeOK
  BY DEF QueueInv
<1>1. ASSUME dm \subseteq dm'
      PROVE  \E s \in dm' : SameCopy(r, s) /\ CopyEvolves(r, s)
  BY <1>1 DEF SameCopy, CopyEvolves
<1>2. ASSUME NEW a \in Agents, NEW g \in Groups,
             NEW type \in {"leave", "kick"}, RemoveMember(a, g, type)
      PROVE  \E s \in dm' : SameCopy(r, s) /\ CopyEvolves(r, s)
  <2>1. CASE r.recipient = a /\ r.group = g /\ Pending(r)
    <3>1. Cancelled(r) \in dm'
      BY <1>2, <2>1 DEF RemoveMember, Purged
    <3>2. SameCopy(r, Cancelled(r))
      BY <1>0, RowUpdates DEF SameCopy
    <3>3. r.recipient \in members[r.group] \ members'[r.group]
      BY <1>0, <1>2, <2>1 DEF RemoveMember, TypeOK
    <3> QED
      BY <2>1, <3>1, <3>2, <3>3 DEF CopyEvolves, Cancelled
  <2>2. CASE ~(r.recipient = a /\ r.group = g /\ Pending(r))
    <3>1. r \in dm'
      BY <1>2, <2>2 DEF RemoveMember, Purged
    <3> QED
      BY <3>1 DEF SameCopy, CopyEvolves
  <2> QED
    BY <2>1, <2>2
<1>3. CASE SweepUndelivered
  <2>1. CASE Pending(r) /\ phi_grp(r.recipient, r.group)
    <3>1. Delivered(r) \in dm'
      BY <1>3, <2>1 DEF SweepUndelivered, Swept
    <3>2. SameCopy(r, Delivered(r))
      BY <1>0, RowUpdates DEF SameCopy
    <3>3. Delivered(r) = [r EXCEPT !.delivered = 1,
                                   !.arrive = Delivered(r).arrive]
          /\ Delivered(r).arrive >= t
      BY <1>0 DEF Row, TypeOK, Delivered
    <3>4. r.recipient \in members[r.group]
      <4>1. r.group \in Groups /\ r.recipient \in mirror[r.group]
        BY <1>0, <2>1 DEF phi_grp, TypeOK, Row
      <4> QED
        BY <4>1 DEF QueueInv, MirrorTrailsTable
    <3> QED
      BY <2>1, <3>1, <3>2, <3>3, <3>4 DEF CopyEvolves
  <2>2. CASE ~(Pending(r) /\ phi_grp(r.recipient, r.group))
    <3>1. r \in dm'
      BY <1>3, <2>2 DEF SweepUndelivered, Swept
    <3> QED
      BY <3>1 DEF SameCopy, CopyEvolves
  <2> QED
    BY <2>1, <2>2
<1>4. CASE \E s \in Agents, g \in Groups : SendToGroup(s, g)
  BY <1>1, <1>4 DEF SendToGroup
<1>5. CASE Environment \/ UNCHANGED vars
  BY <1>1, <1>5 DEF Environment, Move, Grant, Revoke, AdvanceClock, group_vars,
                    vars, world
<1>6. ASSUME NEW a \in Agents, NEW g \in Groups,
             CreateGroup(a, g) \/ JoinGroup(a, g)
      PROVE  \E s \in dm' : SameCopy(r, s) /\ CopyEvolves(r, s)
  BY <1>1, <1>6 DEF CreateGroup, JoinGroup
<1>7. CASE Boot
  BY <1>1, <1>7 DEF Boot
<1> QED
  BY <1>2, <1>3, <1>4, <1>5, <1>6, <1>7 DEF Next, Membership, LeaveGroup, KickMember

\* No copy is lost, rewritten, delivered to somebody who is not a reachable
\* member, or brought back after it was read or cancelled.
THEOREM CopiesLiveOneLife == Spec => CopyLifecycle
<1>1. QueueInv /\ [Next]_vars
        => [\A r \in dm : \E s \in dm' : SameCopy(r, s) /\ CopyEvolves(r, s)]_vars
  BY CopyStep
<1> QED
  BY <1>1, QueueAlways, PTL DEF Spec, CopyLifecycle

-----------------------------------------------------------------------------
(* The identity of a copy *)

\* <<msg, recipient>> names one copy, and messages are numbered upwards.
CopyKeys ==
    /\ \A r \in dm : r.msg <= nMsg
    /\ \A r, s \in dm : SameCopy(r, s) => r = s

\* Rewriting rows one by one without touching their names keeps the names.
LEMMA NamesKept ==
    ASSUME CopyKeys, UNCHANGED nMsg, NEW F, dm' = {F[r] : r \in dm},
           \A r \in dm : F[r].msg = r.msg /\ F[r].recipient = r.recipient
    PROVE  CopyKeys'
<1>1. \A s \in dm' : s.msg <= nMsg'
  BY DEF CopyKeys
<1>2. ASSUME NEW s \in dm', NEW q \in dm', SameCopy(s, q) PROVE s = q
  <2>1. PICK r \in dm, p \in dm : s = F[r] /\ q = F[p]
    OBVIOUS
  <2>2. r = p
    BY <1>2, <2>1 DEF CopyKeys, SameCopy
  <2> QED
    BY <2>1, <2>2
<1> QED
  BY <1>1, <1>2 DEF CopyKeys, SameCopy

\* Every step keeps the numbering: a copy that evolves keeps its name, and a
\* new message has a new number.
LEMMA KeysStep == TypeOK /\ CopyKeys /\ [Next]_vars => CopyKeys'
<1> SUFFICES ASSUME TypeOK, CopyKeys, [Next]_vars PROVE CopyKeys'
  OBVIOUS
<1>1. CASE UNCHANGED <<nMsg, dm>>
  BY <1>1 DEF CopyKeys, SameCopy
<1>2. ASSUME NEW a \in Agents, NEW g \in Groups,
             NEW type \in {"leave", "kick"}, RemoveMember(a, g, type)
      PROVE  CopyKeys'
  <2> DEFINE F == [r \in dm |-> IF r.recipient = a /\ r.group = g /\ Pending(r)
                                THEN Cancelled(r) ELSE r]
  <2>1. dm' = {F[r] : r \in dm} /\ UNCHANGED nMsg
    BY <1>2 DEF RemoveMember, Purged
  <2>2. \A r \in dm : F[r].msg = r.msg /\ F[r].recipient = r.recipient
    BY RowUpdates
  <2> HIDE DEF F
  <2> QED
    BY <2>1, <2>2, NamesKept
<1>3. CASE SweepUndelivered
  <2> DEFINE F == [r \in dm |-> Swept(r)]
  <2>1. dm' = {F[r] : r \in dm} /\ UNCHANGED nMsg
    BY <1>3 DEF SweepUndelivered
  <2>2. \A r \in dm : F[r].msg = r.msg /\ F[r].recipient = r.recipient
    BY RowUpdates DEF Swept
  <2> HIDE DEF F
  <2> QED
    BY <2>1, <2>2, NamesKept
<1>4. ASSUME NEW a \in Agents, NEW g \in Groups, SendToGroup(a, g)
      PROVE  CopyKeys'
  <2>1. /\ nMsg' = nMsg + 1
        /\ dm' = dm \union {Copy(a, g, m) : m \in members[g] \ {a}}
    BY <1>4 DEF SendToGroup
  <2>2. \A m : Copy(a, g, m).msg = nMsg + 1 /\ Copy(a, g, m).recipient = m
    BY DEF Copy
  <2>3. nMsg \in Nat /\ \A r \in dm : r.msg \in Nat /\ r.msg <= nMsg
    BY DEF CopyKeys, TypeOK, Row
  <2>4. \A r \in dm' : \/ r \in dm
                       \/ r.msg = nMsg + 1 /\ r = Copy(a, g, r.recipient)
    BY <2>1, <2>2
  <2>5. \A r \in dm' : r.msg <= nMsg'
    BY <2>1, <2>3, <2>4
  <2>6. ASSUME NEW r \in dm', NEW s \in dm', SameCopy(r, s) PROVE r = s
    BY <2>3, <2>4, <2>6 DEF SameCopy, CopyKeys
  <2> QED
    BY <2>5, <2>6 DEF CopyKeys, SameCopy
<1> QED
  BY <1>1, <1>2, <1>3, <1>4 DEF Next, Membership, LeaveGroup, KickMember,
     CreateGroup, JoinGroup, Boot, Environment, Move, Grant, Revoke, AdvanceClock,
     group_vars, vars, world

-----------------------------------------------------------------------------
(* The event log *)

\* a is a member of g according to the log.
JoinedLast(a, g) == \E i \in 1..Len(events) : /\ LastEvent(i, a, g)
                                             /\ events[i].type = "join"

\* Logging an event of a in g: the log tells of a in g what was just logged,
\* and of everybody else what it told before.
LEMMA LogChanges ==
    ASSUME TypeOK, NEW a \in Agents, NEW g \in Groups,
           NEW type \in {"join", "leave", "kick"}, Log(a, g, type),
           NEW b \in Agents, NEW h \in Groups
    PROVE  JoinedLast(b, h)' <=> IF b = a /\ h = g THEN type = "join"
                                                   ELSE JoinedLast(b, h)
<1>0. PICK n \in Nat : n = Len(events)
  BY DEF TypeOK
<1>1. /\ Len(events) = n /\ Len(events') = n + 1
      /\ events'[n + 1].agent = a /\ events'[n + 1].group = g
      /\ events'[n + 1].type = type
      /\ \A i \in 1..n : events'[i] = events[i]
  BY <1>0 DEF Log, TypeOK
<1>2. \A i \in 1..(n + 1) : i \in 1..n \/ i = n + 1
  BY <1>1
<1>3. CASE b = a /\ h = g
  <2>1. LastEvent(n + 1, b, h)'
    BY <1>1, <1>3 DEF LastEvent
  <2>2. \A i \in 1..n : ~LastEvent(i, b, h)'
    BY <1>1, <1>3 DEF LastEvent
  <2> QED
    BY <1>1, <1>2, <1>3, <2>1, <2>2 DEF JoinedLast
<1>4. CASE ~(b = a /\ h = g)
  <2>1. ~LastEvent(n + 1, b, h)'
    BY <1>1, <1>4 DEF LastEvent
  <2>2. \A i \in 1..n : LastEvent(i, b, h)' <=> LastEvent(i, b, h)
    BY <1>1, <1>2, <1>4 DEF LastEvent
  <2> QED
    BY <1>1, <1>2, <1>4, <2>1, <2>2 DEF JoinedLast
<1> QED
  BY <1>3, <1>4

\* At boot every seeded membership has its one join event.
LEMMA LogInit == Init => EventLogExplainsMembership
<1> SUFFICES ASSUME Init, NEW a \in Agents, NEW g \in Groups
             PROVE  a \in members[g] <=> JoinedLast(a, g)
  BY DEF EventLogExplainsMembership, JoinedLast
<1>1. /\ Roster \in Seq(Scenario \X Agents)
      /\ \A i, j \in 1..Len(Roster) : Roster[i] = Roster[j] => i = j
  BY BootAssumption
<1>2. /\ Len(events) = Len(Roster)
      /\ \A i \in 1..Len(Roster) : /\ events[i].group = Roster[i][1]
                                   /\ events[i].agent = Roster[i][2]
                                   /\ events[i].type = "join"
  BY <1>1 DEF Init, SeededEvents
<1>3. \A i \in 1..Len(Roster) :
        Roster[i] = <<g, a>> <=> Roster[i][1] = g /\ Roster[i][2] = a
  BY <1>1
<1>4. \A i \in 1..Len(Roster) : LastEvent(i, a, g) <=> Roster[i] = <<g, a>>
  <2> SUFFICES ASSUME NEW i \in 1..Len(Roster)
               PROVE  LastEvent(i, a, g) <=> Roster[i] = <<g, a>>
    OBVIOUS
  <2>1. ASSUME Roster[i] = <<g, a>>, NEW j \in i + 1..Len(events),
               events[j].agent = a, events[j].group = g
        PROVE  FALSE
    <3>1. j \in 1..Len(Roster) /\ j # i
      BY <1>1, <1>2
    <3>2. Roster[j] = <<g, a>>
      BY <1>2, <1>3, <2>1, <3>1
    <3> QED
      BY <1>1, <2>1, <3>1, <3>2
  <2> QED
    BY <1>2, <1>3, <2>1 DEF LastEvent
<1> QED
  BY <1>1, <1>2, <1>4 DEF Init, SeededMembers, JoinedLast

\* What the boot writes tells of its memberships, and of no other.
LEMMA SeededLog ==
    ASSUME NEW a \in Agents, NEW g \in Groups
    PROVE  /\ Len(SeededEvents) = Len(Roster) /\ Len(Roster) \in Nat
           /\ \A i \in 1..Len(Roster) : SeededEvents[i].type = "join"
           /\ (\E i \in 1..Len(Roster) :
                  SeededEvents[i].agent = a /\ SeededEvents[i].group = g)
                <=> a \in SeededMembers[g]
           /\ \A i, j \in 1..Len(Roster) :
                /\ SeededEvents[i].agent = a /\ SeededEvents[i].group = g
                /\ SeededEvents[j].agent = a /\ SeededEvents[j].group = g
                => i = j
<1>1. /\ Roster \in Seq(Scenario \X Agents)
      /\ \A i, j \in 1..Len(Roster) : Roster[i] = Roster[j] => i = j
  BY BootAssumption
<1>2. /\ Len(SeededEvents) = Len(Roster) /\ Len(Roster) \in Nat
      /\ \A i \in 1..Len(Roster) : /\ SeededEvents[i].group = Roster[i][1]
                                   /\ SeededEvents[i].agent = Roster[i][2]
                                   /\ SeededEvents[i].type = "join"
  BY <1>1 DEF SeededEvents
<1>3. \A i \in 1..Len(Roster) :
        Roster[i] = <<g, a>> <=> Roster[i][1] = g /\ Roster[i][2] = a
  BY <1>1
<1>4. \A i \in 1..Len(Roster) :
        Roster[i] = <<g, a>>
            <=> SeededEvents[i].agent = a /\ SeededEvents[i].group = g
  BY <1>2, <1>3
<1>5. (\E i \in 1..Len(Roster) : Roster[i] = <<g, a>>) <=> a \in SeededMembers[g]
  BY DEF SeededMembers
<1>6. \A i, j \in 1..Len(Roster) :
        Roster[i] = <<g, a>> /\ Roster[j] = <<g, a>> => i = j
  BY <1>1
<1> QED
  BY <1>2, <1>4, <1>5, <1>6

\* After another boot the log tells of a membership if the boot wrote it, or if
\* it did before.
LEMMA BootLog ==
    ASSUME TypeOK, Boot, NEW b \in Agents, NEW h \in Groups
    PROVE  JoinedLast(b, h)' <=> b \in SeededMembers[h] \/ JoinedLast(b, h)
<1>0. PICK n \in Nat, k \in Nat : n = Len(events) /\ k = Len(Roster)
  BY BootAssumption DEF TypeOK
<1> DEFINE Of(e) == e.agent = b /\ e.group = h
<1>1. /\ Len(SeededEvents) = k
      /\ \A i \in 1..k : SeededEvents[i].type = "join"
      /\ (\E i \in 1..k : Of(SeededEvents[i])) <=> b \in SeededMembers[h]
      /\ \A i, j \in 1..k : Of(SeededEvents[i]) /\ Of(SeededEvents[j]) => i = j
  BY <1>0, SeededLog
<1>2. /\ Len(events') = n + k
      /\ \A i \in 1..n : events'[i] = events[i]
      /\ \A i \in 1..k : events'[n + i] = SeededEvents[i]
  <2>1. events \in Seq(Event) /\ SeededEvents \in Seq(Event)
    BY SeededEventsTyped DEF TypeOK
  <2>2. events' = events \o SeededEvents
    BY DEF Boot
  <2>3. /\ Len(events \o SeededEvents) = n + k
        /\ \A i \in 1..(n + k) :
             (events \o SeededEvents)[i] =
                IF i <= n THEN events[i] ELSE SeededEvents[i - n]
    BY <1>0, <1>1, <2>1
  <2>4. ASSUME NEW i \in 1..k PROVE events'[n + i] = SeededEvents[i]
    <3>1. n + i \in 1..(n + k) /\ ~(n + i <= n) /\ n + i - n = i
      BY <1>0
    <3>2. (events \o SeededEvents)[n + i] = SeededEvents[n + i - n]
      BY <2>3, <3>1
    <3> QED
      BY <2>2, <3>1, <3>2
  <2>5. ASSUME NEW i \in 1..n PROVE events'[i] = events[i]
    <3>1. i \in 1..(n + k) /\ i <= n
      BY <1>0
    <3> QED
      BY <2>2, <2>3, <3>1
  <2>6. Len(events') = n + k
    BY <2>2, <2>3
  <2> QED
    BY <2>4, <2>5, <2>6
<1>3. \A i \in 1..(n + k) : i \in 1..n \/ (i - n \in 1..k /\ n + (i - n) = i)
  BY <1>0
<1>4. \A i \in 1..n : i \in 1..(n + k) /\ \A j \in 1..k : n + j > i /\ n + j \in 1..(n + k)
  BY <1>0
<1>5. CASE b \in SeededMembers[h]
  <2>1. PICK i \in 1..k : Of(SeededEvents[i])
    BY <1>1, <1>5
  <2>2. n + i \in 1..(n + k) /\ Of(events'[n + i]) /\ events'[n + i].type = "join"
    <3>1. n + i \in 1..(n + k)
      BY <1>0
    <3> QED
      BY <1>1, <1>2, <2>1, <3>1
  <2>3. ASSUME NEW j \in 1..(n + k), j > n + i PROVE ~Of(events'[j])
    <3>1. PICK m \in 1..k : n + m = j /\ m # i
      <4>1. j - n \in 1..k /\ n + (j - n) = j /\ j - n # i
        BY <1>0, <2>3
      <4> QED
        BY <4>1
    <3>2. ~Of(SeededEvents[m])
      BY <1>1, <2>1, <3>1
    <3> QED
      BY <1>2, <3>1, <3>2
  <2> QED
    BY <1>2, <1>5, <2>2, <2>3 DEF JoinedLast, LastEvent
<1>6. CASE b \notin SeededMembers[h]
  <2>1. \A i \in 1..k : ~Of(events'[n + i])
    BY <1>1, <1>2, <1>6
  <2>2. ASSUME NEW i \in 1..n PROVE LastEvent(i, b, h)' <=> LastEvent(i, b, h)
    <3>1. LastEvent(i, b, h)
            <=> Of(events[i]) /\ \A j \in 1..n : j > i => ~Of(events[j])
      BY <1>0 DEF LastEvent
    <3>2. LastEvent(i, b, h)'
            <=> Of(events'[i]) /\ \A j \in 1..(n + k) : j > i => ~Of(events'[j])
      BY <1>2 DEF LastEvent
    <3>3. \A j \in 1..(n + k) : j \in 1..n \/ ~Of(events'[j])
      BY <1>3, <2>1
    <3> QED
      BY <1>2, <1>4, <3>1, <3>2, <3>3
  <2>3. ASSUME NEW i \in 1..(n + k), LastEvent(i, b, h)' PROVE i \in 1..n
    BY <1>3, <2>1, <2>3 DEF LastEvent
  <2> QED
    BY <1>0, <1>2, <1>4, <1>6, <2>2, <2>3 DEF JoinedLast
<1> QED
  BY <1>5, <1>6

\* Every step keeps log and table in agreement.
LEMMA LogStep ==
    TypeOK /\ EventLogExplainsMembership /\ [Next]_vars
        => EventLogExplainsMembership'
<1> SUFFICES ASSUME TypeOK, EventLogExplainsMembership, [Next]_vars,
                    NEW b \in Agents, NEW h \in Groups
             PROVE  b \in members'[h] <=> JoinedLast(b, h)'
  BY DEF EventLogExplainsMembership, JoinedLast
<1>0. b \in members[h] <=> JoinedLast(b, h)
  BY DEF EventLogExplainsMembership, JoinedLast
<1>1. ASSUME NEW a \in Agents, NEW g \in Groups, AddMember(a, g),
             Log(a, g, "join")
      PROVE  b \in members'[h] <=> JoinedLast(b, h)'
  BY <1>0, <1>1, LogChanges DEF AddMember, TypeOK
<1>2. ASSUME NEW a \in Agents, NEW g \in Groups,
             NEW type \in {"leave", "kick"}, RemoveMember(a, g, type)
      PROVE  b \in members'[h] <=> JoinedLast(b, h)'
  BY <1>0, <1>2, LogChanges DEF RemoveMember, TypeOK
<1>3. CASE UNCHANGED <<members, events>>
  BY <1>0, <1>3 DEF JoinedLast, LastEvent
<1>4. CASE Boot
  BY <1>0, <1>4, BootLog DEF Boot, TypeOK
<1> QED
  BY <1>1, <1>2, <1>3, <1>4 DEF Next, Membership, CreateGroup, JoinGroup, LeaveGroup,
     KickMember, SendToGroup, SweepUndelivered, Environment, Move, Grant,
     Revoke, AdvanceClock, group_vars, vars, world

\* The reports written from group_event can be trusted: replaying it gives the
\* membership table.
THEOREM LogIsTruthful == Spec => []EventLogExplainsMembership
BY LogInit, LogStep, TypeCorrect, PTL DEF Spec
-----------------------------------------------------------------------------
(* GroupBus implements GroupInbox *)

Kept == {CopyOf(r) : r \in {q \in dm : Pending(q)}}

Readable == {CopyOf(r) : r \in {q \in dm : q.delivered = 1}}

\* A step that leaves the rows and the members alone is a stutter.
LEMMA InboxStutters ==
    ASSUME UNCHANGED <<members, nMsg, dm>>
    PROVE  UNCHANGED Inbox!inbox
BY DEF Inbox!inbox, CopyOf, Pending

\* A new member leaves the boxes alone.
LEMMA InboxJoin ==
    ASSUME NEW a \in Agents, NEW g \in Groups, AddMember(a, g),
           UNCHANGED <<nMsg, dm>>
    PROVE  Inbox!Join(a, g)
BY DEF Inbox!Join, AddMember, CopyOf, Pending

\* Another boot enrols the scenario's members.
LEMMA InboxReopen ==
    ASSUME Boot
    PROVE  \E enrolled \in [Groups -> SUBSET Agents] : Inbox!Reopen(enrolled)
<1>1. SeededMembers \in [Groups -> SUBSET Agents]
  BY SeededMembersTyped
<1>2. Inbox!Reopen(SeededMembers)
  BY DEF Boot, Inbox!Reopen, CopyOf, Pending
<1> QED
  BY <1>1, <1>2

\* Removing a member cancels its copies of the group and no other.
LEMMA InboxLeave ==
    ASSUME TypeOK, NEW a \in Agents, NEW g \in Groups,
           NEW type \in {"leave", "kick"}, RemoveMember(a, g, type)
    PROVE  Inbox!Leave(a, g)
<1>1. ASSUME NEW r \in dm', Pending(r)
      PROVE  r \in dm /\ ~(r.recipient = a /\ r.group = g)
  <2>1. PICK q \in dm : r = IF q.recipient = a /\ q.group = g /\ Pending(q)
                            THEN Cancelled(q) ELSE q
    BY <1>1 DEF RemoveMember, Purged
  <2> QED
    BY <1>1, <2>1, RowUpdates DEF Pending
<1>2. ASSUME NEW r \in dm, Pending(r), ~(r.recipient = a /\ r.group = g)
      PROVE  r \in dm'
  BY <1>2 DEF RemoveMember, Purged
<1>3. Kept' = {c \in Kept : c.owner # a \/ c.group # g}
  BY <1>1, <1>2 DEF Kept, CopyOf, Pending
<1>4. ASSUME NEW r PROVE r \in dm' /\ r.delivered = 1
                         <=> r \in dm /\ r.delivered = 1
  <2>1. ASSUME r \in dm', r.delivered = 1 PROVE r \in dm
    <3>1. PICK q \in dm : r = IF q.recipient = a /\ q.group = g /\ Pending(q)
                              THEN Cancelled(q) ELSE q
      BY <2>1 DEF RemoveMember, Purged
    <3> QED
      BY <2>1, <3>1, RowUpdates
  <2>2. ASSUME r \in dm, r.delivered = 1 PROVE r \in dm'
    BY <2>2 DEF RemoveMember, Purged, Pending
  <2> QED
    BY <2>1, <2>2
<1>5. Readable' = Readable
  BY <1>4 DEF Readable
<1> QED
  BY <1>3, <1>5 DEF Inbox!Leave, Kept, Readable, RemoveMember, world

\* The fan-out of a message: those it can be delivered to now, and the rest.
LEMMA InboxSend ==
    ASSUME TypeOK, NEW s \in Agents, NEW g \in Groups, SendToGroup(s, g)
    PROVE  \E now \in SUBSET Agents : Inbox!Send(s, g, now)
<1>1. PICK now \in SUBSET Agents :
           now = {m \in members[g] \ {s} : Deliverable(s, m, g)}
  BY DEF TypeOK
<1>2. ASSUME NEW m
      PROVE  /\ CopyOf(Copy(s, g, m)) = [msg |-> nMsg + 1, group |-> g, owner |-> m]
             /\ Pending(Copy(s, g, m)) <=> ~Deliverable(s, m, g)
             /\ Copy(s, g, m).delivered = 1 <=> Deliverable(s, m, g)
  BY DEF CopyOf, Copy, Pending
<1>3. Readable' = Readable \union Inbox!Copies(now, g, nMsg + 1)
  BY <1>1, <1>2 DEF SendToGroup, Readable, Inbox!Copies
<1>4. Kept' = Kept \union Inbox!Copies((members[g] \ {s}) \ now, g, nMsg + 1)
  BY <1>1, <1>2 DEF SendToGroup, Kept, Pending, Inbox!Copies
<1>5. Inbox!Send(s, g, now)
  <2>1. nMsg' = nMsg + 1 /\ members' = members
    BY DEF SendToGroup
  <2> QED
    BY <1>1, <1>3, <1>4, <2>1 DEF Inbox!Send, Kept, Readable
<1> QED
  BY <1>1, <1>5

\* The sweep makes readable the waiting copies it finds reachable; whether it
\* does depends on nothing but the copy's owner and group.
LEMMA InboxSweep ==
    ASSUME TypeOK, SweepUndelivered
    PROVE  \E ready \in SUBSET Kept : Inbox!Deliver(ready)
<1>0. PICK ready \in SUBSET Kept :
           ready = {c \in Kept : phi_grp(c.owner, c.group)}
  OBVIOUS
<1>1. ASSUME NEW r \in dm
      PROVE  /\ CopyOf(Delivered(r)) = CopyOf(r)
             /\ CopyOf(r).owner = r.recipient /\ CopyOf(r).group = r.group
             /\ Swept(r) \in dm'
  BY RowUpdates DEF CopyOf, SweepUndelivered
<1>2. ASSUME NEW q \in dm'
      PROVE  \E r \in dm : q = Swept(r)
  BY DEF SweepUndelivered
<1>3. Kept' = Kept \ ready
  <2>1. ASSUME NEW q \in dm', Pending(q) PROVE CopyOf(q) \in Kept \ ready
    <3>1. PICK r \in dm : q = Swept(r)
      BY <1>2
    <3>2. q = r /\ ~phi_grp(r.recipient, r.group)
      BY <2>1, <3>1, RowUpdates DEF Swept, Pending
    <3> QED
      BY <1>0, <1>1, <2>1, <3>2 DEF Kept
  <2>2. ASSUME NEW c \in Kept \ ready PROVE c \in Kept'
    <3>1. PICK r \in dm : Pending(r) /\ c = CopyOf(r)
      BY <2>2 DEF Kept
    <3>2. Swept(r) = r
      BY <1>0, <1>1, <2>2, <3>1 DEF Swept
    <3> QED
      BY <1>1, <3>1, <3>2 DEF Kept, Pending
  <2> QED
    BY <2>1, <2>2 DEF Kept, Pending
<1>4. Readable' = Readable \union ready
  <2>1. ASSUME NEW q \in dm', q.delivered = 1
        PROVE  CopyOf(q) \in Readable \union ready
    <3>1. PICK r \in dm : q = Swept(r)
      BY <1>2
    <3>2. CASE Pending(r) /\ phi_grp(r.recipient, r.group)
      BY <1>0, <1>1, <3>1, <3>2 DEF Swept, Kept
    <3>3. CASE ~(Pending(r) /\ phi_grp(r.recipient, r.group))
      BY <2>1, <3>1, <3>3 DEF Swept, Readable
    <3> QED
      BY <3>2, <3>3
  <2>2. ASSUME NEW c \in Readable PROVE c \in Readable'
    <3>1. PICK r \in dm : r.delivered = 1 /\ c = CopyOf(r)
      BY <2>2 DEF Readable
    <3>2. Swept(r) = r
      BY <3>1 DEF Swept, Pending
    <3> QED
      BY <1>1, <3>1, <3>2 DEF Readable
  <2>3. ASSUME NEW c \in ready PROVE c \in Readable'
    <3>1. PICK r \in dm : Pending(r) /\ c = CopyOf(r)
      BY <2>3 DEF Kept
    <3>2. Swept(r) = Delivered(r)
      BY <1>0, <1>1, <2>3, <3>1 DEF Swept
    <3> QED
      BY <1>1, <3>1, <3>2, RowUpdates DEF Readable
  <2> QED
    BY <2>1, <2>2, <2>3 DEF Readable
<1>5. Inbox!Deliver(ready)
  <2>1. UNCHANGED <<members, nMsg>>
    BY DEF SweepUndelivered
  <2> QED
    BY <1>3, <1>4, <2>1 DEF Inbox!Deliver, Kept, Readable
<1> QED
  BY <1>5

\* The boot state has empty boxes.
LEMMA InboxInit == Init => Inbox!Init
BY BootAssumption DEF Init, Inbox!Init, SeededMembers

\* Every step of the bus is a step of the inbox or leaves it alone.
LEMMA InboxStep == TypeOK /\ [Next]_vars => [Inbox!Next]_Inbox!inbox
<1> SUFFICES ASSUME TypeOK, [Next]_vars
             PROVE  Inbox!Next \/ UNCHANGED Inbox!inbox
  OBVIOUS
<1>1. ASSUME NEW a \in Agents, NEW g \in Groups,
             CreateGroup(a, g) \/ JoinGroup(a, g)
      PROVE  Inbox!Next
  BY <1>1, InboxJoin DEF CreateGroup, JoinGroup, Inbox!Next
<1>2. ASSUME NEW a \in Agents, NEW g \in Groups,
             NEW type \in {"leave", "kick"}, RemoveMember(a, g, type)
      PROVE  Inbox!Next
  BY <1>2, InboxLeave DEF Inbox!Next
<1>3. ASSUME NEW s \in Agents, NEW g \in Groups, SendToGroup(s, g)
      PROVE  Inbox!Next
  BY <1>3, InboxSend DEF Inbox!Next
<1>4. CASE SweepUndelivered
  BY <1>4, InboxSweep DEF Inbox!Next, Kept
<1>5. CASE Environment \/ UNCHANGED vars
  BY <1>5, InboxStutters DEF Environment, Move, Grant, Revoke, AdvanceClock,
     group_vars, vars, world
<1>6. CASE Boot
  BY <1>6, InboxReopen DEF Inbox!Next
<1> QED
  BY <1>1, <1>2, <1>3, <1>4, <1>5, <1>6 DEF Next, Membership, LeaveGroup, KickMember

\* The bus keeps the promise of the abstract inbox.
THEOREM BusImplementsInbox == Spec => InboxRefined
BY InboxInit, InboxStep, TypeCorrect, PTL DEF Spec, InboxRefined, Inbox!Spec
=============================================================================
