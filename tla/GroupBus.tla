------------------------------ MODULE GroupBus ------------------------------
(***************************************************************************)
(* The group channel of the kernel: GroupMessageBus over the world.db      *)
(* tables group_member, group_message, group_event and direct_message, the *)
(* membership mirror kept by ConnectivityResolver, and the moves,          *)
(* capability changes and clock ticks that decide who is reachable.        *)
(*                                                                         *)
(* Every bus method is one action: a WorldDB write runs a synchronous      *)
(* sqlite call under a lock that is never contended, so no other coroutine *)
(* of the event loop runs between the statements of a method.              *)
(* Another process may follow on the same directory: run_demo with a       *)
(* --sim-dir used before, or the runner, whose boot seeds no group         *)
(* (Scenario and Roster are empty). A process that dies between two        *)
(* statements of a method is not modelled here.                            *)
(*                                                                         *)
(* Message texts, group names, created_at columns and the actor of an      *)
(* event are left out.                                                     *)
(***************************************************************************)
EXTENDS Integers, Sequences, FiniteSets

CONSTANTS
    Agents,     \* agent ids
    Groups,     \* group ids, those AUTOINCREMENT has not handed out included
    Places,     \* place ids
    NoPlace,    \* the None of PlaceStore.L_t
    Coverage,   \* pairs <<src, dst>> whose coverage edge has can_reach
    GrpDelay,   \* ticks before a reachable member can read a message
    Scenario,   \* groups written by the boot code
    Roster,     \* their memberships <<group, agent>>, in scenario order
    MaxT,       \* bound on the clock
    MaxMsgs,    \* bound on group_message rows
    MaxEvents,  \* bound on group_event rows
    MaxBoots    \* bound on the processes after the first

ASSUME NoPlaceAssumption == NoPlace \notin Places
ASSUME CoverageAssumption == Coverage \subseteq Places \X Places
ASSUME DelayAssumption == GrpDelay \in Nat
ASSUME BootAssumption == /\ Scenario \subseteq Groups
                         /\ Roster \in Seq(Scenario \X Agents)
                         \* group_member has (group_id, agent_id) as its key
                         /\ \A i, j \in 1..Len(Roster) :
                                Roster[i] = Roster[j] => i = j
ASSUME BoundsAssumption == /\ MaxT \in Nat
                           /\ MaxMsgs \in Nat
                           /\ MaxEvents \in Nat
                           /\ MaxBoots \in Nat

VARIABLES
    t,          \* Clock.t
    L,          \* PlaceStore.L: where each agent is
    uplink,     \* agents that hold signal_uplink
    created,    \* chat_group
    members,    \* group_member, per group
    mirror,     \* ConnectivityResolver._group_members
    nMsg,       \* the last group_message.message_id
    dm,         \* the direct_message rows with a group_id
    events,     \* group_event, in event_id order
    boots       \* processes so far after the first

world == <<t, L, uplink, boots>>
vars == <<world, created, members, mirror, nMsg, dm, events>>

Event == [group : Groups, agent : Agents, type : {"join", "leave", "kick"},
          at : Int]

\* One fan-out copy; <<msg, recipient>> identifies it.
Row == [msg : Nat, sender : Agents, recipient : Agents, group : Groups,
        place : Places \union {NoPlace}, attempted : Nat, arrive : Nat,
        delivered : {-1, 0, 1}]

-----------------------------------------------------------------------------
(* Reachability *)

Covered(p, q) == <<p, q>> \in Coverage

\* phi_grp asks for the self-edge of the agent's own place only.
phi_grp(a, g) == /\ a \in mirror[g]
                 /\ a \in uplink
                 /\ L[a] # NoPlace
                 /\ Covered(L[a], L[a])

\* What _resolve_delivery requires to write the copy as delivered.
Deliverable(s, m, g) == /\ L[s] # NoPlace
                        /\ phi_grp(s, g)
                        /\ L[m] # NoPlace
                        /\ Covered(L[s], L[m])
                        /\ phi_grp(m, g)

Pending(r) == r.delivered = 0

\* The two updates a waiting copy can meet.
Cancelled(r) == [r EXCEPT !.delivered = -1]

Delivered(r) == [r EXCEPT !.delivered = 1, !.arrive = t]

-----------------------------------------------------------------------------
(* Boot *)

SeededMembers == [g \in Groups |->
                    {a \in Agents : \E i \in 1..Len(Roster) :
                                        Roster[i] = <<g, a>>}]

SeededEvents == [i \in 1..Len(Roster) |->
                    [group |-> Roster[i][1], agent |-> Roster[i][2],
                     type |-> "join", at |-> -1]]

Init == /\ t = 0
        /\ L \in [Agents -> Places \union {NoPlace}]
        /\ uplink \in SUBSET Agents
        /\ created = Scenario
        /\ members = SeededMembers
        /\ mirror = SeededMembers
        /\ nMsg = 0
        /\ dm = {}
        /\ events = SeededEvents
        /\ boots = 0

\* The next process: the clock starts again, the scenario puts agents in their
\* places and grants its capabilities once more, its memberships go into the
\* table unless they are there and into the log in any case, and the mirror is
\* new. The messages are on disk.
Boot == /\ boots < MaxBoots
        /\ Len(events) + Len(Roster) <= MaxEvents
        /\ boots' = boots + 1
        /\ t' = 0
        /\ L' \in {M \in [Agents -> Places \union {NoPlace}] :
                     \A a \in Agents : M[a] = NoPlace => L[a] = NoPlace}
        /\ uplink' \in {U \in SUBSET Agents : uplink \subseteq U}
        /\ created' = created \union Scenario
        /\ members' = [g \in Groups |-> members[g] \union SeededMembers[g]]
        /\ mirror' = SeededMembers
        /\ events' = events \o SeededEvents
        /\ UNCHANGED <<nMsg, dm>>

-----------------------------------------------------------------------------
(* Faulty variants of operators below. No specification uses them: put in   *)
(* the place of the operator they are named after, they show that the       *)
(* properties notice the fault.                                             *)

\* The mirror is not refreshed.
TouchMirrorNever(g) == UNCHANGED mirror

\* Leaving does not touch the waiting copies.
PurgedNothing(a, g) == dm

\* Leaving one group cancels what waits from every group.
PurgedAnyGroup(a, g) ==
    {IF r.recipient = a /\ Pending(r)
        THEN Cancelled(r) ELSE r : r \in dm}

\* A kick is not written to the event log.
LogExceptKick(a, g, type) ==
    /\ Len(events) < MaxEvents
    /\ events' = IF type = "kick" THEN events
                 ELSE Append(events, [group |-> g, agent |-> a,
                                      type |-> type, at |-> t])

\* A failed copy is dated one tick back, as fetch_failed_attempts_for looks
\* for it.
CopyDatedBack(s, g, m) ==
    [msg |-> nMsg + 1, sender |-> s, recipient |-> m, group |-> g,
     place |-> L[s], attempted |-> t,
     arrive |-> IF Deliverable(s, m, g) THEN t + GrpDelay ELSE t - 1,
     delivered |-> IF Deliverable(s, m, g) THEN 1 ELSE 0]

\* A reachable member reads the message in the tick of sending.
CopyAtOnce(s, g, m) ==
    [msg |-> nMsg + 1, sender |-> s, recipient |-> m, group |-> g,
     place |-> L[s], attempted |-> t, arrive |-> t,
     delivered |-> IF Deliverable(s, m, g) THEN 1 ELSE 0]

\* The sweep wakes cancelled copies up, or asks for the place of sending.
SweptAll(r) == IF r.delivered # 1 /\ phi_grp(r.recipient, r.group)
               THEN Delivered(r) ELSE r

SweptFromOrigin(r) ==
    IF Pending(r) /\ phi_grp(r.recipient, r.group)
       /\ Covered(r.place, L[r.recipient])
    THEN Delivered(r) ELSE r

-----------------------------------------------------------------------------
(* Group lifecycle *)

\* insert_group_event, at the current tick.
Log(a, g, type) ==
    /\ Len(events) < MaxEvents
    /\ events' = Append(events, [group |-> g, agent |-> a, type |-> type,
                                 at |-> t])

\* _touch_connectivity_members, after the table has changed.
TouchMirror(g) == mirror' = [mirror EXCEPT ![g] = members'[g]]

\* insert_group_member: INSERT OR IGNORE.
AddMember(a, g) == members' = [members EXCEPT ![g] = @ \union {a}]

CreateGroup(c, g) ==
    /\ g \notin created
    /\ created' = created \union {g}
    /\ AddMember(c, g)
    /\ Log(c, g, "join")
    /\ TouchMirror(g)
    /\ UNCHANGED <<world, nMsg, dm>>

\* Nothing asks whether the group exists.
JoinGroup(a, g) ==
    /\ a \notin members[g]
    /\ AddMember(a, g)
    /\ Log(a, g, "join")
    /\ TouchMirror(g)
    /\ UNCHANGED <<world, created, nMsg, dm>>

\* purge_undelivered_for_group: the copies still waiting are cancelled.
Purged(a, g) ==
    {IF r.recipient = a /\ r.group = g /\ Pending(r)
        THEN Cancelled(r) ELSE r : r \in dm}

\* What leave_group and kick_member share; they differ in the event.
RemoveMember(a, g, type) ==
    /\ a \in members[g]
    /\ members' = [members EXCEPT ![g] = @ \ {a}]
    /\ Log(a, g, type)
    /\ dm' = Purged(a, g)
    /\ TouchMirror(g)
    /\ UNCHANGED <<world, created, nMsg>>

LeaveGroup(a, g) == RemoveMember(a, g, "leave")

KickMember(a, g) == RemoveMember(a, g, "kick")

-----------------------------------------------------------------------------
(* Fan-out and redelivery *)

Copy(s, g, m) ==
    [msg |-> nMsg + 1, sender |-> s, recipient |-> m, group |-> g,
     place |-> L[s], attempted |-> t,
     arrive |-> IF Deliverable(s, m, g) THEN t + GrpDelay ELSE t,
     delivered |-> IF Deliverable(s, m, g) THEN 1 ELSE 0]

\* Nothing asks whether the sender is a member.
SendToGroup(s, g) ==
    /\ nMsg < MaxMsgs
    /\ nMsg' = nMsg + 1
    /\ dm' = dm \union {Copy(s, g, m) : m \in members[g] \ {s}}
    /\ UNCHANGED <<world, created, members, mirror, events>>

Swept(r) == IF Pending(r) /\ phi_grp(r.recipient, r.group)
            THEN Delivered(r) ELSE r

SweepUndelivered ==
    /\ dm' = {Swept(r) : r \in dm}
    /\ UNCHANGED <<world, created, members, mirror, nMsg, events>>

-----------------------------------------------------------------------------
(* The rest of the kernel, as far as it decides reachability *)

group_vars == <<created, members, mirror, nMsg, dm, events>>

\* PlaceStore.move; its guard on capacity does not exist.
Move(a, p) ==
    /\ L[a] # p
    /\ L' = [L EXCEPT ![a] = p]
    /\ UNCHANGED <<t, uplink, boots, group_vars>>

\* CapabilityTable.grant / revoke of signal_uplink.
Grant(a) ==
    /\ a \notin uplink
    /\ uplink' = uplink \union {a}
    /\ UNCHANGED <<t, L, boots, group_vars>>

Revoke(a) ==
    /\ a \in uplink
    /\ uplink' = uplink \ {a}
    /\ UNCHANGED <<t, L, boots, group_vars>>

AdvanceClock ==
    /\ t < MaxT
    /\ t' = t + 1
    /\ UNCHANGED <<L, uplink, boots, group_vars>>

Membership ==
    \E a \in Agents, g \in Groups :
        \/ CreateGroup(a, g)
        \/ JoinGroup(a, g)
        \/ LeaveGroup(a, g)
        \/ KickMember(a, g)

Environment ==
    \/ \E a \in Agents, p \in Places : Move(a, p)
    \/ \E a \in Agents : Grant(a) \/ Revoke(a)
    \/ AdvanceClock

Next ==
    \/ Membership
    \/ \E s \in Agents, g \in Groups : SendToGroup(s, g)
    \/ SweepUndelivered
    \/ Environment
    \/ Boot

Spec == Init /\ [][Next]_vars

\* run_one_tick calls the sweep on every tick and run_loop keeps ticking; that
\* another process follows is not promised.
FairSpec == Spec /\ WF_vars(SweepUndelivered)

-----------------------------------------------------------------------------
(* Properties *)

\* The variables hold what the tables and the indexes can hold.
TypeOK == /\ t \in Nat
          /\ L \in [Agents -> Places \union {NoPlace}]
          /\ uplink \subseteq Agents
          /\ created \subseteq Groups
          /\ members \in [Groups -> SUBSET Agents]
          /\ mirror \in [Groups -> SUBSET Agents]
          /\ nMsg \in Nat
          /\ dm \subseteq Row
          /\ events \in Seq(Event)
          /\ boots \in Nat

\* A copy still waiting for redelivery is addressed to a current member:
\* whoever left or was kicked has no row the sweep could wake up.
PendingOnlyForMembers ==
    \A r \in dm : Pending(r) => r.recipient \in members[r.group]

\* phi_grp reads the in-memory mirror and the fan-out reads the table. In the
\* first process they name the same members after every call. In a later one
\* the mirror may still be what the scenario says of a group, and then it
\* misses members but never has one too many: nobody reads what is sent to a
\* group he is not in.
MirrorTrailsTable ==
    \A g \in Groups :
        \/ mirror[g] = members[g]
        \/ /\ boots > 0
           /\ mirror[g] = SeededMembers[g] /\ mirror[g] \subseteq members[g]

\* a's last event in g, if it has one, is events[i].
LastEvent(i, a, g) ==
    /\ events[i].agent = a /\ events[i].group = g
    /\ \A j \in 1..Len(events) :
        j > i => ~(events[j].agent = a /\ events[j].group = g)

\* group_event, kept for post-hoc reporting, explains the membership table:
\* an agent is a member exactly when its last event in the group is a join.
EventLogExplainsMembership ==
    \A a \in Agents, g \in Groups :
        a \in members[g] <=> \E i \in 1..Len(events) :
                                /\ LastEvent(i, a, g)
                                /\ events[i].type = "join"

SameCopy(r, s) == r.msg = s.msg /\ r.recipient = s.recipient

\* The life of a copy: it is never lost or rewritten; a waiting one becomes
\* delivered only for a current member who is reachable, and readable no
\* earlier than now; it is cancelled only when the recipient loses the
\* membership; delivered and cancelled copies never change again.
CopyEvolves(r, s) ==
    \/ s = r
    \/ /\ Pending(r)
       /\ s = [r EXCEPT !.delivered = 1, !.arrive = s.arrive]
       /\ s.arrive >= t
       /\ r.recipient \in members[r.group]
       /\ phi_grp(r.recipient, r.group)
    \/ /\ Pending(r)
       /\ s = [r EXCEPT !.delivered = -1]
       /\ r.recipient \in members[r.group] \ members'[r.group]

CopyLifecycle ==
    [][\A r \in dm : \E s \in dm' : SameCopy(r, s) /\ CopyEvolves(r, s)]_vars

CanReceive(a) == a \in uplink /\ L[a] # NoPlace /\ Covered(L[a], L[a])

Waiting(a, g) == \E r \in dm : /\ r.recipient = a /\ r.group = g
                               /\ Pending(r)

\* The persistent queue drains: an agent that is reachable from some point on
\* does not keep a waiting copy for ever, of any group in the first process and
\* of those the mirror has him in afterwards.
QueueDrains ==
    \A a \in Agents, g \in Groups :
        <>[](CanReceive(a) /\ (boots = 0 \/ a \in mirror[g]))
            => []<>~Waiting(a, g)

\* GroupBus implements GroupInbox: the boxes are the rows by their state.
CopyOf(r) == [msg |-> r.msg, group |-> r.group, owner |-> r.recipient]

Inbox == INSTANCE GroupInbox WITH
            roster <- members,
            last <- nMsg,
            kept <- {CopyOf(r) : r \in {q \in dm : Pending(q)}},
            readable <- {CopyOf(r) : r \in {q \in dm : q.delivered = 1}}

\* Every behaviour of the bus is one the abstract inbox allows: no copy is
\* lost, made up, sent to a non-member, readable twice or readable after its
\* cancellation.
InboxRefined == Inbox!Spec

=============================================================================
