---------------------------- MODULE WorldStores ----------------------------
(***************************************************************************)
(* Where agents are, what they may do and how they are related: PlaceStore, *)
(* CapabilityTable and RelationGraph, each a memory and a table of world.db *)
(* that is written through, and the projection of the follow relations to  *)
(* the database of a feed pool. The process may die at any moment, in the   *)
(* middle of a change too, and boots again on the same directory: it seeds  *)
(* the tables from the configuration and loads the memory from them, in an  *)
(* order that differs between the two programs.                             *)
(*                                                                         *)
(* Within one process every change is atomic: the lock of WorldDB is never  *)
(* contended, so nothing suspends. Metadata, expiry (which nothing sets),   *)
(* hooks of place types and place requirements of capabilities are left     *)
(* out. Pools do not depend on each other; one stands for all.              *)
(***************************************************************************)
EXTENDS Integers, FiniteSets, Functions

CONSTANTS
    Agents, Places, Capabilities,
    Types,        \* relation types
    Symmetric,    \* RelationTypeMeta.symmetric
    Excludes,     \* pairs <<type, a type in its mutually_exclusive>>
    LoadsFirst,   \* the programs: TRUE for the runner, FALSE for the demo
    Home,         \* location of each agent in the configuration
    SeedEdges, SeedCapabilities,  \* relations and capabilities there
    MaxT, MaxBoots, MaxCalls       \* bounds

Pairs == Agents \X Agents
Edges == Agents \X Agents \X Types

ASSUME StoresAssumption ==
    /\ Symmetric \subseteq Types
    /\ Excludes \subseteq Types \X Types
    /\ \A x \in Excludes : x[1] # x[2]
    /\ LoadsFirst \subseteq BOOLEAN
    /\ Home \in [Agents -> Places]
    /\ SeedEdges \subseteq Edges
    /\ SeedCapabilities \subseteq Agents \X Capabilities
    /\ {MaxT, MaxBoots, MaxCalls} \subseteq Nat

VARIABLES
    up, boots, t, calls,
    loadsFirst,     \* the program that uses the directory
    edges,          \* RelationGraph.edges, with its two indexes
    relation,       \* rows of relation
    holds,          \* CapabilityTable.by_agent, with its index
    capability,     \* rows of capability
    L,              \* PlaceStore.L
    agentsAt,       \* PlaceStore._agents_at
    agentLocation,  \* rows of agent_location
    accounts,       \* agents with a user row in the pool
    follow,         \* rows of follow, without their multiplicity
    loaded,         \* the edges this process loaded (history)
    cut,            \* edges whose change a death cut in two (history)
    refused         \* rows of follow whose removal failed (history)

process_vars == <<up, boots, t, calls, loadsFirst>>
relation_vars == <<edges, relation, loaded, cut>>
capability_vars == <<holds, capability>>
place_vars == <<L, agentsAt, agentLocation>>
pool_vars == <<accounts, follow, refused>>
vars == <<process_vars, relation_vars, capability_vars, place_vars, pool_vars>>

Row(a, c, granted, active) ==
    [agent |-> a, capability |-> c, granted |-> granted, active |-> active]

TypeOK ==
    /\ up \in BOOLEAN /\ loadsFirst \in LoadsFirst
    /\ boots \in 0..MaxBoots /\ t \in 0..MaxT /\ calls \in 0..MaxCalls
    /\ edges \subseteq Edges /\ relation \subseteq Edges
    /\ holds \subseteq Agents \X Capabilities
    /\ \A r \in capability :
         r \in [agent : Agents, capability : Capabilities, granted : 0..MaxT,
                active : BOOLEAN]
    /\ DOMAIN L \subseteq Agents /\ Range(L) \subseteq Places
    /\ agentsAt \in [Places -> SUBSET Agents]
    /\ DOMAIN agentLocation \subseteq Agents
    /\ Range(agentLocation) \subseteq Places
    /\ accounts \subseteq Agents /\ follow \subseteq accounts \X accounts
    /\ loaded \subseteq Edges /\ cut \subseteq Edges
    /\ refused \subseteq follow

NoMemory ==
    /\ edges' = {} /\ loaded' = {}
    /\ holds' = {}
    /\ L' = <<>> /\ agentsAt' = [p \in Places |-> {}]

Init ==
    /\ loadsFirst \in LoadsFirst
    /\ up = FALSE /\ boots = 0 /\ t = 0 /\ calls = 0
    /\ edges = {} /\ relation = {} /\ loaded = {} /\ cut = {}
    /\ holds = {} /\ capability = {}
    /\ L = <<>> /\ agentsAt = [p \in Places |-> {}] /\ agentLocation = <<>>
    /\ accounts = {} /\ follow = {} /\ refused = {}

-----------------------------------------------------------------------------
(* The statements of WorldDB that the stores use *)

AddRows(es) == relation' = relation \cup es

RemoveRows(es) == relation' = relation \ es

SetLocation(a, p) == agentLocation' = [agentLocation EXCEPT ![a] = p]

Deactivated(a, c) == {IF r.agent = a /\ r.capability = c
                        THEN [r EXCEPT !.active = FALSE] ELSE r :
                        r \in capability}

Active(rows) == {<<r.agent, r.capability>> : r \in {q \in rows : q.active}}

\* Mutant: a grant only writes a row if there is none with its key.
InsertOrIgnore(rows, row) ==
    IF \E r \in rows : /\ r.agent = row.agent
                       /\ r.capability = row.capability
                       /\ r.granted = row.granted
      THEN rows
      ELSE rows \cup {row}

\* INSERT OR REPLACE under the key (agent_id, capability, granted_at).
InsertOrReplace(rows, row) ==
    {r \in rows : \/ r.agent # row.agent
                  \/ r.capability # row.capability
                  \/ r.granted # row.granted} \cup {row}

-----------------------------------------------------------------------------
(* Boot *)

\* The index of a location map.
IndexOf(loc) == [p \in Places |-> {a \in DOMAIN loc : loc[a] = p}]

SeededRows(rows) ==
    {r \in rows : r.granted # 0
                    \/ <<r.agent, r.capability>> \notin SeedCapabilities}
      \cup {Row(s[1], s[2], 0, TRUE) : s \in SeedCapabilities}

\* Relations are seeded into the table only, past the checks of the graph.
SeedTables ==
    /\ AddRows(SeedEdges)
    /\ capability' = SeededRows(capability)
    /\ agentLocation' = Home

\* The runner loads and then seeds, locations and capabilities in memory too:
\* an agent into the set of its home without leaving the one it was loaded
\* into.
LoadThenSeed ==
    /\ SeedTables
    /\ edges' = relation
    /\ agentsAt' = [p \in Places |-> IndexOf(agentLocation)[p]
                                       \cup IndexOf(Home)[p]]

\* The demo seeds the tables and loads them.
SeedThenLoad ==
    /\ SeedTables
    /\ edges' = relation'
    /\ agentsAt' = IndexOf(Home)

Boot ==
    /\ ~up
    /\ boots < MaxBoots
    /\ up' = TRUE /\ boots' = boots + 1 /\ t' = 0
    /\ IF loadsFirst THEN LoadThenSeed ELSE SeedThenLoad
    /\ loaded' = edges'
    /\ holds' = Active(capability')
    /\ L' = Home
    /\ UNCHANGED <<calls, loadsFirst, cut, pool_vars>>

\* The process ends or dies between two changes.
Down ==
    /\ up
    /\ up' = FALSE
    /\ NoMemory
    /\ UNCHANGED <<boots, t, calls, loadsFirst, relation, cut, capability,
                   agentLocation, pool_vars>>

-----------------------------------------------------------------------------
(* The hook of MultiPoolPlatformManager: mutual_follow is projected in both *)
(* directions, whatever the graph does with it                              *)

BothWays(type) == type = "mutual_follow"
Projects(type) == type \in {"follower", "mutual_follow"}

\* Mutant: whether both have an account is not asked.
FollowOfAnybody(e) ==
    IF Projects(e[3])
      THEN {<<e[1], e[2]>>}
             \cup (IF BothWays(e[3]) THEN {<<e[2], e[1]>>} ELSE {})
      ELSE {}

FollowRows(e) ==
    IF Projects(e[3]) /\ {e[1], e[2]} \subseteq accounts
      THEN {<<e[1], e[2]>>}
             \cup (IF BothWays(e[3]) THEN {<<e[2], e[1]>>} ELSE {})
      ELSE {}

RowsOf(changed) == UNION {FollowRows(e) : e \in changed}

\* Mutant: removal takes back the forward row only.
RemoveForward(changed) ==
    /\ follow' = follow \ {<<e[1], e[2]>> : e \in {c \in changed : Projects(c[3])}}
    /\ refused' = refused \cap follow'

\* Every row is a statement of its own; one that fails is logged, and a pool
\* whose accounts cannot be read is passed over. The relation has changed by
\* then.
HookAdd(changed) ==
    /\ \E done \in SUBSET RowsOf(changed) : follow' = follow \cup done
    /\ refused' = refused \ RowsOf(changed)

HookRemove(changed) ==
    /\ \E done \in SUBSET RowsOf(changed) : follow' = follow \ done
    /\ refused' = (refused \cup RowsOf(changed)) \cap follow'

-----------------------------------------------------------------------------
(* RelationGraph *)

Twin(e) == <<e[2], e[1], e[3]>>

Conflicts(e) ==
    \E x \in Excludes :
        /\ x[1] = e[3]
        /\ \/ <<e[1], e[2], x[2]>> \in edges
           \/ e[3] \in Symmetric /\ <<e[2], e[1], x[2]>> \in edges

\* Mutant: no twin when the edge is new.
NoTwin(e) == {e}

\* The edge and, if its type is symmetric, its twin.
WithTwin(e) == IF e[3] \in Symmetric THEN {e, Twin(e)} ELSE {e}

Called ==
    /\ up
    /\ calls < MaxCalls
    /\ calls' = calls + 1
    /\ UNCHANGED <<up, boots, t, loadsFirst>>

AddRelation(e) ==
    /\ Called
    /\ ~Conflicts(e)
    /\ e \notin edges
    /\ edges' = edges \cup WithTwin(e)
    /\ AddRows(WithTwin(e) \ edges)
    /\ HookAdd(WithTwin(e) \ edges)
    /\ UNCHANGED <<loaded, cut, capability_vars, place_vars, accounts>>

RemoveRelation(e) ==
    /\ Called
    /\ e \in edges
    /\ edges' = edges \ WithTwin(e)
    /\ RemoveRows(WithTwin(e) \cap edges)
    /\ HookRemove(WithTwin(e) \cap edges)
    /\ UNCHANGED <<loaded, cut, capability_vars, place_vars, accounts>>

\* The process dies after the first row of a change: before the pools, between
\* them, or before the twin.
DiesInChange(e) ==
    /\ up /\ calls < MaxCalls
    /\ \/ /\ ~Conflicts(e) /\ e \notin edges
          /\ AddRows({e})
          /\ \E done \in SUBSET FollowRows(e) : follow' = follow \cup done
       \/ /\ e \in edges
          /\ RemoveRows({e})
          /\ \E done \in SUBSET FollowRows(e) : follow' = follow \ done
    /\ cut' = cut \cup {e, Twin(e)} /\ refused' = refused \cap follow'
    /\ up' = FALSE /\ calls' = calls + 1
    /\ NoMemory
    /\ UNCHANGED <<boots, t, loadsFirst, capability, agentLocation, accounts>>

-----------------------------------------------------------------------------
(* CapabilityTable and PlaceStore *)

Grant(a, c) ==
    /\ Called
    /\ <<a, c>> \notin holds
    /\ holds' = holds \cup {<<a, c>>}
    /\ capability' = InsertOrReplace(capability, Row(a, c, t, TRUE))
    /\ UNCHANGED <<relation_vars, place_vars, pool_vars>>

Revoke(a, c) ==
    /\ Called
    /\ <<a, c>> \in holds
    /\ holds' = holds \ {<<a, c>>}
    /\ capability' = Deactivated(a, c)
    /\ UNCHANGED <<relation_vars, place_vars, pool_vars>>

Move(a, p) ==
    /\ Called
    /\ p # L[a]
    /\ agentsAt' = [q \in Places |->
                      IF q = L[a] THEN agentsAt[q] \ {a}
                      ELSE IF q = p THEN agentsAt[q] \cup {a} ELSE agentsAt[q]]
    /\ L' = [L EXCEPT ![a] = p]
    /\ SetLocation(a, p)
    /\ UNCHANGED <<relation_vars, capability_vars, pool_vars>>

\* The platform registers an agent with the pool.
SignUp(a) ==
    /\ Called
    /\ a \notin accounts
    /\ accounts' = accounts \cup {a}
    /\ UNCHANGED <<follow, refused, relation_vars, capability_vars, place_vars>>

Tick ==
    /\ up
    /\ t < MaxT
    /\ t' = t + 1
    /\ UNCHANGED <<up, boots, calls, loadsFirst, relation_vars, capability_vars,
                   place_vars, pool_vars>>

Next ==
    \/ Boot \/ Down \/ Tick
    \/ \E e \in Edges : AddRelation(e) \/ RemoveRelation(e) \/ DiesInChange(e)
    \/ \E a \in Agents :
         \/ \E c \in Capabilities : Grant(a, c) \/ Revoke(a, c)
         \/ \E p \in Places : Move(a, p)
         \/ SignUp(a)

Spec == Init /\ [][Next]_vars

-----------------------------------------------------------------------------
(* Properties *)

\* What the types of relations promise holds of the graph. Those declared
\* symmetric are there in both directions, unless the configuration seeded one
\* or a death cut the change in two; two that each declare the other excluded
\* are between the same agents only if the process found both in the table. Of
\* an exclusion that one of them declares it says nothing: add asks the type it
\* adds only.
GraphKeepsItsRules ==
    \A e \in edges :
        /\ e[3] \in Symmetric /\ e \notin SeedEdges \cup cut => Twin(e) \in edges
        /\ \A x \in Excludes :
             LET f == <<e[1], e[2], x[2]>> IN
             x[1] = e[3] /\ <<x[2], x[1]>> \in Excludes /\ f \in edges =>
                 {e, f} \subseteq loaded

\* What a process believes is what its successor will read: the three tables
\* agree with the memory but for seeded relations the runner did not load.
MemoryIsTable ==
    up => /\ edges \subseteq relation
          /\ relation \ edges \subseteq SeedEdges
          /\ holds = Active(capability)
          /\ L = agentLocation

Justified(f, es) ==
    \E e \in es : /\ Projects(e[3])
                 /\ \/ f = <<e[1], e[2]>>
                    \/ BothWays(e[3]) /\ f = <<e[2], e[1]>>

\* A pool never shows a follow that no relation justifies, unless the pool
\* refused to remove it or the process died in the change: whatever is added
\* and removed, in both directions and by both types, over any boots. What a
\* pool refused no later boot repairs: rebuild_follow_from_world has no caller.
FollowsAreJustified == up => \A f \in follow \ refused : Justified(f, edges \cup cut)

\* PlaceStore.move: "Atomically updates L and the reverse index". An agent is
\* in the set of the place it is in and in no other.
OnePlaceEach ==
    up => \A a \in Agents : {p \in Places : a \in agentsAt[p]} = {L[a]}
=============================================================================
