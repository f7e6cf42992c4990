-------------------------- MODULE WorldStores_proofs --------------------------
(***************************************************************************)
(* Theorems about WorldStores, for every set of agents, places and types,  *)
(* every configuration, either program, and any number of boots and of     *)
(* deaths in the middle of a change.                                       *)
(***************************************************************************)
EXTENDS WorldStores, TLAPS

CapabilityRow == [agent : Agents, capability : Capabilities, granted : 0..MaxT,
                  active : BOOLEAN]

-----------------------------------------------------------------------------
(* Type correctness *)

\* The empty directory is well typed.
LEMMA InitTyped == Init => TypeOK
<1> SUFFICES ASSUME Init PROVE TypeOK
  OBVIOUS
<1>1. DOMAIN L = {} /\ DOMAIN agentLocation = {}
  BY DEF Init
<1>2. Range(L) = {} /\ Range(agentLocation) = {}
  BY <1>1 DEF Range
<1>3. MaxT \in Nat /\ MaxBoots \in Nat /\ MaxCalls \in Nat
  BY StoresAssumption
<1>4. boots \in 0..MaxBoots /\ t \in 0..MaxT /\ calls \in 0..MaxCalls
  BY <1>3 DEF Init
<1> QED
  BY <1>1, <1>2, <1>4 DEF Init, TypeOK

\* A call counts up to its bound.
LEMMA CallsTyped ==
    ASSUME TypeOK, calls < MaxCalls, calls' = calls + 1
    PROVE  calls' \in 0..MaxCalls
<1>1. MaxCalls \in Nat
  BY StoresAssumption
<1> QED
  BY <1>1 DEF TypeOK

\* What a boot makes of the capability table.
LEMMA SeededTyped ==
    ASSUME TypeOK, SeedTables
    PROVE  /\ \A r \in capability' : r \in CapabilityRow
           /\ relation' \subseteq Edges
           /\ DOMAIN agentLocation' \subseteq Agents
           /\ Range(agentLocation') \subseteq Places
<1>1. ASSUME NEW s \in SeedCapabilities
      PROVE  Row(s[1], s[2], 0, TRUE) \in CapabilityRow
  BY StoresAssumption DEF Row, CapabilityRow
<1>2. \A r \in capability' : r \in CapabilityRow
  BY <1>1 DEF TypeOK, SeedTables, SeededRows, CapabilityRow
<1> QED
  BY <1>2, StoresAssumption DEF TypeOK, SeedTables, AddRows, Range

\* The edges a call writes are edges, and so are their follow rows.
LEMMA EdgesTyped ==
    ASSUME NEW e \in Edges
    PROVE  /\ WithTwin(e) \subseteq Edges
           /\ Twin(e) \in Edges
           /\ FollowRows(e) \subseteq accounts \X accounts
BY DEF Edges, WithTwin, Twin, FollowRows

\* What a pool is asked for, and what it does of it.
LEMMA HooksTyped ==
    ASSUME TypeOK, NEW changed \in SUBSET Edges,
           HookAdd(changed) \/ HookRemove(changed)
    PROVE  follow' \subseteq accounts \X accounts /\ refused' \subseteq follow'
<1>1. RowsOf(changed) \subseteq accounts \X accounts
  BY EdgesTyped DEF RowsOf
<1>2. CASE HookAdd(changed)
  BY <1>1, <1>2 DEF HookAdd, TypeOK
<1>3. CASE HookRemove(changed)
  BY <1>1, <1>3 DEF HookRemove, TypeOK
<1> QED
  BY <1>2, <1>3

\* Every step keeps the types.
LEMMA StepTyped == TypeOK /\ [Next]_vars => TypeOK'
<1> SUFFICES ASSUME TypeOK, [Next]_vars PROVE TypeOK'
  OBVIOUS
<1> USE DEF process_vars, relation_vars, capability_vars, place_vars, pool_vars
<1>1. CASE Boot
  <2>1. SeedTables
    BY <1>1 DEF Boot, LoadThenSeed, SeedThenLoad
  <2>2. edges' \subseteq Edges /\ loaded' \subseteq Edges
    BY <1>1, <2>1, SeededTyped
    DEF TypeOK, Boot, LoadThenSeed, SeedThenLoad
  <2>3. holds' \subseteq Agents \X Capabilities
    BY <1>1, <2>1, SeededTyped DEF Boot, Active, CapabilityRow
  <2>4. /\ DOMAIN L' \subseteq Agents /\ Range(L') \subseteq Places
    BY <1>1, StoresAssumption DEF Boot, Range
  <2>5. agentsAt' \in [Places -> SUBSET Agents]
    <3>1. /\ \A p \in Places : IndexOf(Home)[p] \subseteq Agents
          /\ \A p \in Places : IndexOf(agentLocation)[p] \subseteq Agents
      BY StoresAssumption DEF TypeOK, IndexOf
    <3>2. IndexOf(Home) \in [Places -> SUBSET Agents]
      BY StoresAssumption DEF IndexOf
    <3> QED
      BY <1>1, <3>1, <3>2 DEF Boot, LoadThenSeed, SeedThenLoad
  <2>6. /\ up' \in BOOLEAN /\ boots' \in 0..MaxBoots /\ t' \in 0..MaxT
        /\ calls' \in 0..MaxCalls /\ loadsFirst' \in LoadsFirst
    BY <1>1, StoresAssumption DEF TypeOK, Boot
  <2> QED
    BY <1>1, <2>1, <2>2, <2>3, <2>4, <2>5, <2>6, SeededTyped
    DEF TypeOK, Boot, CapabilityRow
<1>2. CASE Down
  <2>1. DOMAIN L' = {} /\ Range(L') = {}
    BY <1>2 DEF Down, NoMemory, Range
  <2> QED
    BY <1>2, <2>1 DEF TypeOK, Down, NoMemory
<1>3. CASE Tick
  <2>1. MaxT \in Nat
    BY StoresAssumption
  <2>2. t' \in 0..MaxT
    BY <1>3, <2>1 DEF TypeOK, Tick
  <2> QED
    BY <1>3, <2>2 DEF TypeOK, Tick
<1>4. ASSUME NEW e \in Edges, AddRelation(e) PROVE TypeOK'
  <2>1. /\ edges' \subseteq Edges /\ relation' \subseteq Edges
        /\ follow' \subseteq accounts \X accounts /\ refused' \subseteq follow'
    BY <1>4, EdgesTyped, HooksTyped DEF TypeOK, AddRelation, AddRows
  <2> QED
    BY <1>4, <2>1, CallsTyped DEF TypeOK, AddRelation, Called
<1>5. ASSUME NEW e \in Edges, RemoveRelation(e) PROVE TypeOK'
  <2>1. /\ edges' \subseteq Edges /\ relation' \subseteq Edges
        /\ follow' \subseteq accounts \X accounts /\ refused' \subseteq follow'
    BY <1>5, EdgesTyped, HooksTyped DEF TypeOK, RemoveRelation, RemoveRows
  <2> QED
    BY <1>5, <2>1, CallsTyped DEF TypeOK, RemoveRelation, Called
<1>6. ASSUME NEW e \in Edges, DiesInChange(e) PROVE TypeOK'
  <2>1. /\ relation' \subseteq Edges /\ cut' \subseteq Edges
        /\ follow' \subseteq accounts \X accounts /\ refused' \subseteq follow'
    BY <1>6, EdgesTyped DEF TypeOK, DiesInChange, AddRows, RemoveRows
  <2>2. DOMAIN L' = {} /\ Range(L') = {}
    BY <1>6 DEF DiesInChange, NoMemory, Range
  <2> QED
    BY <1>6, <2>1, <2>2, CallsTyped DEF TypeOK, DiesInChange, NoMemory
<1>7. ASSUME NEW a \in Agents, NEW c \in Capabilities, Grant(a, c)
      PROVE  TypeOK'
  <2>1. Row(a, c, t, TRUE) \in CapabilityRow
    BY DEF TypeOK, Row, CapabilityRow
  <2>2. \A r \in capability' : r \in CapabilityRow
    BY <1>7, <2>1 DEF TypeOK, Grant, InsertOrReplace, CapabilityRow
  <2>3. calls' \in 0..MaxCalls
    BY <1>7, CallsTyped DEF Grant, Called
  <2>4. holds' \subseteq Agents \X Capabilities
    BY <1>7 DEF TypeOK, Grant
  <2> QED
    BY <1>7, <2>2, <2>3, <2>4 DEF TypeOK, Grant, Called, CapabilityRow
<1>8. ASSUME NEW a \in Agents, NEW c \in Capabilities, Revoke(a, c)
      PROVE  TypeOK'
  <2>1. \A r \in capability' : r \in CapabilityRow
    BY <1>8 DEF TypeOK, Revoke, Deactivated, CapabilityRow
  <2> QED
    BY <1>8, <2>1, CallsTyped DEF TypeOK, Revoke, Called, CapabilityRow
<1>9. ASSUME NEW a \in Agents, NEW p \in Places, Move(a, p) PROVE TypeOK'
  <2>1. /\ DOMAIN L' \subseteq Agents /\ Range(L') \subseteq Places
        /\ DOMAIN agentLocation' \subseteq Agents
        /\ Range(agentLocation') \subseteq Places
    BY <1>9 DEF TypeOK, Move, SetLocation, Range
  <2>2. agentsAt' \in [Places -> SUBSET Agents]
    BY <1>9 DEF TypeOK, Move
  <2>3. calls' \in 0..MaxCalls
    BY <1>9, CallsTyped DEF Move, Called
  <2> QED
    BY <1>9, <2>1, <2>2, <2>3 DEF TypeOK, Move, Called
<1>10. ASSUME NEW a \in Agents, SignUp(a) PROVE TypeOK'
  BY <1>10, CallsTyped DEF TypeOK, SignUp, Called
<1>11. CASE UNCHANGED vars
  BY <1>11 DEF TypeOK, vars
<1> QED
  BY <1>1, <1>2, <1>3, <1>4, <1>5, <1>6, <1>7, <1>8, <1>9, <1>10, <1>11
  DEF Next

\* The tables and the memory stay well typed.
THEOREM StoresTyped == Spec => []TypeOK
BY InitTyped, StepTyped, PTL DEF Spec

-----------------------------------------------------------------------------
(* The tables agree with the memory *)

\* A grant adds one active row, a revocation takes the active ones back.
LEMMA ActiveRows ==
    ASSUME TypeOK, NEW a \in Agents, NEW c \in Capabilities
    PROVE  /\ Active(InsertOrReplace(capability, Row(a, c, t, TRUE))) =
                Active(capability) \cup {<<a, c>>}
           /\ Active(Deactivated(a, c)) = Active(capability) \ {<<a, c>>}
<1> DEFINE new == Row(a, c, t, TRUE)
<1>1. /\ new.agent = a /\ new.capability = c /\ new.active = TRUE
      /\ new.granted = t
  BY DEF Row
<1>2. Active(InsertOrReplace(capability, new)) = Active(capability) \cup {<<a, c>>}
  <2>1. ASSUME NEW x \in Active(InsertOrReplace(capability, new))
        PROVE  x \in Active(capability) \cup {<<a, c>>}
    BY <1>1, <2>1 DEF Active, InsertOrReplace
  <2>2. <<a, c>> \in Active(InsertOrReplace(capability, new))
    BY <1>1 DEF Active, InsertOrReplace
  <2>3. ASSUME NEW r \in capability, r.active
        PROVE  <<r.agent, r.capability>> \in Active(InsertOrReplace(capability, new))
    <3>1. CASE r \in InsertOrReplace(capability, new)
      BY <2>3, <3>1 DEF Active
    <3>2. CASE r \notin InsertOrReplace(capability, new)
      BY <1>1, <2>2, <3>2 DEF InsertOrReplace
    <3> QED
      BY <3>1, <3>2
  <2>4. Active(capability) \subseteq Active(InsertOrReplace(capability, new))
    BY <2>3 DEF Active
  <2> QED
    BY <2>1, <2>2, <2>4
<1>3. Active(Deactivated(a, c)) = Active(capability) \ {<<a, c>>}
  <2>1. \A r \in capability : /\ [r EXCEPT !.active = FALSE].active = FALSE
                              /\ r.active \in BOOLEAN
    BY DEF TypeOK
  <2>2. \A x : x \in Active(Deactivated(a, c)) <=>
               \E r \in capability : /\ ~(r.agent = a /\ r.capability = c)
                                    /\ r.active
                                    /\ x = <<r.agent, r.capability>>
    BY <2>1 DEF Active, Deactivated
  <2> QED
    BY <2>2 DEF Active
<1> QED
  BY <1>2, <1>3

TablesInv == TypeOK /\ MemoryIsTable

\* Every step keeps memory and tables together.
LEMMA TablesStep == TablesInv /\ [Next]_vars => TablesInv'
<1> SUFFICES ASSUME TablesInv, [Next]_vars PROVE MemoryIsTable'
  BY StepTyped DEF TablesInv
<1> USE DEF TablesInv, MemoryIsTable
<1> USE DEF process_vars, relation_vars, capability_vars, place_vars, pool_vars
<1>1. CASE Boot
  BY <1>1
  DEF Boot, LoadThenSeed, SeedThenLoad, SeedTables, AddRows
<1>2. CASE Down
  BY <1>2 DEF Down
<1>3. CASE Tick
  BY <1>3 DEF Tick
<1>4. ASSUME NEW e \in Edges, AddRelation(e) PROVE MemoryIsTable'
  BY <1>4 DEF AddRelation, AddRows, Called
<1>5. ASSUME NEW e \in Edges, RemoveRelation(e) PROVE MemoryIsTable'
  BY <1>5 DEF RemoveRelation, RemoveRows, Called
<1>6. ASSUME NEW e \in Edges, DiesInChange(e) PROVE MemoryIsTable'
  BY <1>6 DEF DiesInChange
<1>7. ASSUME NEW a \in Agents, NEW c \in Capabilities, Grant(a, c) \/ Revoke(a, c)
      PROVE  MemoryIsTable'
  BY <1>7, ActiveRows DEF Grant, Revoke, Called
<1>8. ASSUME NEW a \in Agents, NEW p \in Places, Move(a, p) PROVE MemoryIsTable'
  BY <1>8 DEF Move, SetLocation, Called
<1>9. ASSUME NEW a \in Agents, SignUp(a) PROVE MemoryIsTable'
  BY <1>9 DEF SignUp, Called
<1>10. CASE UNCHANGED vars
  BY <1>10 DEF vars
<1> QED
  BY <1>1, <1>2, <1>3, <1>4, <1>5, <1>6, <1>7, <1>8, <1>9, <1>10 DEF Next

\* Before the first boot there is no memory.
LEMMA TablesInit == Init => TablesInv
BY InitTyped DEF Init, TablesInv, MemoryIsTable

\* What a process believes of capabilities, relations and places is what its
\* successor will read, except seeded relations.
THEOREM MemoryAgreesWithTables == Spec => []MemoryIsTable
<1>1. TablesInv => MemoryIsTable
  BY DEF TablesInv
<1> QED
  BY <1>1, TablesInit, TablesStep, PTL DEF Spec

-----------------------------------------------------------------------------
(* The rules of the relation graph *)

\* Twins come in pairs.
LEMMA Twins ==
    ASSUME NEW e \in Edges, NEW f \in Edges
    PROVE  /\ Twin(Twin(f)) = f
           /\ Twin(f) \in Edges
           /\ f \in WithTwin(e) => f[3] = e[3]
           /\ f[3] \in Symmetric => (f \in WithTwin(e) <=> Twin(f) \in WithTwin(e))
BY DEF Edges, Twin, WithTwin

\* The table has the twin of every symmetric relation, too: otherwise the next
\* process would load half a relation.
TwinsInTable ==
    \A e \in relation :
        e[3] \in Symmetric /\ e \notin SeedEdges \cup cut => Twin(e) \in relation

RulesInv == TablesInv /\ TwinsInTable /\ GraphKeepsItsRules

\* A new relation conflicts with none that is there.
LEMMA AdditionKeepsRules ==
    ASSUME RulesInv, NEW e \in Edges, AddRelation(e)
    PROVE  TwinsInTable' /\ GraphKeepsItsRules'
<1>1. /\ edges' = edges \cup WithTwin(e)
      /\ relation' = relation \cup (WithTwin(e) \ edges)
      /\ UNCHANGED <<loaded, cut>>
      /\ up /\ ~Conflicts(e) /\ e \notin edges
  BY DEF AddRelation, AddRows, Called
<1>2. edges \subseteq relation /\ relation \subseteq Edges /\ edges \subseteq Edges
  BY <1>1 DEF RulesInv, TablesInv, TypeOK, MemoryIsTable
<1>3. WithTwin(e) \subseteq Edges
  BY EdgesTyped
<1>4. relation' = relation \cup WithTwin(e)
  BY <1>1, <1>2
<1>5. TwinsInTable'
  BY <1>1, <1>2, <1>3, <1>4, Twins DEF RulesInv, TwinsInTable
<1>6. ASSUME NEW f \in edges', f[3] \in Symmetric, f \notin SeedEdges \cup cut
      PROVE  Twin(f) \in edges'
  BY <1>1, <1>2, <1>3, <1>6, Twins DEF RulesInv, GraphKeepsItsRules
<1>7. ASSUME NEW f \in edges', NEW x \in Excludes, x[1] = f[3],
             <<x[2], x[1]>> \in Excludes, <<f[1], f[2], x[2]>> \in edges'
      PROVE  {f, <<f[1], f[2], x[2]>>} \subseteq loaded'
  <2> DEFINE g == <<f[1], f[2], x[2]>>
  <2>1. /\ x \in Types \X Types /\ x[1] # x[2]
        /\ <<x[2], x[1]>> \in Excludes
    BY <1>7, StoresAssumption
  <2>2. f \in Edges /\ f = <<f[1], f[2], f[3]>>
    BY <1>1, <1>2, <1>3 DEF Edges
  <2>3. CASE f \in edges /\ g \in edges
    BY <1>1, <1>7, <2>3 DEF RulesInv, GraphKeepsItsRules
  <2>4. ASSUME f \in WithTwin(e), g \in edges PROVE FALSE
    <3>1. x[1] = e[3] /\ (e = f \/ (e[3] \in Symmetric /\ f = Twin(e)))
      BY <1>7, <2>2, <2>4 DEF WithTwin, Twin, Edges
    <3>2. CASE e = f
      BY <1>1, <2>4, <3>1, <3>2 DEF Conflicts
    <3>3. CASE e[3] \in Symmetric /\ f = Twin(e)
      <4>1. <<e[2], e[1], x[2]>> = g
        BY <3>3 DEF Twin
      <4> QED
        BY <1>1, <2>4, <3>1, <3>3, <4>1 DEF Conflicts
    <3> QED
      BY <3>1, <3>2, <3>3
  <2>5. ASSUME g \in WithTwin(e), f \in edges PROVE FALSE
    <3>1. g[1] = f[1] /\ g[2] = f[2] /\ g[3] = x[2]
      OBVIOUS
    <3>2. \/ e = g
          \/ e[3] \in Symmetric /\ e[3] = g[3] /\ e[1] = g[2] /\ e[2] = g[1]
      BY <2>5 DEF WithTwin, Twin, Edges
    <3>3. f = <<f[1], f[2], x[1]>>
      BY <1>7, <2>2
    <3> DEFINE y == <<x[2], x[1]>>
    <3>4. y \in Excludes /\ y[1] = e[3] /\ y[2] = x[1]
      BY <2>1, <3>1, <3>2
    <3>5. CASE e = g
      <4>1. <<e[1], e[2], y[2]>> = f
        BY <3>1, <3>3, <3>4, <3>5
      <4> QED
        BY <1>1, <2>5, <3>4, <4>1 DEF Conflicts
    <3>6. CASE e[3] \in Symmetric /\ e[1] = g[2] /\ e[2] = g[1]
      <4>1. <<e[2], e[1], y[2]>> = f
        BY <3>1, <3>3, <3>4, <3>6
      <4> QED
        BY <1>1, <2>5, <3>4, <3>6, <4>1 DEF Conflicts
    <3> QED
      BY <3>2, <3>5, <3>6
  <2>6. ASSUME f \in WithTwin(e), g \in WithTwin(e) PROVE FALSE
    BY <1>7, <2>1, <2>2, <2>6 DEF WithTwin, Twin, Edges
  <2> QED
    BY <1>1, <1>7, <2>3, <2>4, <2>5, <2>6
<1> QED
  BY <1>1, <1>5, <1>6, <1>7 DEF GraphKeepsItsRules

\* A removal takes the twin with it, in memory and in the table.
LEMMA RemovalKeepsRules ==
    ASSUME RulesInv, NEW e \in Edges, RemoveRelation(e)
    PROVE  TwinsInTable' /\ GraphKeepsItsRules'
<1>1. /\ edges' = edges \ WithTwin(e)
      /\ relation' = relation \ (WithTwin(e) \cap edges)
      /\ UNCHANGED <<loaded, cut>>
      /\ up
  BY DEF RemoveRelation, RemoveRows, Called
<1>2. /\ edges \subseteq relation /\ relation \subseteq Edges
      /\ relation \ edges \subseteq SeedEdges
  BY <1>1 DEF RulesInv, TablesInv, TypeOK, MemoryIsTable
<1>3. TwinsInTable'
  BY <1>1, <1>2, Twins DEF RulesInv, TwinsInTable
<1>4. GraphKeepsItsRules'
  BY <1>1, <1>2, Twins DEF RulesInv, GraphKeepsItsRules
<1> QED
  BY <1>3, <1>4

\* A death in the middle of a change is remembered as such.
LEMMA DeathKeepsRules ==
    ASSUME RulesInv, NEW e \in Edges, DiesInChange(e)
    PROVE  TwinsInTable' /\ GraphKeepsItsRules'
<1>1. /\ edges' = {}
      /\ relation' \in {relation \cup {e}, relation \ {e}}
      /\ cut' = cut \cup {e, Twin(e)}
  BY DEF DiesInChange, NoMemory, AddRows, RemoveRows
<1>2. relation \subseteq Edges
  BY DEF RulesInv, TablesInv, TypeOK
<1>3. TwinsInTable'
  <2>1. ASSUME NEW f \in relation', f[3] \in Symmetric,
               f \notin SeedEdges \cup cut'
        PROVE  Twin(f) \in relation'
    <3>1. f \in relation /\ f \in Edges /\ f # e /\ f # Twin(e)
      BY <1>1, <1>2, <2>1
    <3>2. Twin(f) \in relation /\ Twin(f) # e
      BY <1>1, <2>1, <3>1, Twins DEF RulesInv, TwinsInTable
    <3> QED
      BY <1>1, <3>2
  <2> QED
    BY <2>1 DEF TwinsInTable
<1>4. GraphKeepsItsRules'
  BY <1>1 DEF GraphKeepsItsRules
<1> QED
  BY <1>3, <1>4

\* Every step keeps the rules.
LEMMA RulesStep == RulesInv /\ [Next]_vars => RulesInv'
<1> SUFFICES ASSUME RulesInv, [Next]_vars
             PROVE  TwinsInTable' /\ GraphKeepsItsRules'
  BY TablesStep DEF RulesInv
<1> USE DEF process_vars, relation_vars, capability_vars, place_vars, pool_vars
<1>1. ASSUME UNCHANGED relation_vars PROVE TwinsInTable' /\ GraphKeepsItsRules'
  BY <1>1 DEF RulesInv, TwinsInTable, GraphKeepsItsRules
<1>2. CASE Boot
  <2>1. /\ edges' \in {relation, relation \cup SeedEdges}
        /\ relation' = relation \cup SeedEdges
        /\ loaded' = edges' /\ cut' = cut
    BY <1>2 DEF Boot, LoadThenSeed, SeedThenLoad, SeedTables, AddRows
  <2>2. TwinsInTable'
    BY <2>1 DEF RulesInv, TwinsInTable
  <2>3. GraphKeepsItsRules'
    BY <2>1 DEF RulesInv, TwinsInTable, GraphKeepsItsRules
  <2> QED
    BY <2>2, <2>3
<1>3. CASE Down
  BY <1>3 DEF Down, NoMemory, RulesInv, TwinsInTable, GraphKeepsItsRules
<1>4. ASSUME NEW e \in Edges,
             AddRelation(e) \/ RemoveRelation(e) \/ DiesInChange(e)
      PROVE  TwinsInTable' /\ GraphKeepsItsRules'
  BY <1>4, AdditionKeepsRules, RemovalKeepsRules, DeathKeepsRules
<1>5. ASSUME NEW a \in Agents
      PROVE  /\ \A c \in Capabilities :
                  Grant(a, c) \/ Revoke(a, c) => UNCHANGED relation_vars
             /\ \A p \in Places : Move(a, p) => UNCHANGED relation_vars
             /\ SignUp(a) => UNCHANGED relation_vars
  BY DEF Grant, Revoke, Move, SignUp
<1>6. CASE Tick \/ UNCHANGED vars
  BY <1>1, <1>6 DEF Tick, vars
<1> QED
  BY <1>1, <1>2, <1>3, <1>4, <1>5, <1>6 DEF Next

\* Symmetric relations are there in both directions and exclusive ones
\* exclude each other, but for what configuration and deaths left behind.
THEOREM RelationRulesHold == Spec => []GraphKeepsItsRules
<1>1. Init => RulesInv
  BY TablesInit DEF Init, RulesInv, TwinsInTable, GraphKeepsItsRules
<1>2. RulesInv => GraphKeepsItsRules
  BY DEF RulesInv
<1> QED
  BY <1>1, <1>2, RulesStep, PTL DEF Spec

-----------------------------------------------------------------------------
(* The projection to the pools *)

\* A row of follow stands for a relation the next process will load, or for
\* one whose change was cut in two, unless a pool refused to remove it.
FollowsHaveReasons ==
    \A f \in follow \ refused :
        Justified(f, (IF up THEN edges ELSE relation) \cup cut)

FollowInv == TablesInv /\ FollowsHaveReasons

\* Every step keeps the reasons: a removal takes back the rows of every edge
\* that it removes.
LEMMA FollowStep == FollowInv /\ [Next]_vars => FollowInv'
<1> SUFFICES ASSUME FollowInv, [Next]_vars PROVE FollowsHaveReasons'
  BY TablesStep DEF FollowInv
<1> USE DEF process_vars, relation_vars, capability_vars, place_vars, pool_vars
<1> DEFINE Reason(e, f) == /\ Projects(e[3])
                           /\ \/ f = <<e[1], e[2]>>
                              \/ BothWays(e[3]) /\ f = <<e[2], e[1]>>
<1>1. ASSUME UNCHANGED <<up, edges, relation, cut, follow, refused>>
      PROVE  FollowsHaveReasons'
  BY <1>1 DEF FollowInv, FollowsHaveReasons
<1>2. CASE Boot
  <2>1. ~up /\ up' /\ relation \subseteq edges' /\ cut' = cut
        /\ UNCHANGED <<follow, refused>>
    BY <1>2 DEF Boot, LoadThenSeed, SeedThenLoad, SeedTables, AddRows
  <2> QED
    BY <2>1 DEF FollowInv, FollowsHaveReasons, Justified
<1>3. CASE Down
  <2>1. /\ up /\ ~up' /\ edges \subseteq relation
        /\ UNCHANGED <<relation, cut, follow, refused>>
    BY <1>3 DEF Down, FollowInv, TablesInv, MemoryIsTable
  <2> QED
    BY <2>1 DEF FollowInv, FollowsHaveReasons, Justified
<1>4. ASSUME NEW c, NEW f \in FollowRows(c) PROVE Reason(c, f)
  BY DEF FollowRows
<1>5. ASSUME NEW f \in follow, NEW c, Reason(c, f) PROVE f \in FollowRows(c)
  <2>1. f \in accounts \X accounts
    BY DEF FollowInv, TablesInv, TypeOK
  <2> QED
    BY <1>5, <2>1 DEF FollowRows
<1>6. ASSUME NEW f, NEW es PROVE Justified(f, es) <=> \E c \in es : Reason(c, f)
  BY DEF Justified
<1>7. ASSUME NEW e \in Edges, AddRelation(e) PROVE FollowsHaveReasons'
  <2> DEFINE new == WithTwin(e) \ edges
  <2>1. /\ up /\ up' /\ cut' = cut /\ edges' = edges \cup new
        /\ HookAdd(new)
    BY <1>7 DEF AddRelation, Called
  <2>2. ASSUME NEW f \in follow' \ refused'
        PROVE  \E c \in edges' \cup cut' : Reason(c, f)
    <3>1. CASE f \in RowsOf(new)
      BY <1>4, <2>1, <3>1 DEF RowsOf
    <3>2. CASE f \notin RowsOf(new)
      <4>1. f \in follow \ refused
        BY <2>1, <2>2, <3>2 DEF HookAdd
      <4> QED
        BY <1>6, <2>1, <4>1 DEF FollowInv, FollowsHaveReasons
    <3> QED
      BY <3>1, <3>2
  <2> QED
    BY <1>6, <2>1, <2>2 DEF FollowsHaveReasons
<1>8. ASSUME NEW e \in Edges, RemoveRelation(e) PROVE FollowsHaveReasons'
  <2> DEFINE gone == WithTwin(e) \cap edges
  <2>1. /\ up /\ up' /\ cut' = cut /\ edges' = edges \ gone
        /\ HookRemove(gone)
    BY <1>8 DEF RemoveRelation, Called
  <2>2. ASSUME NEW f \in follow' \ refused'
        PROVE  \E c \in edges' \cup cut' : Reason(c, f)
    <3>1. f \in follow \ refused /\ f \notin RowsOf(gone)
      BY <2>1, <2>2 DEF HookRemove
    <3>2. PICK c \in edges \cup cut : Reason(c, f)
      BY <1>6, <2>1, <3>1 DEF FollowInv, FollowsHaveReasons
    <3>3. c \notin gone
      BY <1>5, <3>1, <3>2 DEF RowsOf
    <3> QED
      BY <2>1, <3>2, <3>3
  <2> QED
    BY <1>6, <2>1, <2>2 DEF FollowsHaveReasons
<1>9. ASSUME NEW e \in Edges, DiesInChange(e) PROVE FollowsHaveReasons'
  <2>1. /\ up /\ ~up' /\ cut' = cut \cup {e, Twin(e)}
        /\ relation \ {e} \subseteq relation'
        /\ edges \subseteq relation
        /\ follow' \subseteq follow \cup FollowRows(e)
        /\ refused' = refused \cap follow'
    BY <1>9 DEF DiesInChange, AddRows, RemoveRows, FollowInv, TablesInv,
                MemoryIsTable
  <2>2. ASSUME NEW f \in follow' \ refused'
        PROVE  \E c \in relation' \cup cut' : Reason(c, f)
    <3>1. CASE f \in FollowRows(e)
      <4>1. e \in relation' \cup cut' /\ Reason(e, f)
        BY <1>4, <2>1, <3>1
      <4> QED
        BY <4>1
    <3>2. CASE f \notin FollowRows(e)
      <4>1. f \in follow \ refused
        BY <2>1, <2>2, <3>2
      <4>2. PICK c \in edges \cup cut : Reason(c, f)
        BY <1>6, <2>1, <4>1 DEF FollowInv, FollowsHaveReasons
      <4>3. c \in relation' \cup cut'
        BY <2>1, <4>2
      <4> QED
        BY <4>2, <4>3
    <3> QED
      BY <3>1, <3>2
  <2> QED
    BY <1>6, <2>1, <2>2 DEF FollowsHaveReasons
<1>10. ASSUME NEW a \in Agents
      PROVE  /\ \A c \in Capabilities :
                  Grant(a, c) \/ Revoke(a, c) => FollowsHaveReasons'
             /\ \A p \in Places : Move(a, p) => FollowsHaveReasons'
             /\ SignUp(a) => FollowsHaveReasons'
  BY <1>1 DEF Grant, Revoke, Move, SignUp, Called
<1>11. CASE Tick \/ UNCHANGED vars
  BY <1>1, <1>11 DEF Tick, vars
<1> QED
  BY <1>2, <1>3, <1>7, <1>8, <1>9, <1>10, <1>11 DEF Next

\* A pool shows no follow without a relation behind it, unless the pool refused
\* to remove it or a death cut the change in two.
THEOREM FollowsStayJustified == Spec => []FollowsAreJustified
<1>1. Init => FollowInv
  BY TablesInit DEF Init, FollowInv, FollowsHaveReasons
<1>2. FollowInv => FollowsAreJustified
  BY DEF FollowInv, FollowsHaveReasons, FollowsAreJustified
<1> QED
  BY <1>1, <1>2, FollowStep, PTL DEF Spec
=============================================================================
