---------------------------- MODULE Turn_proofs ----------------------------
(***************************************************************************)
(* Theorems about Turn, for any finite set of agents, any places, contacts *)
(* and coverage, and any bounds.                                           *)
(***************************************************************************)
EXTENDS Turn, FiniteSetTheorems, TLAPS

Positions == Places \union {NoPlace}

CallRecords == [n : Nat, by : Agents, t : Nat,
                tool : TOOLS \union {"unknown"}, good : BOOLEAN,
                done : BOOLEAN, place : Positions, heard : BOOLEAN]

Notes == [t : Nat, tool : TOOLS, n : Nat]

-----------------------------------------------------------------------------
(* One tool call *)

\* What a call is, whichever tool the model chose: it says of itself who made
\* it, when, where and with what outcome; one that is noted in the segment is
\* one that was done; nothing but a message can be well formed and fail. The
\* places stay as they are.
LEMMA OneCall ==
    ASSUME NEW a \in Agents, Dispatch(a)
    PROVE  \E tool \in TOOLS \union {"unknown"}, good \in BOOLEAN, done \in BOOLEAN :
             /\ Call(a, tool, good, done)
             /\ done => tool \in TOOLS
             /\ good /\ ~done => tool = "send_message"
             /\ L' = L
             /\ moves' = moves \/ \E p \in Positions : moves' = Append(moves, <<a, p>>)
             /\ setAt' = setAt \/ setAt' = [setAt EXCEPT ![a] = t]
<1>1. CASE \E good \in BOOLEAN : SpeakToLocal(a, good)
  <2>1. PICK good \in BOOLEAN : SpeakToLocal(a, good)
    BY <1>1
  <2>2. Call(a, "speak_to_local", good, good) /\ UNCHANGED <<L, moves, setAt>>
    BY <2>1 DEF SpeakToLocal
  <2>3. "speak_to_local" \in TOOLS
    BY DEF TOOLS
  <2> QED
    BY <2>2, <2>3
<1>2. CASE \E good \in BOOLEAN : SendToGroup(a, good)
  <2>1. PICK good \in BOOLEAN : SendToGroup(a, good)
    BY <1>2
  <2>2. Call(a, "send_to_group", good, good) /\ UNCHANGED <<L, moves, setAt>>
    BY <2>1 DEF SendToGroup
  <2>3. "send_to_group" \in TOOLS
    BY DEF TOOLS
  <2> QED
    BY <2>2, <2>3
<1>3. CASE \E good \in BOOLEAN : \E b \in Agents : SendMessage(a, b, good)
  <2>1. PICK good \in BOOLEAN, b \in Agents : SendMessage(a, b, good)
    BY <1>3
  <2>2. PICK done \in BOOLEAN :
          done = (good /\ <<a, b>> \in Contacts /\ Reach(a, b) = "reachable")
    OBVIOUS
  <2>3. Call(a, "send_message", good, done) /\ UNCHANGED <<L, moves, setAt>>
    BY <2>1, <2>2 DEF SendMessage
  <2>4. "send_message" \in TOOLS
    BY DEF TOOLS
  <2> QED
    BY <2>3, <2>4
<1>4. CASE \E good \in BOOLEAN : UpdateState(a, good)
  <2>1. PICK good \in BOOLEAN : UpdateState(a, good)
    BY <1>4
  <2>2. /\ Call(a, "update_state", good, good) /\ UNCHANGED <<L, moves>>
        /\ setAt' = setAt \/ setAt' = [setAt EXCEPT ![a] = t]
    BY <2>1 DEF UpdateState
  <2>3. "update_state" \in TOOLS
    BY DEF TOOLS
  <2> QED
    BY <2>2, <2>3
<1>5. CASE \E good \in BOOLEAN : UpdateShortTermGoal(a, good)
  <2>1. PICK good \in BOOLEAN : UpdateShortTermGoal(a, good)
    BY <1>5
  <2>2. Call(a, "update_short_term_goal", good, good) /\ UNCHANGED <<L, moves, setAt>>
    BY <2>1 DEF UpdateShortTermGoal
  <2>3. "update_short_term_goal" \in TOOLS
    BY DEF TOOLS
  <2> QED
    BY <2>2, <2>3
<1>6. CASE \E p \in Places \union {NoPlace} : RequestMove(a, p)
  <2>1. PICK p \in Positions : RequestMove(a, p)
    BY <1>6 DEF Positions
  <2>2. PICK good \in BOOLEAN : good = (p # NoPlace)
    OBVIOUS
  <2>3. /\ Call(a, "request_move", good, TRUE) /\ UNCHANGED <<L, setAt>>
        /\ moves' = Append(moves, <<a, p>>)
    BY <2>1, <2>2 DEF RequestMove
  <2>4. "request_move" \in TOOLS
    BY DEF TOOLS
  <2> QED
    BY <2>3, <2>4
<1>7. CASE DoNothing(a)
  <2>1. Call(a, "do_nothing", TRUE, TRUE) /\ UNCHANGED <<L, moves, setAt>>
    BY <1>7 DEF DoNothing
  <2>2. "do_nothing" \in TOOLS
    BY DEF TOOLS
  <2> QED
    BY <2>1, <2>2
<1>8. CASE UnknownTool(a)
  <2>1. Call(a, "unknown", FALSE, FALSE) /\ UNCHANGED <<L, moves, setAt>>
    BY <1>8 DEF UnknownTool
  <2> QED
    BY <2>1
<1> QED
  BY <1>1, <1>2, <1>3, <1>4, <1>5, <1>6, <1>7, <1>8 DEF Dispatch

\* c records a call of a: it is the last of calls, and a note of it the last of
\* a's segment if it was done.
Recorded(c, a, tool, good, done) ==
    /\ c.n = Len(calls) + 1 /\ c.by = a /\ c.t = t /\ c.tool = tool
    /\ c.good = good /\ c.done = done /\ c.place = L[a]
    /\ calls' = Append(calls, c)
    /\ calls' \in Seq(CallRecords)
    /\ segment' = IF done
                  THEN [segment EXCEPT ![a] =
                          Append(@, [t |-> t, tool |-> tool, n |-> c.n])]
                  ELSE segment
    /\ segment' \in [Agents -> Seq(Notes)]

\* What a call that is recorded does to the calls and to the segment.
LEMMA CallMade ==
    ASSUME TypeOK, NEW a \in Agents, NEW tool \in TOOLS \union {"unknown"},
           NEW good \in BOOLEAN, NEW done \in BOOLEAN, done => tool \in TOOLS,
           Call(a, tool, good, done)
    PROVE  \E c \in CallRecords : Recorded(c, a, tool, good, done)
<1> PICK heard \in BOOLEAN : heard = (L[a] # NoPlace /\ Others(a, L[a]) # {})
  OBVIOUS
<1> DEFINE c == [n |-> Len(calls) + 1, by |-> a, t |-> t, tool |-> tool,
                 good |-> good, done |-> done, place |-> L[a], heard |-> heard]
           e == [t |-> t, tool |-> tool, n |-> Len(calls) + 1]
<1>1. calls' = Append(calls, c)
  BY DEF Call
<1>2. /\ t \in Nat /\ L[a] \in Positions /\ calls \in Seq(CallRecords)
      /\ segment \in [Agents -> Seq(Notes)]
  <2>1. t \in 0..MaxT /\ MaxT \in Nat
    BY TurnAssumption DEF TypeOK
  <2>2. L \in [Agents -> Positions]
    BY DEF TypeOK, Positions
  <2>3. calls \in Seq(CallRecords) /\ segment \in [Agents -> Seq(Notes)]
    BY Zenon DEF TypeOK, Positions, CallRecords, Notes
  <2> QED
    BY <2>1, <2>2, <2>3
<1>3. Len(calls) + 1 \in Nat
  BY <1>2
<1>4. c \in CallRecords
  BY <1>2, <1>3 DEF CallRecords
<1>5. done => e \in Notes
  BY <1>2, <1>3 DEF Notes
<1>6. segment' = IF done THEN [segment EXCEPT ![a] = Append(@, e)] ELSE segment
  BY DEF Call, Note
<1>7. segment' \in [Agents -> Seq(Notes)]
  <2>1. done => Append(segment[a], e) \in Seq(Notes)
    BY <1>2, <1>5
  <2> HIDE DEF e
  <2> QED
    BY <1>2, <1>6, <2>1
<1>8. /\ c.n = Len(calls) + 1 /\ c.by = a /\ c.t = t /\ c.tool = tool
      /\ c.good = good /\ c.done = done /\ c.place = L[a]
  OBVIOUS
<1>9. calls' \in Seq(CallRecords)
  <2> HIDE DEF c
  <2> QED
    BY <1>1, <1>2, <1>4
<1>10. segment' = IF done
                  THEN [segment EXCEPT ![a] =
                          Append(@, [t |-> t, tool |-> tool, n |-> c.n])]
                  ELSE segment
  BY <1>6
<1> HIDE DEF c
<1>11. Recorded(c, a, tool, good, done)
  BY <1>1, <1>7, <1>8, <1>9, <1>10 DEF Recorded
<1> QED
  BY <1>4, <1>11

\* Both together, with the call telling of itself.
LEMMA CallTold ==
    ASSUME TypeOK, NEW a \in Agents, Dispatch(a)
    PROVE  /\ mind[a] = "acting"
           /\ UNCHANGED <<t, phase, L, queue, mind, view_vars>>
           /\ \E c \in CallRecords :
                /\ c.n = Len(calls) + 1 /\ c.by = a /\ c.t = t /\ c.place = L[a]
                /\ c.good /\ ~c.done => c.tool = "send_message"
                /\ calls' = Append(calls, c)
                /\ calls' \in Seq(CallRecords)
                /\ segment' = IF c.done
                              THEN [segment EXCEPT ![a] =
                                      Append(@, [t |-> t, tool |-> c.tool, n |-> c.n])]
                              ELSE segment
                /\ segment' \in [Agents -> Seq(Notes)]
<1>1. PICK tool \in TOOLS \union {"unknown"}, good \in BOOLEAN, done \in BOOLEAN :
        /\ Call(a, tool, good, done)
        /\ done => tool \in TOOLS
        /\ good /\ ~done => tool = "send_message"
        /\ L' = L
  BY OneCall
<1>2. PICK c \in CallRecords : Recorded(c, a, tool, good, done)
  BY <1>1, CallMade
<1>3. mind[a] = "acting" /\ UNCHANGED <<t, phase, L, queue, mind, view_vars>>
  BY <1>1 DEF Call
<1> QED
  BY <1>1, <1>2, <1>3 DEF Recorded

\* And the part of it that says where the call was made.
LEMMA CallLogged ==
    ASSUME TypeOK, NEW a \in Agents, Dispatch(a)
    PROVE  \E c \in CallRecords : c.place = L[a] /\ calls' = Append(calls, c)
<1>1. PICK tool \in TOOLS \union {"unknown"}, good \in BOOLEAN, done \in BOOLEAN :
        /\ Call(a, tool, good, done)
        /\ done => tool \in TOOLS
        /\ good /\ ~done => tool = "send_message"
        /\ L' = L
  BY OneCall
<1>2. PICK c \in CallRecords : Recorded(c, a, tool, good, done)
  BY <1>1, CallMade
<1>3. c.place = L[a] /\ calls' = Append(calls, c)
  BY <1>2 DEF Recorded
<1> QED
  BY <1>3

-----------------------------------------------------------------------------
(* Type correctness *)

\* The types, the views as functions of the agents, and that a tick under way
\* is not the last.
TypeInv == /\ TypeOK
           /\ DOMAIN view = Agents /\ DOMAIN before = Agents
           /\ phase # "idle" => t < MaxT

\* A shuffled place is a sequence of agents, each of them there.
LEMMA ShuffleTyped ==
    ASSUME NEW p, NEW q \in SetToSeqs(agents_at(p))
    PROVE  q \in Seq(Agents) /\ \A j \in 1..Len(q) : L[q[j]] = p
<1> DEFINE S == agents_at(p)
           n == Cardinality(S)
<1>1. S \subseteq Agents /\ \A a \in S : L[a] = p
  BY DEF agents_at
<1>2. n \in Nat
  BY <1>1, TurnAssumption, FS_Subset, FS_CardinalityType
<1>3. q \in [1..n -> S]
  BY DEF SetToSeqs
<1> HIDE DEF S, n
<1>4. q \in [1..n -> Agents]
  BY <1>1, <1>3
<1>5. q \in Seq(Agents) /\ Len(q) = n
  BY <1>2, <1>4
<1> QED
  BY <1>1, <1>3, <1>5

\* Where everybody came from and went to.
LEMMA CacheTyped ==
    ASSUME TypeOK, RefreshMovementCache
    PROVE  /\ snapshot' \in [Agents -> Positions] /\ snapshotT' \in -1..MaxT
           /\ arrivals' \union departures' \subseteq Places \X Agents
<1>0. /\ L \in [Agents -> Positions] /\ snapshot \in [Agents -> Positions]
      /\ t \in 0..MaxT /\ snapshotT \in -1..MaxT /\ MaxT \in Nat
      /\ arrivals \union departures \subseteq Places \X Agents
  BY TurnAssumption DEF TypeOK, Positions
<1>1. CASE snapshotT = t
  BY <1>0, <1>1 DEF RefreshMovementCache, cache_vars
<1>2. CASE Compare
  <2>1. snapshot' = L /\ snapshotT' = t
    BY <1>2 DEF Compare
  <2>2. arrivals' \subseteq Places \X Agents
    BY <1>0, <1>2 DEF Compare, Moved, Positions
  <2>3. departures' \subseteq Places \X Agents
    BY <1>0, <1>2 DEF Compare, Moved, Positions
  <2> QED
    BY <1>0, <2>1, <2>2, <2>3
<1> QED
  BY <1>1, <1>2 DEF RefreshMovementCache
\* The tick but for perceptions and calls.
LEMMA TickTyped ==
    ASSUME TypeInv,
           \/ BeginTick \/ EndMicro \/ CommitMove \/ Advance \/ Stopped
           \/ \E a \in Agents : Decide(a) \/ FailDecision(a) \/ Finish(a)
    PROVE  TypeInv'
<1>0. TypeOK /\ MaxT \in Nat
  BY TurnAssumption DEF TypeInv
<1> USE DEF view_vars, cache_vars
<1>1. CASE BeginTick
  <2>1. /\ queue' \in [Places -> UNION {SetToSeqs(S) : S \in SUBSET Agents}]
        /\ \A p \in Places : queue'[p] \in SetToSeqs(agents_at(p))
        /\ phase' = "micro" /\ t < MaxT
        /\ UNCHANGED <<t, L, mind, moves, calls, segment, setAt, view_vars>>
    BY <1>1 DEF BeginTick
  <2>2. queue' \in [Places -> Seq(Agents)]
    BY <2>1, ShuffleTyped
  <2> QED
    BY <1>0, <2>1, <2>2 DEF TypeInv, TypeOK
<1>2. CASE EndMicro
  BY <1>0, <1>2 DEF EndMicro, TypeInv, TypeOK
<1>3. CASE CommitMove
  <2> DEFINE m == Head(moves)
  <2>1. /\ moves # <<>> /\ moves \in Seq(Agents \X Positions)
        /\ L \in [Agents -> Positions]
    BY <1>0, <1>3 DEF CommitMove, TypeOK, Positions
  <2>2. m \in Agents \X Positions /\ Tail(moves) \in Seq(Agents \X Positions)
    BY <2>1
  <2>3. L' \in [Agents -> Positions] /\ moves' \in Seq(Agents \X Positions)
    BY <1>3, <2>1, <2>2 DEF CommitMove
  <2>4. UNCHANGED <<t, phase, queue, mind, calls, segment, setAt, view_vars>>
    BY <1>3 DEF CommitMove
  <2> QED
    BY <1>0, <2>3, <2>4 DEF TypeInv, TypeOK, Positions
<1>4. CASE Advance
  <2>1. /\ t' = t + 1 /\ phase' = "idle"
        /\ UNCHANGED <<L, queue, mind, moves, calls, segment, setAt, view_vars>>
    BY <1>4 DEF Advance
  <2>2. t' \in 0..MaxT
    <3>1. t \in 0..MaxT /\ t < MaxT
      BY <1>0, <1>4 DEF TypeInv, TypeOK, Advance
    <3> QED
      BY <1>0, <2>1, <3>1
  <2> QED
    BY <1>0, <2>1, <2>2 DEF TypeInv, TypeOK
<1>5. CASE Stopped
  BY <1>0, <1>5 DEF Stopped, vars, TypeInv, TypeOK
<1>6. ASSUME NEW a \in Agents, Decide(a) PROVE TypeInv'
  BY <1>0, <1>6 DEF Decide, TypeInv, TypeOK
<1>7. ASSUME NEW a \in Agents, EndTurn(a) PROVE TypeInv'
  <2>1. /\ mind' = [mind EXCEPT ![a] = "idle"]
        /\ queue' = [p \in Places |-> IF queue[p] # <<>> /\ Head(queue[p]) = a
                                      THEN Tail(queue[p]) ELSE queue[p]]
        /\ UNCHANGED <<t, phase, L, moves, calls, segment, setAt, view_vars>>
    BY <1>7 DEF EndTurn
  <2>2. queue' \in [Places -> Seq(Agents)]
    <3>1. queue \in [Places -> Seq(Agents)]
      BY <1>0 DEF TypeOK
    <3>2. ASSUME NEW s \in Seq(Agents), s # <<>> PROVE Tail(s) \in Seq(Agents)
      BY <3>2
    <3> QED
      BY <2>1, <3>1, <3>2
  <2> QED
    BY <1>0, <2>1, <2>2 DEF TypeInv, TypeOK
<1> QED
  BY <1>1, <1>2, <1>3, <1>4, <1>5, <1>6, <1>7 DEF FailDecision, Finish
LEMMA PerceiveTyped ==
    ASSUME TypeInv, NEW a \in Agents, Perceive(a)
    PROVE  TypeInv'
<1>0. TypeOK /\ MaxT \in Nat /\ t \in 0..MaxT
  BY TurnAssumption DEF TypeInv, TypeOK
<1> DEFINE o == Observation(a)
           w == view[a]
<1>1. /\ mind' = [mind EXCEPT ![a] = "thinking"]
      /\ view' = [view EXCEPT ![a] = o] /\ before' = [before EXCEPT ![a] = w]
      /\ UNCHANGED <<t, phase, L, queue, moves, calls, segment, setAt>>
  BY DEF Perceive
<1>2. o.t = t
  BY DEF Observation
<1>3. /\ snapshot' \in [Agents -> Positions] /\ snapshotT' \in -1..MaxT
      /\ arrivals' \union departures' \subseteq Places \X Agents
  BY <1>0, CacheTyped DEF Perceive
<1> HIDE DEF o
<1>4. \A b \in Agents : view'[b].t \in -1..MaxT /\ before'[b].t \in -1..MaxT
  <2>1. \A b \in Agents : view[b].t \in -1..MaxT /\ before[b].t \in -1..MaxT
    BY <1>0 DEF TypeOK
  <2>2. \A b \in Agents : /\ view'[b] = IF b = a THEN o ELSE view[b]
                          /\ before'[b] = IF b = a THEN w ELSE before[b]
    BY <1>1 DEF TypeInv
  <2> HIDE DEF w
  <2>3. w.t \in -1..MaxT
    BY <2>1 DEF w
  <2> QED
    BY <1>0, <1>2, <2>1, <2>2, <2>3
<1>5. DOMAIN view' = Agents /\ DOMAIN before' = Agents
  BY <1>1 DEF TypeInv
<1>6. mind' \in [Agents -> {"idle", "thinking", "acting"}]
  BY <1>0, <1>1 DEF TypeOK
<1> QED
  BY <1>0, <1>1, <1>3, <1>4, <1>5, <1>6 DEF TypeInv, TypeOK, Positions

\* A tool call keeps the types, whatever the tool does.
LEMMA DispatchTyped ==
    ASSUME TypeInv, NEW a \in Agents, Dispatch(a)
    PROVE  TypeInv'
<1>0. TypeOK /\ MaxT \in Nat /\ t \in 0..MaxT
  BY TurnAssumption DEF TypeInv, TypeOK
<1>1. PICK tool \in TOOLS \union {"unknown"}, good \in BOOLEAN, done \in BOOLEAN :
        /\ Call(a, tool, good, done)
        /\ done => tool \in TOOLS
        /\ L' = L
        /\ moves' = moves \/ \E p \in Positions : moves' = Append(moves, <<a, p>>)
        /\ setAt' = setAt \/ setAt' = [setAt EXCEPT ![a] = t]
  BY OneCall
<1>2. calls' \in Seq(CallRecords) /\ segment' \in [Agents -> Seq(Notes)]
  BY <1>0, <1>1, CallMade DEF Recorded
<1>3. moves' \in Seq(Agents \X Positions)
  <2>1. moves \in Seq(Agents \X Positions)
    BY <1>0 DEF TypeOK, Positions
  <2>2. ASSUME NEW p \in Positions PROVE <<a, p>> \in Agents \X Positions
    OBVIOUS
  <2> DEFINE S == Agents \X Positions
  <2> HIDE DEF S
  <2>3. ASSUME NEW x \in S, moves \in Seq(S) PROVE Append(moves, x) \in Seq(S)
    BY <2>3
  <2> QED
    BY <1>1, <2>1, <2>2, <2>3 DEF S
<1>4. setAt' \in [Agents -> 0..MaxT]
  BY <1>0, <1>1 DEF TypeOK
<1>5. UNCHANGED <<t, phase, queue, mind, view_vars>>
  BY <1>1 DEF Call
<1>6. TypeOK'
  <2>1. /\ calls' \in Seq([n : Nat, by : Agents, t : Nat,
                           tool : TOOLS \union {"unknown"}, good : BOOLEAN,
                           done : BOOLEAN, place : Places \union {NoPlace},
                           heard : BOOLEAN])
        /\ segment' \in [Agents -> Seq([t : Nat, tool : TOOLS, n : Nat])]
        /\ moves' \in Seq(Agents \X (Places \union {NoPlace}))
    BY <1>2, <1>3, Zenon DEF CallRecords, Notes, Positions
  <2> QED
    BY <1>0, <1>1, <1>4, <1>5, <2>1 DEF TypeOK, view_vars, cache_vars
<1> QED
  BY <1>5, <1>6 DEF TypeInv, view_vars

\* Before the first tick nobody has seen anything.
LEMMA TypeInit == Init => TypeInv
<1> SUFFICES ASSUME Init PROVE TypeInv
  OBVIOUS
<1>1. /\ t \in 0..MaxT /\ snapshotT \in -1..MaxT /\ setAt \in [Agents -> 0..MaxT]
      /\ \A a \in Agents : view[a].t \in -1..MaxT /\ before[a].t \in -1..MaxT
  BY TurnAssumption DEF Init, Unseen
<1>2. \A a \in Agents : segment[a] \in Seq([t : Nat, tool : TOOLS, n : Nat])
  BY DEF Init
<1>3. /\ segment \in [Agents -> Seq([t : Nat, tool : TOOLS, n : Nat])]
      /\ queue \in [Places -> Seq(Agents)]
  BY <1>2 DEF Init
<1>4. /\ moves \in Seq(Agents \X (Places \union {NoPlace}))
      /\ calls \in Seq([n : Nat, by : Agents, t : Nat,
                        tool : TOOLS \union {"unknown"}, good : BOOLEAN,
                        done : BOOLEAN, place : Places \union {NoPlace},
                        heard : BOOLEAN])
  BY DEF Init
<1>5. /\ L \in [Agents -> Places \union {NoPlace}]
      /\ snapshot \in [Agents -> Places \union {NoPlace}]
      /\ mind \in [Agents -> {"idle", "thinking", "acting"}]
      /\ arrivals \union departures \subseteq Places \X Agents
      /\ phase = "idle"
  BY TurnAssumption DEF Init
<1>6. DOMAIN view = Agents /\ DOMAIN before = Agents
  BY DEF Init
<1> QED
  BY <1>1, <1>3, <1>4, <1>5, <1>6 DEF TypeInv, TypeOK

\* No step leaves the types.
LEMMA TypeStep == TypeInv /\ [Next]_vars => TypeInv'
<1> SUFFICES ASSUME TypeInv, [Next]_vars PROVE TypeInv'
  OBVIOUS
<1>1. CASE UNCHANGED vars
  BY <1>1 DEF vars, view_vars, cache_vars, TypeInv, TypeOK
<1> QED
  BY <1>1, TickTyped, PerceiveTyped, DispatchTyped DEF Next

\* So they always hold.
LEMMA TypesAlways == Spec => []TypeInv
BY TypeInit, TypeStep, PTL DEF Spec

\* In every reachable state of the turns the variables have their types; in
\* particular the segment of an agent holds nothing but known tools.
THEOREM TurnTyped == Spec => []TypeOK
<1>1. TypeInv => TypeOK
  BY DEF TypeInv
<1> QED
  BY <1>1, TypesAlways, PTL

-----------------------------------------------------------------------------
(* What is true while the model thinks *)

\* Whoever stands in a queue is in that place; queues are empty between
\* rounds; and who is in the middle of a turn is at the head of the queue of
\* its place. So nobody of the same place is.
QueueInv ==
    /\ phase # "micro" => \A p \in Places : queue[p] = <<>>
    /\ \A p \in Places : \A j \in 1..Len(queue[p]) : L[queue[p][j]] = p
    /\ \A a \in Agents : mind[a] # "idle" =>
         /\ phase = "micro" /\ L[a] \in Places
         /\ queue[L[a]] # <<>> /\ Head(queue[L[a]]) = a

\* What the next in a queue leaves behind it.
LEMMA TailKeeps ==
    ASSUME NEW s \in Seq(Agents), s # <<>>
    PROVE  /\ Head(s) = s[1] /\ 1 \in 1..Len(s)
           /\ \A j \in 1..Len(Tail(s)) : j + 1 \in 1..Len(s) /\ Tail(s)[j] = s[j + 1]
OBVIOUS

\* The queues are served where they were built: nobody moves before the tick is
\* over.
LEMMA QueueStep == TypeInv /\ QueueInv /\ [Next]_vars => QueueInv'
<1> SUFFICES ASSUME TypeInv, QueueInv, [Next]_vars PROVE QueueInv'
  OBVIOUS
<1>0. /\ TypeOK /\ queue \in [Places -> Seq(Agents)] /\ L \in [Agents -> Positions]
      /\ mind \in [Agents -> {"idle", "thinking", "acting"}]
  BY DEF TypeInv, TypeOK, Positions
<1>1. CASE UNCHANGED vars \/ Stopped
  BY <1>1 DEF vars, Stopped, QueueInv
<1>2. CASE BeginTick
  <2>1. /\ \A p \in Places : queue'[p] \in SetToSeqs(agents_at(p))
        /\ phase = "idle" /\ phase' = "micro" /\ UNCHANGED <<L, mind>>
    BY <1>2 DEF BeginTick
  <2>2. \A p \in Places : \A j \in 1..Len(queue'[p]) : L[queue'[p][j]] = p
    BY <2>1, ShuffleTyped
  <2> QED
    BY <2>1, <2>2 DEF QueueInv
<1>3. CASE EndMicro \/ Advance
  BY <1>0, <1>3 DEF EndMicro, Advance, QueueInv
<1>4. CASE CommitMove
  <2>1. phase = "commit" /\ UNCHANGED <<phase, queue, mind>>
    BY <1>4 DEF CommitMove
  <2>2. \A p \in Places : queue[p] = <<>> /\ 1..Len(queue[p]) = {}
    BY <2>1 DEF QueueInv
  <2> QED
    BY <2>1, <2>2 DEF QueueInv
<1>5. ASSUME NEW a \in Agents, Perceive(a) PROVE QueueInv'
  <2>1. /\ phase = "micro" /\ Turn(a) /\ mind' = [mind EXCEPT ![a] = "thinking"]
        /\ UNCHANGED <<phase, L, queue>>
    BY <1>5 DEF Perceive
  <2>2. PICK p \in Places : queue[p] # <<>> /\ Head(queue[p]) = a
    BY <2>1 DEF Turn
  <2>3. L[a] = p
    BY <1>0, <2>2, TailKeeps DEF QueueInv
  <2> QED
    BY <1>0, <2>1, <2>2, <2>3 DEF QueueInv
<1>6. ASSUME NEW a \in Agents, Decide(a) PROVE QueueInv'
  BY <1>0, <1>6 DEF Decide, QueueInv
<1>7. ASSUME NEW a \in Agents, Dispatch(a) PROVE QueueInv'
  <2>1. UNCHANGED <<phase, L, queue, mind>>
    BY <1>7, OneCall DEF Call
  <2> QED
    BY <2>1 DEF QueueInv
<1>8. ASSUME NEW a \in Agents, mind[a] # "idle", EndTurn(a) PROVE QueueInv'
  <2>1. /\ mind' = [mind EXCEPT ![a] = "idle"]
        /\ \A p \in Places : queue'[p] = IF queue[p] # <<>> /\ Head(queue[p]) = a
                                         THEN Tail(queue[p]) ELSE queue[p]
        /\ UNCHANGED <<phase, L>>
    BY <1>8 DEF EndTurn
  <2>2. ASSUME NEW p \in Places, NEW j \in 1..Len(queue'[p])
        PROVE  L'[queue'[p][j]] = p
    <3>1. CASE queue'[p] = queue[p]
      BY <2>1, <3>1 DEF QueueInv
    <3>2. CASE queue[p] # <<>> /\ queue'[p] = Tail(queue[p])
      <4>1. j + 1 \in 1..Len(queue[p]) /\ queue'[p][j] = queue[p][j + 1]
        BY <1>0, <3>2, TailKeeps
      <4> QED
        BY <2>1, <4>1 DEF QueueInv
    <3> QED
      BY <2>1, <3>1, <3>2
  <2>3. phase = "micro"
    BY <1>8 DEF QueueInv
  <2>4. ASSUME NEW b \in Agents, mind'[b] # "idle"
        PROVE  /\ L'[b] \in Places
               /\ queue'[L'[b]] # <<>> /\ Head(queue'[L'[b]]) = b
    <3>1. b # a /\ mind[b] # "idle"
      BY <1>0, <2>1, <2>4
    <3> QED
      BY <2>1, <3>1 DEF QueueInv
  <2> QED
    BY <2>1, <2>2, <2>3, <2>4 DEF QueueInv
<1> QED
  BY <1>1, <1>2, <1>3, <1>4, <1>5, <1>6, <1>7, <1>8 DEF Next, FailDecision, Finish

\* Before the first tick the queues are empty.
LEMMA QueueInit == Init => QueueInv
BY DEF Init, QueueInv

\* Two agents of one place are never both in the middle of their turns.
LEMMA OneAtATime ==
    ASSUME QueueInv, NEW a \in Agents, NEW b \in Agents, a # b,
           mind[a] # "idle", mind[b] # "idle"
    PROVE  L[a] # L[b]
BY DEF QueueInv

\* A word that falls elsewhere changes no transcript of p.
LEMMA WordsElsewhere ==
    ASSUME NEW p, NEW c, c.place # p, calls \in Seq(CallRecords), c \in CallRecords,
           calls' = Append(calls, c), t' = t
    PROVE  Transcript(p)' = Transcript(p)
<1>1. /\ Len(calls') = Len(calls) + 1 /\ Len(calls) \in Nat
      /\ DOMAIN calls = 1..Len(calls) /\ DOMAIN calls' = 1..(Len(calls) + 1)
      /\ calls'[Len(calls) + 1] = c
      /\ \A k \in 1..Len(calls) : calls'[k] = calls[k]
  <2> DEFINE S == CallRecords
  <2> HIDE DEF S
  <2>1. calls \in Seq(S) /\ c \in S
    BY DEF S
  <2> QED
    BY <2>1
<1>2. Range(calls') = Range(calls) \union {c}
  <2>1. \A k \in 1..(Len(calls) + 1) : k \in 1..Len(calls) \/ k = Len(calls) + 1
    BY <1>1
  <2>2. /\ Len(calls) + 1 \in 1..(Len(calls) + 1)
        /\ \A k \in 1..Len(calls) : k \in 1..(Len(calls) + 1)
    BY <1>1
  <2> QED
    BY <1>1, <2>1, <2>2 DEF Range
<1>3. Utterances(p)' = Utterances(p)
  BY <1>2 DEF Utterances
<1> QED
  BY <1>3 DEF Transcript

\* An observation changes only when its agent looks again.
LEMMA HoldsStep ==
    TypeInv /\ QueueInv /\ ObservationHolds /\ [Next]_vars => ObservationHolds'
<1> SUFFICES ASSUME TypeInv, QueueInv, ObservationHolds, [Next]_vars
             PROVE  ObservationHolds'
  OBVIOUS
<1>0. /\ TypeOK /\ L \in [Agents -> Positions] /\ DOMAIN view = Agents
      /\ mind \in [Agents -> {"idle", "thinking", "acting"}]
  BY DEF TypeInv, TypeOK, Positions
\* The scene is a function of the places; the transcript of calls and clock.
<1>1. L' = L => \A b \in Agents : Scene(b)' = Scene(b)
  BY DEF Scene, BuildContacts, BuildPlaceBriefs, Reach, Others, agents_at
<1>2. calls' = calls /\ t' = t => \A p : Transcript(p)' = Transcript(p)
  BY DEF Transcript, Utterances
<1>3. ASSUME UNCHANGED <<t, L, calls, view>>,
             \A b \in Agents : /\ mind'[b] # "idle" => mind[b] # "idle"
                               /\ mind'[b] = "thinking" => mind[b] = "thinking"
      PROVE  ObservationHolds'
  BY <1>1, <1>2, <1>3 DEF ObservationHolds
\* Outside a round nobody is in the middle of a turn.
<1>4. ASSUME mind' = mind, phase # "micro" PROVE ObservationHolds'
  BY <1>4 DEF QueueInv, ObservationHolds
<1>5. CASE UNCHANGED vars \/ Stopped \/ BeginTick \/ EndMicro
  BY <1>3, <1>5 DEF vars, view_vars, Stopped, BeginTick, EndMicro
<1>6. CASE CommitMove \/ Advance
  BY <1>4, <1>6 DEF CommitMove, Advance
<1>7. ASSUME NEW a \in Agents, Perceive(a) PROVE ObservationHolds'
  <2>1. /\ mind' = [mind EXCEPT ![a] = "thinking"]
        /\ view' = [view EXCEPT ![a] = Observation(a)]
        /\ UNCHANGED <<t, L, calls>>
    BY <1>7 DEF Perceive
  <2>2. /\ Observation(a).scene = Scene(a)
        /\ L[a] # NoPlace => Observation(a).transcript = Transcript(L[a])
    BY DEF Observation
  <2>3. ASSUME NEW b \in Agents
        PROVE  /\ mind'[b] # "idle" => view'[b].scene = Scene(b)
               /\ mind'[b] = "thinking" /\ L[b] # NoPlace =>
                    view'[b].transcript = Transcript(L[b])
    <3>1. CASE b = a
      <4>1. view'[a] = Observation(a)
        BY <1>0, <2>1
      <4> QED
        BY <2>2, <3>1, <4>1
    <3>2. CASE b # a
      <4>1. view'[b] = view[b] /\ mind'[b] = mind[b]
        BY <1>0, <2>1, <3>2
      <4> QED
        BY <4>1 DEF ObservationHolds
    <3> QED
      BY <3>1, <3>2
  <2> QED
    BY <1>1, <1>2, <2>1, <2>3 DEF ObservationHolds
<1>8. ASSUME NEW a \in Agents, Decide(a) \/ FailDecision(a) \/ Finish(a)
      PROVE  ObservationHolds'
  BY <1>0, <1>3, <1>8 DEF Decide, FailDecision, Finish, EndTurn, view_vars
<1>9. ASSUME NEW a \in Agents, Dispatch(a) PROVE ObservationHolds'
  <2>1. PICK c \in CallRecords : c.place = L[a] /\ calls' = Append(calls, c)
    BY <1>0, <1>9, CallLogged
  <2>2. mind[a] = "acting" /\ UNCHANGED <<t, L, mind, view>>
    BY <1>0, <1>9, CallTold DEF view_vars
  <2>3. calls \in Seq(CallRecords)
    BY <1>0, Zenon DEF TypeOK, CallRecords, Positions
  <2>4. ASSUME NEW p, p # L[a] PROVE Transcript(p)' = Transcript(p)
    BY <2>1, <2>2, <2>3, <2>4, WordsElsewhere
  <2>5. \A b \in Agents : mind[b] = "thinking" => L[b] # L[a]
    BY <2>2, OneAtATime
  <2> QED
    BY <1>1, <2>2, <2>4, <2>5 DEF ObservationHolds
<1> QED
  BY <1>5, <1>6, <1>7, <1>8, <1>9 DEF Next
LEMMA HoldsInit == Init => ObservationHolds
BY DEF Init, ObservationHolds

\* The types and the queues always hold.
LEMMA QueueAlways == Spec => [](TypeInv /\ QueueInv)
<1>1. Spec => []QueueInv
  BY QueueInit, QueueStep, TypesAlways, PTL DEF Spec
<1> QED
  BY <1>1, TypesAlways, PTL

\* What the model is told is still so when its answer comes: while it thinks,
\* and while its calls are carried out, the places of all agents and what can
\* be reached from them are as observed, and no word falls in its place that
\* it was not told of.
THEOREM WhatIsSeenHolds == Spec => []ObservationHolds
BY HoldsInit, HoldsStep, QueueAlways, PTL DEF Spec

-----------------------------------------------------------------------------
(* Arrivals and departures *)

\* Whom a saw around it when the places were M.
RosterIn(M, a) == IF M[a] = NoPlace THEN {}
                  ELSE {b \in Agents : M[b] = M[a] /\ b # a}

\* Those of the changes that took place where a is.
SeenNow(a, changes) == {c[2] : c \in {c \in changes : c[1] = L[a] /\ c[2] # a}}

\* The cached arrivals and departures lead from the roster a saw to the one it
\* would see now.
Pending(a) ==
    RosterIn(L, a) = (view[a].scene.roster \union SeenNow(a, arrivals))
                       \ SeenNow(a, departures)

\* The snapshot is of the places as they were when somebody first perceived in
\* tick snapshotT. A view of that tick was taken of those places; a view of
\* the tick before is led to the present by the cache.
SnapInv ==
    /\ snapshotT <= t /\ (phase = "idle" => snapshotT < t)
    /\ phase = "micro" /\ snapshotT = t => snapshot = L
    /\ \A a \in Agents :
         /\ view[a].t <= snapshotT
         /\ view[a].t = snapshotT /\ snapshotT >= 0 =>
              /\ view[a].scene.place = snapshot[a]
              /\ view[a].scene.roster = RosterIn(snapshot, a)
         /\ /\ phase = "micro" /\ snapshotT = t /\ t >= 1
            /\ view[a].t = t - 1 /\ view[a].scene.place = L[a]
            => Pending(a)

\* The clocks of the snapshot and of the views.
LEMMA ClocksTyped ==
    ASSUME TypeInv
    PROVE  /\ TypeOK /\ t \in Nat /\ snapshotT \in Int
           /\ \A a \in Agents : view[a].t \in Int
<1>1. TypeOK /\ MaxT \in Nat
  BY TurnAssumption DEF TypeInv
<1>2. t \in 0..MaxT /\ snapshotT \in -1..MaxT
      /\ \A a \in Agents : view[a].t \in -1..MaxT
  BY <1>1 DEF TypeOK
<1> QED
  BY <1>1, <1>2

\* The comparison of two snapshots explains the roster of an agent that is in
\* the same place in both.
LEMMA CompareExplains ==
    ASSUME TypeOK, Compare, snapshotT >= 0, NEW a \in Agents, snapshot[a] = L[a]
    PROVE  RosterIn(L, a) = (RosterIn(snapshot, a) \union Seen(a, arrivals'))
                              \ Seen(a, departures')
<1>0. /\ L \in [Agents -> Positions] /\ snapshot \in [Agents -> Positions]
      /\ ~(snapshotT < 0)
  <2>1. snapshotT \in -1..MaxT /\ MaxT \in Nat
    BY TurnAssumption DEF TypeOK
  <2> QED
    BY <2>1 DEF TypeOK, Positions
<1>1. CASE L[a] = NoPlace
  <2>1. Seen(a, arrivals') = {}
    BY <1>1 DEF Compare, Seen
  <2> QED
    BY <1>1, <2>1 DEF RosterIn
<1>2. CASE L[a] # NoPlace
  <2>1. ASSUME NEW b
        PROVE  b \in Seen(a, arrivals') <=>
                 b \in Agents /\ L[b] # snapshot[b] /\ L[b] = L[a] /\ b # a
    <3>1. arrivals' = {<<L[d], d>> : d \in {d \in Moved : L[d] # NoPlace}}
      BY <1>0 DEF Compare
    <3>2. ASSUME b \in Seen(a, arrivals')
          PROVE  b \in Agents /\ L[b] # snapshot[b] /\ L[b] = L[a] /\ b # a
      BY <3>1, <3>2 DEF Seen, Moved
    <3>3. ASSUME b \in Agents, L[b] # snapshot[b], L[b] = L[a], b # a
          PROVE  b \in Seen(a, arrivals')
      <4>1. <<L[b], b>> \in arrivals'
        BY <1>2, <3>1, <3>3 DEF Moved
      <4> QED
        BY <3>3, <4>1 DEF Seen
    <3> QED
      BY <3>2, <3>3
  <2>2. ASSUME NEW b
        PROVE  b \in Seen(a, departures') <=>
                 b \in Agents /\ L[b] # snapshot[b] /\ snapshot[b] = L[a] /\ b # a
    <3>1. departures' = {<<snapshot[d], d>> :
                           d \in {d \in Moved : snapshot[d] # NoPlace}}
      BY <1>0 DEF Compare
    <3>2. ASSUME b \in Seen(a, departures')
          PROVE  b \in Agents /\ L[b] # snapshot[b] /\ snapshot[b] = L[a] /\ b # a
      BY <3>1, <3>2 DEF Seen, Moved
    <3>3. ASSUME b \in Agents, L[b] # snapshot[b], snapshot[b] = L[a], b # a
          PROVE  b \in Seen(a, departures')
      <4>1. <<snapshot[b], b>> \in departures'
        BY <1>2, <3>1, <3>3 DEF Moved
      <4> QED
        BY <3>3, <4>1 DEF Seen
    <3> QED
      BY <3>2, <3>3
  <2>3. \A b : b \in RosterIn(L, a) <=> b \in Agents /\ L[b] = L[a] /\ b # a
    BY <1>2 DEF RosterIn
  <2>4. \A b : b \in RosterIn(snapshot, a) <=>
                 b \in Agents /\ snapshot[b] = L[a] /\ b # a
    BY <1>2 DEF RosterIn
  <2> QED
    BY <2>1, <2>2, <2>3, <2>4
<1> QED
  BY <1>1, <1>2

\* What one perception writes.
LEMMA PerceiveWrites ==
    ASSUME TypeInv, NEW a \in Agents, Perceive(a)
    PROVE  /\ phase = "micro" /\ RefreshMovementCache
           /\ UNCHANGED <<t, phase, L>>
           /\ view'[a].t = t /\ before'[a] = view[a]
           /\ view'[a].scene.place = L[a] /\ view'[a].scene.roster = RosterIn(L, a)
           /\ view'[a].arrived = Seen(a, arrivals')
           /\ view'[a].departed = Seen(a, departures')
           /\ \A b \in Agents \ {a} : view'[b] = view[b] /\ before'[b] = before[b]
<1>1. /\ view' = [view EXCEPT ![a] = Observation(a)]
      /\ before' = [before EXCEPT ![a] = view[a]]
      /\ phase = "micro" /\ RefreshMovementCache
      /\ UNCHANGED <<t, phase, L>>
  BY DEF Perceive
<1>2. view'[a] = Observation(a) /\ before'[a] = view[a]
  BY <1>1 DEF TypeInv
<1>3. \A b \in Agents \ {a} : view'[b] = view[b] /\ before'[b] = before[b]
  BY <1>1 DEF TypeInv
<1>4. /\ Observation(a).t = t /\ Observation(a).scene = Scene(a)
      /\ Observation(a).arrived = Seen(a, arrivals')
      /\ Observation(a).departed = Seen(a, departures')
  BY DEF Observation
<1>5. Scene(a).place = L[a] /\ Scene(a).roster = RosterIn(L, a)
  BY DEF Scene, RosterIn, Others, agents_at
<1> QED
  BY <1>1, <1>2, <1>3, <1>4, <1>5

\* A perception sees the roster the cache leads to, the first of a tick like
\* the later ones.
LEMMA PerceiveExplains ==
    ASSUME TypeInv, SnapInv, NEW a \in Agents, Perceive(a)
    PROVE  /\ SnapInv'
           /\ view[a].t >= 0 /\ t = view[a].t + 1 /\ L[a] = view[a].scene.place =>
                RosterIn(L, a) = (view[a].scene.roster \union Seen(a, arrivals'))
                                   \ Seen(a, departures')
<1>0. /\ TypeOK /\ t \in Nat /\ snapshotT \in Int
      /\ \A b \in Agents : view[b].t \in Int /\ view[b].t <= snapshotT
  BY ClocksTyped DEF SnapInv
<1>1. /\ phase = "micro" /\ RefreshMovementCache
      /\ UNCHANGED <<t, phase, L>> /\ view'[a].t = t
      /\ view'[a].scene.place = L[a] /\ view'[a].scene.roster = RosterIn(L, a)
      /\ \A b \in Agents \ {a} : view'[b] = view[b]
  BY PerceiveWrites
<1>2. \A b \in Agents : /\ Seen(b, arrivals) = SeenNow(b, arrivals)
                        /\ Seen(b, departures) = SeenNow(b, departures)
  BY DEF Seen, SeenNow
\* The first of the tick compares.
<1>3. CASE snapshotT # t
  <2>1. Compare /\ snapshot' = L /\ snapshotT' = t /\ snapshotT < t
    BY <1>0, <1>1, <1>3 DEF RefreshMovementCache, Compare, SnapInv
  <2>2. ASSUME NEW b \in Agents, view[b].t >= 0, t = view[b].t + 1,
               L[b] = view[b].scene.place
        PROVE  RosterIn(L, b) = (view[b].scene.roster \union Seen(b, arrivals'))
                                  \ Seen(b, departures')
    <3>1. view[b].t = snapshotT /\ snapshotT >= 0
      BY <1>0, <2>1, <2>2
    <3>2. snapshot[b] = L[b] /\ view[b].scene.roster = RosterIn(snapshot, b)
      BY <2>2, <3>1 DEF SnapInv
    <3> QED
      BY <1>0, <2>1, <3>1, <3>2, CompareExplains
  <2>3. ASSUME NEW b \in Agents
        PROVE  /\ view'[b].t <= t
               /\ view'[b].t = t => /\ view'[b].scene.place = L[b]
                                    /\ view'[b].scene.roster = RosterIn(L, b)
               /\ t >= 1 /\ view'[b].t = t - 1 /\ view'[b].scene.place = L[b] =>
                    RosterIn(L, b) = (view'[b].scene.roster \union Seen(b, arrivals'))
                                       \ Seen(b, departures')
    <3>1. CASE b = a
      BY <1>0, <1>1, <3>1
    <3>2. CASE b # a
      <4>1. view'[b] = view[b] /\ view[b].t < t
        BY <1>0, <1>1, <2>1, <3>2
      <4> QED
        BY <1>0, <2>2, <4>1
    <3> QED
      BY <3>1, <3>2
  <2>4. SnapInv'
    <3>1. \A b \in Agents : /\ SeenNow(b, arrivals)' = Seen(b, arrivals')
                            /\ SeenNow(b, departures)' = Seen(b, departures')
      BY <1>1 DEF SeenNow, Seen
    <3> QED
      BY <1>0, <1>1, <2>1, <2>3, <3>1 DEF SnapInv, Pending
  <2> QED
    BY <2>2, <2>4
\* The later ones use what it found.
<1>4. CASE snapshotT = t
  <2>1. UNCHANGED <<snapshot, snapshotT, arrivals, departures>> /\ snapshot = L
    BY <1>1, <1>4 DEF RefreshMovementCache, cache_vars, SnapInv
  <2>2. ASSUME NEW b \in Agents, view[b].t >= 0, t = view[b].t + 1,
               L[b] = view[b].scene.place
        PROVE  Pending(b)
    BY <1>0, <1>1, <1>4, <2>2 DEF SnapInv
  <2>3. ASSUME NEW b \in Agents
        PROVE  /\ view'[b].t <= t
               /\ view'[b].t = t => /\ view'[b].scene.place = L[b]
                                    /\ view'[b].scene.roster = RosterIn(L, b)
               /\ t >= 1 /\ view'[b].t = t - 1 /\ view'[b].scene.place = L[b] =>
                    RosterIn(L, b) = (view'[b].scene.roster \union SeenNow(b, arrivals))
                                       \ SeenNow(b, departures)
    <3>1. CASE b = a
      BY <1>0, <1>1, <3>1
    <3>2. CASE b # a
      <4>1. view'[b] = view[b]
        BY <1>1, <3>2
      <4>2. view[b].t = t => /\ view[b].scene.place = L[b]
                             /\ view[b].scene.roster = RosterIn(L, b)
        BY <1>0, <1>4, <2>1 DEF SnapInv
      <4>3. t >= 1 /\ view[b].t = t - 1 => view[b].t >= 0 /\ t = view[b].t + 1
        BY <1>0
      <4> QED
        BY <1>0, <1>4, <2>2, <4>1, <4>2, <4>3 DEF Pending
    <3> QED
      BY <3>1, <3>2
  <2>4. SnapInv'
    <3>1. \A b \in Agents : /\ SeenNow(b, arrivals)' = SeenNow(b, arrivals)
                            /\ SeenNow(b, departures)' = SeenNow(b, departures)
      BY <1>1, <2>1 DEF SeenNow
    <3> QED
      BY <1>0, <1>1, <1>4, <2>1, <2>3, <3>1 DEF SnapInv, Pending
  <2>5. view[a].t >= 0 /\ t = view[a].t + 1 /\ L[a] = view[a].scene.place =>
          RosterIn(L, a) = (view[a].scene.roster \union Seen(a, arrivals'))
                             \ Seen(a, departures')
    BY <1>2, <2>1, <2>2 DEF Pending
  <2> QED
    BY <2>4, <2>5
<1> QED
  BY <1>3, <1>4

\* The steps that leave the views and the cache alone.
LEMMA OthersLeaveViews ==
    ASSUME TypeOK, [Next]_vars, \A a \in Agents : ~Perceive(a)
    PROVE  /\ UNCHANGED view_vars
           /\ \/ UNCHANGED <<t, phase, L>>
              \/ BeginTick \/ EndMicro \/ CommitMove \/ Advance
<1>1. CASE UNCHANGED vars
  BY <1>1 DEF vars
<1>2. ASSUME NEW a \in Agents, Dispatch(a)
      PROVE  UNCHANGED view_vars /\ UNCHANGED <<t, phase, L>>
  BY <1>2, CallTold
<1>3. ASSUME NEW a \in Agents, Decide(a) \/ FailDecision(a) \/ Finish(a)
      PROVE  UNCHANGED view_vars /\ UNCHANGED <<t, phase, L>>
  BY <1>3 DEF Decide, FailDecision, Finish, EndTurn
<1>4. CASE BeginTick \/ EndMicro \/ CommitMove \/ Advance \/ Stopped
  BY <1>4 DEF BeginTick, EndMicro, CommitMove, Advance, Stopped, vars
<1> QED
  BY <1>1, <1>2, <1>3, <1>4 DEF Next

\* What was seen changes only when an agent is observed anew, and is explained
\* then.
LEMMA SnapStep ==
    TypeInv /\ SnapInv /\ RosterExplained /\ [Next]_vars
      => SnapInv' /\ RosterExplained'
<1> SUFFICES ASSUME TypeInv, SnapInv, RosterExplained, [Next]_vars
             PROVE  SnapInv' /\ RosterExplained'
  OBVIOUS
<1>0. /\ TypeOK /\ t \in Nat /\ snapshotT \in Int
      /\ \A b \in Agents : view[b].t \in Int
  BY ClocksTyped
<1>1. ASSUME NEW a \in Agents, Perceive(a) PROVE SnapInv' /\ RosterExplained'
  <2>1. SnapInv'
    BY <1>1, PerceiveExplains
  <2>2. ASSUME NEW b \in Agents,
               before'[b].t >= 0, view'[b].t = before'[b].t + 1,
               view'[b].scene.place = before'[b].scene.place
        PROVE  view'[b].scene.roster =
                 (before'[b].scene.roster \union view'[b].arrived) \ view'[b].departed
    <3>1. CASE b = a
      BY <1>1, <2>2, <3>1, PerceiveWrites, PerceiveExplains
    <3>2. CASE b # a
      <4>1. view'[b] = view[b] /\ before'[b] = before[b]
        BY <1>1, <3>2, PerceiveWrites
      <4> QED
        BY <2>2, <4>1 DEF RosterExplained
    <3> QED
      BY <3>1, <3>2
  <2> QED
    BY <2>1, <2>2 DEF RosterExplained
<1>2. ASSUME \A a \in Agents : ~Perceive(a) PROVE SnapInv' /\ RosterExplained'
  <2>1. UNCHANGED <<snapshot, snapshotT, arrivals, departures, view, before>>
    BY <1>0, <1>2, OthersLeaveViews DEF view_vars, cache_vars
  <2>2. RosterExplained'
    BY <2>1 DEF RosterExplained
  <2>3. CASE UNCHANGED <<t, phase, L>>
    <3>1. \A b \in Agents : Pending(b)' = Pending(b)
      BY <2>1, <2>3 DEF Pending, SeenNow
    <3> QED
      BY <2>1, <2>2, <2>3, <3>1 DEF SnapInv
  <2>4. CASE BeginTick
    <3>1. phase = "idle" /\ t' = t
      BY <2>4 DEF BeginTick
    <3> QED
      BY <1>0, <2>1, <2>2, <3>1 DEF SnapInv
  <2>5. CASE EndMicro \/ CommitMove
    <3>1. phase' = "commit" /\ t' = t
      BY <2>5 DEF EndMicro, CommitMove
    <3> QED
      BY <1>0, <2>1, <2>2, <3>1 DEF SnapInv
  <2>6. CASE Advance
    <3>1. phase' = "idle" /\ t' = t + 1
      BY <2>6 DEF Advance
    <3> QED
      BY <1>0, <2>1, <2>2, <3>1 DEF SnapInv
  <2> QED
    BY <1>0, <1>2, <2>3, <2>4, <2>5, <2>6, OthersLeaveViews
<1> QED
  BY <1>1, <1>2

\* Before the first tick nothing was seen that needs explaining.
LEMMA SnapInit == Init => SnapInv /\ RosterExplained
BY DEF Init, Unseen, SnapInv, RosterExplained

\* The arrivals and departures that a prompt tells explain, to the last agent,
\* how the roster of a place differs from the one the same agent saw there a
\* tick before: whoever perceives first in a tick, of whatever place, and
\* although the comparison is made once for all of them.
THEOREM RostersAreExplained == Spec => []RosterExplained
<1>1. SnapInv /\ RosterExplained /\ TypeInv /\ [Next]_vars
        => (SnapInv /\ RosterExplained)'
  BY SnapStep
<1>2. Spec => [](SnapInv /\ RosterExplained)
  BY <1>1, SnapInit, TypesAlways, PTL DEF Spec
<1> QED
  BY <1>2, PTL
-----------------------------------------------------------------------------
(* What an agent is told of its own calls *)

\* Calls are numbered, of the past, and only a message can be well formed and
\* fail; and a segment notes, in order, exactly its agent's calls that were
\* done.
CallsInv ==
    /\ \A k \in 1..Len(calls) :
         /\ calls[k].n = k /\ calls[k].t <= t
         /\ calls[k].good /\ ~calls[k].done => calls[k].tool = "send_message"
         /\ calls[k].done => \E j \in 1..Len(segment[calls[k].by]) :
                                segment[calls[k].by][j].n = k
    /\ \A a \in Agents :
         /\ \A j \in 1..Len(segment[a]) : /\ segment[a][j].n \in 1..Len(calls)
                                          /\ calls[segment[a][j].n].done
         /\ \A i, j \in 1..Len(segment[a]) : i < j => segment[a][i].n < segment[a][j].n

\* A suffix of a sequence.
LEMMA Suffix ==
    ASSUME NEW S, NEW s \in Seq(S), NEW m \in 1..(Len(s) + 1)
    PROVE  /\ SubSeq(s, m, Len(s)) \in Seq(S)
           /\ Len(SubSeq(s, m, Len(s))) = Len(s) - m + 1
           /\ \A i \in 1..(Len(s) - m + 1) : SubSeq(s, m, Len(s))[i] = s[i + m - 1]
OBVIOUS

\* Of the last limit entries of a sequence.
LastOf(s, limit) == SubSeq(s, Max({1, Len(s) - limit + 1}), Len(s))

\* They are all of a short sequence, and of a long one as many as asked for.
LEMMA LastOnes ==
    ASSUME NEW S, NEW s \in Seq(S), NEW limit \in Nat, NEW r, r = LastOf(s, limit)
    PROVE  /\ Len(s) <= limit => r = s
           /\ Len(s) > limit =>
                /\ r \in Seq(S) /\ Len(r) = limit
                /\ \A i \in 1..limit : /\ Len(s) - limit + i \in 1..Len(s)
                                       /\ r[i] = s[Len(s) - limit + i]
<1> DEFINE n == Len(s)
           x == n - limit + 1
           m == Max({1, x})
<1>1. n \in Nat /\ x \in Int
  OBVIOUS
<1> HIDE DEF x
<1>2. m = IF x >= 1 THEN x ELSE 1
  <2> DEFINE M == IF x >= 1 THEN x ELSE 1
  <2>1. M \in {1, x} /\ \A y \in {1, x} : M >= y
    BY <1>1
  <2>2. \A z \in {1, x} : (\A y \in {1, x} : z >= y) => z = M
    BY <1>1
  <2>3. m \in {1, x} /\ \A y \in {1, x} : m >= y
    BY <2>1 DEF Max
  <2> QED
    BY <2>2, <2>3
<1>3. r = SubSeq(s, m, n)
  BY DEF x, LastOf
<1> HIDE DEF m
<1>4. ASSUME n <= limit PROVE r = s
  <2>1. m = 1
    BY <1>1, <1>2, <1>4 DEF x
  <2>2. SubSeq(s, 1, n) = s
    OBVIOUS
  <2> QED
    BY <1>3, <2>1, <2>2
<1>5. ASSUME n > limit
      PROVE  /\ r \in Seq(S) /\ Len(r) = limit
             /\ \A i \in 1..limit : /\ n - limit + i \in 1..n
                                    /\ r[i] = s[n - limit + i]
  <2>1. m = n - limit + 1 /\ m \in 1..(n + 1)
    BY <1>1, <1>2, <1>5 DEF x
  <2>2. /\ r \in Seq(S) /\ Len(r) = n - m + 1
        /\ \A i \in 1..(n - m + 1) : r[i] = s[i + m - 1]
    BY <1>3, <2>1, Suffix
  <2>3. n - m + 1 = limit
    BY <1>1, <2>1
  <2>4. \A i \in 1..limit : n - limit + i \in 1..n /\ i + m - 1 = n - limit + i
    BY <1>1, <1>5, <2>1
  <2> QED
    BY <2>2, <2>3, <2>4
<1> HIDE DEF n
<1>6. (n <= limit => r = s) /\ (n > limit =>
          /\ r \in Seq(S) /\ Len(r) = limit
          /\ \A i \in 1..limit : n - limit + i \in 1..n /\ r[i] = s[n - limit + i])
  BY <1>4, <1>5
<1> QED
  BY <1>6 DEF n

\* What the steps on calls and segments need of the types.
LEMMA CallsTyped ==
    ASSUME TypeOK
    PROVE  /\ calls \in Seq(CallRecords) /\ Len(calls) \in Nat
           /\ segment \in [Agents -> Seq(Notes)]
           /\ RecentLimit \in Nat /\ t \in Nat
           /\ \A k \in 1..Len(calls) : calls[k] \in CallRecords
           /\ \A a \in Agents : /\ Len(segment[a]) \in Nat
                                /\ \A j \in 1..Len(segment[a]) : segment[a][j] \in Notes
           /\ Range(calls) = {calls[k] : k \in 1..Len(calls)}
<1>1. calls \in Seq(CallRecords) /\ segment \in [Agents -> Seq(Notes)]
  BY Zenon DEF TypeOK, CallRecords, Notes, Positions
<1>2. t \in 0..MaxT /\ MaxT \in Nat /\ RecentLimit \in Nat
  BY TurnAssumption DEF TypeOK
<1> DEFINE S == CallRecords
           N == Notes
<1> HIDE DEF S, N
<1>3. calls \in Seq(S) /\ segment \in [Agents -> Seq(N)]
  BY <1>1 DEF S, N
<1>4. /\ Len(calls) \in Nat /\ \A k \in 1..Len(calls) : calls[k] \in S
      /\ \A a \in Agents : /\ Len(segment[a]) \in Nat
                           /\ \A j \in 1..Len(segment[a]) : segment[a][j] \in N
  BY <1>3
<1>5. Range(calls) = {calls[k] : k \in 1..Len(calls)}
  BY <1>3 DEF Range
<1> QED
  BY <1>1, <1>2, <1>4, <1>5 DEF S, N

\* Calls are numbered as they are made, in the order of their ticks; a segment
\* keeps that order.
LEMMA CallsStep == TypeInv /\ CallsInv /\ [Next]_vars => CallsInv'
<1> SUFFICES ASSUME TypeInv, CallsInv, [Next]_vars PROVE CallsInv'
  OBVIOUS
<1>0. TypeOK
  BY DEF TypeInv
<1>1. ASSUME UNCHANGED <<calls, segment>>, t' = t \/ t' = t + 1 PROVE CallsInv'
  <2>1. t <= t' /\ t \in Nat /\ t' \in Nat
    BY <1>0, <1>1, CallsTyped
  <2>2. \A k \in 1..Len(calls) : calls[k].t \in Nat /\ calls[k].t <= t
    BY <1>0, CallsTyped DEF CallsInv, CallRecords
  <2>3. \A k \in 1..Len(calls) : calls[k].t <= t'
    BY <2>1, <2>2
  <2> QED
    BY <1>1, <2>3 DEF CallsInv
<1>2. CASE UNCHANGED vars \/ BeginTick \/ EndMicro \/ CommitMove \/ Advance \/ Stopped
  BY <1>1, <1>2 DEF vars, BeginTick, EndMicro, CommitMove, Advance, Stopped
<1>3. ASSUME NEW a \in Agents, Perceive(a) \/ Decide(a) \/ FailDecision(a) \/ Finish(a)
      PROVE  CallsInv'
  BY <1>1, <1>3 DEF Perceive, Decide, FailDecision, Finish, EndTurn
<1>4. ASSUME NEW a \in Agents, Dispatch(a) PROVE CallsInv'
  <2>1. t' = t
    BY <1>0, <1>4, CallTold
  <2>2. PICK c \in CallRecords :
          /\ c.n = Len(calls) + 1 /\ c.by = a /\ c.t = t /\ c.place = L[a]
          /\ c.good /\ ~c.done => c.tool = "send_message"
          /\ calls' = Append(calls, c)
          /\ calls' \in Seq(CallRecords)
          /\ segment' = IF c.done
                        THEN [segment EXCEPT ![a] =
                                Append(@, [t |-> t, tool |-> c.tool, n |-> c.n])]
                        ELSE segment
          /\ segment' \in [Agents -> Seq(Notes)]
    BY <1>0, <1>4, CallTold
  <2> DEFINE e == [t |-> t, tool |-> c.tool, n |-> c.n]
             n == Len(calls) + 1
  <2>3. /\ Len(calls) \in Nat /\ Len(calls') = n /\ calls'[n] = c
        /\ \A k \in 1..Len(calls) : calls'[k] = calls[k]
        /\ \A k \in 1..n : k \in 1..Len(calls) \/ k = n
        /\ n \in 1..n
    <3> DEFINE S == CallRecords
    <3> HIDE DEF S
    <3>1. calls \in Seq(S) /\ c \in S
      BY <1>0, CallsTyped DEF S
    <3> QED
      BY <2>2, <3>1
  <2>4. e.n = n
    BY <2>2
  <2> HIDE DEF e
  \* The segment of a grows by e if the call was done; the others stay.
  <2>5. /\ \A b \in Agents \ {a} : segment'[b] = segment[b]
        /\ ~c.done => segment'[a] = segment[a]
        /\ c.done => segment'[a] = Append(segment[a], e)
    BY <1>0, <2>2, CallsTyped DEF e
  <2>6. c.done => /\ Len(segment[a]) \in Nat
                  /\ Len(segment'[a]) = Len(segment[a]) + 1
                  /\ segment'[a][Len(segment[a]) + 1] = e
                  /\ \A j \in 1..Len(segment[a]) : segment'[a][j] = segment[a][j]
    <3>1. segment[a] \in Seq(Notes)
      BY <1>0, CallsTyped
    <3> DEFINE N == Notes
    <3>2. segment[a] \in Seq(N)
      BY <3>1
    <3> HIDE DEF N
    <3> QED
      BY <2>5, <3>2
  <2> HIDE DEF n
  <2>7. ASSUME NEW b \in Agents, NEW j \in 1..Len(segment[b])
        PROVE  j \in 1..Len(segment'[b]) /\ segment'[b][j] = segment[b][j]
    <3>1. Len(segment[b]) \in Nat
      BY <1>0, CallsTyped
    <3> QED
      BY <2>5, <2>6, <3>1
  <2>8. ASSUME NEW b \in Agents, NEW j \in 1..Len(segment'[b])
        PROVE  \/ j \in 1..Len(segment[b]) /\ segment'[b][j] = segment[b][j]
               \/ /\ b = a /\ c.done /\ j = Len(segment[b]) + 1
                  /\ segment'[b][j] = e /\ Len(segment[b]) \in Nat
    BY <2>5, <2>6
  <2>9. ASSUME NEW k \in 1..Len(calls')
        PROVE  /\ calls'[k].n = k /\ calls'[k].t <= t'
               /\ calls'[k].good /\ ~calls'[k].done => calls'[k].tool = "send_message"
               /\ calls'[k].done => \E j \in 1..Len(segment'[calls'[k].by]) :
                                       segment'[calls'[k].by][j].n = k
    <3>1. CASE k \in 1..Len(calls)
      <4>1. calls'[k] = calls[k] /\ calls[k].by \in Agents
        BY <1>0, <2>3, <3>1, CallsTyped DEF CallRecords
      <4>2. /\ calls[k].n = k /\ calls[k].t <= t
            /\ calls[k].good /\ ~calls[k].done => calls[k].tool = "send_message"
            /\ calls[k].done => \E j \in 1..Len(segment[calls[k].by]) :
                                   segment[calls[k].by][j].n = k
        BY <3>1 DEF CallsInv
      <4> QED
        BY <2>1, <2>7, <4>1, <4>2
    <3>2. CASE k = n
      <4>1. calls'[k] = c /\ c.n = k /\ c.t <= t
        BY <1>0, <2>2, <2>3, <3>2, CallsTyped DEF n
      <4>2. c.done => \E j \in 1..Len(segment'[a]) : segment'[a][j].n = k
        <5>1. c.done => Len(segment[a]) + 1 \in 1..Len(segment'[a])
          BY <2>6
        <5> QED
          BY <2>4, <2>6, <3>2, <5>1
      <4> QED
        BY <2>1, <2>2, <4>1, <4>2
    <3> QED
      BY <2>3, <3>1, <3>2
  <2>10. ASSUME NEW b \in Agents, NEW j \in 1..Len(segment'[b])
         PROVE  /\ segment'[b][j].n \in 1..Len(calls')
                /\ calls'[segment'[b][j].n].done
    <3>1. CASE j \in 1..Len(segment[b]) /\ segment'[b][j] = segment[b][j]
      <4>1. segment[b][j].n \in 1..Len(calls) /\ calls[segment[b][j].n].done
        BY <3>1 DEF CallsInv
      <4>2. Len(calls') = Len(calls) + 1
        BY <2>3 DEF n
      <4> QED
        BY <2>3, <3>1, <4>1, <4>2
    <3>2. CASE c.done /\ segment'[b][j] = e
      BY <2>3, <2>4, <3>2
    <3> QED
      BY <2>8, <3>1, <3>2
  <2>11. ASSUME NEW b \in Agents, NEW i \in 1..Len(segment'[b]),
                NEW j \in 1..Len(segment'[b]), i < j
         PROVE  segment'[b][i].n < segment'[b][j].n
    <3>1. CASE j \in 1..Len(segment[b]) /\ segment'[b][j] = segment[b][j]
      <4>1. i \in 1..Len(segment[b]) /\ segment'[b][i] = segment[b][i]
        BY <2>8, <2>11, <3>1
      <4> QED
        BY <2>11, <3>1, <4>1 DEF CallsInv
    <3>2. CASE /\ b = a /\ c.done /\ j = Len(segment[b]) + 1
               /\ segment'[b][j] = e /\ Len(segment[b]) \in Nat
      <4>1. i \in 1..Len(segment[b]) /\ segment'[b][i] = segment[b][i]
        BY <2>8, <2>11, <3>2
      <4>2. segment[b][i].n \in 1..Len(calls)
        BY <4>1 DEF CallsInv
      <4> QED
        BY <2>3, <2>4, <3>2, <4>1, <4>2 DEF n
    <3> QED
      BY <2>8, <3>1, <3>2
  <2> QED
    BY <2>9, <2>10, <2>11 DEF CallsInv
<1> QED
  BY <1>2, <1>3, <1>4 DEF Next

\* Before the first tick nothing was called.
LEMMA CallsInit == Init => CallsInv
<1> SUFFICES ASSUME Init PROVE CallsInv
  OBVIOUS
<1>1. 1..Len(calls) = {} /\ \A a \in Agents : 1..Len(segment[a]) = {}
  BY DEF Init
<1> QED
  BY <1>1 DEF CallsInv

\* What a perception of a now says of a's call k.
Told(k, a) ==
    LET done == {e.n : e \in Range(RecentSelfActions(a))}
        failed == {f.n : f \in RecentFailed(a)}
        full == Cardinality(done) = RecentLimit /\ \A n \in done : n > k
    IN  /\ k \in failed \/ k \in done \/ (calls[k].done /\ full)
        /\ ~(k \in failed /\ k \in done)

\* A good call of the last tick is among what its agent perceives now, done or
\* failed, unless newer ones of its own fill the list.
LEMMA PerceptionTells ==
    ASSUME TypeOK, CallsInv, NEW a \in Agents, NEW k \in 1..Len(calls),
           calls[k].by = a, calls[k].good, calls[k].t = t - 1
    PROVE  Told(k, a)
<1> DEFINE s == segment[a]
           r == RecentSelfActions(a)
           done == {e.n : e \in Range(r)}
           failed == {f.n : f \in RecentFailed(a)}
           limit == RecentLimit
<1>0. /\ s \in Seq(Notes) /\ Len(s) \in Nat /\ limit \in Nat
      /\ \A j \in 1..Len(s) : /\ s[j].n \in 1..Len(calls) /\ calls[s[j].n].done
      /\ \A i, j \in 1..Len(s) : i < j => s[i].n < s[j].n
      /\ calls[k].done => \E j \in 1..Len(s) : s[j].n = k
      /\ calls[k].n = k /\ \A m \in 1..Len(calls) : calls[m].n = m
      /\ Len(calls) \in Nat
  BY CallsTyped DEF CallsInv
\* What failed was not done.
<1>1. \A m \in failed : m \in 1..Len(calls) /\ ~calls[m].done
  <2> TAKE m \in failed
  <2>1. PICK f \in RecentFailed(a) : m = f.n
    OBVIOUS
  <2>2. PICK i \in 1..Len(calls) : f = calls[i]
    BY <2>1, CallsTyped DEF RecentFailed
  <2>3. ~f.done
    BY <2>1 DEF RecentFailed
  <2> QED
    BY <1>0, <2>1, <2>2, <2>3
<1>2. ~calls[k].done => k \in failed
  <2>1. ASSUME ~calls[k].done PROVE calls[k] \in RecentFailed(a)
    BY <2>1, CallsTyped DEF CallsInv, RecentFailed
  <2> QED
    BY <1>0, <2>1
<1>3. /\ Len(s) <= limit => r = s
      /\ Len(s) > limit =>
           /\ r \in Seq(Notes) /\ Len(r) = limit
           /\ \A i \in 1..limit : /\ Len(s) - limit + i \in 1..Len(s)
                                  /\ r[i] = s[Len(s) - limit + i]
  <2>1. r = LastOf(s, limit)
    BY DEF RecentSelfActions, LastOf
  <2> DEFINE S == Notes
  <2>2. s \in Seq(S)
    BY <1>0
  <2> HIDE DEF r, s, limit, S
  <2>3. /\ Len(s) <= limit => r = s
        /\ Len(s) > limit =>
             /\ r \in Seq(S) /\ Len(r) = limit
             /\ \A i \in 1..limit : /\ Len(s) - limit + i \in 1..Len(s)
                                    /\ r[i] = s[Len(s) - limit + i]
    BY <1>0, <2>1, <2>2, LastOnes
  <2> QED
    BY <2>3 DEF S
<1>4. DOMAIN r = 1..Len(r) /\ Range(r) = {r[i] : i \in DOMAIN r}
  BY <1>0, <1>3 DEF Range
<1> HIDE DEF s, r, limit
\* What is recalled was done.
<1>5. \A m \in done : calls[m].done
  <2> TAKE m \in done
  <2>1. PICK i \in 1..Len(r) : m = r[i].n
    BY <1>4
  <2>2. PICK j \in 1..Len(s) : r[i] = s[j]
    BY <1>0, <1>3, <2>1
  <2> QED
    BY <1>0, <2>1, <2>2
<1>6. ~(k \in failed /\ k \in done)
  BY <1>1, <1>5
\* A call that was done is recalled, or later ones fill the memory.
<1>7. ASSUME calls[k].done, k \notin done
      PROVE  Cardinality(done) = limit /\ \A m \in done : m > k
  <2>1. PICK j \in 1..Len(s) : s[j].n = k
    BY <1>0, <1>7
  <2>2. Len(s) > limit
    <3>1. CASE Len(s) <= limit
      <4>1. r = s
        BY <1>3, <3>1
      <4> QED
        BY <1>4, <1>7, <2>1, <4>1
    <3> QED
      BY <1>0, <3>1
  <2>3. /\ Len(r) = limit
        /\ \A i \in 1..limit : /\ Len(s) - limit + i \in 1..Len(s)
                               /\ r[i] = s[Len(s) - limit + i]
    BY <1>3, <2>2
  <2>4. j <= Len(s) - limit
    <3> SUFFICES ASSUME j > Len(s) - limit PROVE FALSE
      BY <1>0, <2>1
    <3> DEFINE i == j - (Len(s) - limit)
    <3>1. i \in 1..limit /\ Len(s) - limit + i = j
      BY <1>0, <2>1
    <3>2. r[i] = s[j] /\ i \in DOMAIN r
      BY <1>4, <2>3, <3>1
    <3> HIDE DEF i
    <3>3. r[i] \in Range(r) /\ r[i].n = k
      BY <1>4, <2>1, <3>2
    <3> QED
      BY <1>7, <3>3
  <2>5. ASSUME NEW m \in done PROVE m > k
    <3>1. PICK i \in 1..limit : m = r[i].n
      BY <1>4, <2>3
    <3>2. Len(s) - limit + i \in 1..Len(s) /\ j < Len(s) - limit + i
      BY <1>0, <2>1, <2>3, <2>4, <3>1
    <3>3. s[j].n < s[Len(s) - limit + i].n
      BY <1>0, <2>1, <3>2
    <3>4. s[j].n \in Int /\ s[Len(s) - limit + i].n \in Int
      BY <1>0, <2>1, <3>2
    <3> QED
      BY <2>1, <2>3, <3>1, <3>3, <3>4
  <2>6. Cardinality(done) = limit
    <3> DEFINE f == [i \in 1..limit |-> r[i].n]
    <3>1. f \in [1..limit -> done]
      BY <1>4, <2>3
    <3>2. \A m \in done : \E i \in 1..limit : f[i] = m
      BY <1>4, <2>3
    <3>3. ASSUME NEW i1 \in 1..limit, NEW i2 \in 1..limit, f[i1] = f[i2]
          PROVE  i1 = i2
      <4> DEFINE j1 == Len(s) - limit + i1
                 j2 == Len(s) - limit + i2
      <4>1. /\ j1 \in 1..Len(s) /\ j2 \in 1..Len(s) /\ s[j1].n = s[j2].n
            /\ s[j1].n \in Int
        <5>1. f[i1] = r[i1].n /\ f[i2] = r[i2].n
          OBVIOUS
        <5>2. j1 \in 1..Len(s) /\ r[i1] = s[j1] /\ j2 \in 1..Len(s) /\ r[i2] = s[j2]
          BY <2>3
        <5> HIDE DEF f, j1, j2
        <5>3. s[j1].n \in Int
          BY <1>0, <5>2
        <5> QED
          BY <3>3, <5>1, <5>2, <5>3
      <4>2. ~(j1 < j2) /\ ~(j2 < j1)
        <5> HIDE DEF j1, j2
        <5> QED
          BY <1>0, <4>1
      <4> QED
        BY <1>0, <4>1, <4>2
    <3> HIDE DEF f, done
    <3>4. f \in Bijection(1..limit, done)
      BY <3>1, <3>2, <3>3 DEF Bijection, Injection, Surjection, IsInjective
    <3>5. ExistsBijection(1..limit, done)
      BY <3>4 DEF ExistsBijection
    <3> QED
      BY <1>0, <3>5, FS_CountingElements
  <2> QED
    BY <2>5, <2>6
<1> QED
  BY <1>2, <1>6, <1>7 DEF Told, r, limit

\* What the perception of a said of the call c.
WasTold(c, a) ==
    LET done == {e.n : e \in Range(view[a].recent)}
        failed == {f.n : f \in view[a].failed}
        full == Cardinality(done) = RecentLimit /\ \A n \in done : n > c.n
    IN  c.by = a /\ c.good /\ c.t = view[a].t - 1 =>
          /\ c.n \in failed \/ c.n \in done \/ (c.done /\ full)
          /\ ~(c.n \in failed /\ c.n \in done)

\* What an agent was told stays as it is until it perceives again.
LEMMA ToldStep ==
    TypeInv /\ SnapInv /\ CallsInv /\ DoneOrFailed /\ [Next]_vars => DoneOrFailed'
<1> SUFFICES ASSUME TypeInv, SnapInv, CallsInv, DoneOrFailed, [Next]_vars
             PROVE  DoneOrFailed'
  OBVIOUS
<1>0. /\ TypeOK /\ DOMAIN view = Agents /\ t \in Nat /\ snapshotT \in Int
      /\ \A a \in Agents : view[a].t \in Int /\ view[a].t <= t
  <2>1. /\ TypeOK /\ t \in Nat /\ snapshotT \in Int /\ DOMAIN view = Agents
        /\ \A a \in Agents : view[a].t \in Int
    BY ClocksTyped DEF TypeInv
  <2>2. snapshotT <= t /\ \A a \in Agents : view[a].t <= snapshotT
    BY DEF SnapInv
  <2> QED
    BY <2>1, <2>2
<1>1. DoneOrFailed <=> \A a \in Agents : \A c \in Range(calls) : WasTold(c, a)
  BY DEF DoneOrFailed, WasTold
<1>2. ASSUME NEW a \in Agents, Perceive(a) PROVE DoneOrFailed'
  <2>1. /\ calls' = calls
        /\ view' = [view EXCEPT ![a] = Observation(a)]
    BY <1>2 DEF Perceive
  <2>2. /\ view'[a] = Observation(a) /\ \A b \in Agents \ {a} : view'[b] = view[b]
        /\ Observation(a).t = t /\ Observation(a).failed = RecentFailed(a)
        /\ Observation(a).recent = RecentSelfActions(a)
    BY <1>0, <2>1 DEF Observation
  <2>3. ASSUME NEW b \in Agents, NEW c \in Range(calls) PROVE WasTold(c, b)'
    <3>1. CASE b = a
      <4>1. PICK k \in 1..Len(calls) : c = calls[k] /\ c.n = k
        <5>1. PICK k \in 1..Len(calls) : c = calls[k]
          BY <1>0, CallsTyped
        <5> QED
          BY <5>1 DEF CallsInv
      <4>2. c.by = a /\ c.good /\ c.t = t - 1 => Told(k, a)
        BY <1>0, <4>1, PerceptionTells
      <4>3. view'[a].t = t /\ view'[a].failed = RecentFailed(a)
            /\ view'[a].recent = RecentSelfActions(a)
        BY <2>2
      <4> QED
        BY <3>1, <4>1, <4>2, <4>3 DEF WasTold, Told
    <3>2. CASE b # a
      <4>1. view'[b] = view[b] /\ WasTold(c, b)
        BY <1>1, <2>2, <3>2
      <4> QED
        BY <4>1 DEF WasTold
    <3> QED
      BY <3>1, <3>2
  <2> QED
    BY <2>1, <2>3 DEF DoneOrFailed, WasTold
<1>3. ASSUME NEW a \in Agents, Dispatch(a) PROVE DoneOrFailed'
  <2>1. PICK c \in CallRecords : calls' = Append(calls, c) /\ c.t = t
    BY <1>0, <1>3, CallTold
  <2>2. view' = view
    BY <1>0, <1>3, CallTold DEF view_vars
  <2>3. ASSUME NEW d \in Range(calls') PROVE d = c \/ d \in Range(calls)
    <3> DEFINE S == CallRecords
    <3> HIDE DEF S
    <3>1. calls \in Seq(S) /\ c \in S
      BY <1>0, CallsTyped DEF S
    <3> QED
      BY <2>1, <2>3, <3>1 DEF Range
  <2>4. \A b \in Agents : c.t # view[b].t - 1
    BY <1>0, <2>1
  <2>5. ASSUME NEW b \in Agents, NEW d \in Range(calls') PROVE WasTold(d, b)'
    <3>1. WasTold(d, b)
      BY <1>1, <2>3, <2>4 DEF WasTold
    <3> QED
      BY <2>2, <3>1 DEF WasTold
  <2> QED
    BY <2>5 DEF DoneOrFailed, WasTold
<1>4. ASSUME UNCHANGED <<calls, view>> PROVE DoneOrFailed'
  BY <1>4 DEF DoneOrFailed
<1>5. CASE UNCHANGED vars \/ BeginTick \/ EndMicro \/ CommitMove \/ Advance \/ Stopped
  BY <1>4, <1>5 DEF vars, view_vars, BeginTick, EndMicro, CommitMove, Advance, Stopped
<1>6. ASSUME NEW a \in Agents, Decide(a) \/ FailDecision(a) \/ Finish(a)
      PROVE  DoneOrFailed'
  BY <1>4, <1>6 DEF view_vars, Decide, FailDecision, Finish, EndTurn
<1> QED
  BY <1>2, <1>3, <1>5, <1>6 DEF Next

\* Before the first tick there is nothing to be told.
LEMMA ToldInit == Init => DoneOrFailed
<1>1. Init => Range(calls) = {}
  BY DEF Init, Range
<1> QED
  BY <1>1 DEF DoneOrFailed

\* At its next perception an agent learns what became of every well-formed
\* call of the tick before: it is among what it has done, or among what has
\* failed, never both; and what was done is missing only when later actions
\* fill the reminder.
THEOREM NoCallIsForgotten == Spec => []DoneOrFailed
<1>1. Spec => [](TypeInv /\ SnapInv)
  <2>1. SnapInv /\ RosterExplained /\ TypeInv /\ [Next]_vars
          => (SnapInv /\ RosterExplained)'
    BY SnapStep
  <2>2. Spec => [](SnapInv /\ RosterExplained)
    BY <2>1, SnapInit, TypesAlways, PTL DEF Spec
  <2> QED
    BY <2>2, TypesAlways, PTL
<1>2. Spec => []CallsInv
  BY <1>1, CallsInit, CallsStep, PTL DEF Spec
<1> QED
  BY <1>1, <1>2, ToldInit, ToldStep, PTL DEF Spec
=============================================================================
