-------------------------------- MODULE Turn --------------------------------
(***************************************************************************)
(* An agent's turn as the agent sees it: what PerceptionBuilder.build puts *)
(* into the Observation, what DemoAgent tells the language model of it,    *)
(* and what becomes of the tool calls the model answers with, well formed  *)
(* or not. The wiring is the demo's: every agent is active in every tick,  *)
(* there are no scripts, no retriever, no pools and no compressor, and     *)
(* relations, capabilities and coverage stay as the scenario has them.     *)
(*                                                                         *)
(* A text is the number of the call that wrote it. What the perception     *)
(* reads of incoming and overheard messages is in WorldStep, the copies of *)
(* a group message in GroupBus.                                            *)
(***************************************************************************)
EXTENDS Integers, Sequences, FiniteSets, SequencesExt, FiniteSetsExt

CONSTANTS
    Agents, Places, NoPlace,
    Start,        \* the places the scenario puts the agents in
    Contacts,     \* pairs <<a, b>>: b is in RelationGraph.contacts_of(a)
    Uplink,       \* agents with the capability signal_uplink
    Coverage,     \* PlaceStore.coverage_map: does the edge reach?
    Visible,      \* places with attrs.roster_visible
    Window,       \* ticks the transcript of a place goes back
    MaxLines,     \* its length
    RecentLimit,  \* own actions an agent is reminded of
    WarnAfter,    \* ticks after which a state is called stale,
    ForceAfter,   \* and after which the agent must rewrite it
    MaxT,         \* bound on the clock
    MaxCalls      \* bound on the tool calls of a behaviour

ASSUME TurnAssumption ==
    /\ IsFiniteSet(Agents)
    /\ NoPlace \notin Places
    /\ Start \in [Agents -> Places \union {NoPlace}]
    /\ Contacts \subseteq Agents \X Agents
    /\ Uplink \subseteq Agents
    /\ DOMAIN Coverage \subseteq Places \X Places
    /\ Visible \subseteq Places
    /\ {Window, MaxLines, RecentLimit, MaxT, MaxCalls} \subseteq Nat
    /\ WarnAfter \in Nat /\ ForceAfter \in Nat /\ WarnAfter <= ForceAfter

VARIABLES
    t, phase,
    L,           \* PlaceStore.L
    queue,       \* per place, the agents whose turn is not over
    mind,        \* what an agent's turn waits for
    moves,       \* ActionDispatcher.pending_moves
    calls,       \* the tool calls dispatched so far, with their outcome
    segment,     \* SegmentStore: what the dispatcher noted of each agent
    setAt,       \* current_state_set_at
    snapshot, snapshotT, arrivals, departures,  \* PerceptionBuilder's cache
    view,        \* the last observation of each agent
    before       \* the one before that (history)

cache_vars == <<snapshot, snapshotT, arrivals, departures>>
view_vars == <<cache_vars, view, before>>
vars == <<t, phase, L, queue, mind, moves, calls, segment, setAt, view_vars>>

TOOLS == {"speak_to_local", "send_message", "request_move", "update_state",
          "update_short_term_goal", "send_to_group", "do_nothing"}

agents_at(p) == {a \in Agents : L[a] = p}

Others(a, p) == agents_at(p) \ {a}

-----------------------------------------------------------------------------
(* PerceptionBuilder.build *)

\* phi_rdc and the reason the observation gives when it does not hold.
Reach(a, b) ==
    CASE a # b /\ {a, b} \subseteq Uplink /\ NoPlace \notin {L[a], L[b]}
            /\ <<L[a], L[b]>> \in DOMAIN Coverage
            -> IF Coverage[<<L[a], L[b]>>] THEN "reachable" ELSE "coverage closed"
      [] a \notin Uplink -> "self missing signal_uplink"
      [] a \in Uplink /\ b \notin Uplink -> "peer missing signal_uplink"
      [] {a, b} \subseteq Uplink /\ NoPlace \in {L[a], L[b]} -> "location unknown"
      [] {a, b} \subseteq Uplink /\ NoPlace \notin {L[a], L[b]} /\ a # b
            /\ <<L[a], L[b]>> \notin DOMAIN Coverage -> "no coverage"
      [] OTHER -> "out of reach"

BuildContacts(a) == {<<b, Reach(a, b)>> : b \in {b \in Agents : <<a, b>> \in Contacts}}

\* Where the agent could go; the roster of a closed place is not shown.
BuildPlaceBriefs(a) ==
    {<<p, IF p \in Visible THEN Others(a, p) ELSE {}>> : p \in Places \ {L[a]}}

\* The scene an observation describes.
Scene(a) == [place |-> L[a],
             roster |-> IF L[a] = NoPlace THEN {} ELSE Others(a, L[a]),
             contacts |-> BuildContacts(a),
             elsewhere |-> BuildPlaceBriefs(a)]

\* The utterances of the last ticks in a place, which are told in the order of
\* their numbers. One that nobody heard has no row.
Utterances(p) == {c \in Range(calls) : /\ c.tool = "speak_to_local"
                                       /\ c.done /\ c.heard
                                       /\ c.place = p
                                       /\ c.t >= t - Window}

\* Of too many the oldest are kept.
Transcript(p) ==
    {c \in Utterances(p) :
       Cardinality({d \in Utterances(p) : d.n < c.n}) < MaxLines}

\* Variant: the attempts of this tick, which is not over.
RecentFailedNow(a) == {c \in Range(calls) : /\ c.tool = "send_message"
                                            /\ c.good /\ ~c.done
                                            /\ c.by = a /\ c.t = t}

\* The messages of the last tick that could not be sent.
RecentFailed(a) == {c \in Range(calls) : /\ c.tool = "send_message"
                                         /\ c.good /\ ~c.done
                                         /\ c.by = a /\ c.t = t - 1}

RecentSelfActions(a) ==
    SubSeq(segment[a], Max({1, Len(segment[a]) - RecentLimit + 1}), Len(segment[a]))

Moved == {a \in Agents : L[a] # snapshot[a]}

\* The places now against those of the snapshot; the first one ever shows no
\* movement.
Compare ==
    /\ arrivals' = IF snapshotT < 0 THEN {}
                   ELSE {<<L[a], a>> : a \in {a \in Moved : L[a] # NoPlace}}
    /\ departures' = IF snapshotT < 0 THEN {}
                     ELSE {<<snapshot[a], a>> :
                             a \in {a \in Moved : snapshot[a] # NoPlace}}
    /\ snapshot' = L
    /\ snapshotT' = t

\* Variant: every perception compares with the one before it.
RefreshEveryTime == Compare

\* The first perception of a tick compares; the later ones use what it found.
RefreshMovementCache ==
    IF snapshotT = t THEN UNCHANGED cache_vars ELSE Compare

\* Who came to a's place and who left it, without a itself.
Seen(a, changes) == {c[2] : c \in {c \in changes : c[1] = L[a] /\ c[2] # a}}

\* How long the agent's own state has stood, and what the prompt makes of it.
Age(a) == t - setAt[a]

Urgency(a) == CASE Age(a) >= ForceAfter -> "must update"
                [] Age(a) >= WarnAfter /\ Age(a) < ForceAfter -> "should update"
                [] OTHER -> "fresh"

Observation(a) ==
    [t |-> t, scene |-> Scene(a),
     arrived |-> Seen(a, arrivals'), departed |-> Seen(a, departures'),
     transcript |-> IF L[a] = NoPlace THEN {} ELSE Transcript(L[a]),
     failed |-> RecentFailed(a), recent |-> RecentSelfActions(a),
     urgency |-> Urgency(a)]

Unseen == [t |-> -1,
           scene |-> [place |-> NoPlace, roster |-> {}, contacts |-> {},
                      elsewhere |-> {}],
           arrived |-> {}, departed |-> {}, transcript |-> {},
           failed |-> {}, recent |-> <<>>, urgency |-> "fresh"]

\* Speakers in the transcript that the prompt marks as gone.
MarkedGone(a) == {c.by : c \in view[a].transcript}
                     \ (view[a].scene.roster \union {a})

-----------------------------------------------------------------------------
(* The tick *)

Init == /\ t = 0 /\ phase = "idle"
        /\ L = Start
        /\ queue = [p \in Places |-> <<>>]
        /\ mind = [a \in Agents |-> "idle"]
        /\ moves = <<>> /\ calls = <<>>
        /\ segment = [a \in Agents |-> <<>>]
        /\ setAt = [a \in Agents |-> 0]
        /\ snapshot = Start /\ snapshotT = -1
        /\ arrivals = {} /\ departures = {}
        /\ view = [a \in Agents |-> Unseen]
        /\ before = [a \in Agents |-> Unseen]

\* Every agent is active; each place takes its agents in a shuffled order.
BeginTick ==
    /\ phase = "idle" /\ t < MaxT
    /\ queue' \in {q \in [Places -> UNION {SetToSeqs(S) : S \in SUBSET Agents}] :
                     \A p \in Places : q[p] \in SetToSeqs(agents_at(p))}
    /\ phase' = "micro"
    /\ UNCHANGED <<t, L, mind, moves, calls, segment, setAt, view_vars>>

Turn(a) == \E p \in Places : queue[p] # <<>> /\ Head(queue[p]) = a

\* Nobody is between two points of suspension.
LoopFree == \A a \in Agents : mind[a] # "acting"

\* The observation is built and the model called.
Perceive(a) ==
    /\ phase = "micro" /\ LoopFree /\ Turn(a) /\ mind[a] = "idle"
    /\ mind' = [mind EXCEPT ![a] = "thinking"]
    /\ RefreshMovementCache
    /\ view' = [view EXCEPT ![a] = Observation(a)]
    /\ before' = [before EXCEPT ![a] = view[a]]
    /\ UNCHANGED <<t, phase, L, queue, moves, calls, segment, setAt>>

\* The model answers with tool calls, or with a text, which is do_nothing.
Decide(a) ==
    /\ phase = "micro" /\ LoopFree /\ mind[a] = "thinking"
    /\ mind' = [mind EXCEPT ![a] = "acting"]
    /\ UNCHANGED <<t, phase, L, queue, moves, calls, segment, setAt, view_vars>>

EndTurn(a) ==
    /\ mind' = [mind EXCEPT ![a] = "idle"]
    /\ queue' = [p \in Places |-> IF queue[p] # <<>> /\ Head(queue[p]) = a
                                  THEN Tail(queue[p]) ELSE queue[p]]
    /\ UNCHANGED <<t, phase, L, moves, calls, segment, setAt, view_vars>>

\* The call of the model fails: there are no tool calls.
FailDecision(a) == /\ phase = "micro" /\ LoopFree /\ mind[a] = "thinking"
                   /\ EndTurn(a)

Finish(a) == mind[a] = "acting" /\ EndTurn(a)

EndMicro ==
    /\ phase = "micro" /\ \A p \in Places : queue[p] = <<>>
    /\ phase' = "commit"
    /\ UNCHANGED <<t, L, queue, mind, moves, calls, segment, setAt, view_vars>>

\* A move to nowhere or to where the agent is changes nothing.
CommitMove ==
    /\ phase = "commit" /\ moves # <<>>
    /\ LET m == Head(moves)
       IN  L' = IF m[2] = NoPlace THEN L ELSE [L EXCEPT ![m[1]] = m[2]]
    /\ moves' = Tail(moves)
    /\ UNCHANGED <<t, phase, queue, mind, calls, segment, setAt, view_vars>>

Advance ==
    /\ phase = "commit" /\ moves = <<>>
    /\ t' = t + 1 /\ phase' = "idle"
    /\ UNCHANGED <<L, queue, mind, moves, calls, segment, setAt, view_vars>>

Stopped == phase = "idle" /\ t = MaxT /\ UNCHANGED vars

-----------------------------------------------------------------------------
(* ActionDispatcher.dispatch *)

\* Variant: the segment does not ask for the outcome.
NoteAll(a, tool, done) ==
    segment' = [segment EXCEPT ![a] =
                  Append(@, [t |-> t, tool |-> tool, n |-> Len(calls) + 1])]

\* An action that succeeded goes into the agent's segment.
Note(a, tool, done) ==
    segment' = IF done
               THEN [segment EXCEPT ![a] =
                       Append(@, [t |-> t, tool |-> tool, n |-> Len(calls) + 1])]
               ELSE segment

\* One tool call; an argument that is missing ends it before any effect.
Call(a, tool, good, done) ==
    /\ mind[a] = "acting" /\ Len(calls) < MaxCalls
    /\ calls' = Append(calls, [n |-> Len(calls) + 1, by |-> a, t |-> t,
                               tool |-> tool, good |-> good, done |-> done,
                               place |-> L[a],
                               heard |-> L[a] # NoPlace /\ Others(a, L[a]) # {}])
    /\ Note(a, tool, done)
    /\ UNCHANGED <<t, phase, queue, mind, view_vars>>

SpeakToLocal(a, good) ==
    Call(a, "speak_to_local", good, good) /\ UNCHANGED <<L, moves, setAt>>

\* A peer that cannot be reached leaves a failed row.
SendMessage(a, b, good) ==
    /\ Call(a, "send_message", good,
            good /\ <<a, b>> \in Contacts /\ Reach(a, b) = "reachable")
    /\ UNCHANGED <<L, moves, setAt>>

\* Whatever becomes of the copies, the sending succeeds.
SendToGroup(a, good) ==
    Call(a, "send_to_group", good, good) /\ UNCHANGED <<L, moves, setAt>>

\* Variant: the move takes place at once.
RequestMoveNow(a, p) ==
    /\ Call(a, "request_move", p # NoPlace, TRUE)
    /\ L' = IF p = NoPlace THEN L ELSE [L EXCEPT ![a] = p]
    /\ UNCHANGED <<moves, setAt>>

\* A move is queued and succeeds, even one without a place or to an unknown.
RequestMove(a, p) ==
    /\ Call(a, "request_move", p # NoPlace, TRUE)
    /\ moves' = Append(moves, <<a, p>>)
    /\ UNCHANGED <<L, setAt>>

UpdateState(a, good) ==
    /\ Call(a, "update_state", good, good)
    /\ setAt' = IF good THEN [setAt EXCEPT ![a] = t] ELSE setAt
    /\ UNCHANGED <<L, moves>>

UpdateShortTermGoal(a, good) ==
    Call(a, "update_short_term_goal", good, good) /\ UNCHANGED <<L, moves, setAt>>

DoNothing(a) ==
    Call(a, "do_nothing", TRUE, TRUE) /\ UNCHANGED <<L, moves, setAt>>

\* A tool that does not exist, or one of the feeds the demo does not have.
UnknownTool(a) ==
    Call(a, "unknown", FALSE, FALSE) /\ UNCHANGED <<L, moves, setAt>>

Dispatch(a) ==
    \/ \E good \in BOOLEAN :
         \/ SpeakToLocal(a, good) \/ SendToGroup(a, good)
         \/ \E b \in Agents : SendMessage(a, b, good)
         \/ UpdateState(a, good) \/ UpdateShortTermGoal(a, good)
    \/ \E p \in Places \union {NoPlace} : RequestMove(a, p)
    \/ DoNothing(a) \/ UnknownTool(a)

Next == \/ BeginTick \/ EndMicro \/ CommitMove \/ Advance \/ Stopped
        \/ \E a \in Agents : \/ Perceive(a) \/ Decide(a) \/ FailDecision(a)
                             \/ Dispatch(a) \/ Finish(a)

Spec == Init /\ [][Next]_vars

-----------------------------------------------------------------------------
(* Properties *)

\* The variables of the turn have their types.
TypeOK ==
    /\ t \in 0..MaxT /\ phase \in {"idle", "micro", "commit"}
    /\ L \in [Agents -> Places \union {NoPlace}]
    /\ queue \in [Places -> Seq(Agents)]
    /\ mind \in [Agents -> {"idle", "thinking", "acting"}]
    /\ moves \in Seq(Agents \X (Places \union {NoPlace}))
    /\ calls \in Seq([n : Nat, by : Agents, t : Nat,
                      tool : TOOLS \union {"unknown"}, good : BOOLEAN,
                      done : BOOLEAN, place : Places \union {NoPlace},
                      heard : BOOLEAN])
    /\ segment \in [Agents -> Seq([t : Nat, tool : TOOLS, n : Nat])]
    /\ setAt \in [Agents -> 0..MaxT]
    /\ snapshot \in [Agents -> Places \union {NoPlace}]
    /\ snapshotT \in -1..MaxT
    /\ arrivals \union departures \subseteq Places \X Agents
    /\ \A a \in Agents : view[a].t \in -1..MaxT /\ before[a].t \in -1..MaxT

\* The arrivals and departures an agent is told of explain, to the last
\* agent, how the roster it sees differs from the one it saw a tick before in
\* the same place, whoever of the place perceives first and whatever the
\* agents of other places did in between.
RosterExplained ==
    \A a \in Agents :
        LET v == view[a]
            w == before[a]
        IN  w.t >= 0 /\ v.t = w.t + 1 /\ v.scene.place = w.scene.place =>
              v.scene.roster = (w.scene.roster \union v.arrived) \ v.departed

\* While the model works on an observation, and while its calls are carried
\* out, the scene is as the observation says; while it thinks, no word falls
\* in its place that its transcript lacks.
ObservationHolds ==
    \A a \in Agents :
        /\ mind[a] # "idle" => view[a].scene = Scene(a)
        /\ mind[a] = "thinking" /\ L[a] # NoPlace =>
             view[a].transcript = Transcript(L[a])

\* Each well-formed call of the last tick is told to the agent as done, unless
\* later actions fill the reminder, or else as failed, and never as both.
DoneOrFailed ==
    \A a \in Agents : \A c \in Range(calls) :
        LET done == {e.n : e \in Range(view[a].recent)}
            failed == {f.n : f \in view[a].failed}
            full == Cardinality(done) = RecentLimit /\ \A n \in done : n > c.n
        IN  c.by = a /\ c.good /\ c.t = view[a].t - 1 =>
              /\ c.n \in failed \/ c.n \in done \/ (c.done /\ full)
              /\ ~(c.n \in failed /\ c.n \in done)
=============================================================================
