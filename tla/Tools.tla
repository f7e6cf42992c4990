------------------------------- MODULE Tools -------------------------------
(***************************************************************************)
(* The feed pools and the tools an agent is offered: the runner infers the *)
(* pools from the configuration, MultiPoolPlatformManager adds them and     *)
(* keeps two indexes to route by, compute_available_tools looks at the      *)
(* world before every decision, and ActionDispatcher carries out what the   *)
(* model calls, as the schemas of the offered tools tell it to.             *)
(*                                                                         *)
(* Between the offer and the calls lies the language model: meanwhile other *)
(* agents act and an operator may move agents over IPC. Scripts act between *)
(* ticks only. Nobody in this repository takes a post out of a channel      *)
(* again. Messages and what posts do are left out; the tools of a feed are  *)
(* one tool, named after it.                                               *)
(***************************************************************************)
EXTENDS Integers, Sequences, FiniteSets, Functions

CONSTANTS
    Agents, Groups,
    PlaceList,   \* the places of the configuration, in its order
    NoPlace,
    Contacts,    \* pairs <<a, b>>: b is in RelationGraph.contacts_of(a)
    Coverage,    \* pairs of places whose coverage edge has can_reach
    Resolvers,   \* whether the world that is passed carries a connectivity
                 \* resolver: WorldState does not
    MaxCalls, MaxEdits  \* bounds on tool calls and on outside changes

Places == Range(PlaceList)
Feeds == {"twitter", "reddit"}  \* those a configuration can have
Uplink == <<"signal_uplink">>
Account(f) == <<"account", f>>
Capabilities == {Uplink} \cup {Account(f) : f \in Feeds}

ASSUME ToolsAssumption ==
    /\ PlaceList \in Seq(Places)
    /\ NoPlace \notin Places
    /\ Contacts \subseteq Agents \X Agents
    /\ Coverage \subseteq Places \X Places
    /\ Resolvers \subseteq BOOLEAN
    /\ {MaxCalls, MaxEdits} \subseteq Nat

VARIABLES
    specs,        \* pools the boot has not added yet
    pools,        \* MultiPoolPlatformManager.pools: id -> [feed, places]
    byPlaceFeed,  \* its index <<place, feed>> -> id
    byPlace,      \* its index place -> ids
    channel,      \* the posts in the channel of each pool
    L, holds, members,  \* PlaceStore, CapabilityTable, group membership
    resolver,     \* world.connectivity is there
    offered,      \* the tools of the decision an agent is making, {} if none
    since,        \* what has changed since that offer (history)
    calls, edits, \* calls and outside changes so far
    refused       \* agents refused a post to a feed they were offered (history)

pool_vars == <<specs, pools, byPlaceFeed, byPlace, channel>>
world_vars == <<L, holds, members, resolver>>
turn_vars == <<offered, since>>
vars == <<pool_vars, world_vars, turn_vars, calls, edits, refused>>

-----------------------------------------------------------------------------
(* Boot *)

\* A pool over all places for a feed, if it is configured.
PoolFor(f, configured) ==
    IF f \in configured
      THEN << [id |-> f, feed |-> f, places |-> PlaceList] >>
      ELSE <<>>

\* The schema of the configuration has no room for the list of pools the
\* runner looks for first.
InferPools(configured) ==
    IF PlaceList = <<>>
      THEN <<>>
      ELSE PoolFor("twitter", configured) \o PoolFor("reddit", configured)

Init ==
    /\ \E c \in SUBSET Feeds : specs = InferPools(c)
    /\ pools = <<>> /\ byPlaceFeed = <<>>
    /\ byPlace = [p \in Places |-> <<>>]
    /\ channel = <<>>
    /\ L \in [Agents -> Places \cup {NoPlace}]
    /\ holds \in SUBSET (Agents \X Capabilities)
    /\ members = [g \in Groups |-> {}]
    /\ resolver \in Resolvers
    /\ offered = [a \in Agents |-> {}]
    /\ since = [a \in Agents |-> {}]
    /\ calls = 0 /\ edits = 0
    /\ refused = {}

With(f, keys, value) ==
    [k \in DOMAIN f \cup keys |-> IF k \in keys THEN value ELSE f[k]]

\* Mutant: only the canonical place is routed.
RegisterFirst(s) ==
    /\ pools' = With(pools, {s.id}, [feed |-> s.feed, places |-> Range(s.places)])
    /\ channel' = With(channel, {s.id}, {})
    /\ byPlaceFeed' = With(byPlaceFeed, {<<Head(s.places), s.feed>>}, s.id)
    /\ byPlace' = [p \in Places |-> IF p \in Range(s.places)
                                      THEN Append(byPlace[p], s.id)
                                      ELSE byPlace[p]]

\* The handle and both indexes.
Register(s) ==
    /\ pools' = With(pools, {s.id}, [feed |-> s.feed, places |-> Range(s.places)])
    /\ channel' = With(channel, {s.id}, {})
    /\ byPlaceFeed' = With(byPlaceFeed, Range(s.places) \X {s.feed}, s.id)
    /\ byPlace' = [p \in Places |-> IF p \in Range(s.places)
                                      THEN Append(byPlace[p], s.id)
                                      ELSE byPlace[p]]

\* PlatformFactory.build_platform raises, as it does where oasis is missing.
PoolFails == UNCHANGED <<pools, channel, byPlaceFeed, byPlace>>

\* add_pool refuses an id it knows and a pool without places; what it or the
\* factory raises is logged, and the boot goes on without the pool.
AddPool ==
    /\ specs # <<>>
    /\ \/ /\ Head(specs).id \notin DOMAIN pools
          /\ Head(specs).places # <<>>
          /\ Register(Head(specs))
       \/ PoolFails
    /\ specs' = Tail(specs)
    /\ UNCHANGED <<world_vars, turn_vars, calls, edits, refused>>

-----------------------------------------------------------------------------
(* Routing *)

feeds_at(p) == {pools[byPlace[p][i]].feed : i \in DOMAIN byPlace[p]}

\* The feed a call without one means.
FirstFeed(p) == pools[byPlace[p][1]].feed

Routed(p, f) == p # NoPlace /\ <<p, f>> \in DOMAIN byPlaceFeed

-----------------------------------------------------------------------------
(* compute_available_tools *)

CoLocated(a) == {b \in Agents \ {a} : L[a] # NoPlace /\ L[b] = L[a]}

phi_rdc(a, b) ==
    /\ a # b
    /\ <<a, b>> \in Contacts
    /\ {<<a, Uplink>>, <<b, Uplink>>} \subseteq holds
    /\ NoPlace \notin {L[a], L[b]}
    /\ <<L[a], L[b]>> \in Coverage

HasOutbound(a) == \E p \in Places : p # L[a] /\ <<L[a], p>> \in Coverage

AgentGroups(a) == {g \in Groups : resolver /\ a \in members[g]}

\* Mutant: a contact is enough for send_message.
OfferedBlindly(a) ==
    {"update_state", "relation_change", "capability_change"}
      \cup {tool \in {"speak_to_local"} : CoLocated(a) # {}}
      \cup {tool \in {"send_message"} : \E b \in Agents : <<a, b>> \in Contacts}

\* What compute_available_tools returns.
Offered(a) ==
    {"update_state", "relation_change", "capability_change"}
      \cup {tool \in {"speak_to_local"} : CoLocated(a) # {}}
      \cup {tool \in {"send_message"} :
              resolver /\ \E b \in Agents : phi_rdc(a, b)}
      \cup {tool \in {"request_move"} : HasOutbound(a)}
      \cup {f \in Feeds : /\ L[a] # NoPlace
                        /\ f \in feeds_at(L[a])
                        /\ <<a, Account(f)>> \in holds}
      \cup {tool \in {"create_group", "join_group"} : <<a, Uplink>> \in holds}
      \cup {tool \in {"leave_group", "send_to_group"} :
              <<a, Uplink>> \in holds /\ AgentGroups(a) # {}}

-----------------------------------------------------------------------------
(* One decision: the offer, then, when the model has answered, its calls *)

Perceive(a) ==
    /\ specs = <<>>
    /\ offered[a] = {}
    /\ offered' = [offered EXCEPT ![a] = Offered(a)]
    /\ UNCHANGED since
    /\ UNCHANGED <<pool_vars, world_vars, calls, edits, refused>>

\* The calls are through, or the model failed.
EndTurn(a) ==
    /\ offered[a] # {}
    /\ offered' = [offered EXCEPT ![a] = {}]
    /\ since' = [since EXCEPT ![a] = {}]
    /\ UNCHANGED <<pool_vars, world_vars, calls, edits, refused>>

Call(a, tool) ==
    /\ tool \in offered[a]
    /\ calls < MaxCalls
    /\ calls' = calls + 1
    /\ UNCHANGED <<offered, edits>>

\* Noted for the agents that hold an offer.
Changed(what, agents) ==
    since' = [b \in Agents |-> IF b \in agents /\ offered[b] # {}
                                 THEN since[b] \cup what ELSE since[b]]

\* Calls that leave pools, places, capabilities and membership as they are,
\* with what they were meant to do or without: request_move offers
\* target_place where the dispatcher reads place_id or target, and a move to
\* nowhere is queued; relation_change offers target where it needs dst, and
\* raises.
CallElse(a) ==
    /\ \E tool \in {"update_state", "relation_change", "request_move",
                    "speak_to_local", "send_message", "send_to_group"} :
         Call(a, tool)
    /\ UNCHANGED <<pool_vars, world_vars, since, refused>>

\* The tool takes no agent_id: an agent changes its own capabilities.
ChangeCapability(a, c) ==
    /\ Call(a, "capability_change")
    /\ \/ holds' = holds \cup {<<a, c>>} /\ UNCHANGED since
       \/ holds' = holds \ {<<a, c>>} /\ Changed({"revoked"}, Agents)
    /\ UNCHANGED <<pool_vars, L, members, resolver, refused>>

\* A new group is as empty as one that everybody has left.
EnterGroup(a, g) ==
    /\ \/ Call(a, "create_group") /\ members[g] = {}
       \/ Call(a, "join_group")
    /\ members' = [members EXCEPT ![g] = @ \cup {a}]
    /\ UNCHANGED <<pool_vars, L, holds, resolver, since, refused>>

LeaveGroup(a, g) ==
    /\ Call(a, "leave_group")
    /\ members' = [members EXCEPT ![g] = @ \ {a}]
    /\ Changed({"left"}, {a})
    /\ UNCHANGED <<pool_vars, L, holds, resolver, refused>>

\* A post goes into the channel of the pool that serves the place where the
\* sender is now, without a look at the account.
Post(a, tool, f) ==
    /\ Call(a, tool)
    /\ Routed(L[a], f)
    /\ LET id == byPlaceFeed[<<L[a], f>>] IN
         channel' = [channel EXCEPT ![id] =
                       @ \cup {[sender |-> a, place |-> L[a], feed |-> f]}]
    /\ UNCHANGED <<specs, pools, byPlaceFeed, byPlace, world_vars, since, refused>>

\* No place, no feed there, no platform: the call raises.
PostRefused(a, tool, f) ==
    /\ Call(a, tool)
    /\ ~Routed(L[a], f)
    /\ refused' = refused \cup {b \in {a} : f \in offered[a]}
    /\ UNCHANGED <<pool_vars, world_vars, since>>

\* The schema of a tool names its feed as a constant, and nobody compares the
\* feed of the call with it: the model may name any, or leave it out.
CallFeed(a) ==
    \E tool \in Feeds :
        \/ \E f \in Feeds : Post(a, tool, f) \/ PostRefused(a, tool, f)
        \/ L[a] # NoPlace /\ byPlace[L[a]] # <<>> /\ Post(a, tool, FirstFeed(L[a]))

-----------------------------------------------------------------------------
(* The rest of the world *)

\* MOVE_AGENT comes over IPC, whoever is thinking.
MoveAgent(a, p) ==
    /\ specs = <<>>
    /\ edits < MaxEdits
    /\ edits' = edits + 1
    /\ L[a] # p
    /\ L' = [L EXCEPT ![a] = p]
    /\ Changed({"moved"}, Agents)
    /\ UNCHANGED <<pool_vars, holds, members, resolver, offered, calls, refused>>

\* The effects of scripts, before the agents decide, and the moves of the last
\* tick.
BetweenTicks(a) ==
    /\ specs = <<>>
    /\ \A b \in Agents : offered[b] = {}
    /\ edits < MaxEdits
    /\ edits' = edits + 1
    /\ \/ \E p \in Places : L' = [L EXCEPT ![a] = p] /\ UNCHANGED holds
       \/ \E c \in Capabilities :
            /\ holds' \in {holds \cup {<<a, c>>}, holds \ {<<a, c>>}}
            /\ UNCHANGED L
    /\ UNCHANGED <<pool_vars, members, resolver, turn_vars, calls, refused>>

Dispatch(a) ==
    \/ CallElse(a)
    \/ \E c \in Capabilities : ChangeCapability(a, c)
    \/ \E g \in Groups : EnterGroup(a, g) \/ LeaveGroup(a, g)
    \/ CallFeed(a)

Next ==
    \/ AddPool
    \/ \E a \in Agents :
         \/ Perceive(a) \/ Dispatch(a) \/ EndTurn(a)
         \/ \E p \in Places : MoveAgent(a, p)
         \/ BetweenTicks(a)

Spec == Init /\ [][Next]_vars

-----------------------------------------------------------------------------
(* Properties *)

\* The dispatcher would carry out a's call for some choice of arguments.
CanSucceed(a, tool) ==
    CASE tool = "send_message" -> \E b \in Agents : phi_rdc(a, b)
      [] tool = "speak_to_local" -> \E b \in Agents : L[b] = L[a] /\ b # a
      [] tool \in {"leave_group", "send_to_group"} -> \E g \in Groups : a \in members[g]
      [] tool \in Feeds -> Routed(L[a], tool)
      [] OTHER -> TRUE

\* What may take an offer back.
MayBreak(tool) ==
    CASE tool = "send_message" -> {"moved", "revoked"}
      [] tool = "speak_to_local" -> {"moved"}
      [] tool \in {"leave_group", "send_to_group"} -> {"left"}
      [] OTHER -> {}

\* An offer outlives the suspension in which the model thinks: the buses and
\* the pools would still carry out each tool, unless what that tool rests on
\* has changed meanwhile, a place by an operator, a capability by some call,
\* membership by the agent itself. Nothing takes back a feed.
OffersHold ==
    \A a \in Agents : \A tool \in offered[a] :
        CanSucceed(a, tool) \/ since[a] \cap MayBreak(tool) # {}

\* The two indexes agree, whichever pools fail to be built: a post lands in a
\* pool of its feed that serves the place it was made in, and nobody is
\* refused a feed that was offered, though agents are moved between the offer
\* and the call.
PostsAreServed ==
    /\ \A id \in DOMAIN channel : \A post \in channel[id] :
         post.place \in pools[id].places /\ post.feed = pools[id].feed
    /\ refused = {}
=============================================================================
