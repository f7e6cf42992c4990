---------------------------- MODULE Tools_proofs ----------------------------
(***************************************************************************)
(* Posts are served: whatever pools fail to be built and wherever agents   *)
(* are moved to, an offered feed is routed at the place of the call, to a  *)
(* pool of that feed. The pools a configuration leads to serve every place, *)
(* so a place that is known is a place that is routed.                     *)
(***************************************************************************)
EXTENDS Tools, TLAPS

Spec1 == [id : Feeds, feed : Feeds, places : {PlaceList}]

\* The pools still to be added serve every place, under the name of their feed.
SpecsInv ==
    /\ specs \in Seq(Spec1)
    /\ \A i \in DOMAIN specs : specs[i].id = specs[i].feed

\* Both indexes say the same of the pools that are there.
IndexInv ==
    /\ DOMAIN pools \subseteq Feeds
    /\ \A id \in DOMAIN pools : pools[id].feed = id /\ pools[id].places = Places
    /\ DOMAIN byPlaceFeed = Places \X DOMAIN pools
    /\ \A p \in Places : \A f \in DOMAIN pools : byPlaceFeed[<<p, f>>] = f
    /\ byPlace \in [Places -> Seq(DOMAIN pools)]
    /\ DOMAIN channel = DOMAIN pools

PostsInv ==
    \A id \in DOMAIN channel : \A post \in channel[id] :
        post.place \in Places /\ post.feed = id

\* An agent that holds the offer of a feed is somewhere, and the feed has a
\* pool.
OfferInv ==
    /\ L \in [Agents -> Places \cup {NoPlace}]
    /\ DOMAIN offered = Agents
    /\ \A a \in Agents : \A f \in offered[a] \cap Feeds :
         L[a] # NoPlace /\ f \in DOMAIN pools

ServedInv == SpecsInv /\ IndexInv /\ PostsInv /\ OfferInv /\ refused = {}

\* The pools a configuration leads to.
LEMMA InferredPools ==
    ASSUME NEW c \in SUBSET Feeds
    PROVE  /\ InferPools(c) \in Seq(Spec1)
           /\ \A i \in DOMAIN InferPools(c) :
                InferPools(c)[i].id = InferPools(c)[i].feed
<1>1. ASSUME NEW f \in Feeds
      PROVE  /\ PoolFor(f, c) \in Seq(Spec1)
             /\ \A i \in DOMAIN PoolFor(f, c) :
                  PoolFor(f, c)[i].id = PoolFor(f, c)[i].feed
  <2> DEFINE s == [id |-> f, feed |-> f, places |-> PlaceList]
  <2>1. s \in Spec1 /\ s.id = s.feed
    BY DEF Spec1
  <2> HIDE DEF s
  <2>2. CASE f \in c
    <3>1. PoolFor(f, c) = <<s>>
      BY <2>2 DEF PoolFor, s
    <3>2. <<s>> \in Seq(Spec1) /\ DOMAIN <<s>> = {1} /\ <<s>>[1] = s
      BY <2>1
    <3> QED
      BY <2>1, <3>1, <3>2
  <2>3. CASE f \notin c
    BY <2>3 DEF PoolFor
  <2> QED
    BY <2>2, <2>3
<1>2. CASE PlaceList = <<>>
  BY <1>2 DEF InferPools
<1>3. CASE PlaceList # <<>>
  <2> DEFINE first == PoolFor("twitter", c)
             second == PoolFor("reddit", c)
  <2>1. InferPools(c) = first \o second
    BY <1>3 DEF InferPools
  <2>2. first \in Seq(Spec1) /\ second \in Seq(Spec1)
    BY <1>1 DEF Feeds
  <2>3. /\ \A i \in DOMAIN first : first[i].id = first[i].feed
        /\ \A i \in DOMAIN second : second[i].id = second[i].feed
    BY <1>1 DEF Feeds
  <2> HIDE DEF first, second
  <2> QED
    BY <2>1, <2>2, <2>3
<1> QED
  BY <1>2, <1>3

\* Before the boot nothing is there.
LEMMA ServedInit == Init => ServedInv
<1> SUFFICES ASSUME Init PROVE ServedInv
  OBVIOUS
<1>1. SpecsInv
  BY InferredPools DEF Init, SpecsInv
<1>2. IndexInv
  BY DEF Init, IndexInv
<1>3. PostsInv
  BY DEF Init, PostsInv
<1>4. OfferInv
  BY DEF Init, OfferInv
<1> QED
  BY <1>1, <1>2, <1>3, <1>4 DEF Init, ServedInv

\* A pool that is registered enters both indexes under every place.
LEMMA RegisterKeepsIndex ==
    ASSUME SpecsInv, IndexInv, PostsInv, specs # <<>>,
           Head(specs).id \notin DOMAIN pools, Register(Head(specs))
    PROVE  IndexInv' /\ PostsInv' /\ DOMAIN pools \subseteq DOMAIN pools'
<1> DEFINE s == Head(specs)
<1>1. s \in Spec1 /\ s.id = s.feed
  BY DEF SpecsInv
<1>2. s.id \in Feeds /\ s.feed = s.id /\ s.places = PlaceList
  BY <1>1 DEF Spec1
<1>3. Range(s.places) = Places
  BY <1>2 DEF Places
<1> HIDE DEF s
<1>4. Register(s)
  BY DEF s
<1>5. /\ DOMAIN pools' = DOMAIN pools \cup {s.id}
      /\ \A id \in DOMAIN pools' :
           pools'[id] = IF id = s.id THEN [feed |-> s.id, places |-> Places]
                                     ELSE pools[id]
  <2>1. pools' = With(pools, {s.id}, [feed |-> s.id, places |-> Places])
    BY <1>2, <1>3, <1>4 DEF Register
  <2> QED
    BY <2>1 DEF With
<1>6. /\ DOMAIN channel' = DOMAIN channel \cup {s.id}
      /\ \A id \in DOMAIN channel' :
           channel'[id] = IF id = s.id THEN {} ELSE channel[id]
  BY <1>4 DEF Register, With
<1>7. byPlaceFeed' = With(byPlaceFeed, Places \X {s.id}, s.id)
  BY <1>2, <1>3, <1>4 DEF Register
<1>8. /\ DOMAIN byPlaceFeed' = Places \X DOMAIN pools'
      /\ \A p \in Places : \A f \in DOMAIN pools' : byPlaceFeed'[<<p, f>>] = f
  <2>1. DOMAIN byPlaceFeed' = DOMAIN byPlaceFeed \cup (Places \X {s.id})
    BY <1>7 DEF With
  <2>2. DOMAIN byPlaceFeed' = Places \X DOMAIN pools'
    BY <1>5, <2>1 DEF IndexInv
  <2>3. ASSUME NEW p \in Places, NEW f \in DOMAIN pools'
        PROVE  byPlaceFeed'[<<p, f>>] = f
    <3>1. <<p, f>> \in DOMAIN byPlaceFeed'
      BY <2>2
    <3>2. CASE f = s.id
      BY <1>7, <2>1, <3>1, <3>2 DEF With
    <3>3. CASE f # s.id
      BY <1>5, <1>7, <2>1, <3>1, <3>3 DEF With, IndexInv
    <3> QED
      BY <3>2, <3>3
  <2> QED
    BY <2>2, <2>3
<1>9. byPlace' \in [Places -> Seq(DOMAIN pools')]
  <2>1. byPlace' = [p \in Places |-> Append(byPlace[p], s.id)]
    BY <1>3, <1>4 DEF Register
  <2>2. \A p \in Places : byPlace[p] \in Seq(DOMAIN pools')
    BY <1>5 DEF IndexInv
  <2>3. s.id \in DOMAIN pools'
    BY <1>5
  <2> QED
    BY <2>1, <2>2, <2>3
<1>10. IndexInv'
  BY <1>2, <1>5, <1>6, <1>8, <1>9 DEF IndexInv
<1>11. PostsInv'
  BY <1>6 DEF PostsInv
<1> QED
  BY <1>5, <1>10, <1>11

\* A pool is added, or left out because it could not be built.
LEMMA AddPoolServes == ServedInv /\ AddPool => ServedInv'
<1> SUFFICES ASSUME ServedInv, AddPool PROVE ServedInv'
  OBVIOUS
<1>1. UNCHANGED <<L, offered, refused>> /\ specs # <<>> /\ specs' = Tail(specs)
  BY DEF AddPool, world_vars, turn_vars
<1>2. SpecsInv'
  BY <1>1 DEF ServedInv, SpecsInv
<1>3. CASE PoolFails
  BY <1>1, <1>2, <1>3 DEF PoolFails, ServedInv, IndexInv, PostsInv, OfferInv
<1>4. CASE Head(specs).id \notin DOMAIN pools /\ Register(Head(specs))
  <2>1. IndexInv' /\ PostsInv' /\ DOMAIN pools \subseteq DOMAIN pools'
    BY <1>1, <1>4, RegisterKeepsIndex DEF ServedInv
  <2> QED
    BY <1>1, <1>2, <2>1 DEF ServedInv, OfferInv
<1> QED
  BY <1>3, <1>4 DEF AddPool

\* What an agent is offered is in the index of its place.
LEMMA OffersAreRouted ==
    ASSUME ServedInv, NEW a \in Agents, NEW f \in Offered(a) \cap Feeds
    PROVE  L[a] # NoPlace /\ f \in DOMAIN pools
<1>1. f \in {"twitter", "reddit"}
  BY DEF Feeds
<1>2. L[a] # NoPlace /\ f \in feeds_at(L[a])
  BY <1>1 DEF Offered
<1>3. L[a] \in Places
  BY <1>2 DEF ServedInv, OfferInv
<1>4. byPlace[L[a]] \in Seq(DOMAIN pools)
  BY <1>3 DEF ServedInv, IndexInv
<1>5. PICK i \in DOMAIN byPlace[L[a]] : f = pools[byPlace[L[a]][i]].feed
  BY <1>2 DEF feeds_at
<1>6. byPlace[L[a]][i] \in DOMAIN pools
  BY <1>4, <1>5
<1> QED
  BY <1>2, <1>5, <1>6 DEF ServedInv, IndexInv

\* A post that is routed goes to a pool of its feed.
LEMMA PostIsServed ==
    ASSUME ServedInv, NEW a \in Agents, NEW tool, NEW f, Post(a, tool, f)
    PROVE  ServedInv'
<1>1. /\ UNCHANGED <<specs, pools, byPlaceFeed, byPlace, L, offered, refused>>
      /\ Routed(L[a], f)
      /\ channel' = [channel EXCEPT ![byPlaceFeed[<<L[a], f>>]] =
                       @ \cup {[sender |-> a, place |-> L[a], feed |-> f]}]
  BY DEF Post, Call, world_vars
<1>2. L[a] \in Places /\ f \in DOMAIN pools
  BY <1>1 DEF Routed, ServedInv, IndexInv, OfferInv
<1>3. byPlaceFeed[<<L[a], f>>] = f
  BY <1>2 DEF ServedInv, IndexInv
<1>4. channel' = [channel EXCEPT ![f] =
                    @ \cup {[sender |-> a, place |-> L[a], feed |-> f]}]
  BY <1>1, <1>3
<1>5. PostsInv'
  BY <1>2, <1>4 DEF PostsInv, ServedInv
<1>6. DOMAIN channel' = DOMAIN channel
  BY <1>4
<1> QED
  BY <1>1, <1>5, <1>6 DEF ServedInv, SpecsInv, IndexInv, OfferInv

\* Nothing the invariant reads has changed but the places of agents, which
\* stay known places.
LEMMA MovesServe ==
    ASSUME ServedInv, UNCHANGED <<pool_vars, offered, refused>>,
           \/ L' = L
           \/ \E a \in Agents : \E p \in Places : L' = [L EXCEPT ![a] = p]
    PROVE  ServedInv'
<1>1. OfferInv'
  BY ToolsAssumption DEF ServedInv, OfferInv, pool_vars
<1> QED
  BY <1>1 DEF ServedInv, SpecsInv, IndexInv, PostsInv, pool_vars

\* The calls of a turn.
LEMMA DispatchServes ==
    ASSUME ServedInv, NEW a \in Agents, Dispatch(a)
    PROVE  ServedInv'
<1>1. CASE CallElse(a)
  BY <1>1, MovesServe DEF CallElse, Call, world_vars
<1>2. ASSUME NEW c \in Capabilities, ChangeCapability(a, c) PROVE ServedInv'
  BY <1>2, MovesServe DEF ChangeCapability, Call
<1>3. ASSUME NEW g \in Groups, EnterGroup(a, g) \/ LeaveGroup(a, g)
      PROVE  ServedInv'
  BY <1>3, MovesServe DEF EnterGroup, LeaveGroup, Call
<1>4. CASE CallFeed(a)
  <2>1. PICK tool \in Feeds :
          \/ \E f \in Feeds : Post(a, tool, f) \/ PostRefused(a, tool, f)
          \/ Post(a, tool, FirstFeed(L[a]))
    BY <1>4 DEF CallFeed
  <2>2. ASSUME NEW f \in Feeds, PostRefused(a, tool, f) PROVE ServedInv'
    <3>1. f \notin offered[a]
      <4>1. SUFFICES ASSUME f \in offered[a] PROVE FALSE
        OBVIOUS
      <4>2. L[a] # NoPlace /\ f \in DOMAIN pools /\ L[a] \in Places
        BY <4>1 DEF ServedInv, OfferInv
      <4>3. Routed(L[a], f)
        BY <4>2 DEF Routed, ServedInv, IndexInv
      <4> QED
        BY <2>2, <4>3 DEF PostRefused
    <3>2. UNCHANGED <<pool_vars, L, offered, refused>>
      BY <2>2, <3>1 DEF PostRefused, Call, world_vars
    <3> QED
      BY <3>2, MovesServe
  <2> QED
    BY <2>1, <2>2, PostIsServed
<1> QED
  BY <1>1, <1>2, <1>3, <1>4 DEF Dispatch

\* The invariant is inductive.
LEMMA ServedStep == ServedInv /\ [Next]_vars => ServedInv'
<1> SUFFICES ASSUME ServedInv, [Next]_vars PROVE ServedInv'
  OBVIOUS
<1>1. CASE AddPool
  BY <1>1, AddPoolServes
<1>2. ASSUME NEW a \in Agents, Perceive(a) PROVE ServedInv'
  <2>1. /\ UNCHANGED <<pool_vars, L, refused>>
        /\ offered' = [offered EXCEPT ![a] = Offered(a)]
    BY <1>2 DEF Perceive, world_vars
  <2>2. OfferInv'
    BY <2>1, OffersAreRouted DEF ServedInv, OfferInv, pool_vars
  <2> QED
    BY <2>1, <2>2 DEF ServedInv, SpecsInv, IndexInv, PostsInv, pool_vars
<1>3. ASSUME NEW a \in Agents, EndTurn(a) PROVE ServedInv'
  <2>1. /\ UNCHANGED <<pool_vars, L, refused>>
        /\ offered' = [offered EXCEPT ![a] = {}]
    BY <1>3 DEF EndTurn, world_vars
  <2>2. OfferInv'
    BY <2>1 DEF ServedInv, OfferInv, pool_vars
  <2> QED
    BY <2>1, <2>2 DEF ServedInv, SpecsInv, IndexInv, PostsInv, pool_vars
<1>4. ASSUME NEW a \in Agents, Dispatch(a) PROVE ServedInv'
  BY <1>4, DispatchServes
<1>5. ASSUME NEW a \in Agents, NEW p \in Places, MoveAgent(a, p)
      PROVE  ServedInv'
  BY <1>5, MovesServe DEF MoveAgent
<1>6. ASSUME NEW a \in Agents, BetweenTicks(a) PROVE ServedInv'
  BY <1>6, MovesServe DEF BetweenTicks, turn_vars
<1>7. CASE UNCHANGED vars
  BY <1>7, MovesServe DEF vars, world_vars, turn_vars
<1> QED
  BY <1>1, <1>2, <1>3, <1>4, <1>5, <1>6, <1>7 DEF Next

\* A post lands in a pool of its feed that serves the place it was made in,
\* and nobody is refused a feed that was offered.
THEOREM OfferedFeedsAreServed == Spec => []PostsAreServed
<1>1. ServedInv => PostsAreServed
  BY DEF ServedInv, IndexInv, PostsInv, PostsAreServed
<1> QED
  BY <1>1, ServedInit, ServedStep, PTL DEF Spec

-----------------------------------------------------------------------------
(* Offers hold *)

\* OffersHold without the feeds, one conjunct per thing an offer rests on.
SendKept(a) ==
    "send_message" \in offered[a] =>
        (\E b \in Agents : phi_rdc(a, b)) \/ since[a] \cap {"moved", "revoked"} # {}

SpeakKept(a) ==
    "speak_to_local" \in offered[a] =>
        (\E b \in Agents : L[b] = L[a] /\ b # a) \/ "moved" \in since[a]

GroupKept(a) ==
    offered[a] \cap {"leave_group", "send_to_group"} # {} =>
        (\E g \in Groups : a \in members[g]) \/ "left" \in since[a]

KeptInv ==
    /\ ServedInv
    /\ DOMAIN since = Agents /\ DOMAIN members = Groups
    /\ \A a \in Agents : SendKept(a) /\ SpeakKept(a) /\ GroupKept(a)

\* The three parts and the routing of feeds are what OffersHold asks for.
LEMMA KeptOffersHold == KeptInv => OffersHold
<1> SUFFICES ASSUME KeptInv, NEW a \in Agents, NEW tool \in offered[a]
             PROVE  CanSucceed(a, tool) \/ since[a] \cap MayBreak(tool) # {}
  BY DEF OffersHold
<1>1. SendKept(a) /\ SpeakKept(a) /\ GroupKept(a)
  BY DEF KeptInv
<1>2. CASE tool = "send_message"
  <2>1. CanSucceed(a, tool) <=> \E b \in Agents : phi_rdc(a, b)
    BY <1>2 DEF CanSucceed, Feeds
  <2>2. MayBreak(tool) = {"moved", "revoked"}
    BY <1>2 DEF MayBreak
  <2> QED
    BY <1>1, <1>2, <2>1, <2>2 DEF SendKept
<1>3. CASE tool = "speak_to_local"
  <2>1. CanSucceed(a, tool) <=> \E b \in Agents : L[b] = L[a] /\ b # a
    BY <1>3 DEF CanSucceed, Feeds
  <2>2. MayBreak(tool) = {"moved"}
    BY <1>3 DEF MayBreak
  <2> QED
    BY <1>1, <1>3, <2>1, <2>2 DEF SpeakKept
<1>4. CASE tool \in {"leave_group", "send_to_group"}
  <2>1. CanSucceed(a, tool) <=> \E g \in Groups : a \in members[g]
    BY <1>4 DEF CanSucceed, Feeds
  <2>2. MayBreak(tool) = {"left"}
    BY <1>4 DEF MayBreak
  <2> QED
    BY <1>1, <1>4, <2>1, <2>2 DEF GroupKept
<1>5. CASE tool \in Feeds
  <2>1. L[a] \in Places /\ L[a] # NoPlace /\ tool \in DOMAIN pools
    BY <1>5 DEF KeptInv, ServedInv, OfferInv
  <2>2. Routed(L[a], tool)
    BY <2>1 DEF Routed, KeptInv, ServedInv, IndexInv
  <2> QED
    BY <1>5, <2>2 DEF CanSucceed, Feeds
<1>6. CASE tool \notin {"send_message", "speak_to_local", "leave_group",
                        "send_to_group"} \cup Feeds
  BY <1>6 DEF CanSucceed
<1> QED
  BY <1>2, <1>3, <1>4, <1>5, <1>6

\* Nothing that an offer rests on has changed.
LEMMA QuietKeepsOffers ==
    ASSUME KeptInv, UNCHANGED <<L, holds, members, offered, since>>
    PROVE  \A a \in Agents : SendKept(a)' /\ SpeakKept(a)' /\ GroupKept(a)'
BY DEF KeptInv, SendKept, SpeakKept, GroupKept, phi_rdc

\* A move is noted for everybody who holds an offer.
LEMMA MoveIsNoted ==
    ASSUME KeptInv, UNCHANGED <<members, offered>>, Changed({"moved"}, Agents)
    PROVE  \A a \in Agents : SendKept(a)' /\ SpeakKept(a)' /\ GroupKept(a)'
<1> SUFFICES ASSUME NEW a \in Agents
             PROVE  SendKept(a)' /\ SpeakKept(a)' /\ GroupKept(a)'
  OBVIOUS
<1>1. since'[a] = IF offered[a] # {} THEN since[a] \cup {"moved"} ELSE since[a]
  BY DEF Changed
<1>2. GroupKept(a)
  BY DEF KeptInv
<1> QED
  BY <1>1, <1>2 DEF SendKept, SpeakKept, GroupKept

\* One call of a turn keeps the offers of everybody, or notes what it took
\* away.
LEMMA CallsKeepOffers ==
    ASSUME KeptInv, NEW a \in Agents, Dispatch(a)
    PROVE  /\ DOMAIN since' = Agents /\ DOMAIN members' = Groups
           /\ \A b \in Agents : SendKept(b)' /\ SpeakKept(b)' /\ GroupKept(b)'
<1>1. CASE CallElse(a)
  <2>1. UNCHANGED <<L, holds, members, offered, since>>
    BY <1>1 DEF CallElse, Call, world_vars
  <2> QED
    BY <2>1, QuietKeepsOffers DEF KeptInv
<1>2. ASSUME NEW c \in Capabilities, ChangeCapability(a, c)
      PROVE  /\ DOMAIN since' = Agents /\ DOMAIN members' = Groups
             /\ \A b \in Agents : SendKept(b)' /\ SpeakKept(b)' /\ GroupKept(b)'
  <2>1. UNCHANGED <<L, members, offered>>
    BY <1>2 DEF ChangeCapability, Call
  <2>2. CASE holds' = holds \cup {<<a, c>>} /\ UNCHANGED since
    <3>1. \A b, d \in Agents : phi_rdc(b, d) => phi_rdc(b, d)'
      BY <2>1, <2>2 DEF phi_rdc
    <3>2. \A b \in Agents : SendKept(b)'
      BY <2>1, <2>2, <3>1 DEF KeptInv, SendKept
    <3>3. \A b \in Agents : SpeakKept(b)' /\ GroupKept(b)'
      BY <2>1, <2>2 DEF KeptInv, SpeakKept, GroupKept
    <3> QED
      BY <2>1, <2>2, <3>2, <3>3 DEF KeptInv
  <2>3. CASE Changed({"revoked"}, Agents)
    <3>1. /\ DOMAIN since' = Agents
          /\ \A b \in Agents :
               since'[b] = IF offered[b] # {} THEN since[b] \cup {"revoked"}
                                              ELSE since[b]
      BY <2>3 DEF Changed
    <3> QED
      BY <2>1, <3>1 DEF KeptInv, SendKept, SpeakKept, GroupKept
  <2> QED
    BY <1>2, <2>2, <2>3 DEF ChangeCapability
<1>3. ASSUME NEW g \in Groups, EnterGroup(a, g)
      PROVE  /\ DOMAIN since' = Agents /\ DOMAIN members' = Groups
             /\ \A b \in Agents : SendKept(b)' /\ SpeakKept(b)' /\ GroupKept(b)'
  <2>1. /\ UNCHANGED <<L, holds, offered, since>>
        /\ members' = [members EXCEPT ![g] = @ \cup {a}]
    BY <1>3 DEF EnterGroup, Call
  <2> QED
    BY <2>1 DEF KeptInv, SendKept, SpeakKept, GroupKept, phi_rdc
<1>4. ASSUME NEW g \in Groups, LeaveGroup(a, g)
      PROVE  /\ DOMAIN since' = Agents /\ DOMAIN members' = Groups
             /\ \A b \in Agents : SendKept(b)' /\ SpeakKept(b)' /\ GroupKept(b)'
  <2>1. /\ UNCHANGED <<L, holds, offered>>
        /\ members' = [members EXCEPT ![g] = @ \ {a}]
    BY <1>4 DEF LeaveGroup, Call
  <2>2. /\ DOMAIN since' = Agents
        /\ \A b \in Agents :
             since'[b] = IF b = a /\ offered[b] # {} THEN since[b] \cup {"left"}
                                                     ELSE since[b]
    BY <1>4 DEF LeaveGroup, Changed
  <2>3. \A b \in Agents : SendKept(b)' /\ SpeakKept(b)'
    BY <2>1, <2>2 DEF KeptInv, SendKept, SpeakKept, phi_rdc
  <2>4. ASSUME NEW b \in Agents PROVE GroupKept(b)'
    <3>1. CASE b = a
      BY <2>1, <2>2, <3>1 DEF GroupKept
    <3>2. CASE b # a
      BY <2>1, <2>2, <3>2 DEF KeptInv, GroupKept
    <3> QED
      BY <3>1, <3>2
  <2> QED
    BY <2>1, <2>2, <2>3, <2>4 DEF KeptInv
<1>5. CASE CallFeed(a)
  <2>1. UNCHANGED <<L, holds, members, offered, since>>
    BY <1>5 DEF CallFeed, Post, PostRefused, Call, world_vars
  <2> QED
    BY <2>1, QuietKeepsOffers DEF KeptInv
<1> QED
  BY <1>1, <1>2, <1>3, <1>4, <1>5 DEF Dispatch

\* A new offer rests on the world as it is.
LEMMA NewOfferHolds ==
    ASSUME KeptInv, NEW a \in Agents, Perceive(a)
    PROVE  \A b \in Agents : SendKept(b)' /\ SpeakKept(b)' /\ GroupKept(b)'
<1>1. /\ UNCHANGED <<L, holds, members, since>>
      /\ offered' = [offered EXCEPT ![a] = Offered(a)]
      /\ DOMAIN offered = Agents
  BY DEF Perceive, world_vars, KeptInv, ServedInv, OfferInv
<1>2. ASSUME NEW b \in Agents, b # a
      PROVE  SendKept(b)' /\ SpeakKept(b)' /\ GroupKept(b)'
  BY <1>1, <1>2 DEF KeptInv, SendKept, SpeakKept, GroupKept, phi_rdc
<1>3. "send_message" \in Offered(a) => \E b \in Agents : phi_rdc(a, b)
  BY DEF Offered, Feeds
<1>4. "speak_to_local" \in Offered(a) => CoLocated(a) # {}
  BY DEF Offered, Feeds
<1>5. Offered(a) \cap {"leave_group", "send_to_group"} # {} => AgentGroups(a) # {}
  BY DEF Offered, Feeds
<1>6. SendKept(a)'
  BY <1>1, <1>3 DEF SendKept, phi_rdc
<1>7. SpeakKept(a)'
  BY <1>1, <1>4 DEF SpeakKept, CoLocated
<1>8. GroupKept(a)'
  BY <1>1, <1>5 DEF GroupKept, AgentGroups
<1> QED
  BY <1>2, <1>6, <1>7, <1>8

\* The invariant is inductive.
LEMMA KeptStep == KeptInv /\ [Next]_vars => KeptInv'
<1> SUFFICES ASSUME KeptInv, [Next]_vars PROVE KeptInv'
  OBVIOUS
<1>1. ServedInv'
  BY ServedStep DEF KeptInv
<1> SUFFICES /\ DOMAIN since' = Agents /\ DOMAIN members' = Groups
             /\ \A b \in Agents : SendKept(b)' /\ SpeakKept(b)' /\ GroupKept(b)'
  BY <1>1 DEF KeptInv
<1>2. CASE AddPool
  BY <1>2, QuietKeepsOffers DEF AddPool, world_vars, turn_vars, KeptInv
<1>3. ASSUME NEW a \in Agents, Perceive(a)
      PROVE  /\ DOMAIN since' = Agents /\ DOMAIN members' = Groups
             /\ \A b \in Agents : SendKept(b)' /\ SpeakKept(b)' /\ GroupKept(b)'
  BY <1>3, NewOfferHolds DEF Perceive, world_vars, KeptInv
<1>4. ASSUME NEW a \in Agents, EndTurn(a)
      PROVE  /\ DOMAIN since' = Agents /\ DOMAIN members' = Groups
             /\ \A b \in Agents : SendKept(b)' /\ SpeakKept(b)' /\ GroupKept(b)'
  BY <1>4 DEF EndTurn, world_vars, KeptInv, ServedInv, OfferInv, SendKept,
              SpeakKept, GroupKept, phi_rdc
<1>5. ASSUME NEW a \in Agents, Dispatch(a)
      PROVE  /\ DOMAIN since' = Agents /\ DOMAIN members' = Groups
             /\ \A b \in Agents : SendKept(b)' /\ SpeakKept(b)' /\ GroupKept(b)'
  BY <1>5, CallsKeepOffers
<1>6. ASSUME NEW a \in Agents, NEW p \in Places, MoveAgent(a, p)
      PROVE  /\ DOMAIN since' = Agents /\ DOMAIN members' = Groups
             /\ \A b \in Agents : SendKept(b)' /\ SpeakKept(b)' /\ GroupKept(b)'
  BY <1>6, MoveIsNoted DEF MoveAgent, Changed, KeptInv
<1>7. ASSUME NEW a \in Agents, BetweenTicks(a)
      PROVE  /\ DOMAIN since' = Agents /\ DOMAIN members' = Groups
             /\ \A b \in Agents : SendKept(b)' /\ SpeakKept(b)' /\ GroupKept(b)'
  BY <1>7 DEF BetweenTicks, turn_vars, KeptInv, SendKept, SpeakKept, GroupKept
<1>8. CASE UNCHANGED vars
  BY <1>8, QuietKeepsOffers DEF vars, world_vars, turn_vars, KeptInv
<1> QED
  BY <1>2, <1>3, <1>4, <1>5, <1>6, <1>7, <1>8 DEF Next

\* An offer outlives the suspension in which the model thinks, unless what it
\* rests on was taken away meanwhile.
THEOREM OffersOutliveTheModel == Spec => []OffersHold
<1>1. Init => KeptInv
  BY ServedInit DEF Init, KeptInv, SendKept, SpeakKept, GroupKept
<1> QED
  BY <1>1, KeptStep, KeptOffersHold, PTL DEF Spec
=============================================================================
