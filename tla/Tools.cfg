\* Two feeds, either of which may be left out or fail to be built, two agents,
\* two tool calls.
SPECIFICATION Spec
CONSTANTS
    a1 = a1
    a2 = a2
    office = office
    yard = yard
    Agents = {a1, a2}
    Groups = {g1}
    PlaceList <- TwoPlaces
    NoPlace = NoPlace
    Contacts <- Friends
    Coverage <- OneWay
    Resolvers = {TRUE, FALSE}
    MaxCalls = 2
    MaxEdits = 1
INVARIANTS
    OffersHold
    PostsAreServed
SYMMETRY Alike
CHECK_DEADLOCK FALSE
