\* The runner or the demo, three boots on one directory.
SPECIFICATION Spec
CONSTANTS
    a1 = a1
    a2 = a2
    office = office
    cafe = cafe
    Agents = {a1, a2}
    Places = {office, cafe}
    Capabilities = {"signal_uplink"}
    Types = {"friend", "enemy", "follower", "mutual_follow"}
    Symmetric = {"friend"}
    Excludes <- Friendship
    LoadsFirst = {TRUE, FALSE}
    Home <- OfficeHome
    SeedEdges <- SeededEnemies
    SeedCapabilities <- SeededSignal
    MaxT = 1
    MaxBoots = 3
    MaxCalls = 4
INVARIANTS
    TypeOK
    GraphKeepsItsRules
    MemoryIsTable
    FollowsAreJustified
CHECK_DEADLOCK FALSE
