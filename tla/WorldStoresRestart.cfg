\* The runner, started twice on one directory.
SPECIFICATION Spec
CONSTANTS
    a1 = a1
    a2 = a2
    office = office
    cafe = cafe
    Agents = {a1, a2}
    Places = {office, cafe}
    Capabilities = {"signal_uplink"}
    Types = {"friend"}
    Symmetric = {"friend"}
    Excludes = {}
    LoadsFirst = {TRUE}
    Home <- OfficeHome
    SeedEdges = {}
    SeedCapabilities <- SeededSignal
    MaxT = 0
    MaxBoots = 2
    MaxCalls = 1
INVARIANTS
    OnePlaceEach
CHECK_DEADLOCK FALSE
