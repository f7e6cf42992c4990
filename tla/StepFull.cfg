\* Scripts, a scheduler and every tool under the fairness of the event loop.
SPECIFICATION FairSpec
CONSTANTS
    a1 = a1
    a2 = a2
    g1 = g1
    office = office
    yard = yard
    NoPlace = NoPlace
    Agents = {a1, a2}
    Groups = {g1}
    Places = {office, yard}
    Coverage <- OpenCoverage
    GrpDelay = 1
    Scenario = {g1}
    Roster <- OneGroup
    MaxT = 2
    MaxMsgs = 2
    MaxEvents = 4
    Contacts <- Friends
    Latency <- OneTickAway
    ActiveSets <- Anybody
    Tools = {"speak", "message", "group", "lifecycle", "move", "capability", "feed"}
    Scripts = TRUE
    Ipc = TRUE
    MaxActs = 2
PROPERTIES
    SameTickMeansPresent
    BusRefined
    TicksGoOn
