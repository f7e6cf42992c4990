\* A remote message to somebody whose turn is over.
SPECIFICATION Spec
CONSTANTS
    a1 = a1
    a2 = a2
    g1 = g1
    office = office
    yard = yard
    NoPlace = NoPlace
    Agents = {a1, a2}
    Groups = {g1}
    Places = {office, yard}
    Coverage <- OneWay
    GrpDelay = 1
    Scenario = {g1}
    Roster <- OneGroup
    MaxT = 2
    MaxMsgs = 2
    MaxEvents = 2
    Contacts <- Friends
    Latency <- OneTickAway
    ActiveSets <- Everybody
    Tools = {"speak", "message", "group", "move"}
    Scripts = FALSE
    Ipc = FALSE
    MaxActs = 2
INVARIANTS
    RemoteIsRead
