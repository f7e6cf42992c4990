\* Two agents, a group one of them is in and one that somebody creates, or joins
\* before it exists; a second process; a fair sweep.
SPECIFICATION FairSpec
CONSTANTS
    a1 = a1
    a2 = a2
    g1 = g1
    g2 = g2
    office = office
    basement = basement
    NoPlace = NoPlace
    Agents = {a1, a2}
    Groups = {g1, g2}
    Places = {office, basement}
    Coverage <- OfficeCoverage
    GrpDelay = 1
    Scenario = {g1}
    Roster <- OneGroupRoster
    MaxT = 1
    MaxMsgs = 1
    MaxEvents = 3
    MaxBoots = 1
INVARIANTS
    TypeOK
    PendingOnlyForMembers
    MirrorTrailsTable
    EventLogExplainsMembership
PROPERTIES
    CopyLifecycle
    InboxRefined
    QueueDrains
