\* Three ticks of three agents in two places, two tool calls in all.
SPECIFICATION Spec
CONSTANTS
    cafe = cafe
    office = office
    a1 = a1
    a2 = a2
    a3 = a3
    NoPlace = NoPlace
    Agents = {a1, a2, a3}
    Places = {cafe, office}
    Start <- Apart
    Contacts <- Friends
    Uplink = {a1, a3}
    Coverage <- OneWay
    Visible = {cafe}
    Window = 1
    MaxLines = 2
    RecentLimit = 1
    WarnAfter = 1
    ForceAfter = 2
    MaxT = 3
    MaxCalls = 2
INVARIANTS
    TypeOK
    RosterExplained
    ObservationHolds
    DoneOrFailed
