\* Two boots of two ticks; without pools, until an agent is there, nothing of
\* a tick suspends the loop.
SPECIFICATION FairSpec
CONSTANTS
    e1 = e1
    e2 = e2
    e3 = e3
    c1 = c1
    c2 = c2
    Events = {e1, e2, e3}
    Trigger <- MCTrigger
    Effect <- MCEffect
    Scripts <- MCScripts
    Commands = {c1, c2}
    Kinds <- MCKinds
    Renames = {c1}
    HasPools = FALSE
    MaxTicks = 2
    MaxBoots = 2
    MaxEdits = 1
INVARIANTS
    TypeOK
    FiresOncePerProcess
    NothingWaitsForThePast
    WithdrawnNeverRuns
PROPERTIES
    TakenIsAnswered
CHECK_DEADLOCK FALSE
