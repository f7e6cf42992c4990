\* Two agents, two rounds, with and without a model, a Zep client and ChatMemory.
SPECIFICATION FairSpec
CONSTANTS
    Agents = {a1, a2}
    MaxRetries = 2
    MaxT = 2
    MaxNotes = 2
INVARIANTS
    TypeOK
    NothingForgotten
    RoundsAreClosed
    EpisodesFollowChat
PROPERTIES
    EveryTickEnds
CHECK_DEADLOCK FALSE
