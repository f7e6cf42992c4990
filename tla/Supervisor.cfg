\* Two runs of one simulation; a new one waits for the monitor of the last,
\* which may fail.
SPECIFICATION FairSpec
CONSTANTS
    Patient = TRUE
    MaxRuns = 2
    MaxLines = 2
    MaxCrashes = 1
    MaxFaults = 1
INVARIANTS
    TypeOK
    OneWatchedProcess
    LiveIsShown
    LinesAreCountedOnce
PROPERTIES
    EndIsReported
CHECK_DEADLOCK FALSE
