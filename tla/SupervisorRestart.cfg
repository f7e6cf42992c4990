\* A caller that starts again right after a stop returned.
SPECIFICATION Spec
CONSTANTS
    Patient = FALSE
    MaxRuns = 3
    MaxLines = 0
    MaxCrashes = 0
    MaxFaults = 0
INVARIANTS
    OneProcess
CHECK_DEADLOCK FALSE
