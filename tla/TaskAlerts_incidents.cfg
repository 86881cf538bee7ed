SPECIFICATION FairSpec
CONSTANTS
    Procs = {p1}
    Lanes = {1}
    Tasks = {t1, t2}
    Names = {"n1", "n2"}
    Errors <- MCErrors
    Cancelled <- MCCancelled
    None = None
    MaxAttempts = 3
    MaxCrashes = 1
INVARIANTS
    AlertedIsOver
    NoSilentFailure
PROPERTIES
    TaskEnds
CHECK_DEADLOCK FALSE
