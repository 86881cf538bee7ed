\* One request of any kind, with a client that may hang up at any time.
SPECIFICATION Spec
CONSTANTS
    Bodies <- MCBodies
    Limits = {0, 2}
    None = None
INVARIANTS
    OneAnswer
    OverLimitIsRefused
    FailuresAreReported
CHECK_DEADLOCK FALSE
