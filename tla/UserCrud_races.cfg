\* Two writers and a reader.
SPECIFICATION FairSpec
CONSTANTS
    Names = {n1, n2}
    Mails = {m1, m2}
    MaxId = 5
    Targets = {1}
    Writers = {w1, w2}
    Readers = {l1}
    PageSize = 1
    None = None
    Searches <- MCSearches
INVARIANTS
    RawRefusalOnlyIfRivalGone
    ErrorsWriteNothing
    WalkVisitsEach
PROPERTIES
    NoLostUpdate
    EveryRequestEnds
CHECK_DEADLOCK FALSE
