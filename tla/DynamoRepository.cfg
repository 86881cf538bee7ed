\* Migrators of two releases, and two callers over a partition of three items.
SPECIFICATION RepositorySpec
CONSTANTS
    Migrators = {m1, m2}
    MaxOps = 2
    Models <- MCModels
    Callers = {c1, c2}
    Places = {1, 2, 3}
    Batches <- MCBatches
    ChunkSize = 2
    MaxRetries = 2
    Conditions <- MCConditions
    Contents <- MCContents
    Limits = {Absent, 0, 1}
    Indexes = {Absent, "by_status"}
    Absent = Absent
    m1 = m1
    m2 = m2
    c1 = c1
    c2 = c2
SYMMETRY Symmetry
INVARIANTS
    BatchTellsWhatLanded
    ReadsSeeWhatStays
PROPERTIES
    RerunRepairs
CHECK_DEADLOCK FALSE
