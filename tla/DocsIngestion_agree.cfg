\* Two requests and two workers on two documents of up to two chunks, either
\* store: any two faults of any kind.
SPECIFICATION DocsSpec
CONSTANTS
    Docs = {d1, d2}
    Handlers = {r1, r2}
    Workers = {w1, w2}
    NoDoc = NoDoc
    MaxChunks = 2
    PutBatch = 1
    MinTopK = 1
    Backends = {"inmemory", "s3vectors"}
    MaxAttempts = 2
    Faults = {"embed", "put", "link", "purge", "db", "crash", "redeliver"}
    MaxFaults = 2
SYMMETRY Symmetry
INVARIANTS
    StoresAgree
CHECK_DEADLOCK FALSE
