---------------------------- MODULE DocsIngestion ----------------------------
(***************************************************************************)
(* The docs domain: a document is a row of the relational database, its     *)
(* chunks are vectors of a separate store, and nothing spans the two.       *)
(* POST ingests a small document inline and queues a task for a large one,  *)
(* DELETE purges the vectors it finds and removes the row, a worker purges  *)
(* and ingests again.  One action per await of a handler; requests and      *)
(* workers interleave.                                                      *)
(***************************************************************************)
EXTENDS Naturals, FiniteSets

CONSTANTS
    Docs,         \* row ids, never reused
    Handlers,     \* requests a server handles at the same time
    Workers,      \* task executions at the same time
    NoDoc,        \* no document
    MaxChunks,    \* bound: chunks a content splits into
    PutBatch,     \* vectors of one put_vectors call
    MinTopK,      \* least top_k of a purge
    Backends,     \* the vector stores a deployment may have configured
    MaxAttempts,  \* attempts of a task, default_retry_count
    Faults,       \* kinds of fault that may strike
    MaxFaults     \* bound: faults in a behaviour

ASSUME SizesAssumption ==
    /\ MaxChunks \in Nat /\ PutBatch \in Nat \ {0} /\ MinTopK \in Nat \ {0}
    /\ MaxAttempts \in Nat \ {0} /\ MaxFaults \in Nat
    /\ Backends \subseteq {"inmemory", "s3vectors"}
    /\ Faults \subseteq
           {"embed", "put", "link", "purge", "db", "crash", "redeliver"}

ASSUME ActorsAssumption ==
    /\ Handlers \cap Workers = {}
    /\ NoDoc \notin Docs

VARIABLES
    backend,    \* the vector store of this deployment; the in-memory one
                \* goes with the in-process broker: one process holds both
    row,        \* [Docs -> {"unused", "stored", "deleted"}]
    count,      \* chunk_count of the row
    chunks,     \* number of chunks the content splits into
    small,      \* documents short enough to be ingested inline
    vectors,    \* the vectors of the store
    uploads,    \* uploads of a document so far: every upload has fresh keys
    queue,      \* unacknowledged messages
    at,         \* next step of a request or worker
    doc,        \* document it works on
    seen,       \* chunk_count of the DTO it read
    held,       \* vectors it is about to put, or to delete
    attempt,    \* _retries label of the message a worker executes
    faults,     \* faults so far
    disturbed   \* history: documents a fault or an overlap of operations hit

docVars == <<row, count, chunks, small>>
procVars == <<at, doc, seen, held, attempt>>
histVars == <<faults, disturbed>>
docsState == <<backend, docVars, vectors, uploads, queue, procVars, histVars>>

Procs == Handlers \cup Workers
Messages == [doc : Docs, attempt : 0 .. MaxAttempts - 1]

Vectors == [doc : Docs, index : 1 .. MaxChunks, upload : Nat]
InMemory == backend = "inmemory"
VectorsOf(d) == {v \in vectors : v.doc = d}
Busy(d) == \E p \in Procs : doc[p] = d

DocsInit ==
    /\ backend \in Backends
    /\ row = [d \in Docs |-> "unused"]
    /\ count = [d \in Docs |-> 0]
    /\ chunks = [d \in Docs |-> 0]
    /\ small = {}
    /\ vectors = {}
    /\ uploads = [d \in Docs |-> 0]
    /\ queue = {}
    /\ at = [p \in Procs |-> "idle"]
    /\ doc = [p \in Procs |-> NoDoc]
    /\ seen = [p \in Procs |-> 0]
    /\ held = [p \in Procs |-> {}]
    /\ attempt = [p \in Procs |-> 0]
    /\ faults = 0
    /\ disturbed = {}

-----------------------------------------------------------------------------
Proceed(p, step) == at' = [at EXCEPT ![p] = step]

\* p starts on d having read chunk_count n; starting while another operation
\* is on d is an overlap.
Begin(p, d, n, k, step) ==
    /\ Proceed(p, step)
    /\ doc' = [doc EXCEPT ![p] = d]
    /\ seen' = [seen EXCEPT ![p] = n]
    /\ attempt' = [attempt EXCEPT ![p] = k]
    /\ disturbed' = IF Busy(d) THEN disturbed \cup {d} ELSE disturbed
    /\ UNCHANGED <<held, faults>>

Finish(p) ==
    /\ Proceed(p, "idle")
    /\ doc' = [doc EXCEPT ![p] = NoDoc]
    /\ seen' = [seen EXCEPT ![p] = 0]
    /\ held' = [held EXCEPT ![p] = {}]
    /\ attempt' = [attempt EXCEPT ![p] = 0]

Message(p) == [doc |-> doc[p], attempt |-> attempt[p]]

\* The end of an operation; a worker acknowledges its message.
Settle(p) ==
    /\ Finish(p)
    /\ queue' = IF p \in Workers THEN queue \ {Message(p)} ELSE queue

\* A fault of a kind strikes p; harm says that it breaks the bookkeeping.
Fault(kind, p, harm) ==
    /\ kind \in Faults
    /\ faults < MaxFaults
    /\ faults' = faults + 1
    /\ disturbed' = IF harm THEN disturbed \cup {doc[p]} ELSE disturbed

\* Where _purge_vectors_for_document begins, and where it returns to.
PurgeOr(n, step) == IF n <= 0 THEN step ELSE "find"
AfterPurge(p) == IF p \in Workers THEN "embed" ELSE "erase"

-----------------------------------------------------------------------------
\* create_document: the row is committed first.
CreateRow(r, d, n, inline) ==
    /\ at[r] = "idle" /\ row[d] = "unused"
    /\ row' = [row EXCEPT ![d] = "stored"]
    /\ chunks' = [chunks EXCEPT ![d] = n]
    /\ small' = IF inline THEN small \cup {d} ELSE small
    /\ Begin(r, d, 0, 0, IF inline THEN "embed" ELSE "kick")
    /\ UNCHANGED <<count, vectors, uploads, backend, queue>>

\* ingest_document_task.kiq
Kick(r) ==
    /\ at[r] = "kick"
    /\ queue' = queue \cup {[doc |-> doc[r], attempt |-> 0]}
    /\ Finish(r)
    /\ UNCHANGED <<backend, docVars, vectors, uploads, histVars>>

\* _ingest: chunk and embed, and build the payload.
Embed(p) ==
    /\ at[p] = "embed"
    /\ LET d == doc[p] IN
        /\ uploads' = [uploads EXCEPT ![d] = @ + 1]
        /\ held' = [held EXCEPT ![p] =
               [doc : {d}, index : 1 .. chunks[d], upload : {uploads[d] + 1}]]
        /\ Proceed(p, IF chunks[d] = 0 THEN "save" ELSE "put")
    /\ UNCHANGED <<backend, docVars, vectors, queue>>
    /\ UNCHANGED <<doc, seen, attempt, histVars>>

\* The vectors of the next put: all of them in memory, a batch on S3.
Batch(p) ==
    {v \in held[p] :
        InMemory \/ Cardinality({w \in held[p] : w.index < v.index}) < PutBatch}

Put(p) ==
    /\ at[p] = "put"
    /\ vectors' = vectors \cup Batch(p)
    /\ held' = [held EXCEPT ![p] = @ \ Batch(p)]
    /\ Proceed(p, IF held'[p] = {} THEN "save" ELSE "put")
    /\ UNCHANGED <<backend, docVars, uploads, queue>>
    /\ UNCHANGED <<doc, seen, attempt, histVars>>

\* chunk_count is written only when it differs from the one read before; a
\* row that is gone is a 404.
Save(p) ==
    /\ at[p] = "save"
    /\ count' = IF row[doc[p]] = "stored" /\ chunks[doc[p]] # seen[p]
                THEN [count EXCEPT ![doc[p]] = chunks[doc[p]]]
                ELSE count
    /\ Settle(p)
    /\ UNCHANGED <<row, chunks, small, vectors, uploads, backend, histVars>>

\* A handler or the cleanup of create_data deletes the row, or gets a 404.
DeleteRow(p) ==
    LET d == doc[p] IN
    /\ row' = [row EXCEPT ![d] = "deleted"]
    /\ count' = [count EXCEPT ![d] = 0]

Cleanup(r) ==
    /\ at[r] = "cleanup"
    /\ DeleteRow(r)
    /\ Settle(r)
    /\ UNCHANGED <<chunks, small, vectors, uploads, backend, histVars>>

-----------------------------------------------------------------------------
\* delete_document reads the row; a missing one is a 404.
DeleteSelect(r, d) ==
    /\ at[r] = "idle" /\ row[d] = "stored"
    /\ Begin(r, d, count[d], 0, PurgeOr(count[d], "erase"))
    /\ UNCHANGED <<backend, docVars, vectors, uploads, queue>>

\* A search returns top_k of the document's vectors.  The probe is the zero
\* vector, so every distance is equal: S3 may return any of them, the
\* in-memory store the first inserted.
TopKFixed(p) == MinTopK  \* mutant: a fixed number
TopK(p) == IF seen[p] > MinTopK THEN seen[p] ELSE MinTopK

Earlier(v, w) ==
    v.upload < w.upload \/ (v.upload = w.upload /\ v.index < w.index)

Results(d, k) ==
    {s \in SUBSET VectorsOf(d) :
        /\ Cardinality(s) <= k
        /\ s # VectorsOf(d) => Cardinality(s) = k
        /\ InMemory => \A v \in s, w \in VectorsOf(d) \ s : Earlier(v, w)}

\* S3 returns the key of a vector; the in-memory store looks up the last key
\* with its source and index.
KeyOfIndex(v) ==  \* mutant: looked up by the chunk index alone
    CHOOSE w \in vectors :
        /\ w.index = v.index
        /\ \A x \in vectors : x.index = v.index => x.upload <= w.upload

KeyOf(v) ==
    IF ~InMemory THEN v
    ELSE CHOOSE w \in vectors :
             /\ w.doc = v.doc /\ w.index = v.index
             /\ \A x \in vectors :
                    x.doc = v.doc /\ x.index = v.index => x.upload <= w.upload

Find(p) ==
    /\ at[p] = "find"
    /\ \E s \in Results(doc[p], TopK(p)) :
        /\ held' = [held EXCEPT ![p] = {KeyOf(v) : v \in s}]
        /\ Proceed(p, IF s = {} THEN AfterPurge(p) ELSE "drop")
    /\ UNCHANGED <<backend, docVars, vectors, uploads, queue>>
    /\ UNCHANGED <<doc, seen, attempt, histVars>>

Drop(p) ==
    /\ at[p] = "drop"
    /\ vectors' = vectors \ held[p]
    /\ held' = [held EXCEPT ![p] = {}]
    /\ Proceed(p, AfterPurge(p))
    /\ UNCHANGED <<backend, docVars, uploads, queue>>
    /\ UNCHANGED <<doc, seen, attempt, histVars>>

Erase(r) ==
    /\ at[r] = "erase"
    /\ DeleteRow(r)
    /\ Settle(r)
    /\ UNCHANGED <<chunks, small, vectors, uploads, backend, histVars>>

-----------------------------------------------------------------------------
\* ingest_existing_document: a missing row is a 404, which is not retried.
Executing(m) == \E w \in Workers : at[w] # "idle" /\ Message(w) = m

TaskSelect(w, m) ==
    /\ at[w] = "idle" /\ m \in queue /\ ~Executing(m)
    /\ IF row[m.doc] = "stored"
       THEN /\ Begin(w, m.doc, count[m.doc], m.attempt,
                     PurgeOr(count[m.doc], "embed"))
            /\ UNCHANGED queue
       ELSE /\ queue' = queue \ {m}
            /\ UNCHANGED <<procVars, histVars>>
    /\ UNCHANGED <<backend, docVars, vectors, uploads>>

\* The broker delivers a message a second time while it is executed.
Redeliver(w, m) ==
    /\ at[w] = "idle" /\ m \in queue /\ Executing(m) /\ row[m.doc] = "stored"
    /\ ~InMemory /\ "redeliver" \in Faults /\ faults < MaxFaults
    /\ faults' = faults + 1
    /\ disturbed' = disturbed \cup {m.doc}
    /\ Proceed(w, PurgeOr(count[m.doc], "embed"))
    /\ doc' = [doc EXCEPT ![w] = m.doc]
    /\ seen' = [seen EXCEPT ![w] = count[m.doc]]
    /\ attempt' = [attempt EXCEPT ![w] = m.attempt]
    /\ UNCHANGED <<backend, docVars, vectors, uploads, queue, held>>

RaisedUncleaned(p, permanent) ==  \* mutant: create_data leaves the row
    /\ Finish(p)
    /\ queue' = IF p \in Workers THEN queue \ {Message(p)} ELSE queue

\* The ingestion of p raised.  create_data deletes the row; a task's error
\* goes to the retry middleware, which drops the errors it calls permanent
\* and sends the others again until the attempts are used up.
Raised(p, permanent) ==
    IF p \in Handlers
    THEN /\ Proceed(p, "cleanup")
         /\ held' = [held EXCEPT ![p] = {}]
         /\ UNCHANGED <<queue, doc, seen, attempt>>
    ELSE /\ Finish(p)
         /\ queue' = (queue \ {Message(p)}) \cup
                IF permanent \/ attempt[p] + 1 >= MaxAttempts THEN {}
                ELSE {[Message(p) EXCEPT !.attempt = @ + 1]}

\* Every error of the embedder is mapped to a BaseCustomException, also a
\* rate limit: permanent for the retry middleware.
EmbedFails(p) ==
    /\ at[p] = "embed" /\ chunks[doc[p]] > 0
    /\ Fault("embed", p, seen[p] > 0)
    /\ Raised(p, TRUE)
    /\ UNCHANGED <<backend, docVars, vectors, uploads>>

\* put_vectors fails before it stores anything.  An error answer ("put") is
\* mapped to a BaseCustomException, a lost connection ("link") is not.
PutFails(p, kind) ==
    /\ at[p] = "put" /\ ~InMemory
    /\ Fault(kind, p, seen[p] > 0 \/ Cardinality(held[p]) < chunks[doc[p]])
    /\ Raised(p, kind = "put")
    /\ UNCHANGED <<backend, docVars, vectors, uploads>>

\* A failing search or delete of the purge is logged and swallowed; some
\* batches of the delete may have gone through.
PurgeFails(p) ==
    /\ at[p] \in {"find", "drop"} /\ ~InMemory
    /\ Fault("purge", p, TRUE)
    /\ \E s \in SUBSET held[p] : vectors' = vectors \ s
    /\ held' = [held EXCEPT ![p] = {}]
    /\ Proceed(p, AfterPurge(p))
    /\ UNCHANGED <<backend, docVars, uploads, queue, doc, seen, attempt>>

\* The database fails under the last statement of an operation; the error is
\* a DatabaseException, permanent.
DbFails(p) ==
    /\ at[p] \in {"save", "cleanup", "erase"}
    /\ Fault("db", p, TRUE)
    /\ Settle(p)
    /\ UNCHANGED <<backend, docVars, vectors, uploads>>

\* A client that disconnects, or a process that dies, ends an operation where
\* it stands: `except Exception` does not catch a cancellation.  The broker
\* keeps the message of a worker that died; one that shares its process with
\* the in-memory store takes the store along, which ends the run.
Crash(p) ==
    /\ at[p] # "idle"
    /\ InMemory => p \in Handlers
    /\ Fault("crash", p, TRUE)
    /\ Finish(p)
    /\ UNCHANGED <<backend, docVars, vectors, uploads, queue>>

-----------------------------------------------------------------------------
Continue(p) ==
    \/ Embed(p) \/ Put(p) \/ Save(p) \/ Find(p) \/ Drop(p)
    \/ Kick(p) \/ Cleanup(p) \/ Erase(p)

Execute(w) == Continue(w) \/ \E m \in Messages : TaskSelect(w, m)

Request(r) ==
    \/ \E d \in Docs, n \in 0 .. MaxChunks, inline \in BOOLEAN :
           CreateRow(r, d, n, inline)
    \/ \E d \in Docs : DeleteSelect(r, d)

Failure(p) ==
    \/ EmbedFails(p) \/ PurgeFails(p) \/ DbFails(p) \/ Crash(p)
    \/ \E kind \in {"put", "link"} : PutFails(p, kind)

DocsNext ==
    \/ \E r \in Handlers : Request(r)
    \/ \E w \in Workers, m \in Messages : TaskSelect(w, m) \/ Redeliver(w, m)
    \/ \E p \in Procs : Continue(p) \/ Failure(p)

DocsSpec == DocsInit /\ [][DocsNext]_docsState

-----------------------------------------------------------------------------
\* Between operations the row and the store agree on a document that no
\* fault and no overlap of operations on it has hit, whatever happens to the
\* other documents: chunk_count chunks, each of them once, and none for a
\* row at 0 or a row that is gone; and a small document whose POST is over
\* is either ingested whole or gone: "so the caller does not see a phantom
\* row" (create_data).
StoresAgree ==
    \A d \in Docs : d \notin disturbed /\ ~Busy(d) =>
        /\ Cardinality(VectorsOf(d)) = count[d]
        /\ {v.index : v \in VectorsOf(d)} = 1 .. count[d]
        /\ d \in small /\ row[d] = "stored" => count[d] = chunks[d]
=============================================================================
