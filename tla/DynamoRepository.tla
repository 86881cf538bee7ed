-------------------------- MODULE DynamoRepository --------------------------
(***************************************************************************)
(* BaseDynamoRepository over one partition of a DynamoDB table, next to    *)
(* the migrators that make and change the table: single items, batches     *)
(* that the service accepts piece by piece, and queries that a client      *)
(* walks through with a cursor.                                            *)
(*                                                                         *)
(* One action per call of the service.  A sort key is its place in the     *)
(* order of the partition, so that every sort key condition, a prefix      *)
(* included, is an interval of places; an item is its attribute and the    *)
(* key of its index, which the model derives from the attribute when the   *)
(* item is put.                                                            *)
(***************************************************************************)
EXTENDS CloudMigrations

CONSTANTS Callers,
          Places,      \* sort keys of the partition: 1 .. n
          Batches,     \* sequences of keys a caller may put or get at once
          ChunkSize,   \* 25 for writes and 100 for reads in the code
          MaxRetries,
          Limits,      \* limits of a query
          Conditions,  \* intervals of places a sort key condition selects
          Indexes,     \* Absent for the table, or the name of an index
          Contents     \* what a table may hold at the beginning

ASSUME ChunkAssumption == ChunkSize \in Nat \ {0} /\ MaxRetries \in Nat \ {0}
ASSUME PlacesAssumption == Places \subseteq Nat /\ IsFiniteSet(Places) /\ Absent \notin Places
ASSUME ContentsAssumption == \A content \in Contents : DOMAIN content = Places
\* The service refuses a batch that names a key twice.
ASSUME BatchesAssumption == \A keys \in Batches : keys \in Seq(Places) /\ IsInjective(keys)

VARIABLES items,   \* place -> Absent or [v, g]
          calls,   \* per caller: the method it is in
          steady   \* history: per caller, the items untouched since its call began

repository == <<items, calls, steady>>
dynamoState == <<migrations, repository>>

Values == {"a", "b"}
Stored == {k \in Places : items[k] # Absent}

NoCall == [pc |-> "idle", op |-> Absent, keys |-> {}, todo |-> <<>>, chunk |-> {}, pending |-> {},
           attempt |-> 0, landed |-> {}, results |-> <<>>, answer |-> Absent, left |-> 0, query |-> Absent,
           cursor |-> Absent]
Set(c, r) == calls' = [calls EXCEPT ![c] = r]
Answer(c, r, a) == Set(c, [r EXCEPT !.pc = "done", !.answer = a])
Write(new) ==
    /\ items' = new
    /\ steady' = [c \in Callers |-> {k \in steady[c] : new[k] = items[k]}]
Read == UNCHANGED <<items, steady>>

\* DynamoDBClient.client: what a refusal of the service becomes.
\* ResourceNotFound and ValidationException have no class of their own.
Refusals == {"throttled", "error"}
ServiceError(code) == IF code = "throttled" THEN 429 ELSE 500

-----------------------------------------------------------------------------
(* Single items.                                                           *)

\* to_dynamodb derives the key of the index from the attributes.
Item(v) == [v |-> v, g |-> v]

PutItem(c, k, v) ==
    Write([items EXCEPT ![k] = Item(v)]) /\ Answer(c, [NoCall EXCEPT !.op = "put"], 200)
GetItem(c, k) ==
    Read /\ Answer(c, [NoCall EXCEPT !.op = "get"], IF items[k] = Absent THEN 404 ELSE 200)
\* update_item sets the attributes it was given and no key of an index; the
\* service creates an item that is not there.
UpdateItem(c, k, v) ==
    /\ Write([items EXCEPT ![k] = [v |-> v, g |-> IF items[k] = Absent THEN Absent ELSE items[k].g]])
    /\ Answer(c, [NoCall EXCEPT !.op = "update"], 200)
DeleteItem(c, k) ==
    Write([items EXCEPT ![k] = Absent]) /\ Answer(c, [NoCall EXCEPT !.op = "delete"], 200)

Idling(c) == calls[c].pc \in {"idle", "done"} /\ ops < MaxOps
One(c) ==
    /\ Idling(c) /\ ops' = ops + 1
    /\ IF table = Absent THEN Read /\ Answer(c, [NoCall EXCEPT !.op = "put"], ServiceError("error"))
       ELSE \E k \in Places : \/ \E v \in Values : PutItem(c, k, v) \/ UpdateItem(c, k, v)
                              \/ GetItem(c, k) \/ DeleteItem(c, k)
    /\ UNCHANGED <<stores, run>>

-----------------------------------------------------------------------------
(* Batches.                                                                *)

\* A batch is cut into chunks; a chunk is sent until the service has left
\* nothing of it unprocessed, MaxRetries times at most.
Chunk(keys) == ToSet(SubSeq(keys, 1, IF Len(keys) < ChunkSize THEN Len(keys) ELSE ChunkSize))
Rest(keys) == SubSeq(keys, ChunkSize + 1, Len(keys))
NextChunk(r) ==
    IF r.todo = <<>> THEN [r EXCEPT !.pc = "done", !.answer = 200]
    ELSE [r EXCEPT !.pc = "batch", !.chunk = Chunk(r.todo), !.pending = Chunk(r.todo),
                   !.todo = Rest(r.todo), !.attempt = 1]

StartBatch(c, op, keys) ==
    /\ Idling(c) /\ ops' = ops + 1
    /\ Set(c, NextChunk([NoCall EXCEPT !.op = op, !.keys = ToSet(keys), !.todo = keys]))
    /\ steady' = [steady EXCEPT ![c] = Stored]
    /\ UNCHANGED <<stores, run, items>>

\* What the loop does with the answer: the next chunk, another attempt with
\* what was left, or the error that says how much that is.
\* mutant: a batch ends with its last attempt, whatever that has left
AfterAttemptQuietly(r, left) ==
    IF left = {} \/ r.attempt = MaxRetries THEN NextChunk(r)
    ELSE [r EXCEPT !.pending = left, !.attempt = @ + 1]
AfterAttempt(r, left) ==
    IF left = {} THEN NextChunk(r)
    ELSE IF r.attempt < MaxRetries THEN [r EXCEPT !.pending = left, !.attempt = @ + 1]
    ELSE [r EXCEPT !.pc = "done", !.answer = 503, !.left = Cardinality(left)]

BatchWrite(c) ==
    /\ calls[c].pc = "batch" /\ calls[c].op = "batch_put"
    /\ \E left \in SUBSET calls[c].pending :
         LET put == calls[c].pending \ left IN
         /\ table # Absent
         /\ Write([k \in Places |-> IF k \in put THEN Item("a") ELSE items[k]])
         /\ Set(c, AfterAttempt([calls[c] EXCEPT !.landed = @ \union put], left))
    /\ UNCHANGED migrations

\* Responses holds the items that exist; what was not looked at is unprocessed.
BatchGet(c) ==
    /\ calls[c].pc = "batch" /\ calls[c].op = "batch_get"
    /\ \E left \in SUBSET calls[c].pending :
         LET found == SetToSeq((calls[c].pending \ left) \intersect Stored) IN
         /\ table # Absent
         /\ Set(c, AfterAttempt([calls[c] EXCEPT !.results = @ \o found], left))
    /\ Read /\ UNCHANGED migrations

\* The service refuses the whole call.
BatchRefused(c) ==
    /\ calls[c].pc = "batch"
    /\ \E code \in Refusals : (code = "throttled" => table # Absent)
                           /\ Answer(c, calls[c], ServiceError(code))
    /\ Read /\ UNCHANGED migrations

-----------------------------------------------------------------------------
(* Queries.                                                                *)

\* A condition on the sort key of an index that has none is left out; the caller
\* knows the index from its own release.
Sorted(q) == q.index = Absent \/ q.release.gsi[q.index].keys = "pk_sk"
Selected(q) ==
    {k \in Stored : (q.index # Absent => items[k].g = "a") /\ (Sorted(q) => k \in q.sk)}
Passes(q, k) == q.filter = Absent \/ items[k].v = q.filter

StartQuery(c) ==
    /\ Idling(c) /\ ops' = ops + 1
    /\ \E i \in Indexes, sk \in Conditions, f \in {Absent, "a"}, l \in Limits, fwd \in BOOLEAN :
         \E release \in IF i = Absent THEN {Absent} ELSE {m \in Models : i \in DOMAIN m.gsi} :
         LET q == [index |-> i, sk |-> sk, filter |-> f, limit |-> l, forward |-> fwd,
                   release |-> release] IN
         Set(c, [NoCall EXCEPT !.pc = "query", !.op = "query", !.query = q])
    /\ steady' = [steady EXCEPT ![c] = Stored]
    /\ UNCHANGED <<stores, run, items>>

\* The service evaluates items after the start key in the order of the index,
\* at most limit of them and perhaps fewer, and filters them afterwards.  It
\* names a last key whenever it stopped, be it at the very end.
Beyond(q, cursor, k) ==
    cursor = Absent \/ (IF q.forward THEN k > cursor ELSE k < cursor)
Within(q, n) == IF q.limit = Absent THEN TRUE ELSE n <= q.limit
Ahead(q, cursor) == {k \in Selected(q) : Beyond(q, cursor, k)}

\* next_cursor follows the last key the service named, not the page.
\* mutant: a page without items is the last one
NextCursorOfPage(last, page) == IF page = {} THEN Absent ELSE last
NextCursor(last, page) == last

\* A page of what was read, up to the last key if there is one.  (The items of a
\* page come in the order of the index, which no property looks at.)
Page(r, read, last) ==
    LET page == {k \in read : Passes(r.query, k)}
        next == NextCursor(last, page)
    IN  [r EXCEPT !.results = @ \o SetToSeq(page), !.cursor = next,
                  !.pc = IF next = Absent THEN "done" ELSE "query",
                  !.answer = IF next = Absent THEN 200 ELSE Absent]

\* _decode_cursor: what a client may send back instead of the cursor.
Tampered == {"alphabet", "json", "wrong_map", "other_table"}
DecodeCursor(shape) == IF shape = "other_table" THEN ServiceError("error") ELSE 400

QueryItems(c) ==
    /\ calls[c].pc = "query"
    /\ LET r == calls[c]
           q == r.query
           served == table # Absent /\ (q.index # Absent =>
                        /\ q.index \in DOMAIN table.gsi /\ table.gsi[q.index].state = "active"
                        /\ Sorted(q) => table.gsi[q.index].def.keys = "pk_sk") IN
       IF q.limit # Absent /\ q.limit < 1 THEN Answer(c, r, 400)
       ELSE \/ /\ r.cursor # Absent
               /\ \E shape \in Tampered : Answer(c, [r EXCEPT !.cursor = Absent], DecodeCursor(shape))
            \/ \E code \in Refusals : (code = "throttled" => served) /\ Answer(c, r, ServiceError(code))
            \/ /\ served
               /\ LET ahead == Ahead(q, r.cursor) IN
                  \/ \E last \in ahead :
                        LET read == {k \in ahead : ~Beyond(q, last, k)} IN
                        Within(q, Cardinality(read)) /\ Set(c, Page(r, read, last))
                  \/ Within(q, Cardinality(ahead) + 1) /\ Set(c, Page(r, ahead, Absent))
    /\ Read /\ UNCHANGED migrations

-----------------------------------------------------------------------------
RepositoryInit ==
    /\ MigrationsInit
    /\ items \in IF table = Absent THEN [Places -> {Absent}] ELSE Contents
    /\ calls = [c \in Callers |-> NoCall]
    /\ steady = [c \in Callers |-> {}]

\* A walk over an index claims nothing once a migrator has changed it.
Touched(c) == LET q == calls[c].query IN
    q # Absent /\ q.index # Absent /\ table # Absent /\
        ~(q.index \in DOMAIN table.gsi /\ q.index \in DOMAIN table'.gsi
            /\ table.gsi[q.index] = table'.gsi[q.index])
Migrate == /\ MigrationsNext
           /\ steady' = [c \in Callers |-> IF Touched(c) THEN {} ELSE steady[c]]
           /\ UNCHANGED <<items, calls>>

RepositoryNext ==
    \/ Migrate
    \/ \E c \in Callers :
         \/ One(c) \/ BatchWrite(c) \/ BatchGet(c) \/ BatchRefused(c)
         \/ StartQuery(c) \/ QueryItems(c)
         \/ \E op \in {"batch_put", "batch_get"}, keys \in Batches : StartBatch(c, op, keys)
RepositorySpec == RepositoryInit /\ [][RepositoryNext]_dynamoState

-----------------------------------------------------------------------------
(* Properties.                                                             *)

\* A batch write that succeeds has written every item; one that gives up says
\* how many of its chunk the service never accepted and has not begun the next
\* ("the previous behaviour built a success DTO for every item in the chunk").
BatchTellsWhatLanded ==
    \A c \in Callers :
        LET r == calls[c] IN
        r.op = "batch_put" /\ r.pc = "done" =>
            /\ r.answer = 200 => r.keys = r.landed
            /\ r.answer = 503 => /\ r.left = Cardinality(r.chunk \ r.landed) /\ r.left > 0
                                 /\ ToSet(r.todo) \intersect r.landed = {}

\* A read that succeeds, a batch of keys or a walk through the pages of a
\* query, shows every item it asked for that nobody touched meanwhile, and shows
\* it once: no page without hits ends a walk, no attempt repeats what an earlier
\* one has read.
Asked(r, k) == IF r.op = "query" THEN k \in Selected(r.query) /\ Passes(r.query, k) ELSE k \in r.keys
ReadsSeeWhatStays ==
    \A c \in Callers :
        LET r == calls[c] IN
        r.op \in {"batch_get", "query"} /\ r.pc = "done" /\ r.answer = 200 =>
            /\ IsInjective(r.results)
            /\ \A k \in steady[c] : Asked(r, k) => k \in ToSet(r.results)
=============================================================================
