-------------------------- MODULE CloudMigrations --------------------------
(***************************************************************************)
(* The command line migrators of the cloud stores: the DynamoDB table of a *)
(* DynamoModel with its indexes and TTL (migrations/dynamodb), and the S3  *)
(* vector index of a VectorModel (migrations/s3vectors).  An operator runs *)
(* them, they die or are refused halfway, and he runs them again, perhaps  *)
(* from another release, whose models differ.                              *)
(*                                                                         *)
(* One action per call of the service.  The service changes one index of a *)
(* table at a time, and may report the table as active while it still does.*)
(***************************************************************************)
EXTENDS Naturals, FiniteSets, FiniteSetsExt, Sequences, SequencesExt, Functions

CONSTANTS Migrators,
          MaxOps,   \* bounds the runs of migrators and what else is started
          Models,   \* releases: [gsi, ttl, vector, defined]
          Absent

\* The migrators of vectors run with all the models the code defines.
ASSUME ModelsAssumption ==
    \A model \in Models : LET v == model.vector IN
        v = [name |-> v.name, shape |-> v.shape, nonfilter |-> v.nonfilter] /\ v.name \in model.defined

VARIABLES table,    \* Absent or [active, gsi, ttl]; gsi: name -> [def, state]
          vectorIndexes,  \* name -> definition
          run, ops  \* the runs under way, and how many operations were started

stores == <<table, vectorIndexes>>
migrations == <<table, vectorIndexes, run, ops>>

-----------------------------------------------------------------------------
(* What a migrator compares.  A definition of an index has its keys, its   *)
(* projection and the attributes it includes; of a vector index its shape  *)
(* and the keys that cannot be filtered.                                   *)

\* mutant: an index is compared by its name alone
GsiChangedNever(existing, desired) == FALSE
GsiChanged(existing, desired) ==
    existing.keys # desired.keys \/ existing.projection # desired.projection
Changed(gsi, model) == {n \in DOMAIN gsi \intersect DOMAIN model.gsi :
                            GsiChanged(gsi[n].def, model.gsi[n])}
ToDelete(gsi, model) == (DOMAIN gsi \ DOMAIN model.gsi) \union Changed(gsi, model)
ToAdd(gsi, model) == (DOMAIN model.gsi \ DOMAIN gsi) \union Changed(gsi, model)

IndexNeedsUpdate(existing, desired) ==
    existing.shape # desired.shape \/ existing.nonfilter # desired.nonfilter

-----------------------------------------------------------------------------
NoRun == [pc |-> "idle", model |-> Absent, del |-> {}, add |-> {}, cleanup |-> FALSE,
         alone |-> FALSE, settled |-> FALSE, fresh |-> FALSE, warned |-> FALSE]
Ended == {"idle", "done", "failed", "dead"}
Running(m) == run[m].pc \notin Ended
\* A run that ends is forgotten but for how it ended.
Moved(r, pc) == IF pc \in Ended THEN [NoRun EXCEPT !.pc = pc] ELSE [r EXCEPT !.pc = pc]
MoveTo(m, pc) == run' = [run EXCEPT ![m] = Moved(@, pc)]
Settled == table = Absent \/ (table.active /\ \A n \in DOMAIN table.gsi : table.gsi[n].state = "active")
Changing == \E n \in DOMAIN table.gsi : table.gsi[n].state # "active"

\* An operator starts a migrator; a run that overlaps another is not alone.
StartRun(m, model, first, cleanup) ==
    /\ ~Running(m) /\ ops < MaxOps
    /\ ops' = ops + 1
    /\ LET alone == \A q \in Migrators : ~Running(q) IN
       run' = [q \in Migrators |->
                 IF q = m THEN [NoRun EXCEPT !.pc = first, !.model = model, !.cleanup = cleanup,
                                            !.alone = alone, !.settled = Settled]
                 ELSE [run[q] EXCEPT !.alone = @ /\ ~Running(q)]]
    /\ UNCHANGED stores

\* The process is killed between two calls.
Kill(m) == Running(m) /\ MoveTo(m, "dead") /\ UNCHANGED <<stores, ops>>

-----------------------------------------------------------------------------
(* DynamoDBMigrator.migrate_model.                                         *)

\* ResourceNotFoundException, from whichever call, is taken for a table that
\* does not exist; every other refusal ends the run.
NotFound(m) == MoveTo(m, "create") /\ UNCHANGED stores
Refuse(m) == MoveTo(m, "failed") /\ UNCHANGED stores

DescribeTable(m) ==
    /\ run[m].pc = "describe"
    /\ IF table = Absent THEN NotFound(m)
       ELSE /\ run' = [run EXCEPT ![m].pc = "gsi", ![m].del = ToDelete(table.gsi, run[m].model),
                                  ![m].add = ToAdd(table.gsi, run[m].model)]
            /\ UNCHANGED stores
    /\ UNCHANGED ops

\* create_table makes the indexes with the table; TTL is left to the next run.
CreateTable(m) ==
    /\ run[m].pc = "create"
    /\ IF table # Absent THEN Refuse(m)
       ELSE /\ table' = [active |-> FALSE, ttl |-> Absent,
                         gsi |-> [n \in DOMAIN run[m].model.gsi |->
                                    [def |-> run[m].model.gsi[n], state |-> "creating"]]]
            /\ run' = [run EXCEPT ![m].pc = "wait_created", ![m].fresh = TRUE]
            /\ UNCHANGED vectorIndexes
    /\ UNCHANGED ops

NextName(names) == CHOOSE n \in names : TRUE
UpdateGsi(m) ==
    /\ run[m].pc = "gsi"
    /\ CASE run[m].del # {} -> MoveTo(m, "delete")
         [] run[m].del = {} /\ run[m].add # {} -> MoveTo(m, "add")
         [] OTHER -> MoveTo(m, "ttl")
    /\ UNCHANGED <<stores, ops>>

DeleteGsi(m) ==
    /\ run[m].pc = "delete"
    /\ LET n == NextName(run[m].del) IN
       IF n \notin DOMAIN table.gsi THEN NotFound(m)
       ELSE IF Changing \/ ~table.active THEN Refuse(m)
       ELSE /\ table' = [table EXCEPT !.active = FALSE, !.gsi[n].state = "deleting"]
            /\ run' = [run EXCEPT ![m].pc = "wait", ![m].del = @ \ {n}]
            /\ UNCHANGED vectorIndexes
    /\ UNCHANGED ops

AddGsi(m) ==
    /\ run[m].pc = "add"
    /\ LET n == NextName(run[m].add) IN
       IF n \in DOMAIN table.gsi \/ Changing \/ ~table.active THEN Refuse(m)
       ELSE /\ table' = [table EXCEPT !.active = FALSE,
                  !.gsi = [x \in DOMAIN @ \union {n} |->
                             IF x = n THEN [def |-> run[m].model.gsi[n], state |-> "creating"] ELSE @[x]]]
            /\ run' = [run EXCEPT ![m].pc = "wait", ![m].add = @ \ {n}]
            /\ UNCHANGED vectorIndexes
    /\ UNCHANGED ops

\* _wait_for_table: the waiter looks at the status of the table, not of its
\* indexes.
WaitForTable(m) ==
    /\ run[m].pc \in {"wait", "wait_created"} /\ table.active
    /\ MoveTo(m, IF run[m].pc = "wait" THEN "gsi" ELSE "done")
    /\ UNCHANGED <<stores, ops>>

\* _update_ttl: a refusal is a warning.
UpdateTtl(m) ==
    /\ run[m].pc = "ttl"
    /\ LET ttl == run[m].model.ttl IN
       \/ /\ ttl = Absent \/ table.ttl = ttl
          /\ MoveTo(m, "done") /\ UNCHANGED stores
       \/ /\ ttl # Absent /\ table.ttl = Absent
          /\ table' = [table EXCEPT !.ttl = ttl] /\ MoveTo(m, "done") /\ UNCHANGED vectorIndexes
       \/ /\ ttl # Absent /\ table.ttl # ttl
          /\ run' = [run EXCEPT ![m] = [NoRun EXCEPT !.pc = "done", !.warned = TRUE]] /\ UNCHANGED stores
    /\ UNCHANGED ops

\* The service works on an index, and on the status of the table.
Progress ==
    /\ table # Absent
    /\ \/ ~table.active /\ table' = [table EXCEPT !.active = TRUE]
       \/ \E n \in DOMAIN table.gsi :
            \/ /\ table.gsi[n].state = "creating"
               /\ table' = [table EXCEPT !.gsi[n].state = "active"]
            \/ /\ table.gsi[n].state = "deleting"
               /\ table' = [table EXCEPT !.gsi = [x \in DOMAIN @ \ {n} |-> @[x]]]
    /\ UNCHANGED <<vectorIndexes, run, ops>>

-----------------------------------------------------------------------------
(* S3VectorMigrator: the index of the model, then the orphans.             *)

Model(m) == run[m].model.vector
GetIndex(m) ==
    /\ run[m].pc = "get_index"
    /\ MoveTo(m, IF Model(m).name \notin DOMAIN vectorIndexes THEN "create_index"
               ELSE IF IndexNeedsUpdate(vectorIndexes[Model(m).name], Model(m)) THEN "delete_index"
               ELSE IF run[m].cleanup THEN "cleanup" ELSE "done")
    /\ UNCHANGED <<stores, ops>>

\* _delete_index swallows every error.
DeleteIndex(m) ==
    /\ run[m].pc = "delete_index"
    /\ MoveTo(m, "create_index")
    /\ \/ vectorIndexes' = [n \in DOMAIN vectorIndexes \ {Model(m).name} |-> vectorIndexes[n]]
       \/ UNCHANGED vectorIndexes
    /\ UNCHANGED <<table, ops>>

CreateIndex(m) ==
    /\ run[m].pc = "create_index"
    /\ IF Model(m).name \in DOMAIN vectorIndexes THEN MoveTo(m, "failed") /\ UNCHANGED vectorIndexes
       ELSE /\ MoveTo(m, IF run[m].cleanup THEN "cleanup" ELSE "done")
            /\ vectorIndexes' = [n \in DOMAIN vectorIndexes \union {Model(m).name} |->
                             IF n = Model(m).name THEN Model(m) ELSE vectorIndexes[n]]
    /\ UNCHANGED <<table, ops>>

\* cleanup_orphaned_indexes lists the indexes, then deletes those the code does
\* not define, one by one.
Conclude(m) == run' = [run EXCEPT ![m] = [NoRun EXCEPT !.pc = "done", !.warned = run[m].warned]]
ListOrphans(m) ==
    /\ run[m].pc = "cleanup"
    /\ run' = [run EXCEPT ![m].pc = "orphans",
                          ![m].del = DOMAIN vectorIndexes \ run[m].model.defined]
    /\ UNCHANGED <<stores, ops>>
DeleteOrphan(m) ==
    /\ run[m].pc = "orphans"
    /\ IF run[m].del = {} THEN Conclude(m) /\ UNCHANGED vectorIndexes
       ELSE LET n == NextName(run[m].del) IN
            \/ /\ vectorIndexes' = [x \in DOMAIN vectorIndexes \ {n} |-> vectorIndexes[x]]
               /\ run' = [run EXCEPT ![m].del = @ \ {n}]
            \/ /\ run' = [run EXCEPT ![m].del = @ \ {n}, ![m].warned = TRUE]
               /\ UNCHANGED vectorIndexes
    /\ UNCHANGED <<table, ops>>

-----------------------------------------------------------------------------
\* The stores are new, or as a release has left them, or a run of it that was
\* killed on the way and whose last index the service has finished.
MadeTable(model, made) ==
    [active |-> TRUE, ttl |-> IF made = DOMAIN model.gsi THEN model.ttl ELSE Absent,
     gsi |-> [n \in made |-> [def |-> model.gsi[n], state |-> "active"]]]
MigrationsInit ==
    /\ \/ table = Absent /\ vectorIndexes = <<>>
       \/ \E model \in Models : \E made \in SUBSET DOMAIN model.gsi :
            /\ table = MadeTable(model, made)
            /\ vectorIndexes = [n \in model.defined |-> [model.vector EXCEPT !.name = n]]
    /\ run = [m \in Migrators |-> NoRun] /\ ops = 0

MigrationsNext ==
    \/ \E m \in Migrators :
         \/ \E model \in Models : StartRun(m, model, "describe", FALSE)
         \/ \E model \in Models, c \in BOOLEAN : StartRun(m, model, "get_index", c)
         \/ Kill(m) \/ DescribeTable(m) \/ CreateTable(m) \/ UpdateGsi(m) \/ DeleteGsi(m)
         \/ AddGsi(m) \/ WaitForTable(m) \/ UpdateTtl(m) \/ GetIndex(m) \/ DeleteIndex(m)
         \/ CreateIndex(m) \/ ListOrphans(m) \/ DeleteOrphan(m)
    \/ Progress

-----------------------------------------------------------------------------
(* Properties.                                                             *)

Ends(m) == Running(m) /\ run'[m].pc = "done"
OfTable(m) == run[m].pc \in {"wait_created", "ttl"}

\* "Create or update": a migrator that ran alone and did not fail leaves the
\* stores as its models say, whatever runs were killed, refused or overlapped
\* before and from whichever release, provided the service had finished with
\* the indexes when it began.  An index counts that the service is not about to
\* take away.  Not compared are the attributes an index includes; a new table
\* gets its TTL from the next run, and a TTL on another attribute only a warning.
Standing(gsi) == {n \in DOMAIN gsi : gsi[n].state # "deleting"}
TableAgrees(gsi, model) ==
    /\ Standing(gsi) = DOMAIN model.gsi
    /\ \A n \in Standing(gsi) : /\ gsi[n].def.keys = model.gsi[n].keys
                               /\ gsi[n].def.projection = model.gsi[n].projection
VectorsAgree(m) == /\ Model(m).name \in DOMAIN vectorIndexes' /\ vectorIndexes'[Model(m).name] = Model(m)
                   /\ run[m].cleanup /\ ~run'[m].warned => DOMAIN vectorIndexes' \subseteq run[m].model.defined

RerunRepairs ==
    [][\A m \in Migrators : Ends(m) /\ run[m].alone =>
         IF OfTable(m)
         THEN run[m].settled =>
                /\ TableAgrees(table'.gsi, run[m].model)
                /\ run[m].model.ttl # Absent /\ ~run[m].fresh /\ ~run'[m].warned =>
                     table'.ttl = run[m].model.ttl
         ELSE VectorsAgree(m)]_migrations
=============================================================================
