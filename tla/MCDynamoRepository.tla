------------------------- MODULE MCDynamoRepository -------------------------
(* Three releases: the second drops an index, changes the keys of another   *)
(* and adds a third, moves the TTL, changes the shape of the vectors and    *)
(* drops a vector index; the third only drops an index of the first.        *)
EXTENDS DynamoRepository, TLC

Gsi(keys, projection) == [keys |-> keys, projection |-> projection]
Vector(name, shape) == [name |-> name, shape |-> shape, nonfilter |-> {}]
Old == [gsi |-> "by_status" :> Gsi("pk", "ALL") @@ "by_owner" :> Gsi("pk", "ALL"),
        ttl |-> "expires", vector |-> Vector("chunks", 2), defined |-> {"chunks", "notes"}]
New == [gsi |-> "by_status" :> Gsi("pk_sk", "ALL") @@ "by_date" :> Gsi("pk", "KEYS_ONLY"),
        ttl |-> "until", vector |-> Vector("chunks", 3), defined |-> {"chunks"}]
Lean == [gsi |-> "by_status" :> Gsi("pk", "ALL"), ttl |-> "expires",
         vector |-> Vector("chunks", 2), defined |-> {"chunks", "notes"}]

Symmetry == Permutations(Migrators) \union Permutations(Callers)
MCModels == {Old, New, Lean}
MCConditions == {1 .. 3, 2 .. 2}
MCContents == {<<Item("a"), Item("b"), Item("a")>>}
MCBatches == {<<1, 2, 3>>, <<3, 1>>}
=============================================================================
