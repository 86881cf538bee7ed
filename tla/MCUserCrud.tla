---------------------------- MODULE MCUserCrud ----------------------------
(* UserCrud on small instances. *)
EXTENDS UserCrud, TLC

SomeName == CHOOSE n \in Names : TRUE

\* No search, one that cannot be honoured, one that can be in half.
MCSearches ==
    {None} \union {[term |-> SomeName, fields |-> fs] : fs \in {{"id"}, {"username", "id"}}}
=============================================================================
