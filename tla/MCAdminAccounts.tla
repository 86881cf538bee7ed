-------------------------- MODULE MCAdminAccounts --------------------------
(***************************************************************************)
(* Small instances of AdminAccounts.                                       *)
(***************************************************************************)
EXTENDS AdminAccounts, TLC

\* Requests, new ids and the names that are not the bootstrap's are alike.
Symmetry == Permutations(Reqs) \union Permutations(Ids \ Admins)
              \union Permutations(Names \ {BootName})

=============================================================================
