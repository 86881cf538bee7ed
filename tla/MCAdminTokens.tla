--------------------------- MODULE MCAdminTokens ---------------------------
(***************************************************************************)
(* Small instances of AdminTokens.                                         *)
(***************************************************************************)
EXTENDS AdminTokens, TLC

Symmetry == Permutations(Users) \union Permutations(Jtis) \union Permutations(Reqs)

=============================================================================
