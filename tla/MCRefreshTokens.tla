-------------------------- MODULE MCRefreshTokens --------------------------
EXTENDS RefreshTokens, TLC

\* Requests, tokens and users are interchangeable: sound for the runs that
\* check no liveness.
Symmetry == Permutations(Reqs) \union Permutations(Jtis) \union Permutations(Users)
=============================================================================
