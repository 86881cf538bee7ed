--------------------------- MODULE TokenExchange ---------------------------
(***************************************************************************)
(* What the refresh-token component promises, independently of sessions,   *)
(* rows and locks: a token that was issued can be claimed once, and a      *)
(* claim is turned into at most one successor token.                       *)
(***************************************************************************)
CONSTANTS Jtis,     \* token identifiers
          None      \* not a token

VARIABLES issued,   \* tokens that were ever handed to the store
          live,     \* tokens that can still be exchanged
          claimed,  \* tokens taken out of circulation by an exchange under way
          parent    \* the token each one was exchanged for, None after a login

vars == <<issued, live, claimed, parent>>

TypeOK == /\ issued \subseteq Jtis
          /\ live \subseteq issued
          /\ claimed \subseteq issued \ live
          /\ parent \in [Jtis -> Jtis \union {None}]

Init == /\ issued = {}
        /\ live = {}
        /\ claimed = {}
        /\ parent = [j \in Jtis |-> None]

\* A login puts a token without a predecessor in circulation.
Issue(j) == /\ j \notin issued
            /\ issued' = issued \union {j}
            /\ live' = live \union {j}
            /\ UNCHANGED <<claimed, parent>>

\* An exchange starts by taking its token out of circulation.
Claim(j) == /\ j \in live
            /\ live' = live \ {j}
            /\ claimed' = claimed \union {j}
            /\ UNCHANGED <<issued, parent>>

\* ... and ends by issuing the successor,
Exchange(j, k) == /\ j \in claimed
                  /\ k \notin issued
                  /\ claimed' = claimed \ {j}
                  /\ issued' = issued \union {k}
                  /\ live' = live \union {k}
                  /\ parent' = [parent EXCEPT ![k] = j]

\* ... or fails, and the claimed token stays spent.
Abandon(j) == /\ j \in claimed
              /\ claimed' = claimed \ {j}
              /\ UNCHANGED <<issued, live, parent>>

\* Logout, revocation of a user's tokens and deletion of the user.
Kill(S) == /\ S \subseteq live
           /\ live' = live \ S
           /\ UNCHANGED <<issued, claimed, parent>>

Next == \/ \E j \in Jtis : Issue(j) \/ Claim(j) \/ Abandon(j)
        \/ \E j, k \in Jtis : Exchange(j, k)
        \/ \E S \in SUBSET live : Kill(S)

Spec == Init /\ [][Next]_vars
=============================================================================
