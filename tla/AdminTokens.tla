---------------------------- MODULE AdminTokens ----------------------------
(***************************************************************************)
(* The administrators' token realm.  AdminAuthService and its repository   *)
(* mirror the customer realm, so its requests are those of RefreshTokens,  *)
(* with users read as administrators; there is no registration.  Added     *)
(* here: the password each token goes back to, and change_password, which  *)
(* updates the password and then revokes the tokens, in two sessions.      *)
(***************************************************************************)
EXTENDS RefreshTokens

CONSTANT MaxPassword   \* bounds the changes of a password

ASSUME MaxPasswordAssumption == MaxPassword \in Nat \ {0}

VARIABLES password,    \* how often it was changed; 0 is a temporary password
          basis,       \* the password a request's authentication goes back to
          gen,         \* the password a token goes back to
          change, who, \* a password change: where it is, and whose
          late         \* history: logins and rotations its revocation overlapped

changes == <<password, basis, gen, change, who, late>>
adminVars == <<vars, changes>>

AdminTypeOK == /\ TypeOK
               /\ password \in [Users -> 0..MaxPassword]
               /\ basis \in [Reqs -> 0..MaxPassword]
               /\ gen \in [Jtis -> 0..MaxPassword]
               /\ change \in [Reqs -> {"none", "update", "revoke", "revoking", "failed"}]
               /\ who \in [Reqs -> Users \union {None}]
               /\ late \in [Reqs -> SUBSET Reqs]

AdminInit == /\ Init
             /\ password = [u \in Users |-> 0]
             /\ basis = [r \in Reqs |-> 0]
             /\ gen = [j \in Jtis |-> 0]
             /\ change = [r \in Reqs |-> "none"]
             /\ who = [r \in Reqs |-> None]
             /\ late = [r \in Reqs |-> {}]

Free(r) == change[r] = "none"

\* An account is created with a temporary password, or is past its first
\* change when the behaviour looks at it.
CreateAdmin(u, p) ==
  /\ u \notin users \union deleted
  /\ users' = users \union {u}
  /\ password' = [password EXCEPT ![u] = p]
  /\ UNCHANGED <<deleted, status, owner, age, lock, held, history, requests,
                 basis, gen, change, who, late>>

\* login: the token API refuses an account that still has its temporary password.
AdminLogin(r, u) ==
  /\ Free(r)
  /\ Login(r, u)
  /\ pc'[r] = "insert" => password[u] > 0
  /\ basis' = [basis EXCEPT ![r] = password[u]]
  /\ UNCHANGED <<password, gen, change, who, late>>

AdminRotate(r, j) ==
  /\ Free(r)
  /\ Rotate(r, j)
  /\ basis' = [basis EXCEPT ![r] = gen[j]]
  /\ late' = [q \in Reqs |-> IF pc[q] = "revoke_all_write" /\ who[q] = owner[j]
                              THEN late[q] \union {r} ELSE late[q]]
  /\ UNCHANGED <<password, gen, change, who>>

AdminInsertToken(r, k) ==
  /\ InsertToken(r, k)
  /\ gen' = [gen EXCEPT ![k] = basis[r]]
  /\ UNCHANGED <<password, basis, change, who, late>>

\* change_password: the current password is verified, or the request refused.
ChangeVerify(r, u) ==
  /\ Free(r) /\ pc[r] = "idle"
  /\ u \in users
  /\ change' = [change EXCEPT ![r] = "update"]
  /\ who' = [who EXCEPT ![r] = u]
  /\ UNCHANGED <<vars, password, basis, gen, late>>

ChangeUpdate(r) ==
  /\ change[r] = "update"
  /\ IF who[r] \in users
       THEN /\ password[who[r]] < MaxPassword
            /\ password' = [password EXCEPT ![who[r]] = @ + 1]
            /\ basis' = [basis EXCEPT ![r] = password[who[r]] + 1]
            /\ change' = [change EXCEPT ![r] = "revoke"]
       ELSE /\ change' = [change EXCEPT ![r] = "failed"]
            /\ UNCHANGED <<password, basis>>
  /\ UNCHANGED <<vars, gen, who, late>>

\* Requests of u, other than r, that are still going to insert a token.
Issuing(u, r) == {q \in Reqs \ {r} : /\ op[q] \in {"login", "rotate"} /\ usr[q] = u
                                     /\ pc[q] \in {"revoke_select", "revoke_write",
                                                   "load_user", "insert"}}

\* Mutant: the revocation takes the first row instead of all.
ChangeRevokeFirst(r) ==
  /\ change[r] = "revoke"
  /\ Accept(r, "revoke_all", who[r], None)
  /\ \E j \in Jtis : /\ owner[j] = who[r] /\ status[j] = "active"
                      /\ snap' = [snap EXCEPT ![r] = {j}]
  /\ Goto(r, "revoke_all_write")
  /\ change' = [change EXCEPT ![r] = "revoking"]
  /\ late' = [late EXCEPT ![r] = Issuing(who[r], r)]
  /\ UNCHANGED <<rows, held, history, new, password, basis, gen, who>>

\* revoke_all_tokens_for_admin: the SELECT; RevokeAllWrite ends the change.
ChangeRevoke(r) ==
  /\ change[r] = "revoke"
  /\ RevokeAll(r, who[r])
  /\ change' = [change EXCEPT ![r] = "revoking"]
  /\ late' = [late EXCEPT ![r] = Issuing(who[r], r)]
  /\ UNCHANGED <<password, basis, gen, who>>

\* The page goes away or the process dies between the two sessions.
ChangeAbort(r) ==
  /\ change[r] \in {"update", "revoke"}
  /\ change' = [change EXCEPT ![r] = "failed"]
  /\ UNCHANGED <<vars, password, basis, gen, who, late>>

\* The steps shared with the customer realm.
Shared(r) == \/ \E j \in Jtis : Free(r) /\ Logout(r, j)
             \/ RevokeSelect(r) \/ RevokeWrite(r) \/ LoadUser(r) \/ InsertRefused(r)
             \/ Respond(r) \/ RevokeAllWrite(r) \/ Abort(r)

AdminNext ==
  \/ \E r \in Reqs, u \in Users : AdminLogin(r, u) \/ ChangeVerify(r, u)
  \/ \E r \in Reqs, j \in Jtis : AdminRotate(r, j) \/ AdminInsertToken(r, j)
  \/ \E r \in Reqs : ChangeUpdate(r) \/ ChangeRevoke(r) \/ ChangeAbort(r)
  \/ \E u \in Users, p \in 0..1 : CreateAdmin(u, p)
  \/ /\ \/ \E r \in Reqs : Shared(r)
        \/ \E u \in Users : DeleteUser(u)
        \/ \E j \in Jtis : Lapse(j)
     /\ UNCHANGED changes

AdminSpec == AdminInit /\ [][AdminNext]_adminVars
-----------------------------------------------------------------------------
(* Properties.                                                             *)

\* The password change of r reported success.
Changed(r) == change[r] = "revoking" /\ out[r] = "ok"

\* change_password revokes the refresh tokens: once it reported success, no
\* token of an older password is left or comes back, unless a login that had
\* verified the old password or a rotation overlapped the revocation.
OldTokensDie ==
  \A r \in Reqs : Changed(r) /\ late[r] = {} =>
    \A j \in Jtis : status[j] = "active" /\ owner[j] = who[r] => gen[j] >= basis[r]

=============================================================================
