--------------------------- MODULE RefreshTokens ---------------------------
(***************************************************************************)
(* The refresh-token life cycle of the customer realm: AuthUseCase and     *)
(* AuthService over RefreshTokenRepository.  A request runs several        *)
(* database sessions, one action each; between two of them any other       *)
(* request may run, and the request itself may be cancelled or its process *)
(* may die.                                                                *)
(***************************************************************************)
EXTENDS Naturals, FiniteSets

CONSTANTS Users,      \* user ids; an id is never given twice
          Jtis,       \* refresh-token ids (bounds the tokens ever issued)
          Reqs,       \* requests (bounds the requests ever made)
          None,
          RowLocks    \* TRUE: PostgreSQL or MySQL.  FALSE: SQLite, which
                      \* ignores FOR UPDATE and, without the foreign_keys
                      \* pragma, ON DELETE CASCADE and foreign keys too

ASSUME NoneAssumption == None \notin Users \union Jtis \union Reqs
ASSUME EngineAssumption == RowLocks \in BOOLEAN

VARIABLES users,      \* rows of the user table
          deleted,    \* users whose row was deleted
          status,     \* the refresh_token row of each jti
          owner,      \* its user_id
          age,        \* 0 valid, 1 past expires_at, 2 past the JWT leeway too
          lock,       \* the session holding FOR UPDATE on the row
          held,       \* tokens a client received in a response
          parent,     \* history: the token it was exchanged for
          root,       \* history: the first token of its login
          op, pc,     \* what a request does, and where it is
          usr, tok,   \* the user and the presented token it works on
          new,        \* the jti it issued
          snap,       \* rows its bulk revocation selected
          out         \* how it ended

rows == <<users, deleted, status, owner, age, lock>>
history == <<parent, root>>
requests == <<op, pc, usr, tok, new, snap, out>>
vars == <<rows, held, history, requests>>

Ops == {"login", "register", "rotate", "logout", "revoke_all"}
Labels == {"idle", "revoke_select", "revoke_write", "load_user", "insert",
           "respond", "revoke_all_write", "done"}
Outcomes == {"none", "ok", "credentials", "conflict", "invalid", "revoked",
             "expired", "db_error", "aborted"}

TypeOK == /\ users \subseteq Users
          /\ deleted \subseteq Users
          /\ status \in [Jtis -> {"unissued", "active", "revoked", "deleted"}]
          /\ owner \in [Jtis -> Users \union {None}]
          /\ age \in [Jtis -> 0..2]
          /\ lock \in [Jtis -> Reqs \union {None}]
          /\ held \subseteq Jtis
          /\ parent \in [Jtis -> Jtis \union {None}]
          /\ root \in [Jtis -> Jtis \union {None}]
          /\ op \in [Reqs -> Ops \union {"none"}]
          /\ pc \in [Reqs -> Labels]
          /\ usr \in [Reqs -> Users \union {None}]
          /\ tok \in [Reqs -> Jtis \union {None}]
          /\ new \in [Reqs -> Jtis \union {None}]
          /\ snap \in [Reqs -> SUBSET Jtis]
          /\ out \in [Reqs -> Outcomes]

Init == /\ users = {}
        /\ deleted = {}
        /\ status = [j \in Jtis |-> "unissued"]
        /\ owner = [j \in Jtis |-> None]
        /\ age = [j \in Jtis |-> 0]
        /\ lock = [j \in Jtis |-> None]
        /\ held = {}
        /\ parent = [j \in Jtis |-> None]
        /\ root = [j \in Jtis |-> None]
        /\ op = [r \in Reqs |-> "none"]
        /\ pc = [r \in Reqs |-> "idle"]
        /\ usr = [r \in Reqs |-> None]
        /\ tok = [r \in Reqs |-> None]
        /\ new = [r \in Reqs |-> None]
        /\ snap = [r \in Reqs |-> {}]
        /\ out = [r \in Reqs |-> "none"]

-----------------------------------------------------------------------------
(* Steps of a request.                                                     *)

Goto(r, l) == pc' = [pc EXCEPT ![r] = l] /\ UNCHANGED out

Finish(r, o) == /\ pc' = [pc EXCEPT ![r] = "done"]
                /\ out' = [out EXCEPT ![r] = o]

\* The request is accepted with operation o on user u or token j.
Accept(r, o, u, j) == /\ pc[r] = "idle"
                      /\ op' = [op EXCEPT ![r] = o]
                      /\ usr' = [usr EXCEPT ![r] = u]
                      /\ tok' = [tok EXCEPT ![r] = j]

\* Mutant: with_for_update() is dropped.
RowLockIgnored(j) == TRUE

Unlocked(j) == lock[j] = None

\* login: verify_credentials selects the user and checks the password, which
\* the client may have wrong.
Login(r, u) ==
  /\ Accept(r, "login", u, None)
  /\ \/ u \in users /\ Goto(r, "insert")
     \/ Finish(r, "credentials")
  /\ UNCHANGED <<rows, held, history, new, snap>>

\* register: the user row is committed before the token pair is issued.
Register(r, u) ==
  /\ u \notin deleted
  /\ Accept(r, "register", u, None)
  /\ IF u \in users
       THEN Finish(r, "conflict") /\ UNCHANGED users
       ELSE Goto(r, "insert") /\ users' = users \union {u}
  /\ UNCHANGED <<deleted, status, owner, age, lock, held, history, new, snap>>

\* What decoding the presented token and selecting its row says of it.
TokenState(j) ==
  IF age[j] = 2 THEN "expired"
  ELSE CASE status[j] = "deleted" -> "invalid"
         [] status[j] = "revoked" -> "revoked"
         [] OTHER                   -> IF age[j] = 1 THEN "lapsed" ELSE "active"

\* refresh: _load_active_refresh_token, in a session of its own.
Rotate(r, j) ==
  /\ j \in held
  /\ Accept(r, "rotate", owner[j], j)
  /\ \/ TokenState(j) = "active" /\ Goto(r, "revoke_select")
     \/ TokenState(j) = "lapsed" /\ Finish(r, "expired")
     \/ TokenState(j) \notin {"active", "lapsed"} /\ Finish(r, TokenState(j))
  /\ UNCHANGED <<rows, held, history, new, snap>>

\* logout: no expiry check of the row, and a revoked row is a success.
Logout(r, j) ==
  /\ j \in held
  /\ Accept(r, "logout", owner[j], j)
  /\ \/ TokenState(j) \in {"active", "lapsed"} /\ Goto(r, "revoke_select")
     \/ TokenState(j) = "revoked" /\ Finish(r, "ok")
     \/ TokenState(j) \in {"expired", "invalid"} /\ Finish(r, TokenState(j))
  /\ UNCHANGED <<rows, held, history, new, snap>>

\* revoke_by_jti, first half: SELECT ... FOR UPDATE waits for the row lock.  It
\* gives up (returns None) on a row that is missing or already revoked: a
\* rotation then fails, a logout ignores the result.
TakeRow(r) == /\ Goto(r, "revoke_write")
              /\ lock' = IF RowLocks THEN [lock EXCEPT ![tok[r]] = r] ELSE lock

RowTaken(r) == IF op[r] = "rotate" THEN "revoked" ELSE "ok"

\* Mutant: the rotation ignores the result, as the logout does.
RevokeSelectUnchecked(r) ==
  /\ pc[r] = "revoke_select"
  /\ RowLocks => Unlocked(tok[r])
  /\ IF status[tok[r]] = "active"
       THEN TakeRow(r)
       ELSE /\ IF op[r] = "rotate" THEN Goto(r, "load_user") ELSE Finish(r, "ok")
            /\ UNCHANGED lock
  /\ UNCHANGED <<users, deleted, status, owner, age, held, history,
                 op, usr, tok, new, snap>>

RevokeSelect(r) ==
  /\ pc[r] = "revoke_select"
  /\ RowLocks => Unlocked(tok[r])
  /\ IF status[tok[r]] = "active"
       THEN TakeRow(r)
       ELSE Finish(r, RowTaken(r)) /\ UNCHANGED lock
  /\ UNCHANGED <<users, deleted, status, owner, age, held, history,
                 op, usr, tok, new, snap>>

\* revoke_by_jti, second half: UPDATE and COMMIT.
Revoked(j) == [status EXCEPT ![j] = "revoked"]

RevokeWrite(r) ==
  /\ pc[r] = "revoke_write"
  /\ status' = Revoked(tok[r])
  /\ lock' = IF RowLocks THEN [lock EXCEPT ![tok[r]] = None] ELSE lock
  /\ Goto(r, IF op[r] = "rotate" THEN "load_user" ELSE "respond")
  /\ UNCHANGED <<users, deleted, owner, age, held, history,
                 op, usr, tok, new, snap>>

\* The repositories refresh a row they have just committed, which fails when
\* the row was deleted in between.
MayFailToRefresh(r, j) == status[j] = "deleted" /\ Finish(r, "db_error")

\* rotate_refresh_token selects the user only after its token is revoked.
LoadUser(r) ==
  /\ pc[r] = "load_user"
  /\ \/ usr[r] \in users /\ Goto(r, "insert")
     \/ usr[r] \notin users /\ Finish(r, "invalid")
     \/ MayFailToRefresh(r, tok[r])
  /\ UNCHANGED <<rows, held, history, op, usr, tok, new, snap>>

\* issue_token_pair: a fresh jti, one row; the foreign key refuses a user that
\* was deleted meanwhile.
InsertToken(r, k) ==
  /\ pc[r] = "insert"
  /\ status[k] = "unissued"
  /\ RowLocks => usr[r] \in users
  /\ status' = [status EXCEPT ![k] = "active"]
  /\ owner' = [owner EXCEPT ![k] = usr[r]]
  /\ parent' = [parent EXCEPT ![k] = tok[r]]
  /\ root' = [root EXCEPT ![k] = IF op[r] = "rotate" THEN root[tok[r]] ELSE k]
  /\ new' = [new EXCEPT ![r] = k]
  /\ Goto(r, "respond")
  /\ UNCHANGED <<users, deleted, age, lock, held, op, usr, tok, snap>>

InsertRefused(r) ==
  /\ pc[r] = "insert"
  /\ RowLocks /\ usr[r] \notin users
  /\ Finish(r, "db_error")
  /\ UNCHANGED <<rows, held, history, op, usr, tok, new, snap>>

\* The response.  A refresh first reads the user back through the new access
\* token, and answers 401 when the user is gone.
Respond(r) ==
  /\ pc[r] = "respond"
  /\ \/ /\ op[r] = "logout"
        /\ (Finish(r, "ok") \/ MayFailToRefresh(r, tok[r]))
        /\ UNCHANGED held
     \/ /\ op[r] = "rotate" /\ usr[r] \notin users
        /\ (Finish(r, "invalid") \/ MayFailToRefresh(r, new[r]))
        /\ UNCHANGED held
     \/ /\ op[r] # "logout"
        /\ op[r] # "rotate" \/ usr[r] \in users
        /\ \/ Finish(r, "ok") /\ held' = held \union {new[r]}
           \/ MayFailToRefresh(r, new[r]) /\ UNCHANGED held
  /\ UNCHANGED <<rows, history, op, usr, tok, new, snap>>

\* revoke_all_by_user_id: SELECT without FOR UPDATE, then UPDATE.  The UPDATE
\* waits for row locks; a row that vanished makes the flush fail.
RevokeAll(r, u) ==
  /\ Accept(r, "revoke_all", u, None)
  /\ snap' = [snap EXCEPT ![r] = {j \in Jtis : owner[j] = u /\ status[j] = "active"}]
  /\ Goto(r, "revoke_all_write")
  /\ UNCHANGED <<rows, held, history, new>>

RevokeAllWrite(r) ==
  /\ pc[r] = "revoke_all_write"
  /\ \A j \in snap[r] : Unlocked(j)
  /\ IF \E j \in snap[r] : status[j] = "deleted"
       THEN Finish(r, "db_error") /\ UNCHANGED status
       ELSE /\ Finish(r, "ok")
            /\ status' = [j \in Jtis |-> IF j \in snap[r] THEN "revoked" ELSE status[j]]
  /\ UNCHANGED <<users, deleted, owner, age, lock, held, history,
                 op, usr, tok, new, snap>>

\* Mutant: the lock of a cancelled session is never released.
KeptLocks(r) == lock

\* The locks left when the session of r ends.
Released(r) == [j \in Jtis |-> IF lock[j] = r THEN None ELSE lock[j]]

\* Mutant: a failed rotation makes its token valid again.
AbortRestoring(r) ==
  /\ pc[r] \notin {"idle", "done"}
  /\ Finish(r, "aborted")
  /\ lock' = Released(r)
  /\ status' = IF op[r] = "rotate" /\ pc[r] = "load_user"
                 THEN [status EXCEPT ![tok[r]] = "active"] ELSE status
  /\ UNCHANGED <<users, deleted, owner, age, held, history, op, usr, tok, new, snap>>

\* The client goes away, the database fails or the process dies: the open
\* session rolls back, what earlier sessions committed stays.
Abort(r) ==
  /\ pc[r] \notin {"idle", "done"}
  /\ Finish(r, "aborted")
  /\ lock' = Released(r)
  /\ UNCHANGED <<users, deleted, status, owner, age, held, history,
                 op, usr, tok, new, snap>>

-----------------------------------------------------------------------------
(* The rest of the system.                                                 *)

\* An administrator deletes a user; ON DELETE CASCADE deletes its tokens and
\* waits for their row locks.
DeleteUser(u) ==
  /\ u \in users
  /\ RowLocks => \A j \in Jtis : owner[j] = u => Unlocked(j)
  /\ users' = users \ {u}
  /\ deleted' = deleted \union {u}
  /\ status' = [j \in Jtis |-> IF RowLocks /\ owner[j] = u THEN "deleted" ELSE status[j]]
  /\ UNCHANGED <<owner, age, lock, held, history, requests>>

\* Time passes for a token: expires_at first, then the decoder's leeway.
Lapse(j) ==
  /\ status[j] # "unissued"
  /\ age[j] < 2
  /\ age' = [age EXCEPT ![j] = @ + 1]
  /\ UNCHANGED <<users, deleted, status, owner, lock, held, history, requests>>

Start(r) == \/ \E u \in Users : Login(r, u) \/ Register(r, u) \/ RevokeAll(r, u)
            \/ \E j \in Jtis : Rotate(r, j) \/ Logout(r, j)

Step(r) == \/ RevokeSelect(r) \/ RevokeWrite(r) \/ LoadUser(r)
           \/ (\E k \in Jtis : InsertToken(r, k)) \/ InsertRefused(r)
           \/ Respond(r) \/ RevokeAllWrite(r)

Next == \/ \E r \in Reqs : Start(r) \/ Step(r) \/ Abort(r)
        \/ \E u \in Users : DeleteUser(u)
        \/ \E j \in Jtis : Lapse(j)

Spec == Init /\ [][Next]_vars

\* The event loop resumes every handler whose session answered.
FairSpec == Spec /\ \A r \in Reqs : WF_vars(Step(r))
-----------------------------------------------------------------------------
(* Properties.                                                             *)

\* The rotation of r has revoked its token and has not issued the successor.
Claiming(r) == op[r] = "rotate" /\ pc[r] \in {"load_user", "insert"}

\* rotate_refresh_token: a refresh token is exchanged at most once, whatever
\* rotations, logouts and deletions race for it.
SingleUse == \A j, k \in Jtis : parent[j] = parent[k] /\ parent[j] # None => j = k

\* Rotation never forks a login: of all the tokens that descend from one login
\* at most one can still be exchanged, and none while a rotation of that login
\* is between its revoke and its insert.
OneLiveTokenPerLogin ==
  /\ \A j, k \in Jtis :
       status[j] = "active" /\ status[k] = "active" /\ root[j] = root[k] => j = k
  /\ \A r \in Reqs, j \in Jtis :
       Claiming(r) /\ status[j] = "active" => root[j] # root[tok[r]]

\* A logout, or a bulk revocation that selected the token, succeeded.
Ended(j) == \E r \in Reqs : /\ out[r] = "ok"
                             /\ \/ op[r] = "logout" /\ tok[r] = j
                                \/ op[r] = "revoke_all" /\ j \in snap[r]

Claimed(j) == \E r \in Reqs : Claiming(r) /\ tok[r] = j

NoLateClaim == \A j \in Jtis : Ended(j) /\ ~Claimed(j) => ~Claimed(j)'

\* That success is final: unless a rotation had claimed the token before it was
\* revoked, none claims it any more.
LogoutIsFinal == [][NoLateClaim]_vars

\* A rotation that is interrupted spends its token: what it never does is
\* leave the client with both the old token and a successor exchangeable.
NeverBothExchangeable ==
  \A j, k \in Jtis : parent[k] = j /\ status[k] = "active" => status[j] # "active"

\* Every request is answered: the row locks are always released, also when
\* their holder is cancelled.
EveryRequestAnswered == \A r \in Reqs : pc[r] # "idle" ~> pc[r] = "done"

\* The component implements the exchange it promises, when the engine honours
\* row locks.
Exchange == INSTANCE TokenExchange
              WITH issued  <- {j \in Jtis : status[j] # "unissued"},
                   live    <- {j \in Jtis : status[j] = "active"},
                   claimed <- {j \in Jtis : Claimed(j)}

ImplementsExchange == Exchange!Spec
=============================================================================
