---------------------------- MODULE TokensProofs ----------------------------
(***************************************************************************)
(* Proofs about the two token realms, for every set of users, tokens and   *)
(* requests: first RefreshTokens (Basic holds on every engine, Family      *)
(* needs row locks), then AdminTokens, with row locks or without.  What is *)
(* known of the customer realm carries over: but for the creation of an    *)
(* account, every step of the administrators' realm is one of that.        *)
(***************************************************************************)
EXTENDS AdminTokens, TLAPS

Spent == {"revoked", "deleted"}

\* What the program counter of a request says of its operation.
Handlers ==
  \A r \in Reqs :
    /\ pc[r] \in {"revoke_select", "revoke_write"} => op[r] \in {"rotate", "logout"}
    /\ pc[r] = "load_user" => op[r] = "rotate"
    /\ pc[r] = "insert" => op[r] \in {"login", "register", "rotate"}
    /\ pc[r] = "revoke_all_write" => op[r] = "revoke_all"
    /\ pc[r] = "respond" => op[r] # "revoke_all"
    /\ pc[r] = "respond" /\ op[r] # "logout" => new[r] \in Jtis /\ status[new[r]] # "unissued"
    /\ op[r] \in {"rotate", "logout"} => tok[r] \in held
    /\ op[r] \in {"login", "register"} => tok[r] = None
    /\ out[r] = "ok" => pc[r] = "done"
    /\ \A j \in snap[r] : status[j] # "unissued"

\* A token has an owner and a login from the moment its row exists.
Tokens ==
  /\ \A j \in held : status[j] # "unissued"
  /\ \A j \in Jtis :
       IF status[j] = "unissued"
         THEN owner[j] = None /\ root[j] = None /\ parent[j] = None
         ELSE root[j] \in Jtis /\ status[root[j]] # "unissued"

\* A token that was claimed, exchanged, logged out or bulk-revoked is spent.
SpentByRotation ==
  /\ \A r \in Reqs : Claiming(r) => status[tok[r]] \in Spent
  /\ \A j, k \in Jtis : parent[k] = j => status[j] \in Spent

SpentByLogout ==
  \A r \in Reqs :
    op[r] = "logout" /\ (pc[r] = "respond" \/ out[r] = "ok") => status[tok[r]] \in Spent

SpentByBulk ==
  \A r \in Reqs :
    op[r] = "revoke_all" /\ out[r] = "ok" => \A j \in snap[r] : status[j] \in Spent

Spending == SpentByRotation /\ SpentByLogout /\ SpentByBulk

Basic == TypeOK /\ Handlers /\ Tokens /\ Spending

\* A request that passed the SELECT FOR UPDATE holds the lock of a row that is
\* still active.
Locking ==
  \A r \in Reqs : pc[r] = "revoke_write" => lock[tok[r]] = r /\ status[tok[r]] = "active"

\* No two rotations of a login are between revoke and insert, and none of them
\* works on a token that has a successor.
Claims ==
  /\ \A q, r \in Reqs : Claiming(q) /\ Claiming(r) /\ root[tok[q]] = root[tok[r]] => q = r
  /\ \A k \in Jtis, r \in Reqs : Claiming(r) => parent[k] # tok[r]

Family == OneLiveTokenPerLogin /\ Claims /\ SingleUse

\* The strengthening: OneLiveTokenPerLogin and SingleUse are not inductive, a
\* rotation between its two halves needs Locking and Claims.
IInv == Basic /\ Locking /\ Family

-----------------------------------------------------------------------------
(* Basic, on every engine.                                                 *)

LEMMA TokenStateType ==
  ASSUME NEW j \in Jtis
  PROVE  TokenState(j) \in {"expired", "invalid", "revoked", "lapsed", "active"}
  BY DEF TokenState

LEMMA RevokedTokenState ==
  ASSUME NEW j \in Jtis, TokenState(j) = "revoked"
  PROVE  status[j] = "revoked"
  BY DEF TokenState

LEMMA BasicInit == Init => Basic
  BY NoneAssumption DEF Init, Basic, TypeOK, Handlers, Tokens, Spending, Claiming, Labels, Ops,
     Outcomes, SpentByRotation, SpentByLogout, SpentByBulk

\* Every step keeps the types; of the rest only the program counters are needed.
LEMMA TypeStep == Basic /\ [Next]_vars => TypeOK'
<1> SUFFICES ASSUME Basic, [Next]_vars PROVE TypeOK'
  OBVIOUS
<1> USE DEF Basic, TypeOK, Labels, Ops, Outcomes, Goto, Finish, Accept, rows, history, requests
<1>1. ASSUME NEW r \in Reqs, NEW u \in Users, Login(r, u) \/ Register(r, u) \/ RevokeAll(r, u)
      PROVE  TypeOK'
  BY <1>1 DEF Login, Register, RevokeAll
<1>2. ASSUME NEW r \in Reqs, NEW j \in Jtis, Rotate(r, j) \/ Logout(r, j)
      PROVE  TypeOK'
  BY <1>2, TokenStateType DEF Rotate, Logout
<1>3. ASSUME NEW r \in Reqs, RevokeSelect(r)
      PROVE  TypeOK'
  BY <1>3 DEF RevokeSelect, TakeRow, RowTaken
<1>4. ASSUME NEW r \in Reqs, RevokeWrite(r)
      PROVE  TypeOK'
  BY <1>4 DEF RevokeWrite, Revoked
<1>5. ASSUME NEW r \in Reqs, LoadUser(r) \/ InsertRefused(r)
      PROVE  TypeOK'
  BY <1>5 DEF LoadUser, InsertRefused, MayFailToRefresh
<1>6. ASSUME NEW r \in Reqs, NEW k \in Jtis, InsertToken(r, k)
      PROVE  TypeOK'
  BY <1>6 DEF InsertToken, Handlers
<1>7. ASSUME NEW r \in Reqs, Respond(r)
      PROVE  TypeOK'
  BY <1>7 DEF Respond, MayFailToRefresh, Handlers
<1>8. ASSUME NEW r \in Reqs, RevokeAllWrite(r)
      PROVE  TypeOK'
  BY <1>8 DEF RevokeAllWrite
<1>9. ASSUME NEW r \in Reqs, Abort(r)
      PROVE  TypeOK'
  BY <1>9 DEF Abort, Released
<1>10. ASSUME NEW u \in Users, DeleteUser(u)
      PROVE  TypeOK'
  BY <1>10 DEF DeleteUser
<1>11. CASE (\E j \in Jtis : Lapse(j)) \/ UNCHANGED vars
  BY <1>11 DEF Lapse, vars
<1> QED
  BY <1>1, <1>2, <1>3, <1>4, <1>5, <1>6, <1>7, <1>8, <1>9, <1>10, <1>11 DEF Next, Start, Step

\* A token's owner and login are fixed when its row is inserted and survive its
\* revocation and deletion.
LEMMA BookkeepingStep == Basic /\ [Next]_vars => Handlers' /\ Tokens'
<1> SUFFICES ASSUME Basic, [Next]_vars PROVE Handlers' /\ Tokens'
  OBVIOUS
<1> USE NoneAssumption DEF Basic, TypeOK, Handlers, Tokens, Goto, Finish, Accept, rows, history,
        requests
<1>1. ASSUME NEW r \in Reqs, NEW u \in Users, Login(r, u) \/ Register(r, u) \/ RevokeAll(r, u)
      PROVE  Handlers' /\ Tokens'
  BY <1>1 DEF Login, Register, RevokeAll
<1>2. ASSUME NEW r \in Reqs, NEW j \in Jtis, Rotate(r, j) \/ Logout(r, j)
      PROVE  Handlers' /\ Tokens'
  BY <1>2, TokenStateType DEF Rotate, Logout
<1>3. ASSUME NEW r \in Reqs, RevokeSelect(r)
      PROVE  Handlers' /\ Tokens'
  BY <1>3 DEF RevokeSelect, TakeRow, RowTaken
<1>4. ASSUME NEW r \in Reqs, RevokeWrite(r)
      PROVE  Handlers' /\ Tokens'
  BY <1>4 DEF RevokeWrite, Revoked
<1>5. ASSUME NEW r \in Reqs, LoadUser(r) \/ InsertRefused(r)
      PROVE  Handlers' /\ Tokens'
  BY <1>5 DEF LoadUser, InsertRefused, MayFailToRefresh
<1>6. ASSUME NEW r \in Reqs, NEW k \in Jtis, InsertToken(r, k)
      PROVE  Handlers' /\ Tokens'
  BY <1>6 DEF InsertToken
<1>7. ASSUME NEW r \in Reqs, Respond(r)
      PROVE  Handlers' /\ Tokens'
  BY <1>7 DEF Respond, MayFailToRefresh
<1>8. ASSUME NEW r \in Reqs, RevokeAllWrite(r)
      PROVE  Handlers' /\ Tokens'
  BY <1>8 DEF RevokeAllWrite
<1>9. ASSUME NEW r \in Reqs, Abort(r)
      PROVE  Handlers' /\ Tokens'
  BY <1>9 DEF Abort, Released
<1>10. ASSUME NEW u \in Users, DeleteUser(u)
      PROVE  Handlers' /\ Tokens'
  BY <1>10 DEF DeleteUser
<1>11. CASE (\E j \in Jtis : Lapse(j)) \/ UNCHANGED vars
  BY <1>11 DEF Lapse, vars
<1> QED
  BY <1>1, <1>2, <1>3, <1>4, <1>5, <1>6, <1>7, <1>8, <1>9, <1>10, <1>11 DEF Next, Start, Step

\* Nothing makes a spent token active again, and what spends a token does so
\* before it reports it.
LEMMA SpendingStep == Basic /\ [Next]_vars => Spending'
<1> SUFFICES ASSUME Basic, [Next]_vars PROVE Spending'
  OBVIOUS
<1> USE NoneAssumption DEF Basic, TypeOK, Handlers, Tokens, Spending, Spent, Claiming, Goto, Finish,
        Accept, rows, history, requests
<1>1. ASSUME NEW r \in Reqs, NEW u \in Users, Login(r, u) \/ Register(r, u) \/ RevokeAll(r, u)
      PROVE  Spending'
  <2>1. SpentByRotation'
    BY <1>1 DEF Login, Register, RevokeAll, SpentByRotation
  <2>2. SpentByLogout'
    BY <1>1 DEF Login, Register, RevokeAll, SpentByLogout
  <2>3. SpentByBulk'
    BY <1>1 DEF Login, Register, RevokeAll, SpentByBulk
  <2> QED
    BY <2>1, <2>2, <2>3
<1>2. ASSUME NEW r \in Reqs, NEW j \in Jtis, Rotate(r, j) \/ Logout(r, j)
      PROVE  Spending'
  <2>1. SpentByRotation'
    BY <1>2, RevokedTokenState, TokenStateType DEF Rotate, Logout, SpentByRotation
  <2>2. SpentByLogout'
    BY <1>2, RevokedTokenState, TokenStateType DEF Rotate, Logout, SpentByLogout
  <2>3. SpentByBulk'
    BY <1>2, RevokedTokenState, TokenStateType DEF Rotate, Logout, SpentByBulk
  <2> QED
    BY <2>1, <2>2, <2>3
<1>3. ASSUME NEW r \in Reqs, RevokeSelect(r)
      PROVE  Spending'
  <2>1. SpentByRotation'
    BY <1>3 DEF RevokeSelect, TakeRow, RowTaken, SpentByRotation
  <2>2. SpentByLogout'
    BY <1>3 DEF RevokeSelect, TakeRow, RowTaken, SpentByLogout
  <2>3. SpentByBulk'
    BY <1>3 DEF RevokeSelect, TakeRow, RowTaken, SpentByBulk
  <2> QED
    BY <2>1, <2>2, <2>3
<1>4. ASSUME NEW r \in Reqs, RevokeWrite(r)
      PROVE  Spending'
  <2>1. SpentByRotation'
    BY <1>4 DEF RevokeWrite, Revoked, SpentByRotation
  <2>2. SpentByLogout'
    BY <1>4 DEF RevokeWrite, Revoked, SpentByLogout
  <2>3. SpentByBulk'
    BY <1>4 DEF RevokeWrite, Revoked, SpentByBulk
  <2> QED
    BY <2>1, <2>2, <2>3
<1>5. ASSUME NEW r \in Reqs, LoadUser(r) \/ InsertRefused(r)
      PROVE  Spending'
  <2>1. SpentByRotation'
    BY <1>5 DEF LoadUser, InsertRefused, MayFailToRefresh, SpentByRotation
  <2>2. SpentByLogout'
    BY <1>5 DEF LoadUser, InsertRefused, MayFailToRefresh, SpentByLogout
  <2>3. SpentByBulk'
    BY <1>5 DEF LoadUser, InsertRefused, MayFailToRefresh, SpentByBulk
  <2> QED
    BY <2>1, <2>2, <2>3
<1>6. ASSUME NEW r \in Reqs, NEW k \in Jtis, InsertToken(r, k)
      PROVE  Spending'
  <2>1. SpentByRotation'
    BY <1>6 DEF InsertToken, SpentByRotation
  <2>2. SpentByLogout'
    BY <1>6 DEF InsertToken, SpentByLogout
  <2>3. SpentByBulk'
    BY <1>6 DEF InsertToken, SpentByBulk
  <2> QED
    BY <2>1, <2>2, <2>3
<1>7. ASSUME NEW r \in Reqs, Respond(r)
      PROVE  Spending'
  <2>1. SpentByRotation'
    BY <1>7 DEF Respond, MayFailToRefresh, SpentByRotation
  <2>2. SpentByLogout'
    BY <1>7 DEF Respond, MayFailToRefresh, SpentByLogout
  <2>3. SpentByBulk'
    BY <1>7 DEF Respond, MayFailToRefresh, SpentByBulk
  <2> QED
    BY <2>1, <2>2, <2>3
<1>8. ASSUME NEW r \in Reqs, RevokeAllWrite(r)
      PROVE  Spending'
  <2>0. \A j \in Jtis : status[j] \in Spent => status'[j] \in Spent
    BY <1>8 DEF RevokeAllWrite
  <2>1. SpentByRotation'
    BY <1>8, <2>0 DEF RevokeAllWrite, SpentByRotation
  <2>2. SpentByLogout'
    BY <1>8, <2>0 DEF RevokeAllWrite, SpentByLogout
  <2>3. SpentByBulk'
    BY <1>8, <2>0 DEF RevokeAllWrite, SpentByBulk
  <2> QED
    BY <2>1, <2>2, <2>3
<1>9. ASSUME NEW r \in Reqs, Abort(r)
      PROVE  Spending'
  <2>1. SpentByRotation'
    BY <1>9 DEF Abort, Released, SpentByRotation
  <2>2. SpentByLogout'
    BY <1>9 DEF Abort, Released, SpentByLogout
  <2>3. SpentByBulk'
    BY <1>9 DEF Abort, Released, SpentByBulk
  <2> QED
    BY <2>1, <2>2, <2>3
<1>10. ASSUME NEW u \in Users, DeleteUser(u)
      PROVE  Spending'
  <2>1. SpentByRotation'
    BY <1>10 DEF DeleteUser, SpentByRotation
  <2>2. SpentByLogout'
    BY <1>10 DEF DeleteUser, SpentByLogout
  <2>3. SpentByBulk'
    BY <1>10 DEF DeleteUser, SpentByBulk
  <2> QED
    BY <2>1, <2>2, <2>3
<1>11. CASE (\E j \in Jtis : Lapse(j)) \/ UNCHANGED vars
  BY <1>11 DEF Lapse, vars, SpentByRotation, SpentByLogout, SpentByBulk
<1> QED
  BY <1>1, <1>2, <1>3, <1>4, <1>5, <1>6, <1>7, <1>8, <1>9, <1>10, <1>11 DEF Next, Start, Step

LEMMA BasicInvariant == Spec => []Basic
<1>1. Basic /\ [Next]_vars => Basic'
  BY TypeStep, BookkeepingStep, SpendingStep DEF Basic
<1> QED
  BY <1>1, BasicInit, PTL DEF Spec

-----------------------------------------------------------------------------
(* Locking and Family, on an engine with row locks.                        *)

LEMMA FamilyInit == Init => Locking /\ Family
  BY NoneAssumption DEF Init, Locking, Family, Claims, SingleUse, OneLiveTokenPerLogin, Claiming

\* A request between SELECT FOR UPDATE and UPDATE keeps the lock, and the row
\* stays active, whoever else moves.
LEMMA LockingStep == RowLocks /\ Basic /\ Locking /\ [Next]_vars => Locking'
<1> SUFFICES ASSUME RowLocks, Basic, Locking, [Next]_vars PROVE Locking'
  OBVIOUS
<1> USE NoneAssumption DEF Basic, TypeOK, Handlers, Tokens, Locking, Unlocked, Goto, Finish, Accept,
        rows, history, requests
<1>1. ASSUME NEW r \in Reqs, NEW u \in Users, Login(r, u) \/ Register(r, u) \/ RevokeAll(r, u)
      PROVE  Locking'
  BY <1>1 DEF Login, Register, RevokeAll
<1>2. ASSUME NEW r \in Reqs, NEW j \in Jtis, Rotate(r, j) \/ Logout(r, j)
      PROVE  Locking'
  BY <1>2 DEF Rotate, Logout
<1>3. ASSUME NEW r \in Reqs, RevokeSelect(r)
      PROVE  Locking'
  BY <1>3 DEF RevokeSelect, TakeRow, RowTaken
<1>4. ASSUME NEW r \in Reqs, RevokeWrite(r)
      PROVE  Locking'
  BY <1>4 DEF RevokeWrite, Revoked
<1>5. ASSUME NEW r \in Reqs, LoadUser(r) \/ InsertRefused(r)
      PROVE  Locking'
  BY <1>5 DEF LoadUser, InsertRefused, MayFailToRefresh
<1>6. ASSUME NEW r \in Reqs, NEW k \in Jtis, InsertToken(r, k)
      PROVE  Locking'
  BY <1>6 DEF InsertToken
<1>7. ASSUME NEW r \in Reqs, Respond(r)
      PROVE  Locking'
  BY <1>7 DEF Respond, MayFailToRefresh
<1>8. ASSUME NEW r \in Reqs, RevokeAllWrite(r)
      PROVE  Locking'
  BY <1>8 DEF RevokeAllWrite
<1>9. ASSUME NEW r \in Reqs, Abort(r)
      PROVE  Locking'
  BY <1>9 DEF Abort, Released
<1>10. ASSUME NEW u \in Users, DeleteUser(u)
      PROVE  Locking'
  BY <1>10 DEF DeleteUser
<1>11. CASE (\E j \in Jtis : Lapse(j)) \/ UNCHANGED vars
  BY <1>11 DEF Lapse, vars
<1> QED
  BY <1>1, <1>2, <1>3, <1>4, <1>5, <1>6, <1>7, <1>8, <1>9, <1>10, <1>11 DEF Next, Start, Step

\* A step that makes no claim and leaves the rows alone keeps the family facts.
LEMMA NoNewClaim ==
  ASSUME Family, UNCHANGED <<status, parent, root>>,
         \A q \in Reqs : Claiming(q)' => Claiming(q) /\ tok'[q] = tok[q]
  PROVE  Family'
  BY DEF Family, OneLiveTokenPerLogin, Claims, SingleUse

\* One rotation at a time per login: only RevokeWrite makes a claim, of a row
\* that Locking says was active until then, and only InsertToken turns one into
\* a successor.
LEMMA FamilyStep == RowLocks /\ IInv /\ [Next]_vars => Family'
<1> SUFFICES ASSUME RowLocks, IInv, [Next]_vars PROVE Family'
  OBVIOUS
<1> USE NoneAssumption DEF IInv, Basic, TypeOK, Goto, Finish, Accept, rows, history, requests
<1>1. ASSUME NEW r \in Reqs, NEW u \in Users, Login(r, u) \/ Register(r, u) \/ RevokeAll(r, u)
      PROVE  Family'
  <2>1. \A q \in Reqs : Claiming(q)' => Claiming(q) /\ tok'[q] = tok[q]
    BY <1>1 DEF Login, Register, RevokeAll, Claiming
  <2>2. UNCHANGED <<status, parent, root>>
    BY <1>1 DEF Login, Register, RevokeAll
  <2> QED
    BY <2>1, <2>2, NoNewClaim
<1>2. ASSUME NEW r \in Reqs, NEW j \in Jtis, Rotate(r, j) \/ Logout(r, j)
      PROVE  Family'
  <2>1. \A q \in Reqs : Claiming(q)' => Claiming(q) /\ tok'[q] = tok[q]
    BY <1>2 DEF Rotate, Logout, Claiming
  <2>2. UNCHANGED <<status, parent, root>>
    BY <1>2 DEF Rotate, Logout
  <2> QED
    BY <2>1, <2>2, NoNewClaim
<1>3. ASSUME NEW r \in Reqs, RevokeSelect(r)
      PROVE  Family'
  <2>1. \A q \in Reqs : Claiming(q)' => Claiming(q) /\ tok'[q] = tok[q]
    BY <1>3 DEF RevokeSelect, TakeRow, RowTaken, Claiming
  <2>2. UNCHANGED <<status, parent, root>>
    BY <1>3 DEF RevokeSelect
  <2> QED
    BY <2>1, <2>2, NoNewClaim
<1>4. ASSUME NEW r \in Reqs, RevokeWrite(r)
      PROVE  Family'
  <2> USE DEF Family, OneLiveTokenPerLogin, Claims, SingleUse, RevokeWrite, Revoked
  <2>1. tok[r] \in Jtis /\ status[tok[r]] = "active"
    BY <1>4 DEF Locking, Handlers
  <2>2. OneLiveTokenPerLogin'
    BY <1>4, <2>1 DEF Claiming
  <2>3. Claims'
    BY <1>4, <2>1 DEF Claiming, Spending, SpentByRotation, Spent
  <2>4. SingleUse'
    BY <1>4
  <2> QED
    BY <2>2, <2>3, <2>4
<1>5. ASSUME NEW r \in Reqs, LoadUser(r) \/ InsertRefused(r)
      PROVE  Family'
  <2>1. \A q \in Reqs : Claiming(q)' => Claiming(q) /\ tok'[q] = tok[q]
    BY <1>5 DEF LoadUser, InsertRefused, MayFailToRefresh, Claiming
  <2>2. UNCHANGED <<status, parent, root>>
    BY <1>5 DEF LoadUser, InsertRefused
  <2> QED
    BY <2>1, <2>2, NoNewClaim
<1>6. ASSUME NEW r \in Reqs, NEW k \in Jtis, InsertToken(r, k)
      PROVE  Family'
  <2> USE DEF Family, OneLiveTokenPerLogin, Claims, SingleUse, InsertToken, Handlers, Tokens, Spending,
         SpentByRotation, Spent
  <2>1. OneLiveTokenPerLogin'
    BY <1>6 DEF Claiming
  <2>2. Claims'
    BY <1>6 DEF Claiming
  <2>3. SingleUse'
    BY <1>6 DEF Claiming
  <2> QED
    BY <2>1, <2>2, <2>3
<1>7. ASSUME NEW r \in Reqs, Respond(r)
      PROVE  Family'
  <2>1. \A q \in Reqs : Claiming(q)' => Claiming(q) /\ tok'[q] = tok[q]
    BY <1>7 DEF Respond, MayFailToRefresh, Claiming
  <2>2. UNCHANGED <<status, parent, root>>
    BY <1>7 DEF Respond
  <2> QED
    BY <2>1, <2>2, NoNewClaim
<1>8. ASSUME NEW r \in Reqs, RevokeAllWrite(r)
      PROVE  Family'
  BY <1>8 DEF RevokeAllWrite, Family, OneLiveTokenPerLogin, Claims, SingleUse, Claiming, Handlers, Tokens
<1>9. ASSUME NEW r \in Reqs, Abort(r)
      PROVE  Family'
  <2>1. \A q \in Reqs : Claiming(q)' => Claiming(q) /\ tok'[q] = tok[q]
    BY <1>9 DEF Abort, Released, Claiming
  <2>2. UNCHANGED <<status, parent, root>>
    BY <1>9 DEF Abort
  <2> QED
    BY <2>1, <2>2, NoNewClaim
<1>10. ASSUME NEW u \in Users, DeleteUser(u)
      PROVE  Family'
  BY <1>10 DEF DeleteUser, Family, OneLiveTokenPerLogin, Claims, SingleUse, Claiming, Handlers, Tokens
<1>11. CASE (\E j \in Jtis : Lapse(j)) \/ UNCHANGED vars
  BY <1>11, NoNewClaim DEF Lapse, vars, Claiming
<1> QED
  BY <1>1, <1>2, <1>3, <1>4, <1>5, <1>6, <1>7, <1>8, <1>9, <1>10, <1>11 DEF Next, Start, Step

LEMMA Invariant == ASSUME RowLocks PROVE Spec => []IInv
<1>1. Init => IInv
  BY BasicInit, FamilyInit DEF IInv
<1>2. IInv /\ [Next]_vars => IInv'
  BY TypeStep, BookkeepingStep, SpendingStep, LockingStep, FamilyStep DEF IInv, Basic
<1> QED
  BY <1>1, <1>2, PTL DEF Spec

-----------------------------------------------------------------------------
(* The properties.                                                         *)

\* The state of every request and of every token row stays in its type.
THEOREM TypeCorrect == Spec => []TypeOK
<1>1. Basic => TypeOK
  BY DEF Basic
<1> QED
  BY <1>1, BasicInvariant, PTL

\* The old token and its successor are never both exchangeable, whichever
\* request is interrupted where, on every engine: rotate_refresh_token revokes
\* before it issues.
THEOREM NeverBothCorrect == Spec => []NeverBothExchangeable
<1>1. Basic => NeverBothExchangeable
  BY DEF Basic, Spending, SpentByRotation, Spent, NeverBothExchangeable
<1> QED
  BY <1>1, BasicInvariant, PTL

\* rotate_refresh_token exchanges a refresh token at most once on an engine
\* that honours SELECT FOR UPDATE, for any number of concurrent requests.
THEOREM SingleUseCorrect == ASSUME RowLocks PROVE Spec => []SingleUse
<1>1. IInv => SingleUse
  BY DEF IInv, Family
<1> QED
  BY <1>1, Invariant, PTL

\* Rotation never forks a login: there is at most one exchangeable token per
\* login.
THEOREM OneLiveTokenCorrect == ASSUME RowLocks PROVE Spec => []OneLiveTokenPerLogin
<1>1. IInv => OneLiveTokenPerLogin
  BY DEF IInv, Family
<1> QED
  BY <1>1, Invariant, PTL

\* A successful logout or bulk revocation is final: no rotation claims the
\* token any more.
THEOREM LogoutFinal == ASSUME RowLocks PROVE Spec => LogoutIsFinal
<1>1. IInv /\ [Next]_vars => NoLateClaim
  <2> SUFFICES ASSUME IInv, [Next]_vars, NEW j \in Jtis, Ended(j), ~Claimed(j),
                      NEW r \in Reqs, Claiming(r)', tok'[r] = j
               PROVE  FALSE
    BY DEF NoLateClaim, Claimed
  <2>1. status[j] \in Spent
    BY DEF IInv, Basic, Spending, SpentByLogout, SpentByBulk, Ended
  <2>2. RevokeWrite(r)
    BY DEF IInv, Basic, TypeOK, Next, Start, Step, Claimed, Claiming, Goto, Finish, Accept, Login,
       Register, RevokeAll, Rotate, Logout, RevokeSelect, TakeRow, LoadUser, InsertToken,
       InsertRefused, Respond, MayFailToRefresh, RevokeAllWrite, Abort, DeleteUser, Lapse,
       RevokeWrite, rows, history, requests, vars
  <2>3. status[tok[r]] = "active" /\ tok[r] = j
    BY <2>2 DEF IInv, Locking, RevokeWrite
  <2> QED
    BY <2>1, <2>3 DEF Spent
<1> QED
  BY <1>1, Invariant, PTL DEF Spec, LogoutIsFinal

-----------------------------------------------------------------------------
(* RefreshTokens implements TokenExchange.                                 *)

SameClaims == \A q \in Reqs : /\ Claiming(q)' <=> Claiming(q)
                              /\ Claiming(q) => tok'[q] = tok[q]

LEMMA Stutter ==
  ASSUME UNCHANGED <<status, parent>>, SameClaims
  PROVE  UNCHANGED Exchange!vars
  BY DEF Exchange!vars, SameClaims, Claimed

\* A rotation that fails after its claim abandons it; Claims says nobody else
\* holds the same token.
LEMMA Abandoned ==
  ASSUME IInv, UNCHANGED <<status, parent>>, NEW r \in Reqs,
         \A q \in Reqs : /\ Claiming(q)' <=> Claiming(q) /\ q # r
                         /\ Claiming(q) => tok'[q] = tok[q]
  PROVE  [Exchange!Next]_Exchange!vars
<1>1. CASE Claiming(r)
  <2>1. tok[r] \in Jtis
    BY <1>1 DEF IInv, Basic, Handlers, TypeOK, Claiming
  <2>2. \A q \in Reqs : Claiming(q) /\ tok[q] = tok[r] => q = r
    BY <1>1 DEF IInv, Family, Claims
  <2>3. Exchange!Abandon(tok[r])
    BY <1>1, <2>1, <2>2 DEF Exchange!Abandon, Claimed
  <2> QED
    BY <2>1, <2>3 DEF Exchange!Next
<1>2. CASE ~Claiming(r)
  BY <1>2, Stutter DEF SameClaims
<1> QED
  BY <1>1, <1>2

\* A step that only takes tokens out of circulation.
LEMMA Killed ==
  ASSUME IInv, SameClaims, UNCHANGED parent,
         \A j \in Jtis : /\ status'[j] = "active" => status[j] = "active"
                         /\ status'[j] = "unissued" <=> status[j] = "unissued"
  PROVE  Exchange!Next
<1>1. PICK S \in SUBSET {j \in Jtis : status[j] = "active"} :
           S = {j \in Jtis : status[j] = "active" /\ status'[j] # "active"}
  OBVIOUS
<1>2. Exchange!Kill(S)
  BY <1>1 DEF Exchange!Kill, SameClaims, Claimed
<1> QED
  BY <1>2 DEF Exchange!Next

LEMMA ExchangeStep ==
  RowLocks /\ IInv /\ [Next]_vars => [Exchange!Next]_Exchange!vars
<1> DEFINE Goal == [Exchange!Next]_Exchange!vars
<1> SUFFICES ASSUME RowLocks, IInv, [Next]_vars PROVE Goal
  OBVIOUS
<1> HIDE DEF Goal
<1>0. TypeOK
  BY DEF IInv, Basic
<1> USE DEF TypeOK, Goto, Finish, Accept, rows, history, requests
<1>1. ASSUME NEW r \in Reqs, NEW u \in Users, Login(r, u) \/ Register(r, u) \/ RevokeAll(r, u)
      PROVE  Goal
  <2>1. SameClaims
    BY <1>0, <1>1 DEF Login, Register, RevokeAll, Claiming, SameClaims
  <2>2. UNCHANGED <<status, parent>>
    BY <1>1 DEF Login, Register, RevokeAll
  <2> QED
    BY <2>1, <2>2, Stutter DEF Goal
<1>2. ASSUME NEW r \in Reqs, NEW j \in Jtis, Rotate(r, j) \/ Logout(r, j)
      PROVE  Goal
  <2>1. SameClaims
    BY <1>0, <1>2 DEF Rotate, Logout, Claiming, SameClaims
  <2>2. UNCHANGED <<status, parent>>
    BY <1>2 DEF Rotate, Logout
  <2> QED
    BY <2>1, <2>2, Stutter DEF Goal
<1>3. ASSUME NEW r \in Reqs, RevokeSelect(r)
      PROVE  Goal
  <2>1. SameClaims
    BY <1>0, <1>3 DEF RevokeSelect, TakeRow, RowTaken, Claiming, SameClaims
  <2>2. UNCHANGED <<status, parent>>
    BY <1>3 DEF RevokeSelect
  <2> QED
    BY <2>1, <2>2, Stutter DEF Goal
<1>4. ASSUME NEW r \in Reqs, RevokeWrite(r)
      PROVE  Goal
  <2>1. tok[r] \in Jtis /\ status[tok[r]] = "active"
    BY <1>0, <1>4 DEF IInv, Basic, Locking, Handlers, RevokeWrite
  <2>2. UNCHANGED parent /\ status' = Revoked(tok[r])
    BY <1>4 DEF RevokeWrite
  <2>3. CASE op[r] = "rotate"
    <3>1. \A q \in Reqs : /\ Claiming(q)' <=> Claiming(q) \/ q = r
                          /\ tok'[q] = tok[q]
      BY <1>0, <1>4, <2>3 DEF RevokeWrite, Claiming
    <3>2. PICK j \in Jtis : j = tok[r]
      BY <2>1
    <3>3. Exchange!Claim(j)
      BY <1>0, <2>1, <2>2, <3>1, <3>2 DEF Exchange!Claim, Revoked, Claimed
    <3> QED
      BY <3>3 DEF Exchange!Next, Goal
  <2>4. CASE op[r] # "rotate"
    <3>1. SameClaims
      BY <1>0, <1>4, <2>4 DEF RevokeWrite, Claiming, SameClaims
    <3> QED
      BY <1>0, <2>1, <2>2, <3>1, Killed DEF Revoked, Goal
  <2> QED
    BY <2>3, <2>4
<1>5. ASSUME NEW r \in Reqs, LoadUser(r) \/ InsertRefused(r)
      PROVE  Goal
  <2>1. UNCHANGED <<status, parent>>
    BY <1>5 DEF LoadUser, InsertRefused
  <2>2. CASE LoadUser(r) /\ pc'[r] = "insert"
    <3>1. SameClaims
      BY <1>0, <2>2 DEF LoadUser, MayFailToRefresh, Claiming, SameClaims
    <3> QED
      BY <2>1, <3>1, Stutter DEF Goal
  <2>3. CASE ~(LoadUser(r) /\ pc'[r] = "insert")
    <3>1. \A q \in Reqs : /\ Claiming(q)' <=> Claiming(q) /\ q # r
                          /\ Claiming(q) => tok'[q] = tok[q]
      BY <1>0, <1>5, <2>3 DEF LoadUser, InsertRefused, MayFailToRefresh, Claiming
    <3> QED
      BY <2>1, <3>1, Abandoned DEF Goal
  <2> QED
    BY <2>2, <2>3
<1>6. ASSUME NEW r \in Reqs, NEW k \in Jtis, InsertToken(r, k)
      PROVE  Goal
  <2>1. CASE op[r] = "rotate"
    <3>1. Claiming(r) /\ tok[r] \in Jtis
      BY <1>0, <1>6, <2>1 DEF InsertToken, Claiming, IInv, Basic, Handlers
    <3>2. \A q \in Reqs : /\ Claiming(q)' <=> Claiming(q) /\ q # r
                          /\ tok'[q] = tok[q]
      BY <1>0, <1>6, <2>1 DEF InsertToken, Claiming
    <3>3. \A q \in Reqs : Claiming(q) /\ tok[q] = tok[r] => q = r
      BY <3>1 DEF IInv, Family, Claims
    <3>4. Exchange!Exchange(tok[r], k)
      BY <1>0, <1>6, <3>1, <3>2, <3>3 DEF Exchange!Exchange, InsertToken, Claimed
    <3> QED
      BY <3>1, <3>4 DEF Exchange!Next, Goal
  <2>2. CASE op[r] # "rotate"
    <3>1. tok[r] = None /\ parent[k] = None
      BY <1>0, <1>6, <2>2 DEF InsertToken, IInv, Basic, Handlers, Tokens
    <3>2. SameClaims
      BY <1>0, <1>6, <2>2 DEF InsertToken, Claiming, SameClaims
    <3>3. Exchange!Issue(k)
      BY <1>0, <1>6, <3>1, <3>2 DEF Exchange!Issue, InsertToken, Claimed, SameClaims
    <3> QED
      BY <3>3 DEF Exchange!Next, Goal
  <2> QED
    BY <2>1, <2>2
<1>7. ASSUME NEW r \in Reqs, Respond(r)
      PROVE  Goal
  <2>1. SameClaims
    BY <1>0, <1>7 DEF Respond, MayFailToRefresh, Claiming, SameClaims
  <2>2. UNCHANGED <<status, parent>>
    BY <1>7 DEF Respond
  <2> QED
    BY <2>1, <2>2, Stutter DEF Goal
<1>8. ASSUME NEW r \in Reqs, RevokeAllWrite(r)
      PROVE  Goal
  <2>1. SameClaims /\ UNCHANGED parent
    BY <1>0, <1>8 DEF RevokeAllWrite, Claiming, SameClaims, IInv, Basic, Handlers
  <2>2. \A j \in Jtis : /\ status'[j] = "active" => status[j] = "active"
                        /\ status'[j] = "unissued" <=> status[j] = "unissued"
    BY <1>0, <1>8, NoneAssumption DEF RevokeAllWrite, IInv, Basic, Handlers, Tokens
  <2> QED
    BY <2>1, <2>2, Killed DEF Goal
<1>9. ASSUME NEW r \in Reqs, Abort(r)
      PROVE  Goal
  <2>1. UNCHANGED <<status, parent>>
    BY <1>9 DEF Abort
  <2>2. \A q \in Reqs : /\ Claiming(q)' <=> Claiming(q) /\ q # r
                        /\ Claiming(q) => tok'[q] = tok[q]
    BY <1>0, <1>9 DEF Abort, Claiming
  <2> QED
    BY <2>1, <2>2, Abandoned DEF Goal
<1>10. ASSUME NEW u \in Users, DeleteUser(u)
      PROVE  Goal
  <2>1. SameClaims /\ UNCHANGED parent
    BY <1>0, <1>10 DEF DeleteUser, Claiming, SameClaims
  <2>2. \A j \in Jtis : /\ status'[j] = "active" => status[j] = "active"
                        /\ status'[j] = "unissued" <=> status[j] = "unissued"
    BY <1>0, <1>10, NoneAssumption DEF DeleteUser, IInv, Basic, Handlers, Tokens
  <2> QED
    BY <2>1, <2>2, Killed DEF Goal
<1>11. CASE (\E j \in Jtis : Lapse(j)) \/ UNCHANGED vars
  <2>1. SameClaims /\ UNCHANGED <<status, parent>>
    BY <1>11 DEF Lapse, vars, Claiming, SameClaims
  <2> QED
    BY <2>1, Stutter DEF Goal
<1> QED
  BY <1>1, <1>2, <1>3, <1>4, <1>5, <1>6, <1>7, <1>8, <1>9, <1>10, <1>11 DEF Next, Start, Step

\* On an engine with row locks AuthService over RefreshTokenRepository implements
\* the exchange: every session of every request is a step of TokenExchange or a
\* stutter.
THEOREM ExchangeImplemented == ASSUME RowLocks PROVE Spec => ImplementsExchange
<1>1. Init => Exchange!Init
  BY DEF Init, Exchange!Init, Claimed, Claiming
<1>2. IInv /\ [Next]_vars => [Exchange!Next]_Exchange!vars
  BY ExchangeStep
<1> QED
  BY <1>1, <1>2, Invariant, PTL DEF Spec, ImplementsExchange, Exchange!Spec

-----------------------------------------------------------------------------
(* The administrators' realm. *)

\* A password change is on its way to the revocation, or in it.
Changing ==
  \A r \in Reqs :
    /\ op[r] # "register"
    /\ change[r] \in {"update", "revoke", "failed"} => pc[r] = "idle"
    /\ change[r] = "revoking" => op[r] = "revoke_all" /\ pc[r] \in {"revoke_all_write", "done"}
    /\ change[r] # "none" => who[r] \in users \union deleted
    /\ change[r] \in {"revoke", "revoking"} => basis[r] <= password[who[r]]

\* q is going to insert a token for u.
IssuesFor(q, u) == /\ op[q] \in {"login", "rotate"} /\ usr[q] = u
                   /\ pc[q] \in {"revoke_select", "revoke_write", "load_user", "insert"}

\* The revocation of r has selected its rows, or succeeded, and nothing overlapped it.
Undisturbed(r) == /\ change[r] = "revoking" /\ late[r] = {}
                  /\ pc[r] = "revoke_all_write" \/ out[r] = "ok"

\* Whoever still issues a token for the administrator knows the new password,
\* and every live token that does not is among the rows of the revocation.
Dying ==
  \A r \in Reqs : Undisturbed(r) =>
    /\ \A q \in Reqs : IssuesFor(q, who[r]) => basis[q] >= basis[r]
    /\ \A j \in Jtis : status[j] = "active" /\ owner[j] = who[r] =>
         gen[j] >= basis[r] \/ (pc[r] = "revoke_all_write" /\ j \in snap[r])

AdminInv == Basic /\ AdminTypeOK /\ Changing /\ Dying

-----------------------------------------------------------------------------
\* The steps of the requests, each one of the customer realm's, and what they
\* leave alone here.
SharedStep == /\ \/ \E r \in Reqs : Shared(r)
                 \/ \E u \in Users : DeleteUser(u)
                 \/ \E j \in Jtis : Lapse(j)
              /\ UNCHANGED changes

LEMMA AnyStep ==
  ASSUME [AdminNext]_adminVars
  PROVE  \/ \E r \in Reqs, u \in Users : AdminLogin(r, u) \/ ChangeVerify(r, u)
         \/ \E r \in Reqs, j \in Jtis : AdminRotate(r, j) \/ AdminInsertToken(r, j)
         \/ \E r \in Reqs : ChangeUpdate(r) \/ ChangeRevoke(r) \/ ChangeAbort(r)
         \/ \E u \in Users, p \in 0..1 : CreateAdmin(u, p)
         \/ SharedStep
         \/ UNCHANGED adminVars
BY DEF AdminNext, SharedStep

LEMMA WhoIsUser ==
  ASSUME AdminInv, NEW r \in Reqs, change[r] # "none"
  PROVE  who[r] \in Users /\ who[r] \in users \union deleted
BY DEF AdminInv, Changing, Basic, TypeOK

\* The creation of an account is the only step the customer realm does not have.
LEMMA AdminBasicStep ==
  ASSUME AdminInv, [AdminNext]_adminVars
  PROVE  Basic'
<1>1. CASE \E u \in Users, p \in 0..1 : CreateAdmin(u, p)
  <2>1. /\ UNCHANGED <<deleted, status, owner, age, lock, held, history, requests>>
        /\ users' \subseteq Users
    BY <1>1 DEF CreateAdmin, AdminInv, Basic, TypeOK
  <2>2. TypeOK' /\ Handlers' /\ Tokens'
    BY <2>1 DEF AdminInv, Basic, TypeOK, Handlers, Tokens, history, requests
  <2>3. Spending'
    BY <2>1 DEF AdminInv, Basic, Spending, SpentByRotation, SpentByLogout, SpentByBulk, Claiming,
                history, requests
  <2> QED BY <2>2, <2>3 DEF Basic
<1>2. CASE [Next]_vars
  BY <1>2, TypeStep, BookkeepingStep, SpendingStep DEF AdminInv, Basic
<1>3. ASSUME NEW r \in Reqs, NEW u \in Users, AdminLogin(r, u) \/ ChangeVerify(r, u)
      PROVE  [Next]_vars
  BY <1>3 DEF AdminLogin, ChangeVerify, Next, Start
<1>4. ASSUME NEW r \in Reqs, NEW j \in Jtis, AdminRotate(r, j) \/ AdminInsertToken(r, j)
      PROVE  [Next]_vars
  BY <1>4 DEF AdminRotate, AdminInsertToken, Next, Start, Step
<1>5. ASSUME NEW r \in Reqs, ChangeUpdate(r) \/ ChangeAbort(r) \/ ChangeRevoke(r)
      PROVE  [Next]_vars
  <2>1. CASE ChangeRevoke(r)
    BY <2>1, WhoIsUser DEF ChangeRevoke, Next, Start
  <2> QED BY <1>5, <2>1 DEF ChangeUpdate, ChangeAbort
<1>6. ASSUME SharedStep \/ UNCHANGED adminVars
      PROVE  [Next]_vars
  BY <1>6 DEF SharedStep, Shared, adminVars, Next, Start, Step
<1> QED BY <1>1, <1>2, <1>3, <1>4, <1>5, <1>6, AnyStep

LEMMA AdminTypeStep ==
  ASSUME AdminInv, [AdminNext]_adminVars
  PROVE  AdminTypeOK'
<1> USE MaxPasswordAssumption DEF AdminInv, AdminTypeOK
<1>1. TypeOK'
  BY AdminBasicStep DEF Basic
<1>2. ASSUME NEW r \in Reqs, NEW u \in Users, AdminLogin(r, u) \/ ChangeVerify(r, u)
      PROVE  AdminTypeOK'
  BY <1>1, <1>2 DEF AdminLogin, ChangeVerify
<1>3. ASSUME NEW r \in Reqs, NEW j \in Jtis, AdminRotate(r, j) \/ AdminInsertToken(r, j)
      PROVE  AdminTypeOK'
  BY <1>1, <1>3 DEF AdminRotate, AdminInsertToken
<1>4. ASSUME NEW r \in Reqs, ChangeUpdate(r) \/ ChangeRevoke(r) \/ ChangeAbort(r)
      PROVE  AdminTypeOK'
  <2>1. CASE ChangeUpdate(r)
    <3>1. who[r] \in Users
      BY <2>1, WhoIsUser DEF ChangeUpdate
    <3> QED BY <1>1, <2>1, <3>1 DEF ChangeUpdate
  <2>2. CASE ChangeRevoke(r) \/ ChangeAbort(r)
    BY <1>1, <2>2 DEF ChangeRevoke, ChangeAbort, Issuing
  <2> QED BY <1>4, <2>1, <2>2
<1>5. ASSUME NEW u \in Users, NEW p \in 0..1, CreateAdmin(u, p)
      PROVE  AdminTypeOK'
  BY <1>1, <1>5 DEF CreateAdmin
<1>6. CASE SharedStep \/ UNCHANGED adminVars
  BY <1>1, <1>6 DEF SharedStep, adminVars, changes
<1> QED BY <1>2, <1>3, <1>4, <1>5, <1>6, AnyStep

InFlight == {"revoke_select", "revoke_write", "load_user", "insert"}

\* The shared steps leave a password change alone but for its own revocation,
\* let nobody start to issue a token, and bring no token to life.
Frame ==
  /\ users' \union deleted' = users \union deleted
  /\ UNCHANGED <<owner, snap, changes>>
  /\ \A j \in Jtis : status'[j] = "active" => status[j] = "active"
  /\ \A q \in Reqs :
       /\ op[q] # "register" => op'[q] # "register"
       /\ change[q] # "none" => op'[q] = op[q] /\ (pc[q] = "idle" => pc'[q] = "idle")
       /\ op'[q] \in {"login", "rotate"} /\ pc'[q] \in InFlight =>
            op[q] = op'[q] /\ pc[q] \in InFlight /\ usr[q] = usr'[q]
       /\ op[q] = "revoke_all" /\ pc[q] \in {"revoke_all_write", "done"} =>
            \/ pc'[q] = pc[q] /\ out'[q] = out[q]
            \/ pc'[q] = "done" /\ out'[q] # "ok"
            \/ /\ pc[q] = "revoke_all_write" /\ pc'[q] = "done"
               /\ \A j \in snap[q] : status'[j] # "active"

LEMMA SharedFrame ==
  ASSUME AdminInv, SharedStep
  PROVE  Frame
<1> USE NoneAssumption DEF AdminInv, Basic, TypeOK, Handlers, Goto, Finish, Accept, rows, history, requests,
        changes, Frame, InFlight
<1>0. UNCHANGED changes
  BY DEF SharedStep
<1>1. ASSUME NEW r \in Reqs, NEW j \in Jtis, Free(r), Logout(r, j)
      PROVE  Frame
  BY <1>0, <1>1 DEF Logout, Free
<1>2. ASSUME NEW r \in Reqs, RevokeSelect(r)
      PROVE  Frame
  BY <1>0, <1>2 DEF RevokeSelect, TakeRow
<1>3. ASSUME NEW r \in Reqs, RevokeWrite(r)
      PROVE  Frame
  BY <1>0, <1>3 DEF RevokeWrite, Revoked
<1>4. ASSUME NEW r \in Reqs, LoadUser(r) \/ InsertRefused(r)
      PROVE  Frame
  BY <1>0, <1>4 DEF LoadUser, InsertRefused, MayFailToRefresh
<1>5. ASSUME NEW r \in Reqs, Respond(r)
      PROVE  Frame
  BY <1>0, <1>5 DEF Respond, MayFailToRefresh
<1>6. ASSUME NEW r \in Reqs, RevokeAllWrite(r)
      PROVE  Frame
  BY <1>0, <1>6 DEF RevokeAllWrite
<1>7. ASSUME NEW r \in Reqs, Abort(r)
      PROVE  Frame
  BY <1>0, <1>7 DEF Abort
<1>8. ASSUME NEW u \in Users, DeleteUser(u)
      PROVE  Frame
  BY <1>0, <1>8 DEF DeleteUser
<1>9. ASSUME NEW j \in Jtis, Lapse(j)
      PROVE  Frame
  BY <1>0, <1>9 DEF Lapse
<1> QED BY <1>1, <1>2, <1>3, <1>4, <1>5, <1>6, <1>7, <1>8, <1>9 DEF SharedStep, Shared

LEMMA ChangingStep ==
  ASSUME AdminInv, [AdminNext]_adminVars
  PROVE  Changing'
<1> USE DEF AdminInv, Basic, TypeOK, AdminTypeOK, Changing, Goto, Finish, Accept, rows, history, requests
<1>1. ASSUME NEW r \in Reqs, NEW u \in Users, AdminLogin(r, u)
      PROVE  Changing'
  BY <1>1 DEF AdminLogin, Login, Free
<1>2. ASSUME NEW r \in Reqs, NEW u \in Users, ChangeVerify(r, u)
      PROVE  Changing'
  BY <1>2 DEF ChangeVerify, Free, vars
<1>3. ASSUME NEW r \in Reqs, NEW j \in Jtis, AdminRotate(r, j)
      PROVE  Changing'
  BY <1>3 DEF AdminRotate, Rotate, Free
<1>4. ASSUME NEW r \in Reqs, NEW j \in Jtis, AdminInsertToken(r, j)
      PROVE  Changing'
  BY <1>4 DEF AdminInsertToken, InsertToken
<1>5. ASSUME NEW r \in Reqs, ChangeUpdate(r)
      PROVE  Changing'
  <2>1. who[r] \in Users
    BY <1>5, WhoIsUser DEF ChangeUpdate
  <2>2. UNCHANGED <<vars, gen, who, late>>
    BY <1>5 DEF ChangeUpdate
  <2>3. \A u \in Users : password'[u] >= password[u]
    BY <1>5, <2>1 DEF ChangeUpdate
  <2>4. \A q \in Reqs \ {r} : change'[q] = change[q] /\ basis'[q] = basis[q]
    BY <1>5 DEF ChangeUpdate
  <2>5. /\ change'[r] \in {"revoke", "failed"}
        /\ change'[r] = "revoke" => basis'[r] = password'[who[r]]
    BY <1>5, <2>1, MaxPasswordAssumption DEF ChangeUpdate
  <2>6. pc[r] = "idle" /\ who[r] \in users \union deleted
    BY <1>5 DEF ChangeUpdate
  <2>7. \A q \in Reqs : change'[q] \in {"revoke", "revoking"} => basis'[q] <= password'[who[q]]
    <3> SUFFICES ASSUME NEW q \in Reqs, change'[q] \in {"revoke", "revoking"}
                 PROVE  basis'[q] <= password'[who[q]]
      OBVIOUS
    <3>1. CASE q = r
      BY <3>1, <2>1, <2>5, MaxPasswordAssumption, AdminTypeStep DEF AdminTypeOK
    <3>2. CASE q # r
      <4>1. basis[q] <= password[who[q]] /\ who[q] \in Users
        BY <3>2, <2>4, WhoIsUser
      <4>2. /\ password'[who[q]] >= password[who[q]] /\ basis[q] \in Nat
            /\ password[who[q]] \in Nat /\ password'[who[q]] \in Nat
        BY <2>3, <4>1, AdminTypeStep
      <4> QED BY <3>2, <2>4, <4>1, <4>2
    <3> QED BY <3>1, <3>2
  <2> QED BY <2>2, <2>4, <2>5, <2>6, <2>7 DEF vars
<1>6. ASSUME NEW r \in Reqs, ChangeRevoke(r)
      PROVE  Changing'
  BY <1>6 DEF ChangeRevoke, RevokeAll
<1>7. ASSUME NEW r \in Reqs, ChangeAbort(r)
      PROVE  Changing'
  BY <1>7 DEF ChangeAbort, vars
<1>8. ASSUME NEW u \in Users, NEW p \in 0..1, CreateAdmin(u, p)
      PROVE  Changing'
  <2>1. \A q \in Reqs : change[q] # "none" => who[q] # u
    BY <1>8 DEF CreateAdmin
  <2> QED BY <1>8, <2>1 DEF CreateAdmin
<1>9. CASE SharedStep
  <2>1. Frame
    BY <1>9, SharedFrame
  <2> QED BY <2>1 DEF Frame, changes
<1>10. CASE UNCHANGED adminVars
  BY <1>10 DEF adminVars, vars, changes
<1> QED BY <1>1, <1>2, <1>3, <1>4, <1>5, <1>6, <1>7, <1>8, <1>9, <1>10, AnyStep

-----------------------------------------------------------------------------
\* The conclusion of Dying, of one change.
Doomed(r) ==
  /\ \A q \in Reqs : IssuesFor(q, who[r]) => basis[q] >= basis[r]
  /\ \A j \in Jtis : status[j] = "active" /\ owner[j] = who[r] =>
       gen[j] >= basis[r] \/ (pc[r] = "revoke_all_write" /\ j \in snap[r])

\* A step that adds nobody who issues an old token, and no old token.
LEMMA Kept ==
  ASSUME AdminInv, NEW r \in Reqs, Undisturbed(r),
         who'[r] = who[r], basis'[r] = basis[r], snap'[r] = snap[r],
         \A q \in Reqs : IssuesFor(q, who[r])' =>
           (IssuesFor(q, who[r]) /\ basis'[q] = basis[q]) \/ basis'[q] >= basis[r],
         \A j \in Jtis : status'[j] = "active" /\ owner'[j] = who[r] =>
           \/ status[j] = "active" /\ owner[j] = who[r] /\ gen'[j] = gen[j]
           \/ gen'[j] >= basis[r],
         pc'[r] = pc[r] \/ \A j \in snap[r] : status'[j] # "active"
  PROVE  Doomed(r)'
<1>1. Doomed(r)
  BY DEF AdminInv, Dying, Doomed
<1> QED BY <1>1 DEF Doomed

LEMMA DyingStep ==
  ASSUME AdminInv, [AdminNext]_adminVars
  PROVE  Dying'
<1> SUFFICES ASSUME NEW r \in Reqs, Undisturbed(r)'
             PROVE  Doomed(r)'
  BY DEF Dying, Doomed
<1> USE DEF AdminInv, Basic, TypeOK, AdminTypeOK
<1>0. AdminTypeOK'
  BY AdminTypeStep
<1>1. ASSUME NEW q \in Reqs, NEW u \in Users, AdminLogin(q, u)
      PROVE  Doomed(r)'
  <2>1. /\ UNCHANGED <<rows, history, snap, password, gen, change, who, late>>
        /\ \A x \in Reqs \ {q} : /\ op'[x] = op[x] /\ pc'[x] = pc[x] /\ usr'[x] = usr[x]
                                 /\ basis'[x] = basis[x] /\ out'[x] = out[x]
        /\ usr'[q] = u /\ basis'[q] = password[u] /\ change[q] = "none"
    BY <1>1 DEF AdminLogin, Login, Accept, Goto, Finish, Free
  <2>2. r # q /\ Undisturbed(r) /\ basis[r] <= password[who[r]] /\ who[r] \in Users
    BY <2>1, WhoIsUser DEF Undisturbed, Changing
  <2>3. \A x \in Reqs : IssuesFor(x, who[r])' =>
           (IssuesFor(x, who[r]) /\ basis'[x] = basis[x]) \/ basis'[x] >= basis[r]
    BY <2>1, <2>2 DEF IssuesFor
  <2> QED BY <2>1, <2>2, <2>3, Kept DEF rows
<1>2. ASSUME NEW q \in Reqs, NEW j \in Jtis, AdminRotate(q, j)
      PROVE  Doomed(r)'
  <2>1. /\ UNCHANGED <<rows, history, snap, password, gen, change, who>>
        /\ \A x \in Reqs \ {q} : /\ op'[x] = op[x] /\ pc'[x] = pc[x] /\ usr'[x] = usr[x]
                                 /\ basis'[x] = basis[x] /\ out'[x] = out[x]
        /\ usr'[q] = owner[j] /\ basis'[q] = gen[j] /\ change[q] = "none"
        /\ j \in held
        /\ late' = [x \in Reqs |-> IF pc[x] = "revoke_all_write" /\ who[x] = owner[j]
                                     THEN late[x] \union {q} ELSE late[x]]
    BY <1>2 DEF AdminRotate, Rotate, Accept, Goto, Finish, Free
  <2>2. r # q /\ Undisturbed(r)
    BY <2>1 DEF Undisturbed
  <2>3. pc[r] = "revoke_all_write" => owner[j] # who[r]
    BY <2>1, <2>2 DEF Undisturbed
  <2>4. pc'[q] \in InFlight => status[j] = "active"
    BY <1>2, <2>1 DEF AdminRotate, Rotate, Accept, Goto, Finish, TokenState, Tokens, InFlight
  <2>5. pc'[q] \in InFlight /\ owner[j] = who[r] => gen[j] >= basis[r]
    BY <2>2, <2>3, <2>4 DEF Dying
  <2>6. \A x \in Reqs : IssuesFor(x, who[r])' =>
           (IssuesFor(x, who[r]) /\ basis'[x] = basis[x]) \/ basis'[x] >= basis[r]
    BY <2>1, <2>2, <2>5 DEF IssuesFor, InFlight
  <2> QED BY <2>1, <2>2, <2>6, Kept DEF rows
<1>3. ASSUME NEW q \in Reqs, NEW k \in Jtis, AdminInsertToken(q, k)
      PROVE  Doomed(r)'
  <2>1. /\ UNCHANGED <<op, usr, snap, password, basis, change, who, late, out>>
        /\ pc[q] = "insert" /\ pc' = [pc EXCEPT ![q] = "respond"]
        /\ owner' = [owner EXCEPT ![k] = usr[q]]
        /\ gen' = [gen EXCEPT ![k] = basis[q]]
        /\ \A j \in Jtis \ {k} : status'[j] = status[j]
    BY <1>3 DEF AdminInsertToken, InsertToken, Goto
  <2>2. op[q] \in {"login", "rotate"}
    BY <2>1 DEF Handlers, Changing
  <2>3. Undisturbed(r) /\ r # q
    BY <2>1, <2>2 DEF Undisturbed, Changing
  <2>4. usr[q] = who[r] => basis[q] >= basis[r]
    BY <2>1, <2>2, <2>3 DEF Dying, IssuesFor
  <2>5. \A x \in Reqs : IssuesFor(x, who[r])' => IssuesFor(x, who[r])
    BY <2>1 DEF IssuesFor
  <2> QED BY <2>1, <2>3, <2>4, <2>5, Kept
<1>4. ASSUME NEW q \in Reqs, \/ \E u \in Users : ChangeVerify(q, u)
                             \/ ChangeUpdate(q) \/ ChangeAbort(q)
      PROVE  Doomed(r)'
  <2>1. /\ UNCHANGED <<vars, gen, late>> /\ pc[q] = "idle"
        /\ \A x \in Reqs \ {q} : change'[x] = change[x] /\ who'[x] = who[x] /\ basis'[x] = basis[x]
        /\ change'[q] # "revoking"
    BY <1>4 DEF ChangeVerify, ChangeUpdate, ChangeAbort, Changing
  <2>2. r # q /\ Undisturbed(r)
    BY <2>1 DEF Undisturbed, vars, requests
  <2>3. \A x \in Reqs : IssuesFor(x, who[r])' => IssuesFor(x, who[r]) /\ basis'[x] = basis[x]
    BY <2>1, <2>2 DEF IssuesFor, vars, requests
  <2> QED BY <2>1, <2>2, <2>3, Kept DEF vars, rows, requests
<1>5. ASSUME NEW q \in Reqs, ChangeRevoke(q)
      PROVE  Doomed(r)'
  <2>1. /\ UNCHANGED <<rows, password, basis, gen, who>>
        /\ pc[q] = "idle" /\ pc' = [pc EXCEPT ![q] = "revoke_all_write"]
        /\ op' = [op EXCEPT ![q] = "revoke_all"] /\ usr' = [usr EXCEPT ![q] = who[q]]
        /\ snap' = [snap EXCEPT ![q] = {j \in Jtis : owner[j] = who[q] /\ status[j] = "active"}]
        /\ change' = [change EXCEPT ![q] = "revoking"]
        /\ late' = [late EXCEPT ![q] = Issuing(who[q], q)]
        /\ UNCHANGED out
    BY <1>5 DEF ChangeRevoke, RevokeAll, Accept, Goto
  <2>2. \A x \in Reqs, u \in Users : IssuesFor(x, u)' => IssuesFor(x, u) /\ x # q
    BY <2>1 DEF IssuesFor
  <2>3. CASE r = q
    <3>1. Issuing(who[r], r) = {}
      BY <2>1, <2>3 DEF Undisturbed
    <3>2. \A x \in Reqs : ~IssuesFor(x, who[r])'
      BY <2>1, <2>3, <3>1 DEF Issuing, IssuesFor
    <3> QED BY <2>1, <2>3, <3>2 DEF Doomed, rows, IssuesFor
  <2>4. CASE r # q
    <3>1. Undisturbed(r) /\ who[r] \in Users
      BY <2>1, <2>4, WhoIsUser DEF Undisturbed
    <3> QED BY <2>1, <2>2, <2>4, <3>1, Kept DEF rows
  <2> QED BY <2>3, <2>4
<1>6. ASSUME NEW u \in Users, NEW p \in 0..1, CreateAdmin(u, p)
      PROVE  Doomed(r)'
  <2>1. UNCHANGED <<status, owner, requests, basis, gen, change, who, late>>
    BY <1>6 DEF CreateAdmin
  <2>2. Undisturbed(r) /\ \A x \in Reqs : IssuesFor(x, who[r])' => IssuesFor(x, who[r])
    BY <2>1 DEF Undisturbed, IssuesFor, requests
  <2> QED BY <2>1, <2>2, Kept DEF requests
<1>7. CASE SharedStep
  <2>1. Frame
    BY <1>7, SharedFrame
  <2>2. Undisturbed(r)
    BY <2>1 DEF Frame, Undisturbed, Changing, changes
  <2>3. \A x \in Reqs : IssuesFor(x, who[r])' => IssuesFor(x, who[r])
    BY <2>1 DEF Frame, IssuesFor, InFlight, changes
  <2>4. pc'[r] = pc[r] \/ \A j \in snap[r] : status'[j] # "active"
    BY <2>1, <2>2 DEF Frame, Undisturbed, Changing, changes
  <2> QED BY <2>1, <2>2, <2>3, <2>4, Kept DEF Frame, changes
<1>8. CASE UNCHANGED adminVars
  <2>1. Undisturbed(r) /\ \A x \in Reqs : IssuesFor(x, who[r])' => IssuesFor(x, who[r])
    BY <1>8 DEF Undisturbed, IssuesFor, adminVars, vars, requests, changes
  <2> QED BY <1>8, <2>1, Kept DEF adminVars, vars, rows, requests, changes
<1> QED BY <1>1, <1>2, <1>3, <1>4, <1>5, <1>6, <1>7, <1>8, AnyStep

LEMMA AdminInvariant == AdminSpec => []AdminInv
<1>1. AdminInit => AdminInv
  <2> SUFFICES ASSUME AdminInit PROVE AdminInv
    OBVIOUS
  <2>1. Basic
    BY BasicInit DEF AdminInit
  <2>2. AdminTypeOK
    BY <2>1, MaxPasswordAssumption DEF AdminInit, AdminTypeOK, Basic
  <2>3. Changing /\ Dying
    BY DEF AdminInit, Init, Changing, Dying, Undisturbed
  <2> QED BY <2>1, <2>2, <2>3 DEF AdminInv
<1>2. AdminInv /\ [AdminNext]_adminVars => AdminInv'
  BY AdminBasicStep, AdminTypeStep, ChangingStep, DyingStep DEF AdminInv
<1> QED BY <1>1, <1>2, PTL DEF AdminSpec

\* The variables of the realm keep their types.
THEOREM AdminTypeCorrect == AdminSpec => []AdminTypeOK
<1>1. AdminInv => AdminTypeOK
  BY DEF AdminInv
<1> QED BY <1>1, AdminInvariant, PTL

\* change_password: once it reported success, no token of an older password is
\* live, with row locks or on SQLite, unless a login or a rotation overlapped
\* the revocation.
THEOREM OldTokensDieHolds == AdminSpec => []OldTokensDie
<1>1. AdminInv => OldTokensDie
  <2> SUFFICES ASSUME AdminInv, NEW r \in Reqs, Changed(r), late[r] = {}
               PROVE  \A j \in Jtis : status[j] = "active" /\ owner[j] = who[r] => gen[j] >= basis[r]
    BY DEF OldTokensDie
  <2>1. Undisturbed(r)
    BY DEF Undisturbed, Changed
  <2>2. pc[r] = "done"
    BY DEF AdminInv, Basic, Handlers, Changed
  <2> QED BY <2>1, <2>2 DEF AdminInv, Dying
<1> QED BY <1>1, AdminInvariant, PTL
=============================================================================
