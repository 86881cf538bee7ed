---------------------------- MODULE StartUpProofs ----------------------------
(***************************************************************************)
(* Proofs about the administrators' accounts and about the processes that  *)
(* come up beside them, for every set of ids, names, requests, processes   *)
(* and deployments.                                                        *)
(***************************************************************************)
EXTENDS StartUp, TLAPS

-----------------------------------------------------------------------------
(* The administrators' accounts (AdminAccounts).                           *)

\* A row has a name, kept after its deletion, and no two rows share one.
Unique ==
  /\ \A i \in rows \union boot \union env : name[i] \in Names
  /\ \A i, k \in rows : name[i] = name[k] => i = k
  /\ \A i \in boot : name[i] = BootName

\* The seed writes its password to bootstrap rows only.
Seeding == /\ env \subseteq boot
           /\ \A r \in Reqs : pc[r] = "seed_update" => tgt[r] \in boot

\* A removal that nobody undercut still sees another holder.
Counted == \A r \in Reqs : pc[r] = "write" /\ ~grant[r] /\ r \notin raced => Others(tgt[r]) # {}

\* A request is where its operation can be, and works on what it created.
Kinds ==
  \A r \in Reqs :
    /\ pc[r] # "idle" => op[r] # "none"
    /\ pc[r] = "write" => op[r] \in {"delete", "edit"}
    /\ op[r] = "delete" => ~grant[r]
    /\ pc[r] = "retire" => op[r] = "setup" /\ tgt[r] \in Ids \ boot /\ name[tgt[r]] \in Names
    /\ pc[r] \in {"seed_check", "seed_select", "seed_update", "seed_insert"} => op[r] = "seed"
    /\ pc[r] \in {"form", "validate", "insert", "respond"} => op[r] \in {"setup", "create"}
    /\ op[r] \in {"setup", "create"} /\ pc[r] \in {"validate", "insert"} => arg[r] \in Names
    /\ pc[r] = "respond" => tgt[r] \in Ids
    /\ out[r] # "none" => pc[r] = "done"

\* Real administrators a wizard does not retire.
Seniors == {i \in Real : name[i] # BootName}

Removed == \E r \in Reqs : op[r] = "delete" /\ out[r] = "ok"

\* SetupLeavesAnAdmin is not inductive.  A wizard is granted over a bootstrap
\* row, which stays until some wizard has put a senior beside it: a wizard whose
\* own account bears the bootstrap's name could insert it only after that.
WizardFacts ==
  /\ (\E r \in Reqs : op[r] = "setup") => rows \intersect boot # {} \/ Seniors # {}
  /\ \A r \in Reqs : pc[r] = "retire" => tgt[r] \in rows \/ Seniors # {}
  /\ \A r \in Reqs : op[r] = "setup" /\ (pc[r] = "respond" \/ out[r] = "ok") => Seniors # {}

Wizards == ~Removed => WizardFacts

Basic == TypeOK /\ Unique /\ Seeding /\ Counted /\ Kinds

LEMMA BasicInit == Init => Basic
  BY AdminsAssumption, NoneAssumption
  DEF Init, Basic, TypeOK, Unique, Seeding, Counted, Kinds, Labels, Outcomes

\* Every step keeps the types.
LEMMA TypeStep == Basic /\ [Next]_vars => TypeOK'
<1> SUFFICES ASSUME Basic, [Next]_vars PROVE TypeOK'
  OBVIOUS
<1> USE NamesAssumption, NoneAssumption DEF Basic, TypeOK, Labels, Outcomes, Goto, Finish, Accept,
        accounts, requests
<1>1. ASSUME NEW r \in Reqs, SeedStart(r)
      PROVE  TypeOK'
  BY <1>1 DEF SeedStart, Kinds, Unique, Named
<1>2. ASSUME NEW r \in Reqs, SetupGranted(r)
      PROVE  TypeOK'
  BY <1>2 DEF SetupGranted, Kinds, Unique, Named
<1>3. ASSUME NEW r \in Reqs, SeedCheck(r) \/ SeedConflict(r)
      PROVE  TypeOK'
  BY <1>3 DEF SeedCheck, SeedConflict, Kinds, Unique, Named
<1>4. ASSUME NEW r \in Reqs, Abort(r) \/ Restart(r)
      PROVE  TypeOK'
  BY <1>4 DEF Abort, Restart, Kinds, Unique, Named
<1>5. ASSUME NEW r \in Reqs, SeedSelect(r) \/ SeedUpdate(r)
      PROVE  TypeOK'
  BY <1>5 DEF SeedSelect, SeedUpdate, Kinds, Unique, Named
<1>6. ASSUME NEW r \in Reqs, NEW i \in Ids, SeedInsert(r, i)
      PROVE  TypeOK'
  BY <1>6 DEF SeedInsert, NewRow, NameTaken, Kinds, Unique, Named
<1>7. ASSUME NEW r \in Reqs, NEW n \in Names, SetupSubmit(r, n)
      PROVE  TypeOK'
  BY <1>7 DEF SetupSubmit, Kinds, Unique, Named
<1>8. ASSUME NEW r \in Reqs, NEW a \in Ids, NEW n \in Names, NEW g \in BOOLEAN, CreateStart(r, a, n, g)
      PROVE  TypeOK'
  BY <1>8 DEF CreateStart, Kinds, Unique, Named
<1>9. ASSUME NEW r \in Reqs, NEW a \in Ids, NEW o \in {"delete", "edit"}, NEW i \in Ids, NEW g \in BOOLEAN,
             CountHolders(r, a, o, i, g)
      PROVE  TypeOK'
  BY <1>9 DEF CountHolders, Kinds, Unique, Named
<1>10. ASSUME NEW r \in Reqs, Validate(r) \/ InsertConflict(r) \/ Respond(r)
      PROVE  TypeOK'
  BY <1>10 DEF Validate, InsertConflict, Conflict, Respond, Kinds, Unique, Named
<1>11. ASSUME NEW r \in Reqs, NEW i \in Ids, InsertAccount(r, i)
      PROVE  TypeOK'
  BY <1>11 DEF InsertAccount, NewRow, NameTaken, Kinds, Unique, Named
<1>12. ASSUME NEW r \in Reqs, Retire(r)
      PROVE  TypeOK'
  BY <1>12 DEF Retire, Undercut, Kinds, Unique, Named
<1>13. ASSUME NEW r \in Reqs, DeleteAccount(r)
      PROVE  TypeOK'
  BY <1>13 DEF DeleteAccount, Undercut, Kinds, Unique, Named
<1>14. ASSUME NEW r \in Reqs, UpdatePermissions(r)
      PROVE  TypeOK'
  BY <1>14 DEF UpdatePermissions, Undercut, Kinds, Unique, Named
<1>15. CASE (\E i \in Ids : OpenPage(i)) \/ UNCHANGED vars
  BY <1>15 DEF OpenPage, vars, Kinds, Unique, Named
<1> QED
  BY <1>1, <1>2, <1>3, <1>4, <1>5, <1>6, <1>7, <1>8, <1>9, <1>10, <1>11, <1>12, <1>13, <1>14, <1>15 DEF Next, SeedStep, Start, Step

\* The unique constraint, checked by the insert itself, keeps names apart.
LEMMA UniqueStep == Basic /\ [Next]_vars => Unique'
<1> SUFFICES ASSUME Basic, [Next]_vars PROVE Unique'
  OBVIOUS
<1> USE NamesAssumption, NoneAssumption DEF Basic, TypeOK, Labels, Outcomes, Goto, Finish, Accept,
        accounts, requests
<1>1. ASSUME NEW r \in Reqs, SeedStart(r)
      PROVE  Unique'
  BY <1>1 DEF SeedStart, Unique, Named, NameTaken, Kinds
<1>2. ASSUME NEW r \in Reqs, SetupGranted(r)
      PROVE  Unique'
  BY <1>2 DEF SetupGranted, Unique, Named, NameTaken, Kinds
<1>3. ASSUME NEW r \in Reqs, SeedCheck(r) \/ SeedConflict(r)
      PROVE  Unique'
  BY <1>3 DEF SeedCheck, SeedConflict, Unique, Named, NameTaken, Kinds
<1>4. ASSUME NEW r \in Reqs, Abort(r) \/ Restart(r)
      PROVE  Unique'
  BY <1>4 DEF Abort, Restart, Unique, Named, NameTaken, Kinds
<1>5. ASSUME NEW r \in Reqs, SeedSelect(r) \/ SeedUpdate(r)
      PROVE  Unique'
  BY <1>5 DEF SeedSelect, SeedUpdate, Unique, Named, NameTaken, Kinds
<1>6. ASSUME NEW r \in Reqs, NEW i \in Ids, SeedInsert(r, i)
      PROVE  Unique'
  BY <1>6 DEF SeedInsert, NewRow, NameTaken, Unique, Named, NameTaken, Kinds
<1>7. ASSUME NEW r \in Reqs, NEW n \in Names, SetupSubmit(r, n)
      PROVE  Unique'
  BY <1>7 DEF SetupSubmit, Unique, Named, NameTaken, Kinds
<1>8. ASSUME NEW r \in Reqs, NEW a \in Ids, NEW n \in Names, NEW g \in BOOLEAN, CreateStart(r, a, n, g)
      PROVE  Unique'
  BY <1>8 DEF CreateStart, Unique, Named, NameTaken, Kinds
<1>9. ASSUME NEW r \in Reqs, NEW a \in Ids, NEW o \in {"delete", "edit"}, NEW i \in Ids, NEW g \in BOOLEAN,
             CountHolders(r, a, o, i, g)
      PROVE  Unique'
  BY <1>9 DEF CountHolders, Unique, Named, NameTaken, Kinds
<1>10. ASSUME NEW r \in Reqs, Validate(r) \/ InsertConflict(r) \/ Respond(r)
      PROVE  Unique'
  BY <1>10 DEF Validate, InsertConflict, Conflict, Respond, Unique, Named, NameTaken, Kinds
<1>11. ASSUME NEW r \in Reqs, NEW i \in Ids, InsertAccount(r, i)
      PROVE  Unique'
  BY <1>11 DEF InsertAccount, NewRow, NameTaken, Unique, Named, NameTaken, Kinds
<1>12. ASSUME NEW r \in Reqs, Retire(r)
      PROVE  Unique'
  BY <1>12 DEF Retire, Undercut, Unique, Named, NameTaken, Kinds
<1>13. ASSUME NEW r \in Reqs, DeleteAccount(r)
      PROVE  Unique'
  BY <1>13 DEF DeleteAccount, Undercut, Unique, Named, NameTaken, Kinds
<1>14. ASSUME NEW r \in Reqs, UpdatePermissions(r)
      PROVE  Unique'
  BY <1>14 DEF UpdatePermissions, Undercut, Unique, Named, NameTaken, Kinds
<1>15. CASE (\E i \in Ids : OpenPage(i)) \/ UNCHANGED vars
  BY <1>15 DEF OpenPage, vars, Unique, Named, NameTaken, Kinds
<1> QED
  BY <1>1, <1>2, <1>3, <1>4, <1>5, <1>6, <1>7, <1>8, <1>9, <1>10, <1>11, <1>12, <1>13, <1>14, <1>15 DEF Next, SeedStep, Start, Step

\* is_bootstrap_admin never changes, so the row a seed selected stays one.
LEMMA SeedingStep == Basic /\ [Next]_vars => Seeding'
<1> SUFFICES ASSUME Basic, [Next]_vars PROVE Seeding'
  OBVIOUS
<1> USE NamesAssumption, NoneAssumption DEF Basic, TypeOK, Labels, Outcomes, Goto, Finish, Accept,
        accounts, requests
<1>1. ASSUME NEW r \in Reqs, SeedStart(r)
      PROVE  Seeding'
  BY <1>1 DEF SeedStart, Unique, Seeding, Named
<1>2. ASSUME NEW r \in Reqs, SetupGranted(r)
      PROVE  Seeding'
  BY <1>2 DEF SetupGranted, Unique, Seeding, Named
<1>3. ASSUME NEW r \in Reqs, SeedCheck(r) \/ SeedConflict(r)
      PROVE  Seeding'
  BY <1>3 DEF SeedCheck, SeedConflict, Unique, Seeding, Named
<1>4. ASSUME NEW r \in Reqs, Abort(r) \/ Restart(r)
      PROVE  Seeding'
  BY <1>4 DEF Abort, Restart, Unique, Seeding, Named
<1>5. ASSUME NEW r \in Reqs, SeedSelect(r) \/ SeedUpdate(r)
      PROVE  Seeding'
  BY <1>5 DEF SeedSelect, SeedUpdate, Unique, Seeding, Named
<1>6. ASSUME NEW r \in Reqs, NEW i \in Ids, SeedInsert(r, i)
      PROVE  Seeding'
  BY <1>6 DEF SeedInsert, NewRow, NameTaken, Unique, Seeding, Named
<1>7. ASSUME NEW r \in Reqs, NEW n \in Names, SetupSubmit(r, n)
      PROVE  Seeding'
  BY <1>7 DEF SetupSubmit, Unique, Seeding, Named
<1>8. ASSUME NEW r \in Reqs, NEW a \in Ids, NEW n \in Names, NEW g \in BOOLEAN, CreateStart(r, a, n, g)
      PROVE  Seeding'
  BY <1>8 DEF CreateStart, Unique, Seeding, Named
<1>9. ASSUME NEW r \in Reqs, NEW a \in Ids, NEW o \in {"delete", "edit"}, NEW i \in Ids, NEW g \in BOOLEAN,
             CountHolders(r, a, o, i, g)
      PROVE  Seeding'
  BY <1>9 DEF CountHolders, Unique, Seeding, Named
<1>10. ASSUME NEW r \in Reqs, Validate(r) \/ InsertConflict(r) \/ Respond(r)
      PROVE  Seeding'
  BY <1>10 DEF Validate, InsertConflict, Conflict, Respond, Unique, Seeding, Named
<1>11. ASSUME NEW r \in Reqs, NEW i \in Ids, InsertAccount(r, i)
      PROVE  Seeding'
  BY <1>11 DEF InsertAccount, NewRow, NameTaken, Unique, Seeding, Named
<1>12. ASSUME NEW r \in Reqs, Retire(r)
      PROVE  Seeding'
  BY <1>12 DEF Retire, Undercut, Unique, Seeding, Named
<1>13. ASSUME NEW r \in Reqs, DeleteAccount(r)
      PROVE  Seeding'
  BY <1>13 DEF DeleteAccount, Undercut, Unique, Seeding, Named
<1>14. ASSUME NEW r \in Reqs, UpdatePermissions(r)
      PROVE  Seeding'
  BY <1>14 DEF UpdatePermissions, Undercut, Unique, Seeding, Named
<1>15. CASE (\E i \in Ids : OpenPage(i)) \/ UNCHANGED vars
  BY <1>15 DEF OpenPage, vars, Unique, Seeding, Named
<1> QED
  BY <1>1, <1>2, <1>3, <1>4, <1>5, <1>6, <1>7, <1>8, <1>9, <1>10, <1>11, <1>12, <1>13, <1>14, <1>15 DEF Next, SeedStep, Start, Step

\* Whatever takes a holder away marks the removals that counted it.
LEMMA CountedStep == Basic /\ [Next]_vars => Counted'
<1> SUFFICES ASSUME Basic, [Next]_vars PROVE Counted'
  OBVIOUS
<1> USE NamesAssumption, NoneAssumption DEF Basic, TypeOK, Labels, Outcomes, Goto, Finish, Accept,
        accounts, requests
<1>1. ASSUME NEW r \in Reqs, SeedStart(r)
      PROVE  Counted'
  BY <1>1 DEF SeedStart, Unique, Counted, Others, Holders, Kinds
<1>2. ASSUME NEW r \in Reqs, SetupGranted(r)
      PROVE  Counted'
  BY <1>2 DEF SetupGranted, Unique, Counted, Others, Holders, Kinds
<1>3. ASSUME NEW r \in Reqs, SeedCheck(r) \/ SeedConflict(r)
      PROVE  Counted'
  BY <1>3 DEF SeedCheck, SeedConflict, Unique, Counted, Others, Holders, Kinds
<1>4. ASSUME NEW r \in Reqs, Abort(r) \/ Restart(r)
      PROVE  Counted'
  BY <1>4 DEF Abort, Restart, Unique, Counted, Others, Holders, Kinds
<1>5. ASSUME NEW r \in Reqs, SeedSelect(r) \/ SeedUpdate(r)
      PROVE  Counted'
  BY <1>5 DEF SeedSelect, SeedUpdate, Unique, Counted, Others, Holders, Kinds
<1>6. ASSUME NEW r \in Reqs, NEW i \in Ids, SeedInsert(r, i)
      PROVE  Counted'
  BY <1>6 DEF SeedInsert, NewRow, NameTaken, Unique, Counted, Others, Holders, Kinds
<1>7. ASSUME NEW r \in Reqs, NEW n \in Names, SetupSubmit(r, n)
      PROVE  Counted'
  BY <1>7 DEF SetupSubmit, Unique, Counted, Others, Holders, Kinds
<1>8. ASSUME NEW r \in Reqs, NEW a \in Ids, NEW n \in Names, NEW g \in BOOLEAN, CreateStart(r, a, n, g)
      PROVE  Counted'
  BY <1>8 DEF CreateStart, Unique, Counted, Others, Holders, Kinds
<1>9. ASSUME NEW r \in Reqs, NEW a \in Ids, NEW o \in {"delete", "edit"}, NEW i \in Ids, NEW g \in BOOLEAN,
             CountHolders(r, a, o, i, g)
      PROVE  Counted'
  BY <1>9 DEF CountHolders, Unique, Counted, Others, Holders, Kinds
<1>10. ASSUME NEW r \in Reqs, Validate(r) \/ InsertConflict(r) \/ Respond(r)
      PROVE  Counted'
  BY <1>10 DEF Validate, InsertConflict, Conflict, Respond, Unique, Counted, Others, Holders, Kinds
<1>11. ASSUME NEW r \in Reqs, NEW i \in Ids, InsertAccount(r, i)
      PROVE  Counted'
  BY <1>11 DEF InsertAccount, NewRow, NameTaken, Unique, Counted, Others, Holders, Kinds
<1>12. ASSUME NEW r \in Reqs, Retire(r)
      PROVE  Counted'
  BY <1>12 DEF Retire, Undercut, Unique, Counted, Others, Holders, Kinds
<1>13. ASSUME NEW r \in Reqs, DeleteAccount(r)
      PROVE  Counted'
  BY <1>13 DEF DeleteAccount, Undercut, Unique, Counted, Others, Holders, Kinds
<1>14. ASSUME NEW r \in Reqs, UpdatePermissions(r)
      PROVE  Counted'
  BY <1>14 DEF UpdatePermissions, Undercut, Unique, Counted, Others, Holders, Kinds
<1>15. CASE (\E i \in Ids : OpenPage(i)) \/ UNCHANGED vars
  BY <1>15 DEF OpenPage, vars, Unique, Counted, Others, Holders, Kinds
<1> QED
  BY <1>1, <1>2, <1>3, <1>4, <1>5, <1>6, <1>7, <1>8, <1>9, <1>10, <1>11, <1>12, <1>13, <1>14, <1>15 DEF Next, SeedStep, Start, Step

\* What the program counter says of a request.
LEMMA KindsStep == Basic /\ [Next]_vars => Kinds'
<1> SUFFICES ASSUME Basic, [Next]_vars PROVE Kinds'
  OBVIOUS
<1> USE NamesAssumption, NoneAssumption DEF Basic, TypeOK, Labels, Outcomes, Goto, Finish, Accept,
        accounts, requests
<1>1. ASSUME NEW r \in Reqs, SeedStart(r)
      PROVE  Kinds'
  BY <1>1 DEF SeedStart, Kinds, Unique
<1>2. ASSUME NEW r \in Reqs, SetupGranted(r)
      PROVE  Kinds'
  BY <1>2 DEF SetupGranted, Kinds, Unique
<1>3. ASSUME NEW r \in Reqs, SeedCheck(r) \/ SeedConflict(r)
      PROVE  Kinds'
  BY <1>3 DEF SeedCheck, SeedConflict, Kinds, Unique
<1>4. ASSUME NEW r \in Reqs, Abort(r) \/ Restart(r)
      PROVE  Kinds'
  BY <1>4 DEF Abort, Restart, Kinds, Unique
<1>5. ASSUME NEW r \in Reqs, SeedSelect(r) \/ SeedUpdate(r)
      PROVE  Kinds'
  BY <1>5 DEF SeedSelect, SeedUpdate, Kinds, Unique
<1>6. ASSUME NEW r \in Reqs, NEW i \in Ids, SeedInsert(r, i)
      PROVE  Kinds'
  BY <1>6 DEF SeedInsert, NewRow, NameTaken, Kinds, Unique
<1>7. ASSUME NEW r \in Reqs, NEW n \in Names, SetupSubmit(r, n)
      PROVE  Kinds'
  BY <1>7 DEF SetupSubmit, Kinds, Unique
<1>8. ASSUME NEW r \in Reqs, NEW a \in Ids, NEW n \in Names, NEW g \in BOOLEAN, CreateStart(r, a, n, g)
      PROVE  Kinds'
  BY <1>8 DEF CreateStart, Kinds, Unique
<1>9. ASSUME NEW r \in Reqs, NEW a \in Ids, NEW o \in {"delete", "edit"}, NEW i \in Ids, NEW g \in BOOLEAN,
             CountHolders(r, a, o, i, g)
      PROVE  Kinds'
  BY <1>9 DEF CountHolders, Kinds, Unique
<1>10. ASSUME NEW r \in Reqs, Validate(r) \/ InsertConflict(r) \/ Respond(r)
      PROVE  Kinds'
  BY <1>10 DEF Validate, InsertConflict, Conflict, Respond, Kinds, Unique
<1>11. ASSUME NEW r \in Reqs, NEW i \in Ids, InsertAccount(r, i)
      PROVE  Kinds'
  BY <1>11 DEF InsertAccount, NewRow, NameTaken, Kinds, Unique
<1>12. ASSUME NEW r \in Reqs, Retire(r)
      PROVE  Kinds'
  BY <1>12 DEF Retire, Undercut, Kinds, Unique
<1>13. ASSUME NEW r \in Reqs, DeleteAccount(r)
      PROVE  Kinds'
  BY <1>13 DEF DeleteAccount, Undercut, Kinds, Unique
<1>14. ASSUME NEW r \in Reqs, UpdatePermissions(r)
      PROVE  Kinds'
  BY <1>14 DEF UpdatePermissions, Undercut, Kinds, Unique
<1>15. CASE (\E i \in Ids : OpenPage(i)) \/ UNCHANGED vars
  BY <1>15 DEF OpenPage, vars, Kinds, Unique
<1> QED
  BY <1>1, <1>2, <1>3, <1>4, <1>5, <1>6, <1>7, <1>8, <1>9, <1>10, <1>11, <1>12, <1>13, <1>14, <1>15 DEF Next, SeedStep, Start, Step

LEMMA BasicInvariant == Spec => []Basic
<1>1. Basic /\ [Next]_vars => Basic'
  BY TypeStep, UniqueStep, SeedingStep, CountedStep, KindsStep DEF Basic
<1> QED
  BY <1>1, BasicInit, PTL DEF Spec

\* Without a deletion from the accounts page, seniors are never lost.
LEMMA SeniorsStep == Basic /\ [Next]_vars /\ ~Removed' => ~Removed /\ Seniors \subseteq Seniors'
<1> SUFFICES ASSUME Basic, [Next]_vars, ~Removed' PROVE ~Removed /\ Seniors \subseteq Seniors'
  OBVIOUS
<1> USE NamesAssumption, NoneAssumption DEF Basic, TypeOK, Labels, Outcomes, Goto, Finish, Accept,
        accounts, requests
<1>1. ASSUME NEW r \in Reqs, SeedStart(r)
      PROVE  ~Removed /\ Seniors \subseteq Seniors'
  BY <1>1 DEF SeedStart, Removed, Seniors, Real, Named, Kinds, Unique
<1>2. ASSUME NEW r \in Reqs, SetupGranted(r)
      PROVE  ~Removed /\ Seniors \subseteq Seniors'
  BY <1>2 DEF SetupGranted, Removed, Seniors, Real, Named, Kinds, Unique
<1>3. ASSUME NEW r \in Reqs, SeedCheck(r) \/ SeedConflict(r)
      PROVE  ~Removed /\ Seniors \subseteq Seniors'
  BY <1>3 DEF SeedCheck, SeedConflict, Removed, Seniors, Real, Named, Kinds, Unique
<1>4. ASSUME NEW r \in Reqs, Abort(r) \/ Restart(r)
      PROVE  ~Removed /\ Seniors \subseteq Seniors'
  BY <1>4 DEF Abort, Restart, Removed, Seniors, Real, Named, Kinds, Unique
<1>5. ASSUME NEW r \in Reqs, SeedSelect(r) \/ SeedUpdate(r)
      PROVE  ~Removed /\ Seniors \subseteq Seniors'
  BY <1>5 DEF SeedSelect, SeedUpdate, Removed, Seniors, Real, Named, Kinds, Unique
<1>6. ASSUME NEW r \in Reqs, NEW i \in Ids, SeedInsert(r, i)
      PROVE  ~Removed /\ Seniors \subseteq Seniors'
  BY <1>6 DEF SeedInsert, NewRow, NameTaken, Removed, Seniors, Real, Named, Kinds, Unique
<1>7. ASSUME NEW r \in Reqs, NEW n \in Names, SetupSubmit(r, n)
      PROVE  ~Removed /\ Seniors \subseteq Seniors'
  BY <1>7 DEF SetupSubmit, Removed, Seniors, Real, Named, Kinds, Unique
<1>8. ASSUME NEW r \in Reqs, NEW a \in Ids, NEW n \in Names, NEW g \in BOOLEAN, CreateStart(r, a, n, g)
      PROVE  ~Removed /\ Seniors \subseteq Seniors'
  BY <1>8 DEF CreateStart, Removed, Seniors, Real, Named, Kinds, Unique
<1>9. ASSUME NEW r \in Reqs, NEW a \in Ids, NEW o \in {"delete", "edit"}, NEW i \in Ids, NEW g \in BOOLEAN,
             CountHolders(r, a, o, i, g)
      PROVE  ~Removed /\ Seniors \subseteq Seniors'
  BY <1>9 DEF CountHolders, Removed, Seniors, Real, Named, Kinds, Unique
<1>10. ASSUME NEW r \in Reqs, Validate(r) \/ InsertConflict(r) \/ Respond(r)
      PROVE  ~Removed /\ Seniors \subseteq Seniors'
  BY <1>10 DEF Validate, InsertConflict, Conflict, Respond, Removed, Seniors, Real, Named, Kinds, Unique
<1>11. ASSUME NEW r \in Reqs, NEW i \in Ids, InsertAccount(r, i)
      PROVE  ~Removed /\ Seniors \subseteq Seniors'
  BY <1>11 DEF InsertAccount, NewRow, NameTaken, Removed, Seniors, Real, Named, Kinds, Unique
<1>12. ASSUME NEW r \in Reqs, Retire(r)
      PROVE  ~Removed /\ Seniors \subseteq Seniors'
  BY <1>12 DEF Retire, Undercut, Removed, Seniors, Real, Named, Kinds, Unique
<1>13. ASSUME NEW r \in Reqs, DeleteAccount(r)
      PROVE  ~Removed /\ Seniors \subseteq Seniors'
  BY <1>13 DEF DeleteAccount, Undercut, Removed, Seniors, Real, Named, Kinds, Unique
<1>14. ASSUME NEW r \in Reqs, UpdatePermissions(r)
      PROVE  ~Removed /\ Seniors \subseteq Seniors'
  BY <1>14 DEF UpdatePermissions, Undercut, Removed, Seniors, Real, Named, Kinds, Unique
<1>15. CASE (\E i \in Ids : OpenPage(i)) \/ UNCHANGED vars
  BY <1>15 DEF OpenPage, vars, Removed, Seniors, Real, Named, Kinds, Unique
<1> QED
  BY <1>1, <1>2, <1>3, <1>4, <1>5, <1>6, <1>7, <1>8, <1>9, <1>10, <1>11, <1>12, <1>13, <1>14, <1>15 DEF Next, SeedStep, Start, Step

LEMMA WizardsStep == Basic /\ Wizards /\ [Next]_vars => Wizards'
<1> SUFFICES ASSUME Basic, Wizards, [Next]_vars, ~Removed' PROVE WizardFacts'
  BY DEF Wizards
<1>0. WizardFacts /\ Seniors \subseteq Seniors'
  BY SeniorsStep DEF Wizards
<1> USE NamesAssumption, NoneAssumption DEF Basic, TypeOK, Labels, Outcomes, Goto, Finish, Accept,
        accounts, requests
<1>1. ASSUME NEW r \in Reqs, SeedStart(r)
      PROVE  WizardFacts'
  BY <1>0, <1>1 DEF SeedStart, Kinds, Unique, Named, WizardFacts
<1>2. ASSUME NEW r \in Reqs, SetupGranted(r)
      PROVE  WizardFacts'
  BY <1>0, <1>2 DEF SetupGranted, Kinds, Unique, Named, WizardFacts
<1>3. ASSUME NEW r \in Reqs, SeedCheck(r) \/ SeedConflict(r)
      PROVE  WizardFacts'
  BY <1>0, <1>3 DEF SeedCheck, SeedConflict, Kinds, Unique, Named, WizardFacts
<1>4. ASSUME NEW r \in Reqs, Abort(r) \/ Restart(r)
      PROVE  WizardFacts'
  BY <1>0, <1>4 DEF Abort, Restart, Kinds, Unique, Named, WizardFacts
<1>5. ASSUME NEW r \in Reqs, SeedSelect(r) \/ SeedUpdate(r)
      PROVE  WizardFacts'
  BY <1>0, <1>5 DEF SeedSelect, SeedUpdate, Kinds, Unique, Named, WizardFacts
<1>6. ASSUME NEW r \in Reqs, NEW i \in Ids, SeedInsert(r, i)
      PROVE  WizardFacts'
  BY <1>0, <1>6 DEF SeedInsert, NewRow, NameTaken, Kinds, Unique, Named, WizardFacts
<1>7. ASSUME NEW r \in Reqs, NEW n \in Names, SetupSubmit(r, n)
      PROVE  WizardFacts'
  BY <1>0, <1>7 DEF SetupSubmit, Kinds, Unique, Named, WizardFacts
<1>8. ASSUME NEW r \in Reqs, NEW a \in Ids, NEW n \in Names, NEW g \in BOOLEAN, CreateStart(r, a, n, g)
      PROVE  WizardFacts'
  BY <1>0, <1>8 DEF CreateStart, Kinds, Unique, Named, WizardFacts
<1>9. ASSUME NEW r \in Reqs, NEW a \in Ids, NEW o \in {"delete", "edit"}, NEW i \in Ids, NEW g \in BOOLEAN,
             CountHolders(r, a, o, i, g)
      PROVE  WizardFacts'
  BY <1>0, <1>9 DEF CountHolders, Kinds, Unique, Named, WizardFacts
<1>10. ASSUME NEW r \in Reqs, Validate(r) \/ InsertConflict(r) \/ Respond(r)
      PROVE  WizardFacts'
  BY <1>0, <1>10 DEF Validate, InsertConflict, Conflict, Respond, Kinds, Unique, Named, WizardFacts
<1>11. ASSUME NEW r \in Reqs, NEW i \in Ids, InsertAccount(r, i)
      PROVE  WizardFacts'
  BY <1>0, <1>11 DEF InsertAccount, NewRow, NameTaken, Kinds, Unique, Named, WizardFacts
<1>12. ASSUME NEW r \in Reqs, Retire(r)
      PROVE  WizardFacts'
  <2>1. tgt[r] \in Ids \ boot /\ name[tgt[r]] \in Names /\ op[r] = "setup"
    BY <1>12 DEF Retire, Kinds
  <2>2. Seniors' = Seniors
    BY <1>12 DEF Retire, Seniors, Real, Named
  <2>3. Seniors # {}
    <3>1. ASSUME Seniors = {} PROVE FALSE
      <4>1. tgt[r] \in rows /\ name[tgt[r]] = BootName
        BY <1>0, <1>12, <2>1, <3>1 DEF Retire, Seniors, Real, WizardFacts
      <4>2. PICK b \in rows \intersect boot : TRUE
        BY <1>0, <2>1, <3>1 DEF WizardFacts
      <4> QED
        BY <2>1, <4>1, <4>2 DEF Unique
    <3> QED
      BY <3>1
  <2> QED
    BY <2>2, <2>3 DEF WizardFacts
<1>13. ASSUME NEW r \in Reqs, DeleteAccount(r)
      PROVE  WizardFacts'
  BY <1>0, <1>13 DEF DeleteAccount, Undercut, Removed, Kinds, Unique, Named, WizardFacts
<1>14. ASSUME NEW r \in Reqs, UpdatePermissions(r)
      PROVE  WizardFacts'
  BY <1>0, <1>14 DEF UpdatePermissions, Undercut, Kinds, Unique, Named, WizardFacts
<1>15. CASE (\E i \in Ids : OpenPage(i)) \/ UNCHANGED vars
  <2>1. UNCHANGED <<rows, boot, name, op, pc, tgt, out>>
    BY <1>15 DEF OpenPage, vars
  <2>2. Seniors' = Seniors
    BY <2>1 DEF Seniors, Real
  <2> QED
    BY <1>0, <2>1, <2>2 DEF WizardFacts
<1> QED
  BY <1>1, <1>2, <1>3, <1>4, <1>5, <1>6, <1>7, <1>8, <1>9, <1>10, <1>11, <1>12, <1>13, <1>14, <1>15 DEF Next, SeedStep, Start, Step

LEMMA Invariant == Spec => [](Basic /\ Wizards)
<1>1. Init => Wizards
  BY DEF Init, Wizards, WizardFacts
<1> QED
  BY <1>1, BasicInvariant, WizardsStep, PTL DEF Spec

-----------------------------------------------------------------------------
(* The properties.                                                         *)

\* The rows and the requests stay in their types.
THEOREM TypeCorrect == Spec => []TypeOK
<1>1. Basic => TypeOK
  BY DEF Basic
<1> QED
  BY <1>1, BasicInvariant, PTL

\* However starts race the wizard, the configured password never lands on a
\* real administrator.
THEOREM AntiTakeoverHolds == Spec => []AntiTakeover
<1>1. Basic => AntiTakeover
  BY DEF Basic, Seeding, AntiTakeover, Real
<1> QED
  BY <1>1, BasicInvariant, PTL

\* However many processes start together, there is at most one bootstrap row.
THEOREM OneBootstrapRowHolds == Spec => []OneBootstrapRow
<1>1. Basic => OneBootstrapRow
  BY DEF Basic, Unique, OneBootstrapRow
<1> QED
  BY <1>1, BasicInvariant, PTL

\* After a wizard that reported success there is a real administrator, until
\* one is deleted.
THEOREM SetupLeavesAnAdminHolds == Spec => []SetupLeavesAnAdmin
<1>1. Wizards => SetupLeavesAnAdmin
  BY DEF Wizards, WizardFacts, Removed, Seniors, SetupLeavesAnAdmin
<1> QED
  BY <1>1, Invariant, PTL

\* The last holder of the accounts permission is lost only to a removal whose
\* count another request undercut, or to a wizard.
LEMMA GuardedStep == Basic /\ [Next]_vars => GuardedUnlessRaced
<1> SUFFICES ASSUME Basic, [Next]_vars, LosesLastHolder PROVE GuardedUnlessRaced
  BY DEF GuardedUnlessRaced
<1> USE NamesAssumption, NoneAssumption DEF Basic, TypeOK, Labels, Outcomes, Goto, Finish, Accept,
        accounts, requests
<1>1. ASSUME NEW r \in Reqs, SeedStart(r)
      PROVE  GuardedUnlessRaced
  BY <1>1 DEF SeedStart, GuardedUnlessRaced, LosesLastHolder, Holders, Others, Counted, Kinds, Unique, Named
<1>2. ASSUME NEW r \in Reqs, SetupGranted(r)
      PROVE  GuardedUnlessRaced
  BY <1>2 DEF SetupGranted, GuardedUnlessRaced, LosesLastHolder, Holders, Others, Counted, Kinds, Unique, Named
<1>3. ASSUME NEW r \in Reqs, SeedCheck(r) \/ SeedConflict(r)
      PROVE  GuardedUnlessRaced
  BY <1>3 DEF SeedCheck, SeedConflict, GuardedUnlessRaced, LosesLastHolder, Holders, Others, Counted, Kinds, Unique, Named
<1>4. ASSUME NEW r \in Reqs, Abort(r) \/ Restart(r)
      PROVE  GuardedUnlessRaced
  BY <1>4 DEF Abort, Restart, GuardedUnlessRaced, LosesLastHolder, Holders, Others, Counted, Kinds, Unique, Named
<1>5. ASSUME NEW r \in Reqs, SeedSelect(r) \/ SeedUpdate(r)
      PROVE  GuardedUnlessRaced
  BY <1>5 DEF SeedSelect, SeedUpdate, GuardedUnlessRaced, LosesLastHolder, Holders, Others, Counted, Kinds, Unique, Named
<1>6. ASSUME NEW r \in Reqs, NEW i \in Ids, SeedInsert(r, i)
      PROVE  GuardedUnlessRaced
  BY <1>6 DEF SeedInsert, NewRow, NameTaken, GuardedUnlessRaced, LosesLastHolder, Holders, Others, Counted, Kinds, Unique, Named
<1>7. ASSUME NEW r \in Reqs, NEW n \in Names, SetupSubmit(r, n)
      PROVE  GuardedUnlessRaced
  BY <1>7 DEF SetupSubmit, GuardedUnlessRaced, LosesLastHolder, Holders, Others, Counted, Kinds, Unique, Named
<1>8. ASSUME NEW r \in Reqs, NEW a \in Ids, NEW n \in Names, NEW g \in BOOLEAN, CreateStart(r, a, n, g)
      PROVE  GuardedUnlessRaced
  BY <1>8 DEF CreateStart, GuardedUnlessRaced, LosesLastHolder, Holders, Others, Counted, Kinds, Unique, Named
<1>9. ASSUME NEW r \in Reqs, NEW a \in Ids, NEW o \in {"delete", "edit"}, NEW i \in Ids, NEW g \in BOOLEAN,
             CountHolders(r, a, o, i, g)
      PROVE  GuardedUnlessRaced
  BY <1>9 DEF CountHolders, GuardedUnlessRaced, LosesLastHolder, Holders, Others, Counted, Kinds, Unique, Named
<1>10. ASSUME NEW r \in Reqs, Validate(r) \/ InsertConflict(r) \/ Respond(r)
      PROVE  GuardedUnlessRaced
  BY <1>10 DEF Validate, InsertConflict, Conflict, Respond, GuardedUnlessRaced, LosesLastHolder, Holders, Others, Counted, Kinds, Unique, Named
<1>11. ASSUME NEW r \in Reqs, NEW i \in Ids, InsertAccount(r, i)
      PROVE  GuardedUnlessRaced
  BY <1>11 DEF InsertAccount, NewRow, NameTaken, GuardedUnlessRaced, LosesLastHolder, Holders, Others, Counted, Kinds, Unique, Named
<1>12. ASSUME NEW r \in Reqs, Retire(r)
      PROVE  GuardedUnlessRaced
  BY <1>12 DEF Retire, Undercut, GuardedUnlessRaced, LosesLastHolder, Holders, Others, Counted, Kinds, Unique, Named
<1>13. ASSUME NEW r \in Reqs, DeleteAccount(r)
      PROVE  GuardedUnlessRaced
  BY <1>13 DEF DeleteAccount, Undercut, GuardedUnlessRaced, LosesLastHolder, Holders, Others, Counted, Kinds, Unique, Named
<1>14. ASSUME NEW r \in Reqs, UpdatePermissions(r)
      PROVE  GuardedUnlessRaced
  BY <1>14 DEF UpdatePermissions, Undercut, GuardedUnlessRaced, LosesLastHolder, Holders, Others, Counted, Kinds, Unique, Named
<1>15. CASE (\E i \in Ids : OpenPage(i)) \/ UNCHANGED vars
  BY <1>15 DEF OpenPage, vars, GuardedUnlessRaced, LosesLastHolder, Holders, Others, Counted, Kinds, Unique, Named
<1> QED
  BY <1>1, <1>2, <1>3, <1>4, <1>5, <1>6, <1>7, <1>8, <1>9, <1>10, <1>11, <1>12, <1>13, <1>14, <1>15 DEF Next, SeedStep, Start, Step

THEOREM LastHolderGuarded == Spec => LastHolderLostOnlyByRace
<1> QED
  BY BasicInvariant, GuardedStep, PTL DEF Spec, LastHolderLostOnlyByRace

\* An account nobody can log in to is owed its temporary password by the
\* request that created it, or that request died.
Owed(q, i) == /\ op[q] \in {"setup", "create"} /\ tgt[q] = i
              /\ pc[q] \in {"retire", "respond"} \/ (pc[q] = "done" /\ out[q] = "aborted")

Shown == boot \subseteq told /\ \A i \in rows \ told : \E q \in Reqs : Owed(q, i)

LEMMA ShownStep == Basic /\ Shown /\ [Next]_vars => Shown'
<1> SUFFICES ASSUME Basic, Shown, [Next]_vars PROVE Shown'
  OBVIOUS
<1> USE NamesAssumption, NoneAssumption DEF Basic, TypeOK, Labels, Outcomes, Goto, Finish, Accept,
        accounts, requests
<1>1. ASSUME NEW r \in Reqs, SeedStart(r)
      PROVE  Shown'
  BY <1>1 DEF SeedStart, Shown, Owed, Kinds
<1>2. ASSUME NEW r \in Reqs, SetupGranted(r)
      PROVE  Shown'
  BY <1>2 DEF SetupGranted, Shown, Owed, Kinds
<1>3. ASSUME NEW r \in Reqs, SeedCheck(r) \/ SeedConflict(r)
      PROVE  Shown'
  BY <1>3 DEF SeedCheck, SeedConflict, Shown, Owed, Kinds
<1>4. ASSUME NEW r \in Reqs, Abort(r) \/ Restart(r)
      PROVE  Shown'
  BY <1>4 DEF Abort, Restart, Shown, Owed, Kinds
<1>5. ASSUME NEW r \in Reqs, SeedSelect(r) \/ SeedUpdate(r)
      PROVE  Shown'
  BY <1>5 DEF SeedSelect, SeedUpdate, Shown, Owed, Kinds
<1>6. ASSUME NEW r \in Reqs, NEW i \in Ids, SeedInsert(r, i)
      PROVE  Shown'
  BY <1>6 DEF SeedInsert, NewRow, NameTaken, Shown, Owed, Kinds
<1>7. ASSUME NEW r \in Reqs, NEW n \in Names, SetupSubmit(r, n)
      PROVE  Shown'
  BY <1>7 DEF SetupSubmit, Shown, Owed, Kinds
<1>8. ASSUME NEW r \in Reqs, NEW a \in Ids, NEW n \in Names, NEW g \in BOOLEAN, CreateStart(r, a, n, g)
      PROVE  Shown'
  BY <1>8 DEF CreateStart, Shown, Owed, Kinds
<1>9. ASSUME NEW r \in Reqs, NEW a \in Ids, NEW o \in {"delete", "edit"}, NEW i \in Ids, NEW g \in BOOLEAN,
             CountHolders(r, a, o, i, g)
      PROVE  Shown'
  BY <1>9 DEF CountHolders, Shown, Owed, Kinds
<1>10. ASSUME NEW r \in Reqs, Validate(r) \/ InsertConflict(r) \/ Respond(r)
      PROVE  Shown'
  BY <1>10 DEF Validate, InsertConflict, Conflict, Respond, Shown, Owed, Kinds
<1>11. ASSUME NEW r \in Reqs, NEW i \in Ids, InsertAccount(r, i)
      PROVE  Shown'
  BY <1>11 DEF InsertAccount, NewRow, NameTaken, Shown, Owed, Kinds
<1>12. ASSUME NEW r \in Reqs, Retire(r)
      PROVE  Shown'
  BY <1>12 DEF Retire, Undercut, Shown, Owed, Kinds
<1>13. ASSUME NEW r \in Reqs, DeleteAccount(r)
      PROVE  Shown'
  BY <1>13 DEF DeleteAccount, Undercut, Shown, Owed, Kinds
<1>14. ASSUME NEW r \in Reqs, UpdatePermissions(r)
      PROVE  Shown'
  BY <1>14 DEF UpdatePermissions, Undercut, Shown, Owed, Kinds
<1>15. CASE (\E i \in Ids : OpenPage(i)) \/ UNCHANGED vars
  BY <1>15 DEF OpenPage, vars, Shown, Owed, Kinds
<1> QED
  BY <1>1, <1>2, <1>3, <1>4, <1>5, <1>6, <1>7, <1>8, <1>9, <1>10, <1>11, <1>12, <1>13, <1>14, <1>15 DEF Next, SeedStep, Start, Step

LEMMA ShownInvariant == Spec => []Shown
<1>1. Init => Shown
  BY DEF Init, Shown
<1> QED BY <1>1, ShownStep, BasicInvariant, PTL DEF Spec

\* A start that was alone owes nobody a password, so that every account
\* there is can be logged in to, unless a creation died.
LEMMA RecoveryStep ==
  Basic /\ Shown /\ [Next]_vars => \A r \in Reqs : StartedAlone(r) => SomebodyCanLogIn' \/ DiedUntold
<1> SUFFICES ASSUME Basic, Shown, [Next]_vars, NEW r \in Reqs, StartedAlone(r), ~DiedUntold
             PROVE  SomebodyCanLogIn'
  OBVIOUS
<1>1. rows \subseteq told
  BY DEF Shown, Owed, StartedAlone, DiedUntold
<1>2. SeedCheck(r) \/ SeedSelect(r) \/ SeedUpdate(r) \/ (\E i \in Ids : SeedInsert(r, i))
  <2>1. pc[r] # "done" /\ pc'[r] = "done" /\ out'[r] \in {"ok", "skipped"} /\ op[r] = "seed"
    BY DEF StartedAlone
  <2>2. /\ pc[r] \in {"seed_check", "seed_select", "seed_update", "seed_insert", "idle"}
        /\ pc \in [Reqs -> Labels] /\ out \in [Reqs -> Outcomes]
    BY <2>1 DEF Basic, TypeOK, Kinds, Labels
  <2>3. ASSUME NEW q \in Reqs, pc[q] \in {"form", "validate", "insert", "retire", "respond", "write"}
        PROVE  q # r
    BY <2>2, <2>3
  <2>4. ASSUME NEW q \in Reqs, Step(q)
        PROVE  FALSE
    BY <2>1, <2>2, <2>3, <2>4 DEF Step, SetupSubmit, Validate, InsertAccount, InsertConflict, Retire, Respond,
         DeleteAccount, UpdatePermissions, Conflict, Goto, Finish
  <2>5. ASSUME NEW q \in Reqs, Start(q) \/ Restart(q) \/ Abort(q) \/ SeedConflict(q)
        PROVE  FALSE
    BY <2>1, <2>2, <2>5 DEF Start, SeedStart, SetupGranted, CreateStart, CountHolders, Restart, Abort,
         SeedConflict, Accept, Goto, Finish
  <2>6. ASSUME NEW q \in Reqs, q # r, SeedCheck(q) \/ SeedSelect(q) \/ SeedUpdate(q)
                                      \/ (\E i \in Ids : SeedInsert(q, i))
        PROVE  FALSE
    BY <2>1, <2>2, <2>6 DEF SeedCheck, SeedSelect, SeedUpdate, SeedInsert, Goto, Finish
  <2>7. ~((\E i \in Ids : OpenPage(i)) \/ UNCHANGED vars)
    BY <2>1 DEF OpenPage, vars, requests
  <2> QED
    BY <2>4, <2>5, <2>6, <2>7 DEF Next, SeedStep
<1>3. CASE SeedCheck(r)
  BY <1>1, <1>3 DEF SeedCheck, StartedAlone, Basic, TypeOK, Finish, Goto, accounts, SomebodyCanLogIn, Real
<1>4. CASE SeedSelect(r)
  BY <1>1, <1>4 DEF SeedSelect, StartedAlone, Basic, TypeOK, Finish, Goto, accounts, SomebodyCanLogIn, Real, Named
<1>5. CASE SeedUpdate(r)
  BY <1>1, <1>5 DEF SeedUpdate, StartedAlone, Finish, Basic, TypeOK, SomebodyCanLogIn, Real
<1>6. ASSUME NEW i \in Ids, SeedInsert(r, i)
      PROVE  SomebodyCanLogIn'
  BY <1>1, <1>6 DEF SeedInsert, NewRow, SomebodyCanLogIn, Real
<1> QED BY <1>2, <1>3, <1>4, <1>5, <1>6

\* After a start that ran alone somebody can log in, unless the request that
\* created an account died before it showed the temporary password.
THEOREM RecoveryHolds == Spec => RecoveryLostOnlyByCrash
BY BasicInvariant, ShownInvariant, RecoveryStep, PTL DEF Spec, RecoveryLostOnlyByCrash

-----------------------------------------------------------------------------
(* Settings.  A setting the validator accepts and the documentation would  *)
(* write is read alike by every selector.                                  *)

\* A tidy name that is accepted is known, or there is none.
LEMMA TidyText ==
  ASSUME NEW known, NEW v \in Texts(known), v.spelt = "plain", ~Unknown(v, known)
  PROVE  /\ v.name \in known \union {""}
         /\ v = [name |-> v.name, spelt |-> "plain"]
         /\ Truthy(v) <=> v.name # ""
         /\ Lowered(v) = v.name /\ Stripped(v) = v.name /\ Verbatim(v) = v.name
<1>1. v = [name |-> v.name, spelt |-> "plain"]
  <2>1. CASE v \in [name : known \union {"typo"}, spelt : {"plain", "capitals", "padded"}]
    BY <2>1
  <2>2. CASE v \in {Unset, [name |-> "", spelt |-> "padded"]}
    BY <2>2 DEF Unset
  <2> QED BY <2>1, <2>2 DEF Texts
<1>2. v.name \in known \union {""}
  BY DEF Unknown, Stripped
<1>3. Truthy(v) <=> v.name # ""
  <2>1. Unset.name = ""
    BY DEF Unset
  <2>2. v.name = "" => v = Unset
    BY <1>1 DEF Unset
  <2> QED BY <2>1, <2>2 DEF Truthy
<1> QED BY <1>1, <1>2, <1>3 DEF Lowered, Stripped, Verbatim

LEMMA ClientsTidy ==
  ASSUME NEW s, Fits(s), Accepted(s), Tidy(s)
  PROVE  ClientsHonour(s)
<1>1. /\ s.storage_type.name \in {"s3", "minio", ""}
      /\ Truthy(s.storage_type) <=> s.storage_type.name # ""
      /\ Lowered(s.storage_type) = s.storage_type.name
      /\ Stripped(s.storage_type) = s.storage_type.name
  BY TidyText DEF Fits, Tidy, Accepted, StorageCoupled, KnownStorageTypes
<1>2. s.storage_type # Unset => StorageClient(s) = "real"
  BY <1>1 DEF Fits, Tidy, Accepted, StorageCoupled, Complete, Credentials, StorageClient,
       StorageCredentials, BuildStorageClient, Truthy
<1>3. /\ s.vector_store_type.name \in {"inmemory", "s3vectors", ""}
      /\ Truthy(s.vector_store_type) <=> s.vector_store_type.name # ""
      /\ Stripped(s.vector_store_type) = s.vector_store_type.name
  BY TidyText DEF Fits, Tidy, Accepted, VectorsCoupled, KnownVectorStoreTypes
<1>4. s.vector_store_type.name = "s3vectors" => VectorStore(s) = "real"
  BY <1>3 DEF Fits, Tidy, Accepted, VectorsCoupled, Complete, Credentials, VectorStore,
       S3VectorClient, KeyTruthy, Defaulted
<1>5. /\ s.broker_type.name \in {"sqs", "rabbitmq", "inmemory", ""}
      /\ Truthy(s.broker_type) <=> s.broker_type.name # ""
      /\ Stripped(s.broker_type) = s.broker_type.name
  BY TidyText DEF Fits, Tidy, Accepted, BrokerCoupled, KnownBrokerTypes
<1>6. s.broker_type # Unset => Broker(s) = s.broker_type.name
  BY <1>5 DEF Fits, Tidy, Accepted, BrokerCoupled, Complete, Credentials, Broker, Defaulted, Truthy
<1>7. s.dynamodb # "none" => DynamodbClient(s) = "real"
  BY DEF Fits, Tidy, Accepted, NosqlComplete, Credentials, DynamodbClient, KeyTruthy
<1> QED BY <1>2, <1>4, <1>6, <1>7 DEF ClientsHonour

LEMMA ModelsTidy ==
  ASSUME NEW s, Fits(s), Accepted(s), Tidy(s)
  PROVE  ModelsHonour(s)
<1>1. /\ Lowered(s.embedding_provider) = s.embedding_provider.name
      /\ Stripped(s.embedding_provider) = s.embedding_provider.name
      /\ Stripped(s.llm_provider) = s.llm_provider.name
  BY DEF Tidy, Lowered, Stripped
<1>2. EmbeddingNamed(s) => EmbeddingClient(s) = "real" /\ Embedder(s) = "real"
  BY <1>1 DEF Fits, Tidy, Accepted, EmbeddingCoupled, Complete, Credentials, EmbeddingClient,
       Embedder, BuildEmbeddingModel, KeyTruthy
<1>3. s.embedding_provider.name \in {"openai", "bedrock", "google"} =>
        DimensionTable(s) = s.embedding_provider.name
  BY <1>1 DEF DimensionTable
<1>4. LlmNamed(s) => LlmModel(s) = "real" /\ AnswerAgent(s) = "real" /\ Classifier(s) = "real"
  BY <1>1 DEF Fits, Tidy, Accepted, LlmCoupled, Complete, Credentials, LlmModel, AnswerAgent,
       Classifier, BuildLlmModel, KeyTruthy
<1> QED BY <1>2, <1>3, <1>4 DEF ModelsHonour

LEMMA AlertsTidy ==
  ASSUME NEW s, Fits(s), Accepted(s), Tidy(s)
  PROVE  AlertsHonour(s)
<1>1. /\ s.notification_provider.name \in {"slack", "discord", ""}
      /\ Truthy(s.notification_provider) <=> s.notification_provider.name # ""
      /\ Stripped(s.notification_provider) = s.notification_provider.name
  BY TidyText DEF Fits, Tidy, Accepted, NotificationCoupled, KnownNotificationProviders
<1>2. NotificationCoupled(s) /\ s.warning_threshold \in {"unset", "below", "above"}
  BY DEF Fits, Accepted
<1> QED
  BY <1>1, <1>2 DEF AlertsHonour, NotificationCoupled, AlertTarget, TierTarget, Webhook, Routed,
       Adapter, Truthy

LEMMA ProfilesTidy ==
  ASSUME NEW s, Fits(s), Accepted(s), Tidy(s)
  PROVE  ProfilesHonour(s)
<1>1. /\ Lowered(s.env) = s.env.name /\ Verbatim(s.env) = s.env.name
      /\ Lowered(s.database_engine) = s.database_engine.name
      /\ Verbatim(s.database_engine) = s.database_engine.name
  BY DEF Tidy, Lowered, Verbatim
<1>2. s.env.name \in KnownEnvs /\ s.database_engine.name \in KnownEngines
  BY <1>1 DEF Accepted, EnvironmentSafe
<1> QED
  BY <1>1, <1>2 DEF ProfilesHonour, Strict, StrictEnvs, KnownEnvs, KnownEngines, DatabaseProfile,
       IsDev, ConnectTimeouts, HttpProfile

LEMMA TidyHonoured ==
  ASSUME NEW s, Fits(s), Accepted(s), Tidy(s)
  PROVE  Honoured(s)
BY ClientsTidy, ModelsTidy, AlertsTidy, ProfilesTidy DEF Honoured

-----------------------------------------------------------------------------
(* Processes.                                                              *)

StartTypeOK ==
  /\ deployment \in Deployments
  /\ stage \in [Procs -> Stages]
  /\ tree \in [Procs -> Nat]
  /\ at \in [Procs -> [Parts -> Nat \union {None}]]
  /\ stack \in [Procs -> {<<>>, Contract}]
  /\ exporters \in [Procs -> {0, 1}]

ServerOnly == {"schema", "core_routes", "domains", "inline", "admin", "startup", "seeding"}
WorkerOnly == {"broker", "wire_tasks", "wire_audit", "middleware"}

\* The parts a process at this stage has hung off its tree, if it runs them.
Done(s) == CASE s \in {"schema", "core_routes"} -> {"app"}
             [] s = "domains" -> {"app", "health"}
             [] s = "inline" -> {"app", "health", "routes"}
             [] s = "admin" -> {"app", "health", "routes", "tasks", "audit", "notifier"}
             [] s = "wire_audit" -> {"tasks"}
             [] s = "middleware" -> {"tasks", "audit"}
             [] s \in {"startup", "seeding", "serving"} -> Parts
             [] OTHER -> {}

\* OneTreeServes and TasksRunWhole only speak of a process that serves: on the
\* way there, what it has hung hangs off its newest tree, and what it does
\* not run hangs nowhere.
OnItsWay(p) ==
  /\ stage[p] \notin (IF Kind[p] = "server" THEN WorkerOnly ELSE ServerOnly)
  /\ Kind[p] # "server" => tree[p] = 0
  /\ stage[p] \notin {"new", "refused", "down"} => Accepted(settings)
  /\ \A x \in Parts : ~Runs(p, x) => at[p][x] = None
  /\ \A x \in Done(stage[p]) : Runs(p, x) => at[p][x] = tree[p]
  /\ stack[p] # <<>> => Runs(p, "tasks")
  /\ stage[p] \in {"admin", "startup", "seeding", "serving"} /\ Runs(p, "tasks") => stack[p] = Contract

StartInv == StartTypeOK /\ \A p \in Procs : OnItsWay(p)

\* A step of one process, which may touch what the accounts keep.
Moves(p) == /\ \A q \in Procs \ {p} : /\ stage'[q] = stage[q] /\ tree'[q] = tree[q] /\ at'[q] = at[q]
                                      /\ stack'[q] = stack[q]
            /\ deployment' = deployment

LEMMA OthersStay ==
  ASSUME NEW p \in Procs, Moves(p), NEW q \in Procs \ {p}, OnItsWay(q)
  PROVE  OnItsWay(q)'
<1>1. \A x \in Parts : Runs(q, x)' <=> Runs(q, x)
  BY DEF Moves, Runs, has, Inline, settings
<1>2. stage'[q] = stage[q] /\ Done(stage[q]) \subseteq Parts /\ "tasks" \in Parts
  BY DEF Moves, Done, Parts
<1> QED BY <1>1, <1>2 DEF Moves, OnItsWay, settings

\* The middlewares are installed once, whoever asks.
LEMMA InstalledOnce ==
  ASSUME StartTypeOK, NEW p \in Procs, NEW t, InstallTaskMiddleware(p, t)
  PROVE  stack' = [stack EXCEPT ![p] = Contract]
<1>1. stack[p] \in {<<>>, Contract}
  BY DEF StartTypeOK
<1>2. ~InstalledIn(<<>>) /\ <<>> \o Contract = Contract
  BY DEF InstalledIn, Contract
<1>3. InstalledIn(Contract)
  <2>1. 4 \in DOMAIN Contract /\ Contract[4] = "alert"
    BY DEF Contract
  <2> QED BY <2>1, Zenon DEF InstalledIn
<1> QED BY <1>1, <1>2, <1>3 DEF InstallTaskMiddleware


LEMMA Hung ==
  ASSUME StartTypeOK, NEW p \in Procs, NEW parts, NEW t \in Nat, Hang(p, parts, t)
  PROVE  /\ at' \in [Procs -> [Parts -> Nat \union {None}]]
         /\ \A x \in Parts : at'[p][x] = IF x \in parts THEN t ELSE at[p][x]
         /\ \A q \in Procs \ {p} : at'[q] = at[q]
BY DEF Hang, StartTypeOK

\* What a step makes of its own process.
LEMMA StepOfProcess ==
  ASSUME StartInv, NEW p \in Procs, Boot(p) \/ BuildAgain(p) \/ Die(p) \/ StartAgain(p)
  PROVE  StartTypeOK' /\ OnItsWay(p)' /\ Moves(p)
<1> USE ProcsAssumption DEF StartInv, StartTypeOK, OnItsWay, Moves, Enter
<1>0. /\ Kind[p] \in {"server", "worker", "scheduler"}
      /\ OnItsWay(p)
      /\ deployment' = deployment => \A x \in Parts : Runs(p, x)' <=> Runs(p, x)
  BY DEF Runs, has, Inline, settings
<1>1. CASE ImportSettings(p)
  BY <1>0, <1>1 DEF ImportSettings, Done, Parts, Stages, ServerOnly, WorkerOnly, settings, process
<1>2. CASE ImportBroker(p)
  BY <1>0, <1>2 DEF ImportBroker, Done, Parts, Stages, ServerOnly, WorkerOnly, settings, process
<1>3. CASE Prepare(p)
  BY <1>0, <1>3 DEF Prepare, Done, Parts, Stages, ServerOnly, WorkerOnly, settings, process, ConfigureOtel
<1>4. CASE ServerContainer(p)
  <2>1. /\ at' \in [Procs -> [Parts -> Nat \union {None}]]
        /\ \A x \in Parts : at'[p][x] = IF x \in {"app"} THEN tree[p] + 1 ELSE at[p][x]
        /\ \A q \in Procs \ {p} : at'[q] = at[q]
    <3>1. tree[p] + 1 \in Nat
      OBVIOUS
    <3>2. Hang(p, {"app"}, tree[p] + 1)
      BY <1>4 DEF ServerContainer, BuildDomains
    <3> HIDE DEF StartTypeOK
    <3> QED BY ONLY <3>1, <3>2, Hung, StartTypeOK, p \in Procs
  <2>2. OnItsWay(p)'
    <3>1. Kind[p] # "server" => tree'[p] = 0
      BY <1>0, <2>1, <1>4 DEF ServerContainer, Done, Parts, Stages, ServerOnly, WorkerOnly, settings, process, BuildDomains
    <3>2. stage'[p] \notin (IF Kind[p] = "server" THEN WorkerOnly ELSE ServerOnly)
      BY <1>0, <2>1, <1>4 DEF ServerContainer, Done, Parts, Stages, ServerOnly, WorkerOnly, settings, process, BuildDomains
    <3>3. stage'[p] \notin {"new", "refused", "down"} => Accepted(settings)'
      BY <1>0, <2>1, <1>4 DEF ServerContainer, Done, Parts, Stages, ServerOnly, WorkerOnly, settings, process, BuildDomains
    <3>4. \A x \in Parts : ~Runs(p, x)' => at'[p][x] = None
      BY <1>0, <2>1, <1>4 DEF ServerContainer, Done, Parts, Stages, ServerOnly, WorkerOnly, settings, process, BuildDomains, Runs, has, Inline
    <3>5. \A x \in Done(stage[p])' : Runs(p, x)' => at'[p][x] = tree'[p]
      BY <1>0, <2>1, <1>4 DEF ServerContainer, Done, Parts, Stages, ServerOnly, WorkerOnly, settings, process, BuildDomains, Runs, has, Inline
    <3>6. /\ stack'[p] # <<>> => Runs(p, "tasks")'
          /\ stage'[p] \in {"admin", "startup", "seeding", "serving"} /\ Runs(p, "tasks")' => stack'[p] = Contract
      BY <1>0, <2>1, <1>4 DEF ServerContainer, Done, Parts, Stages, ServerOnly, WorkerOnly, settings, process, BuildDomains, Runs, has, Inline
    <3> QED BY <3>1, <3>2, <3>3, <3>4, <3>5, <3>6
  <2>3. StartTypeOK'
    BY <1>0, <2>1, <1>4 DEF ServerContainer, Done, Parts, Stages, ServerOnly, WorkerOnly, settings, process, BuildDomains
  <2>4. Moves(p)
    BY <1>0, <2>1, <1>4 DEF ServerContainer, Done, Parts, Stages, ServerOnly, WorkerOnly, settings, process, BuildDomains
  <2> QED BY <2>2, <2>3, <2>4
<1>5. CASE CreateSchema(p)
  BY <1>0, <1>5 DEF CreateSchema, Done, Parts, Stages, ServerOnly, WorkerOnly, settings, process
<1>6. CASE CoreRoutes(p)
  <2>1. /\ at' \in [Procs -> [Parts -> Nat \union {None}]]
        /\ \A x \in Parts : at'[p][x] = IF x \in {"health"} THEN tree[p] ELSE at[p][x]
        /\ \A q \in Procs \ {p} : at'[q] = at[q]
    <3>1. tree[p] \in Nat
      OBVIOUS
    <3>2. Hang(p, {"health"}, tree[p])
      BY <1>6 DEF CoreRoutes
    <3> HIDE DEF StartTypeOK
    <3> QED BY ONLY <3>1, <3>2, Hung, StartTypeOK, p \in Procs
  <2>2. OnItsWay(p)'
    <3>1. Kind[p] # "server" => tree'[p] = 0
      BY <1>0, <2>1, <1>6 DEF CoreRoutes, Done, Parts, Stages, ServerOnly, WorkerOnly, settings, process
    <3>2. stage'[p] \notin (IF Kind[p] = "server" THEN WorkerOnly ELSE ServerOnly)
      BY <1>0, <2>1, <1>6 DEF CoreRoutes, Done, Parts, Stages, ServerOnly, WorkerOnly, settings, process
    <3>3. stage'[p] \notin {"new", "refused", "down"} => Accepted(settings)'
      BY <1>0, <2>1, <1>6 DEF CoreRoutes, Done, Parts, Stages, ServerOnly, WorkerOnly, settings, process
    <3>4. \A x \in Parts : ~Runs(p, x)' => at'[p][x] = None
      BY <1>0, <2>1, <1>6 DEF CoreRoutes, Done, Parts, Stages, ServerOnly, WorkerOnly, settings, process, Runs, has, Inline
    <3>5. \A x \in Done(stage[p])' : Runs(p, x)' => at'[p][x] = tree'[p]
      BY <1>0, <2>1, <1>6 DEF CoreRoutes, Done, Parts, Stages, ServerOnly, WorkerOnly, settings, process, Runs, has, Inline
    <3>6. /\ stack'[p] # <<>> => Runs(p, "tasks")'
          /\ stage'[p] \in {"admin", "startup", "seeding", "serving"} /\ Runs(p, "tasks")' => stack'[p] = Contract
      BY <1>0, <2>1, <1>6 DEF CoreRoutes, Done, Parts, Stages, ServerOnly, WorkerOnly, settings, process, Runs, has, Inline
    <3> QED BY <3>1, <3>2, <3>3, <3>4, <3>5, <3>6
  <2>3. StartTypeOK'
    BY <1>0, <2>1, <1>6 DEF CoreRoutes, Done, Parts, Stages, ServerOnly, WorkerOnly, settings, process
  <2>4. Moves(p)
    BY <1>0, <2>1, <1>6 DEF CoreRoutes, Done, Parts, Stages, ServerOnly, WorkerOnly, settings, process
  <2> QED BY <2>2, <2>3, <2>4
<1>7. CASE ServerDomains(p)
  <2>1. /\ at' \in [Procs -> [Parts -> Nat \union {None}]]
        /\ \A x \in Parts : at'[p][x] = IF x \in {"routes"} THEN tree[p] ELSE at[p][x]
        /\ \A q \in Procs \ {p} : at'[q] = at[q]
    <3>1. tree[p] \in Nat
      OBVIOUS
    <3>2. Hang(p, {"routes"}, tree[p])
      BY <1>7 DEF ServerDomains
    <3> HIDE DEF StartTypeOK
    <3> QED BY ONLY <3>1, <3>2, Hung, StartTypeOK, p \in Procs
  <2>2. OnItsWay(p)'
    <3>1. Kind[p] # "server" => tree'[p] = 0
      BY <1>0, <2>1, <1>7 DEF ServerDomains, Done, Parts, Stages, ServerOnly, WorkerOnly, settings, process
    <3>2. stage'[p] \notin (IF Kind[p] = "server" THEN WorkerOnly ELSE ServerOnly)
      BY <1>0, <2>1, <1>7 DEF ServerDomains, Done, Parts, Stages, ServerOnly, WorkerOnly, settings, process
    <3>3. stage'[p] \notin {"new", "refused", "down"} => Accepted(settings)'
      BY <1>0, <2>1, <1>7 DEF ServerDomains, Done, Parts, Stages, ServerOnly, WorkerOnly, settings, process
    <3>4. \A x \in Parts : ~Runs(p, x)' => at'[p][x] = None
      BY <1>0, <2>1, <1>7 DEF ServerDomains, Done, Parts, Stages, ServerOnly, WorkerOnly, settings, process, Runs, has, Inline
    <3>5. \A x \in Done(stage[p])' : Runs(p, x)' => at'[p][x] = tree'[p]
      BY <1>0, <2>1, <1>7 DEF ServerDomains, Done, Parts, Stages, ServerOnly, WorkerOnly, settings, process, Runs, has, Inline
    <3>6. /\ stack'[p] # <<>> => Runs(p, "tasks")'
          /\ stage'[p] \in {"admin", "startup", "seeding", "serving"} /\ Runs(p, "tasks")' => stack'[p] = Contract
      BY <1>0, <2>1, <1>7 DEF ServerDomains, Done, Parts, Stages, ServerOnly, WorkerOnly, settings, process, Runs, has, Inline
    <3> QED BY <3>1, <3>2, <3>3, <3>4, <3>5, <3>6
  <2>3. StartTypeOK'
    BY <1>0, <2>1, <1>7 DEF ServerDomains, Done, Parts, Stages, ServerOnly, WorkerOnly, settings, process
  <2>4. Moves(p)
    BY <1>0, <2>1, <1>7 DEF ServerDomains, Done, Parts, Stages, ServerOnly, WorkerOnly, settings, process
  <2> QED BY <2>2, <2>3, <2>4
<1>8. CASE InlineRuntime(p)
  <2>1. Inline => /\ at' \in [Procs -> [Parts -> Nat \union {None}]]
                  /\ \A x \in Parts : at'[p][x] = IF x \in {"tasks", "audit", "notifier"} THEN tree[p] ELSE at[p][x]
                  /\ \A q \in Procs \ {p} : at'[q] = at[q]
    <3>1. tree[p] \in Nat
      OBVIOUS
    <3>2. Inline => Hang(p, {"tasks", "audit", "notifier"}, tree[p])
      BY <1>8 DEF InlineRuntime
    <3> HIDE DEF StartTypeOK
    <3> QED BY ONLY <3>1, <3>2, Hung, StartTypeOK, p \in Procs
  <2>2. OnItsWay(p)'
    <3>1. Kind[p] # "server" => tree'[p] = 0
      BY <1>0, <2>1, <1>8, InstalledOnce DEF InlineRuntime, Done, Parts, Stages, ServerOnly, WorkerOnly, settings, process
    <3>2. stage'[p] \notin (IF Kind[p] = "server" THEN WorkerOnly ELSE ServerOnly)
      BY <1>0, <2>1, <1>8, InstalledOnce DEF InlineRuntime, Done, Parts, Stages, ServerOnly, WorkerOnly, settings, process
    <3>3. stage'[p] \notin {"new", "refused", "down"} => Accepted(settings)'
      BY <1>0, <2>1, <1>8, InstalledOnce DEF InlineRuntime, Done, Parts, Stages, ServerOnly, WorkerOnly, settings, process
    <3>4. \A x \in Parts : ~Runs(p, x)' => at'[p][x] = None
      BY <1>0, <2>1, <1>8, InstalledOnce DEF InlineRuntime, Done, Parts, Stages, ServerOnly, WorkerOnly, settings, process, Runs, has, Inline
    <3>5. \A x \in Done(stage[p])' : Runs(p, x)' => at'[p][x] = tree'[p]
      BY <1>0, <2>1, <1>8, InstalledOnce DEF InlineRuntime, Done, Parts, Stages, ServerOnly, WorkerOnly, settings, process, Runs, has, Inline
    <3>6. /\ stack'[p] # <<>> => Runs(p, "tasks")'
          /\ stage'[p] \in {"admin", "startup", "seeding", "serving"} /\ Runs(p, "tasks")' => stack'[p] = Contract
      BY <1>0, <2>1, <1>8, InstalledOnce DEF InlineRuntime, Done, Parts, Stages, ServerOnly, WorkerOnly, settings, process, Runs, has, Inline
    <3> QED BY <3>1, <3>2, <3>3, <3>4, <3>5, <3>6
  <2>3. StartTypeOK'
    BY <1>0, <2>1, <1>8, InstalledOnce DEF InlineRuntime, Done, Parts, Stages, ServerOnly, WorkerOnly, settings, process
  <2>4. Moves(p)
    BY <1>0, <2>1, <1>8, InstalledOnce DEF InlineRuntime, Done, Parts, Stages, ServerOnly, WorkerOnly, settings, process
  <2> QED BY <2>2, <2>3, <2>4
<1>9. CASE MountAdmin(p)
  <2>1. has("admin") => /\ at' \in [Procs -> [Parts -> Nat \union {None}]]
                        /\ \A x \in Parts : at'[p][x] = IF x \in {"admin"} THEN tree[p] ELSE at[p][x]
                        /\ \A q \in Procs \ {p} : at'[q] = at[q]
    <3>1. tree[p] \in Nat
      OBVIOUS
    <3>2. has("admin") => Hang(p, {"admin"}, tree[p])
      BY <1>9 DEF MountAdmin
    <3> HIDE DEF StartTypeOK
    <3> QED BY ONLY <3>1, <3>2, Hung, StartTypeOK, p \in Procs
  <2>2. OnItsWay(p)'
    <3>1. Kind[p] # "server" => tree'[p] = 0
      BY <1>0, <2>1, <1>9 DEF MountAdmin, Done, Parts, Stages, ServerOnly, WorkerOnly, settings, process
    <3>2. stage'[p] \notin (IF Kind[p] = "server" THEN WorkerOnly ELSE ServerOnly)
      BY <1>0, <2>1, <1>9 DEF MountAdmin, Done, Parts, Stages, ServerOnly, WorkerOnly, settings, process
    <3>3. stage'[p] \notin {"new", "refused", "down"} => Accepted(settings)'
      BY <1>0, <2>1, <1>9 DEF MountAdmin, Done, Parts, Stages, ServerOnly, WorkerOnly, settings, process
    <3>4. \A x \in Parts : ~Runs(p, x)' => at'[p][x] = None
      BY <1>0, <2>1, <1>9 DEF MountAdmin, Done, Parts, Stages, ServerOnly, WorkerOnly, settings, process, Runs, has, Inline
    <3>5. \A x \in Done(stage[p])' : Runs(p, x)' => at'[p][x] = tree'[p]
      BY <1>0, <2>1, <1>9 DEF MountAdmin, Done, Parts, Stages, ServerOnly, WorkerOnly, settings, process, Runs, has, Inline
    <3>6. /\ stack'[p] # <<>> => Runs(p, "tasks")'
          /\ stage'[p] \in {"admin", "startup", "seeding", "serving"} /\ Runs(p, "tasks")' => stack'[p] = Contract
      BY <1>0, <2>1, <1>9 DEF MountAdmin, Done, Parts, Stages, ServerOnly, WorkerOnly, settings, process, Runs, has, Inline
    <3> QED BY <3>1, <3>2, <3>3, <3>4, <3>5, <3>6
  <2>3. StartTypeOK'
    BY <1>0, <2>1, <1>9 DEF MountAdmin, Done, Parts, Stages, ServerOnly, WorkerOnly, settings, process
  <2>4. Moves(p)
    BY <1>0, <2>1, <1>9 DEF MountAdmin, Done, Parts, Stages, ServerOnly, WorkerOnly, settings, process
  <2> QED BY <2>2, <2>3, <2>4
<1>10. CASE StartServing(p)
  BY <1>0, <1>10 DEF StartServing, Done, Parts, Stages, ServerOnly, WorkerOnly, settings, process
<1>11. CASE Seed(p)
  BY <1>0, <1>11 DEF Seed, Done, Parts, Stages, ServerOnly, WorkerOnly, settings, process
<1>12. CASE SeedWithoutTables(p)
  BY <1>0, <1>12 DEF SeedWithoutTables, Done, Parts, Stages, ServerOnly, WorkerOnly, settings, process
<1>13. CASE WorkerContainer(p)
  BY <1>0, <1>13 DEF WorkerContainer, Done, Parts, Stages, ServerOnly, WorkerOnly, settings, process, BuildDomains
<1>14. CASE WireTasks(p)
  <2>1. /\ at' \in [Procs -> [Parts -> Nat \union {None}]]
        /\ \A x \in Parts : at'[p][x] = IF x \in {"tasks"} THEN 0 ELSE at[p][x]
        /\ \A q \in Procs \ {p} : at'[q] = at[q]
    <3>1. 0 \in Nat
      OBVIOUS
    <3>2. Hang(p, {"tasks"}, 0)
      BY <1>14 DEF WireTasks
    <3> HIDE DEF StartTypeOK
    <3> QED BY ONLY <3>1, <3>2, Hung, StartTypeOK, p \in Procs
  <2>2. OnItsWay(p)'
    <3>1. Kind[p] # "server" => tree'[p] = 0
      BY <1>0, <2>1, <1>14 DEF WireTasks, Done, Parts, Stages, ServerOnly, WorkerOnly, settings, process
    <3>2. stage'[p] \notin (IF Kind[p] = "server" THEN WorkerOnly ELSE ServerOnly)
      BY <1>0, <2>1, <1>14 DEF WireTasks, Done, Parts, Stages, ServerOnly, WorkerOnly, settings, process
    <3>3. stage'[p] \notin {"new", "refused", "down"} => Accepted(settings)'
      BY <1>0, <2>1, <1>14 DEF WireTasks, Done, Parts, Stages, ServerOnly, WorkerOnly, settings, process
    <3>4. \A x \in Parts : ~Runs(p, x)' => at'[p][x] = None
      BY <1>0, <2>1, <1>14 DEF WireTasks, Done, Parts, Stages, ServerOnly, WorkerOnly, settings, process, Runs, has, Inline
    <3>5. \A x \in Done(stage[p])' : Runs(p, x)' => at'[p][x] = tree'[p]
      BY <1>0, <2>1, <1>14 DEF WireTasks, Done, Parts, Stages, ServerOnly, WorkerOnly, settings, process, Runs, has, Inline
    <3>6. /\ stack'[p] # <<>> => Runs(p, "tasks")'
          /\ stage'[p] \in {"admin", "startup", "seeding", "serving"} /\ Runs(p, "tasks")' => stack'[p] = Contract
      BY <1>0, <2>1, <1>14 DEF WireTasks, Done, Parts, Stages, ServerOnly, WorkerOnly, settings, process, Runs, has, Inline
    <3> QED BY <3>1, <3>2, <3>3, <3>4, <3>5, <3>6
  <2>3. StartTypeOK'
    BY <1>0, <2>1, <1>14 DEF WireTasks, Done, Parts, Stages, ServerOnly, WorkerOnly, settings, process
  <2>4. Moves(p)
    BY <1>0, <2>1, <1>14 DEF WireTasks, Done, Parts, Stages, ServerOnly, WorkerOnly, settings, process
  <2> QED BY <2>2, <2>3, <2>4
<1>15. CASE WireAudit(p)
  <2>1. /\ at' \in [Procs -> [Parts -> Nat \union {None}]]
        /\ \A x \in Parts : at'[p][x] = IF x \in {"audit"} THEN 0 ELSE at[p][x]
        /\ \A q \in Procs \ {p} : at'[q] = at[q]
    <3>1. 0 \in Nat
      OBVIOUS
    <3>2. Hang(p, {"audit"}, 0)
      BY <1>15 DEF WireAudit
    <3> HIDE DEF StartTypeOK
    <3> QED BY ONLY <3>1, <3>2, Hung, StartTypeOK, p \in Procs
  <2>2. OnItsWay(p)'
    <3>1. Kind[p] # "server" => tree'[p] = 0
      BY <1>0, <2>1, <1>15 DEF WireAudit, Done, Parts, Stages, ServerOnly, WorkerOnly, settings, process
    <3>2. stage'[p] \notin (IF Kind[p] = "server" THEN WorkerOnly ELSE ServerOnly)
      BY <1>0, <2>1, <1>15 DEF WireAudit, Done, Parts, Stages, ServerOnly, WorkerOnly, settings, process
    <3>3. stage'[p] \notin {"new", "refused", "down"} => Accepted(settings)'
      BY <1>0, <2>1, <1>15 DEF WireAudit, Done, Parts, Stages, ServerOnly, WorkerOnly, settings, process
    <3>4. \A x \in Parts : ~Runs(p, x)' => at'[p][x] = None
      BY <1>0, <2>1, <1>15 DEF WireAudit, Done, Parts, Stages, ServerOnly, WorkerOnly, settings, process, Runs, has, Inline
    <3>5. \A x \in Done(stage[p])' : Runs(p, x)' => at'[p][x] = tree'[p]
      BY <1>0, <2>1, <1>15 DEF WireAudit, Done, Parts, Stages, ServerOnly, WorkerOnly, settings, process, Runs, has, Inline
    <3>6. /\ stack'[p] # <<>> => Runs(p, "tasks")'
          /\ stage'[p] \in {"admin", "startup", "seeding", "serving"} /\ Runs(p, "tasks")' => stack'[p] = Contract
      BY <1>0, <2>1, <1>15 DEF WireAudit, Done, Parts, Stages, ServerOnly, WorkerOnly, settings, process, Runs, has, Inline
    <3> QED BY <3>1, <3>2, <3>3, <3>4, <3>5, <3>6
  <2>3. StartTypeOK'
    BY <1>0, <2>1, <1>15 DEF WireAudit, Done, Parts, Stages, ServerOnly, WorkerOnly, settings, process
  <2>4. Moves(p)
    BY <1>0, <2>1, <1>15 DEF WireAudit, Done, Parts, Stages, ServerOnly, WorkerOnly, settings, process
  <2> QED BY <2>2, <2>3, <2>4
<1>16. CASE WorkerMiddleware(p)
  <2>1. /\ at' \in [Procs -> [Parts -> Nat \union {None}]]
        /\ \A x \in Parts : at'[p][x] = IF x \in {"notifier"} THEN 0 ELSE at[p][x]
        /\ \A q \in Procs \ {p} : at'[q] = at[q]
    <3>1. 0 \in Nat
      OBVIOUS
    <3>2. Hang(p, {"notifier"}, 0)
      BY <1>16 DEF WorkerMiddleware
    <3> HIDE DEF StartTypeOK
    <3> QED BY ONLY <3>1, <3>2, Hung, StartTypeOK, p \in Procs
  <2>2. OnItsWay(p)'
    <3>1. Kind[p] # "server" => tree'[p] = 0
      BY <1>0, <2>1, <1>16, InstalledOnce DEF WorkerMiddleware, Done, Parts, Stages, ServerOnly, WorkerOnly, settings, process
    <3>2. stage'[p] \notin (IF Kind[p] = "server" THEN WorkerOnly ELSE ServerOnly)
      BY <1>0, <2>1, <1>16, InstalledOnce DEF WorkerMiddleware, Done, Parts, Stages, ServerOnly, WorkerOnly, settings, process
    <3>3. stage'[p] \notin {"new", "refused", "down"} => Accepted(settings)'
      BY <1>0, <2>1, <1>16, InstalledOnce DEF WorkerMiddleware, Done, Parts, Stages, ServerOnly, WorkerOnly, settings, process
    <3>4. \A x \in Parts : ~Runs(p, x)' => at'[p][x] = None
      BY <1>0, <2>1, <1>16, InstalledOnce DEF WorkerMiddleware, Done, Parts, Stages, ServerOnly, WorkerOnly, settings, process, Runs, has, Inline
    <3>5. \A x \in Done(stage[p])' : Runs(p, x)' => at'[p][x] = tree'[p]
      BY <1>0, <2>1, <1>16, InstalledOnce DEF WorkerMiddleware, Done, Parts, Stages, ServerOnly, WorkerOnly, settings, process, Runs, has, Inline
    <3>6. /\ stack'[p] # <<>> => Runs(p, "tasks")'
          /\ stage'[p] \in {"admin", "startup", "seeding", "serving"} /\ Runs(p, "tasks")' => stack'[p] = Contract
      BY <1>0, <2>1, <1>16, InstalledOnce DEF WorkerMiddleware, Done, Parts, Stages, ServerOnly, WorkerOnly, settings, process, Runs, has, Inline
    <3> QED BY <3>1, <3>2, <3>3, <3>4, <3>5, <3>6
  <2>3. StartTypeOK'
    BY <1>0, <2>1, <1>16, InstalledOnce DEF WorkerMiddleware, Done, Parts, Stages, ServerOnly, WorkerOnly, settings, process
  <2>4. Moves(p)
    BY <1>0, <2>1, <1>16, InstalledOnce DEF WorkerMiddleware, Done, Parts, Stages, ServerOnly, WorkerOnly, settings, process
  <2> QED BY <2>2, <2>3, <2>4
<1>17. CASE BuildAgain(p)
  BY <1>0, <1>17 DEF BuildAgain, Done, Parts, Stages, ServerOnly, WorkerOnly, settings, process
<1>18. CASE Die(p)
  BY <1>0, <1>18 DEF Die, Done, Parts, Stages, ServerOnly, WorkerOnly, settings, process
<1>19. CASE StartAgain(p)
  BY <1>0, <1>19 DEF StartAgain, Done, Parts, Stages, ServerOnly, WorkerOnly, settings, process
<1> QED BY <1>1, <1>2, <1>3, <1>4, <1>5, <1>6, <1>7, <1>8, <1>9, <1>10, <1>11, <1>12, <1>13, <1>14, <1>15, <1>16, <1>17, <1>18, <1>19 DEF Boot

\* Migrating, and the wizard's requests, leave every process where it is.
LEMMA StartInvStep ==
  ASSUME StartInv, [StartNext]_startVars
  PROVE  StartInv'
<1>1. ASSUME NEW p \in Procs, Boot(p) \/ BuildAgain(p) \/ Die(p) \/ StartAgain(p)
      PROVE  StartInv'
  <2>1. StartTypeOK' /\ OnItsWay(p)' /\ Moves(p)
    BY <1>1, StepOfProcess
  <2>2. \A q \in Procs \ {p} : OnItsWay(q)'
    BY <2>1, OthersStay DEF StartInv
  <2> QED BY <2>1, <2>2 DEF StartInv
<1>2. ASSUME UNCHANGED <<deployment, process>>
      PROVE  StartInv'
  <2>1. StartTypeOK'
    BY <1>2 DEF StartInv, StartTypeOK, process
  <2>2. ASSUME NEW p \in Procs
        PROVE  OnItsWay(p)'
    <3>1. OnItsWay(p) /\ \A x \in Parts : Runs(p, x)' <=> Runs(p, x)
      BY <1>2 DEF StartInv, Runs, has, Inline, settings
    <3>2. Done(stage[p])' = Done(stage[p]) /\ Done(stage[p]) \subseteq Parts /\ "tasks" \in Parts
      BY <1>2 DEF Done, Parts, process
    <3> QED BY <1>2, <3>1, <3>2 DEF OnItsWay, process, settings
  <2> QED BY <2>1, <2>2 DEF StartInv
<1>3. CASE Migrate
  BY <1>2, <1>3 DEF Migrate
<1>4. CASE \E r \in Reqs : Wizard(r)
  BY <1>2, <1>4 DEF Wizard
<1>5. CASE UNCHANGED startVars
  BY <1>2, <1>5 DEF startVars
<1> QED BY <1>1, <1>3, <1>4, <1>5 DEF StartNext

LEMMA StartInvInit == StartInit => StartInv
<1> SUFFICES ASSUME StartInit
             PROVE  StartInv
  OBVIOUS
<1>1. StartTypeOK
  BY DEF StartInit, StartTypeOK, Stages, Parts
<1>2. ASSUME NEW p \in Procs
      PROVE  OnItsWay(p)
  <2>1. stage[p] \in {"new", "refused"} /\ tree[p] = 0 /\ stack[p] = <<>>
        /\ at[p] = [x \in Parts |-> None]
    BY DEF StartInit
  <2> QED BY <2>1 DEF OnItsWay, Done, ServerOnly, WorkerOnly
<1> QED BY <1>1, <1>2 DEF StartInv

THEOREM StartInvAlways == StartSpec => []StartInv
BY StartInvInit, StartInvStep, PTL DEF StartSpec

\* Every process is always at a known stage, over a tree that exists, with the
\* middlewares of StartUp's Contract or none, and exports its traces at most once.
THEOREM StartTypes == StartSpec => []StartTypeOK
<1>1. StartInv => StartTypeOK
  BY DEF StartInv
<1> QED BY <1>1, StartInvAlways, PTL

\* A process serves only under settings the validator accepted, and what they
\* name is then built by every selector of the containers, for every record of
\* settings whose fields hold what config.py allows them to hold.
THEOREM TidySettingsAreHonoured == StartSpec => []SettingsHonoured
<1>1. StartInv => SettingsHonoured
  <2> SUFFICES ASSUME StartInv, NEW p \in Procs, stage[p] = "serving", Tidy(settings)
               PROVE  Honoured(settings)
    BY DEF SettingsHonoured
  <2>1. Accepted(settings)
    BY DEF StartInv, OnItsWay
  <2>2. Fits(settings)
    BY SettingsAssumption DEF StartInv, StartTypeOK, settings
  <2> QED BY <2>1, <2>2, TidyHonoured
<1> QED BY <1>1, StartInvAlways, PTL

\* However often a server builds its application again, and whoever dies and
\* starts again, all that a serving process runs hangs off its newest tree.
THEOREM ServersHangOffOneTree == StartSpec => []OneTreeServes
<1>1. StartInv => OneTreeServes
  <2>1. ASSUME StartInv, NEW p \in Procs, stage[p] = "serving", NEW x \in Parts
        PROVE  at[p][x] = IF Runs(p, x) THEN tree[p] ELSE None
    BY <2>1 DEF StartInv, OnItsWay, Done
  <2> QED BY <2>1 DEF OneTreeServes
<1> QED BY <1>1, StartInvAlways, PTL

\* The middlewares of a process that runs tasks are there once, in order.
THEOREM TasksAlwaysRunWhole == StartSpec => []TasksRunWhole
<1>1. StartInv => TasksRunWhole
  <2>1. ASSUME StartInv, NEW p \in Procs
        PROVE  /\ stage[p] = "serving" => stack[p] = IF Runs(p, "tasks") THEN Contract ELSE <<>>
               /\ stack[p] \in {<<>>, Contract}
               /\ exporters[p] <= 1
    <3>1. stack[p] \in {<<>>, Contract} /\ exporters[p] \in {0, 1} /\ OnItsWay(p)
      BY <2>1 DEF StartInv, StartTypeOK
    <3> QED BY <3>1 DEF OnItsWay
  <2> QED BY <2>1 DEF TasksRunWhole
<1> QED BY <1>1, StartInvAlways, PTL
=============================================================================
