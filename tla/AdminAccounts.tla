---------------------------- MODULE AdminAccounts ----------------------------
(***************************************************************************)
(* The administrators' accounts: the bootstrap seed every process runs     *)
(* when it starts, the first-admin wizard, and the accounts page, which    *)
(* must keep one account able to manage the others.  Each request runs     *)
(* several database sessions, one action each, so that what one of them    *)
(* checked may have changed when the next one writes.                      *)
(***************************************************************************)
EXTENDS Naturals, FiniteSets

CONSTANTS Ids,        \* account ids; an id is never given twice
          Names,      \* the values of the unique columns, username and email
          BootName,   \* settings.admin_bootstrap_username
          Admins,     \* real administrators the run starts with
          Reqs,       \* process starts and user requests
          Ops,        \* the operations a run exercises
          None

ASSUME NamesAssumption == BootName \in Names
ASSUME AdminsAssumption == Admins \subseteq Ids
ASSUME OpsAssumption == Ops \subseteq {"seed", "setup", "create", "delete", "edit"}
ASSUME NoneAssumption == None \notin Ids \union Names

VARIABLES rows,       \* rows of admin_identity
          name,       \* the unique columns of each row
          boot,       \* is_bootstrap_admin
          perm,       \* accounts whose permissions contain "accounts"
          env,        \* accounts whose password is the configured one
          told,       \* accounts whose password somebody knows
          pages,      \* accounts with an open accounts page
          op, pc,     \* what a request does, and where it is
          tgt,        \* the account it works on
          arg,        \* the name it was given
          grant,      \* whether "accounts" is among its permissions
          raced,      \* history: removals whose count another one undercut
          out         \* how it ended

accounts == <<rows, name, boot, perm, env, told>>
requests == <<op, pc, tgt, arg, grant, out>>
vars == <<accounts, pages, requests, raced>>

Labels == {"idle", "seed_check", "seed_select", "seed_update", "seed_insert", "form", "validate",
           "insert", "retire", "respond", "write", "done"}
Outcomes == {"none", "ok", "skipped", "boot_failed", "forbidden", "conflict",
             "guarded", "gone", "aborted"}

TypeOK == /\ rows \subseteq Ids
          /\ name \in [Ids -> Names \union {None}]
          /\ boot \subseteq Ids
          /\ perm \subseteq Ids
          /\ env \subseteq Ids
          /\ told \subseteq Ids
          /\ pages \subseteq Ids
          /\ op \in [Reqs -> Ops \union {"none"}]
          /\ pc \in [Reqs -> Labels]
          /\ tgt \in [Reqs -> Ids \union {None}]
          /\ arg \in [Reqs -> Names \union {None}]
          /\ grant \in [Reqs -> BOOLEAN]
          /\ raced \subseteq Reqs
          /\ out \in [Reqs -> Outcomes]

\* Admins have distinct names, none the bootstrap's, and may all manage accounts.
Init == /\ rows = Admins
        /\ name \in [Ids -> Names \union {None}]
        /\ \A i \in Ids : IF i \in Admins THEN name[i] \notin {BootName, None}
                                          ELSE name[i] = None
        /\ \A i, k \in Admins : name[i] = name[k] => i = k
        /\ boot = {}
        /\ perm = Admins
        /\ env = {}
        /\ told = Admins
        /\ pages = {}
        /\ op = [r \in Reqs |-> "none"]
        /\ pc = [r \in Reqs |-> "idle"]
        /\ tgt = [r \in Reqs |-> None]
        /\ arg = [r \in Reqs |-> None]
        /\ grant = [r \in Reqs |-> FALSE]
        /\ raced = {}
        /\ out = [r \in Reqs |-> "none"]

-----------------------------------------------------------------------------
(* What the queries return.                                                *)

Real == rows \ boot

Holders == rows \intersect perm

Named(n) == {i \in rows : name[i] = n}

-----------------------------------------------------------------------------
(* Steps of a request.                                                     *)

Goto(r, l) == pc' = [pc EXCEPT ![r] = l] /\ UNCHANGED out

Finish(r, o) == /\ pc' = [pc EXCEPT ![r] = "done"]
                /\ out' = [out EXCEPT ![r] = o]

Accept(r, o, i, n, g) == /\ pc[r] = "idle"
                         /\ o \in Ops
                         /\ op' = [op EXCEPT ![r] = o]
                         /\ tgt' = [tgt EXCEPT ![r] = i]
                         /\ arg' = [arg EXCEPT ![r] = n]
                         /\ grant' = [grant EXCEPT ![r] = g]

\* A process starts and runs the startup handler.
SeedStart(r) ==
  /\ Accept(r, "seed", None, BootName, FALSE)
  /\ Goto(r, "seed_check")
  /\ UNCHANGED <<accounts, pages, raced>>

\* ensure_admin_user asks has_real_admin first.
SeedCheck(r) ==
  /\ pc[r] = "seed_check"
  /\ IF Real # {} THEN Finish(r, "skipped") ELSE Goto(r, "seed_select")
  /\ UNCHANGED <<accounts, pages, op, tgt, arg, grant, raced>>

\* Mutant: the anti-takeover branch is missing.
SeedSelectAnyKind(r) ==
  /\ pc[r] = "seed_select"
  /\ \/ /\ Named(BootName) = {}
        /\ Goto(r, "seed_insert") /\ UNCHANGED tgt
     \/ \E i \in Named(BootName) :
          Goto(r, "seed_update") /\ tgt' = [tgt EXCEPT ![r] = i]
  /\ UNCHANGED <<accounts, pages, op, arg, grant, raced>>

SeedSelect(r) ==
  /\ pc[r] = "seed_select"
  /\ \/ /\ Named(BootName) = {}
        /\ Goto(r, "seed_insert") /\ UNCHANGED tgt
     \/ \E i \in Named(BootName) :
          IF i \in boot THEN Goto(r, "seed_update") /\ tgt' = [tgt EXCEPT ![r] = i]
                        ELSE Finish(r, "skipped") /\ UNCHANGED tgt
  /\ UNCHANGED <<accounts, pages, op, arg, grant, raced>>

\* The bootstrap row was found: only its password is written.
SeedUpdate(r) ==
  /\ pc[r] = "seed_update"
  /\ IF tgt[r] \in rows THEN Finish(r, "ok") /\ env' = env \union {tgt[r]}
                        ELSE Finish(r, "boot_failed") /\ UNCHANGED env
  /\ UNCHANGED <<rows, name, boot, perm, told, pages, op, tgt, arg, grant, raced>>

\* A new row, committed with its unique columns.
NewRow(i, n) == /\ name[i] = None
                /\ rows' = rows \union {i}
                /\ name' = [name EXCEPT ![i] = n]

NameTaken(n) == Named(n) # {}

SeedInsert(r, i) ==
  /\ pc[r] = "seed_insert"
  /\ ~NameTaken(BootName)
  /\ NewRow(i, BootName)
  /\ boot' = boot \union {i}
  /\ env' = env \union {i}
  /\ told' = told \union {i}
  /\ Finish(r, "ok")
  /\ UNCHANGED <<perm, pages, op, tgt, arg, grant, raced>>

\* Another process inserted it first: the startup handler raises.
SeedConflict(r) ==
  /\ pc[r] = "seed_insert"
  /\ NameTaken(BootName)
  /\ Finish(r, "boot_failed")
  /\ UNCHANGED <<accounts, pages, op, tgt, arg, grant, raced>>

\* The bootstrap credential logs in while no real admin exists: setup_granted.
SetupGranted(r) ==
  /\ Accept(r, "setup", None, None, TRUE)
  /\ \E i \in Named(BootName) : i \in boot
  /\ Real = {}
  /\ Goto(r, "form")
  /\ UNCHANGED <<accounts, pages, raced>>

\* The wizard is submitted, any time after: create_first_admin checks again.
SetupSubmit(r, n) ==
  /\ pc[r] = "form"
  /\ IF Real # {} THEN Finish(r, "forbidden") /\ UNCHANGED arg
                  ELSE Goto(r, "validate") /\ arg' = [arg EXCEPT ![r] = n]
  /\ UNCHANGED <<accounts, pages, op, tgt, grant, raced>>

\* The page loads: require_auth re-reads the row.  The callbacks of the page
\* keep the session it returned for as long as the page stays open.
OpenPage(i) ==
  /\ i \in Holders \ boot
  /\ i \in told
  /\ pages' = pages \union {i}
  /\ UNCHANGED <<accounts, requests, raced>>

CreateStart(r, a, n, g) ==
  /\ a \in pages
  /\ Accept(r, "create", None, n, g)
  /\ Goto(r, "validate")
  /\ UNCHANGED <<accounts, pages, raced>>

\* A conflict leaves the wizard's form open for another try.
Conflict(r) == IF op[r] = "setup" THEN Goto(r, "form") ELSE Finish(r, "conflict")

\* create_admin_account: collect_unique_field_errors.
Validate(r) ==
  /\ pc[r] = "validate"
  /\ IF NameTaken(arg[r]) THEN Conflict(r) ELSE Goto(r, "insert")
  /\ UNCHANGED <<accounts, pages, op, tgt, arg, grant, raced>>

InsertAccount(r, i) ==
  /\ pc[r] = "insert"
  /\ ~NameTaken(arg[r])
  /\ NewRow(i, arg[r])
  /\ perm' = IF grant[r] THEN perm \union {i} ELSE perm
  /\ tgt' = [tgt EXCEPT ![r] = i]
  /\ Goto(r, IF op[r] = "setup" THEN "retire" ELSE "respond")
  /\ UNCHANGED <<boot, env, told, pages, op, arg, grant, raced>>

InsertConflict(r) ==
  /\ pc[r] = "insert"
  /\ NameTaken(arg[r])
  /\ Conflict(r)
  /\ UNCHANGED <<accounts, pages, op, tgt, arg, grant, raced>>

\* Removals that counted before a holder was lost hold a stale count.
Undercut(r, lost) ==
  raced' = raced \union
    IF Holders \intersect lost = {} THEN {} ELSE {q \in Reqs \ {r} : pc[q] = "write"}

\* Mutant: the wizard retires every account without looking at the name.
RetireAll(r) ==
  /\ pc[r] = "retire"
  /\ rows' = {}
  /\ Undercut(r, rows)
  /\ Goto(r, "respond")
  /\ UNCHANGED <<name, boot, perm, env, told, pages, op, tgt, arg, grant>>

\* The wizard deletes whatever row has the bootstrap username.
Retire(r) ==
  /\ pc[r] = "retire"
  /\ rows' = rows \ Named(BootName)
  /\ Undercut(r, Named(BootName))
  /\ Goto(r, "respond")
  /\ UNCHANGED <<name, boot, perm, env, told, pages, op, tgt, arg, grant>>

\* Mutant: only the accounts page shows the temporary password.
RespondOnPage(r) ==
  /\ pc[r] = "respond"
  /\ told' = IF op[r] = "setup" THEN told ELSE told \union {tgt[r]}
  /\ Finish(r, "ok")
  /\ UNCHANGED <<rows, name, boot, perm, env, pages, op, tgt, arg, grant, raced>>

\* The temporary password is shown, once.
Respond(r) ==
  /\ pc[r] = "respond"
  /\ told' = told \union {tgt[r]}
  /\ Finish(r, "ok")
  /\ UNCHANGED <<rows, name, boot, perm, env, pages, op, tgt, arg, grant, raced>>

\* Mutant: the target is not excluded from the count.
CountAll(i) == Holders

\* count_accounts_permission_holders(exclude_admin_id)
Others(i) == Holders \ {i}

\* delete_account and update_permissions: the guard, in a session of its own.
CountHolders(r, a, o, i, g) ==
  /\ a \in pages
  /\ o \in {"delete", "edit"}
  /\ name[i] # None
  /\ o = "delete" => a # i /\ ~g
  /\ Accept(r, o, i, None, g)
  /\ IF Others(i) = {} /\ ~g THEN Finish(r, "guarded") ELSE Goto(r, "write")
  /\ UNCHANGED <<accounts, pages, raced>>

DeleteAccount(r) ==
  /\ pc[r] = "write" /\ op[r] = "delete"
  /\ Finish(r, IF tgt[r] \in rows THEN "ok" ELSE "gone")
  /\ rows' = rows \ {tgt[r]}
  /\ Undercut(r, {tgt[r]})
  /\ UNCHANGED <<name, boot, perm, env, told, pages, op, tgt, arg, grant>>

UpdatePermissions(r) ==
  /\ pc[r] = "write" /\ op[r] = "edit"
  /\ IF tgt[r] \in rows
       THEN /\ Finish(r, "ok")
            /\ perm' = IF grant[r] THEN perm \union {tgt[r]} ELSE perm \ {tgt[r]}
       ELSE Finish(r, "gone") /\ UNCHANGED perm
  /\ Undercut(r, IF grant[r] THEN {} ELSE {tgt[r]})
  /\ UNCHANGED <<rows, name, boot, env, told, pages, op, tgt, arg, grant>>

\* The process dies, the page goes away or the database fails.
Abort(r) ==
  /\ pc[r] \notin {"idle", "done"}
  /\ Finish(r, "aborted")
  /\ UNCHANGED <<accounts, pages, op, tgt, arg, grant, raced>>

\* restart: unless-stopped.
Restart(r) ==
  /\ op[r] = "seed" /\ out[r] \in {"boot_failed", "aborted"}
  /\ pc' = [pc EXCEPT ![r] = "seed_check"]
  /\ out' = [out EXCEPT ![r] = "none"]
  /\ UNCHANGED <<accounts, pages, op, tgt, arg, grant, raced>>

SeedStep(r) == \/ SeedCheck(r) \/ SeedSelect(r) \/ SeedUpdate(r)
               \/ (\E i \in Ids : SeedInsert(r, i)) \/ SeedConflict(r) \/ Restart(r)

Start(r) == \/ SeedStart(r) \/ SetupGranted(r)
            \/ \E a \in Ids, n \in Names, g \in BOOLEAN : CreateStart(r, a, n, g)
            \/ \E a, i \in Ids, o \in {"delete", "edit"}, g \in BOOLEAN :
                 CountHolders(r, a, o, i, g)

Step(r) == \/ (\E n \in Names : SetupSubmit(r, n)) \/ Validate(r)
           \/ (\E i \in Ids : InsertAccount(r, i)) \/ InsertConflict(r)
           \/ Retire(r) \/ Respond(r) \/ DeleteAccount(r) \/ UpdatePermissions(r)

Next == \/ \E r \in Reqs : SeedStep(r) \/ Start(r) \/ Step(r) \/ Abort(r)
        \/ \E i \in Ids : OpenPage(i)

Spec == Init /\ [][Next]_vars

-----------------------------------------------------------------------------
(* Properties.                                                             *)

\* delete_account and update_permissions refuse to remove the last holder of
\* the accounts permission: "Blocked because action would remove the last
\* accounts-permission holder."  Their count is right unless another request took
\* a holder away after it: the last one is lost only to a removal that was
\* undercut in this way, or to a wizard that retires an account named as the
\* bootstrap.
LosesLastHolder == Holders # {} /\ Holders' = {}

GuardedUnlessRaced ==
  LosesLastHolder => \/ \E r \in raced : pc[r] = "write" /\ pc'[r] = "done"
                     \/ \E r \in Reqs : pc[r] = "retire" /\ pc'[r] = "respond"

LastHolderLostOnlyByRace == [][GuardedUnlessRaced]_vars

\* The anti-takeover branch of ensure_admin_user: however a start races the
\* wizard, the configured password never lands on a real administrator.
AntiTakeover == env \intersect Real = {}

\* Processes that start together seed one bootstrap row between them.
OneBootstrapRow == \A i, k \in rows \intersect boot : i = k

\* However many wizards, starts and failures interleave, after a wizard that
\* reported success there is a real administrator, until one is deleted.
SetupLeavesAnAdmin ==
  /\ \E r \in Reqs : op[r] = "setup" /\ out[r] = "ok"
  /\ ~\E r \in Reqs : op[r] = "delete" /\ out[r] = "ok"
  => Real # {}

\* "Re-setting the env vars + restarting re-seeds the bootstrap row for
\* recovery": after a start that ran alone, somebody can log in, with the
\* bootstrap credential or as a real administrator.  The one way to lose it
\* is an account whose creation died before its temporary password was shown:
\* it counts as a real administrator, so the seed does nothing.
SomebodyCanLogIn == \E i \in rows \intersect told : i \notin boot \/ Real = {}

StartedAlone(r) == /\ op[r] = "seed" /\ pc[r] # "done" /\ pc'[r] = "done"
                   /\ out'[r] \in {"ok", "skipped"}
                   /\ \A q \in Reqs \ {r} : pc[q] \in {"idle", "done"}

DiedUntold == \E q \in Reqs : out[q] = "aborted" /\ tgt[q] \in rows \ told

RecoveryLostOnlyByCrash ==
  [][\A r \in Reqs : StartedAlone(r) => SomebodyCanLogIn' \/ DiedUntold]_vars
=============================================================================
