---------------------------- MODULE AdminSessions ----------------------------
(***************************************************************************)
(* The admin site in the browser.  A browser's session storage names the   *)
(* administrator who is logged in; every page asks the database about that *)
(* administrator when it is opened, and writes the storage again when the  *)
(* answer comes.  The tabs of one browser share the storage, their         *)
(* handlers interleave at every await, and a page that was rendered keeps  *)
(* acting for the administrator it was rendered for.  What is done is      *)
(* written to the audit log, for whoever the storage names by then.        *)
(***************************************************************************)
EXTENDS FiniteSets, TLC

CONSTANTS Admins,     \* ids of accounts; an id is never given twice
          FirstAdmin, \* the account the run starts with, holding every key
          Browsers, Tabs,
          BrowserOf,  \* the browser of each tab
          PagesOf,    \* the pages a run opens in each tab
          Grants,     \* the sets of keys that are given to accounts
          None

Keys == {"accounts", "records"}
AllowListed == {"dashboard", "password"}
Pages == Keys \union AllowListed \union {"login", "blank"}

ASSUME TabsAssumption == BrowserOf \in [Tabs -> Browsers]
ASSUME PagesAssumption == PagesOf \in [Tabs -> SUBSET (Pages \ {"blank"})]
ASSUME GrantsAssumption == Grants \subseteq SUBSET Keys
ASSUME FirstAssumption == FirstAdmin \in Admins /\ None \notin Admins

VARIABLES rows,       \* the accounts there are: [temp, perms] of each
          used,       \* the ids that were given
          store,      \* app.storage.user of each browser: who is logged in
          page,       \* what a tab shows, for which administrator, and
          sess,       \*   the accounts it lists
          listed,
          pc, job,    \* the handler a tab runs, see NoJob
          entry,      \* the audit entry that the last step wrote
          last,       \* history: who logged in last and has not logged out
          late,       \* history: tabs whose gate asked before that
          overtaken,  \* history: browsers whose storage such a gate wrote
          moved,      \* history: tabs whose browser changed hands since
          cleared,    \* history: tabs whose gate found the right in the database
          changed,    \* history: tabs whose handler changed an account
          broken      \* history: tabs whose handler met a failure after that

pages == <<page, sess, listed>>
logins == <<last, late, overtaken>>
handler == <<pc, job>>
deeds == <<changed, broken>>
vars == <<entry, rows, used, store, pages, handler, logins, moved, cleared, deeds>>

NoJob == [do |-> "none", tgt |-> None, perms |-> {}, res |-> "none", saw |-> None]
Changes == {"create", "edit", "remove", "password"}

Init == /\ entry = None
        /\ rows = [a \in {FirstAdmin} |-> [temp |-> FALSE, perms |-> Keys]]
        /\ used = {FirstAdmin}
        /\ store = [b \in Browsers |-> None]
        /\ page = [t \in Tabs |-> "login"]
        /\ sess = [t \in Tabs |-> None]
        /\ listed = [t \in Tabs |-> {}]
        /\ pc = [t \in Tabs |-> "idle"]
        /\ job = [t \in Tabs |-> NoJob]
        /\ last = [b \in Browsers |-> None]
        /\ late = {} /\ overtaken = {} /\ moved = {} /\ cleared = {}
        /\ changed = {} /\ broken = {}

There == DOMAIN rows
Holders == {a \in There : "accounts" \in rows[a].perms}

-----------------------------------------------------------------------------
(* Steps of a handler.                                                     *)

Goto(t, l, j) == pc' = [pc EXCEPT ![t] = l] /\ job' = [job EXCEPT ![t] = j]
Idle(t) == Goto(t, "idle", NoJob)

\* The tab shows page p for administrator a; the page of before is gone.
Render(t, p, a) ==
    /\ page' = [page EXCEPT ![t] = p]
    /\ sess' = [sess EXCEPT ![t] = a]
    /\ listed' = [listed EXCEPT ![t] = {}]

\* The page is rendered, and does what it does first.
Begin == [accounts |-> "list", records |-> "fetch",
          dashboard |-> "idle", password |-> "idle", login |-> "idle"]
Show(t, p, a) == /\ Render(t, p, a)
                 /\ Goto(t, Begin[p], NoJob)

\* The tab waits for page p.
Await(t, l, p, a) == /\ Render(t, "blank", None)
                     /\ Goto(t, l, [NoJob EXCEPT !.do = p, !.tgt = a])

\* ui.navigate.to a gated page
Redirect(t, p) == Await(t, "redirect", p, None)

\* Who the storage names; the pages that other tabs show are not told.
SetStore(t, a) == store' = [store EXCEPT ![BrowserOf[t]] = a]

\* History: somebody logs in, or out (a = None), or is logged out.
Shown == {t \in Tabs : sess[t] # None}
ChangeHands(t, a) ==
    LET mates == {u \in Tabs \ {t} : BrowserOf[u] = BrowserOf[t]}
    IN  /\ last' = [last EXCEPT ![BrowserOf[t]] = a]
        /\ late' = (late \ {t}) \union {u \in mates : pc[u] \in {"gate", "resume"}}
        /\ overtaken' = overtaken \ {BrowserOf[t]}
        /\ moved' = (moved \ {t}) \union (mates \intersect Shown)

\* AuditLogger.log never raises: the entry is written, or it is dropped and
\* an operator is told.
Log(actor, result) == entry' \in {[actor |-> actor, result |-> result], None}
Quiet == entry' = None

-----------------------------------------------------------------------------
(* require_auth and require_auth_allowlisted.                              *)

\* is_authenticated asks the storage only; refresh_session then asks the
\* database about the user it names.
Enter(t, p) ==
    /\ Quiet /\ UNCHANGED <<rows, used, store, last, overtaken, cleared, deeds>>
    /\ IF p = "login" \/ store[BrowserOf[t]] = None
       THEN Show(t, "login", None)
       ELSE Await(t, "gate", p, store[BrowserOf[t]])
    /\ late' = late \ {t}
    /\ moved' = moved \ {t}

Visit(t) == pc[t] = "idle" /\ \E p \in PagesOf[t] : Enter(t, p)

Follow(t) == pc[t] = "redirect" /\ Enter(t, job[t].do)

\* May this account see page p, as the database has it?
Allowed(row, p) == p \in AllowListed \/ (~row.temp /\ p \in row.perms)

\* mutant: refresh_session falls back on what it knows when the database fails
GetAdminSessionOpen(t) ==
    {IF job[t].tgt \in There THEN rows[job[t].tgt] ELSE None,
     [temp |-> FALSE, perms |-> Keys]}

\* What refresh_session gets: the account, or None when it is gone or when
\* anything fails.
GetAdminSession(t) == {IF job[t].tgt \in There THEN rows[job[t].tgt] ELSE None, None}

RefreshSession(t) ==
    /\ pc[t] = "gate"
    /\ \E row \in GetAdminSession(t) : Goto(t, "resume", [job[t] EXCEPT !.saw = row])
    /\ cleared' = IF job[t].tgt \in There /\ Allowed(rows[job[t].tgt], job[t].do)
                  THEN cleared \union {t} ELSE cleared \ {t}
    /\ Quiet /\ UNCHANGED <<rows, used, store, pages, logins, moved, deeds>>

\* The answer is there: None logs out whoever the storage names by now, an
\* account is written to the storage whoever it names.
Expel(t) == SetStore(t, None) /\ Show(t, "login", None) /\ ChangeHands(t, None)

Admit(t) ==
    LET p == job[t].do
        row == job[t].saw
    IN  /\ SetStore(t, job[t].tgt)
        /\ IF Allowed(row, p) THEN Show(t, p, job[t].tgt)
           ELSE Redirect(t, IF row.temp THEN "password" ELSE "dashboard")
        /\ overtaken' = overtaken \union (IF t \in late THEN {BrowserOf[t]} ELSE {})
        /\ late' = late \ {t}
        /\ moved' = moved \ {t}
        /\ UNCHANGED last

RequireAuth(t) ==
    /\ pc[t] = "resume"
    /\ IF job[t].saw = None THEN Expel(t) ELSE Admit(t)
    /\ Quiet /\ UNCHANGED <<rows, used, cleared, deeds>>

-----------------------------------------------------------------------------
(* Logging in and out.                                                     *)

\* A handler starts: the operator presses a button of page p.
Press(t, p, l, j) ==
    /\ pc[t] = "idle" /\ page[t] \in p
    /\ Goto(t, l, j)
    /\ Quiet /\ UNCHANGED <<rows, used, store, pages, logins, moved, cleared, deeds>>

TryLogin(t) ==
    \E a \in Admins : Press(t, {"login"}, "verify", [NoJob EXCEPT !.do = "login", !.tgt = a])

\* admin_login verifies the credentials; a failing database leaves no entry.
Authenticate(t) ==
    /\ pc[t] = "verify"
    /\ \/ job[t].tgt \in There /\ Goto(t, "log", [job[t] EXCEPT !.res = "SUCCESS"])
       \/ Goto(t, "log", [job[t] EXCEPT !.res = "FAILURE"])
       \/ Idle(t)
    /\ Quiet /\ UNCHANGED <<rows, used, store, pages, logins, moved, cleared, deeds>>

\* mutant: a login is recorded for whoever the storage names
ActorFromStorage(t) == store[BrowserOf[t]]

\* Logins name the actor themselves, a failed one names nobody.
LoginActor(t) == IF job[t].res = "SUCCESS" THEN job[t].tgt ELSE None

\* mutant: try_login logs in whatever authenticate says
EndLoginAlways(t) == SetStore(t, job[t].tgt) /\ Redirect(t, "dashboard")

\* AdminAuthProvider.login, after the entry is written.
EndLogin(t) ==
    IF job[t].res = "SUCCESS" THEN SetStore(t, job[t].tgt) /\ Redirect(t, "dashboard")
    ELSE Idle(t) /\ UNCHANGED <<store, pages>>

RecordLogin(t) ==
    /\ pc[t] = "log" /\ job[t].do = "login"
    /\ Log(LoginActor(t), job[t].res)
    /\ EndLogin(t)
    /\ IF job[t].res = "SUCCESS" THEN ChangeHands(t, job[t].tgt)
       ELSE UNCHANGED <<logins, moved>>
    /\ UNCHANGED <<rows, used, cleared, deeds>>

\* _handle_logout reads the actor before anything else.
PressLogout(t) ==
    Press(t, Keys \union AllowListed, "log",
          [NoJob EXCEPT !.do = "logout", !.tgt = store[BrowserOf[t]], !.res = "SUCCESS"])

RecordLogout(t) ==
    /\ pc[t] = "log" /\ job[t].do = "logout"
    /\ Log(job[t].tgt, "SUCCESS")
    /\ Expel(t)
    /\ UNCHANGED <<rows, used, cleared, deeds>>

-----------------------------------------------------------------------------
(* The accounts page and the change of a password.                         *)

\* A button of a change, and the first statement it leads to.
CreateAccount(t) ==
    \E ks \in Grants :
        Press(t, {"accounts"}, "commit", [NoJob EXCEPT !.do = "create", !.perms = ks])

SavePerms(t) ==
    \E a \in listed[t], ks \in Grants :
        Press(t, {"accounts"}, IF "accounts" \in ks THEN "commit" ELSE "holders",
              [NoJob EXCEPT !.do = "edit", !.tgt = a, !.perms = ks])

\* The button is greyed out on the card of the page's own administrator.
ConfirmRemove(t) ==
    \E a \in listed[t] \ {sess[t]} :
        Press(t, {"accounts"}, "holders", [NoJob EXCEPT !.do = "remove", !.tgt = a])

DoChange(t) ==
    Press(t, {"password"}, "check", [NoJob EXCEPT !.do = "password", !.tgt = sess[t]])

Refuse(t) == Goto(t, "log", [job[t] EXCEPT !.res = "FAILURE"])
Agree(t) == Goto(t, "log", [job[t] EXCEPT !.res = "SUCCESS"])

\* count_accounts_permission_holders, or the current password: the use case
\* may refuse, and anything may fail.
Check(t) ==
    /\ \/ pc[t] = "holders" /\ Holders \ {job[t].tgt} # {} /\ Goto(t, "commit", job[t])
       \/ pc[t] = "check" /\ job[t].tgt \in There /\ Goto(t, "commit", job[t])
       \/ pc[t] \in {"holders", "check"} /\ Refuse(t)
    /\ Quiet /\ UNCHANGED <<rows, used, store, pages, logins, moved, cleared, deeds>>

\* The accounts after the change; nothing when there is no such row.
Committed(t) ==
    IF job[t].do = "create"
    THEN {rows @@ (a :> [temp |-> TRUE, perms |-> job[t].perms]) : a \in Admins \ used}
    ELSE IF job[t].tgt \notin There THEN {}
    ELSE CASE job[t].do = "remove" -> {[a \in There \ {job[t].tgt} |-> rows[a]]}
           [] job[t].do = "edit" -> {[rows EXCEPT ![job[t].tgt].perms = job[t].perms]}
           [] job[t].do = "password" -> {[rows EXCEPT ![job[t].tgt].temp = FALSE]}

\* The commit succeeds, or fails, or is done and its answer is lost.  A
\* password change goes on to revoke the tokens of the API.
Commit(t) ==
    /\ pc[t] = "commit"
    /\ \/ /\ rows' \in Committed(t)
          /\ used' = used \union DOMAIN rows'
          /\ changed' = changed \union {t}
          /\ \/ /\ IF job[t].do = "password" THEN Goto(t, "revoke", job[t]) ELSE Agree(t)
                /\ UNCHANGED broken
             \/ Refuse(t) /\ broken' = broken \union {t}
       \/ Refuse(t) /\ UNCHANGED <<rows, used, deeds>>
    /\ Quiet /\ UNCHANGED <<store, pages, logins, moved, cleared>>

\* revoke_all_tokens_for_admin, in a session of its own: it may fail although
\* the password was changed.
Revoke(t) ==
    /\ pc[t] = "revoke"
    /\ \/ Agree(t) /\ UNCHANGED broken
       \/ Refuse(t) /\ broken' = broken \union {t}
    /\ Quiet /\ UNCHANGED <<rows, used, store, pages, logins, moved, cleared, changed>>

\* mutant: the handler of a failure returns before the entry is written
RecordSuccessOnly(t) ==
    IF job[t].res = "SUCCESS" THEN Log(store[BrowserOf[t]], job[t].res) /\ changed' = changed \ {t}
    ELSE Quiet /\ UNCHANGED changed

\* Changes leave it to the logger to name the actor: whoever the storage
\* names when the entry is built.
Record(t) == Log(store[BrowserOf[t]], job[t].res) /\ changed' = changed \ {t}

\* The list is read again after a success, and a password change logs out.
RecordChange(t) ==
    /\ pc[t] = "log" /\ job[t].do \in Changes
    /\ Record(t)
    /\ broken' = broken \ {t}
    /\ IF job[t].do = "password" /\ job[t].res = "SUCCESS" THEN Expel(t)
       ELSE /\ IF job[t].res = "SUCCESS" THEN Goto(t, "list", NoJob) ELSE Idle(t)
            /\ UNCHANGED <<store, moved, pages, logins>>
    /\ UNCHANGED <<rows, used, cleared>>

\* refresh_list
RefreshList(t) ==
    /\ pc[t] = "list"
    /\ listed' \in {listed, [listed EXCEPT ![t] = There]}
    /\ Idle(t)
    /\ Quiet /\ UNCHANGED <<rows, used, store, page, sess, logins, moved, cleared, deeds>>

\* BaseAdminPage.render_list fetches, and records that it was read.
RenderList(t) ==
    /\ pc[t] = "fetch"
    /\ Idle(t) \/ Goto(t, "log", [NoJob EXCEPT !.do = "view", !.res = "SUCCESS"])
    /\ Quiet /\ UNCHANGED <<rows, used, store, pages, logins, moved, cleared, deeds>>

RecordRead(t) ==
    /\ pc[t] = "log" /\ job[t].do = "view"
    /\ Log(store[BrowserOf[t]], "SUCCESS")
    /\ Idle(t)
    /\ UNCHANGED <<rows, used, store, pages, logins, moved, cleared, deeds>>

-----------------------------------------------------------------------------
Handle(t) ==
    \/ Visit(t) \/ Follow(t) \/ RefreshSession(t) \/ RequireAuth(t)
    \/ TryLogin(t) \/ Authenticate(t) \/ RecordLogin(t) \/ PressLogout(t) \/ RecordLogout(t)
    \/ CreateAccount(t) \/ SavePerms(t) \/ ConfirmRemove(t) \/ DoChange(t)
    \/ Check(t) \/ Commit(t) \/ Revoke(t) \/ RecordChange(t)
    \/ RefreshList(t) \/ RenderList(t) \/ RecordRead(t)

Next == \E t \in Tabs : Handle(t)

Spec == Init /\ [][Next]_vars

-----------------------------------------------------------------------------
\* The storage names whoever logged in last, or nobody: no sequence of
\* logins, logouts, password changes and page loads in the tabs of a browser
\* turns one administrator into another or undoes a logout, except that a
\* page load which asked the database before the change writes after it.
StorageFollowsLogins ==
    \A b \in Browsers : store[b] \in {last[b], None} \/ b \in overtaken

\* A page is shown only to an administrator whom the database, asked while
\* the page was loading, knew and allowed to see it; not to one with a
\* temporary password, and to nobody when the database could not be asked.
ShownWasAllowed ==
    \A t \in Tabs : page[t] \notin {"login", "blank"} => t \in cleared /\ sess[t] # None

\* A change that was made has its entry, or an operator was told that the
\* entry is lost, before its handler ends; a success is recorded only for a
\* change that was made, a failure for one only when a later step failed.  The
\* entry names the administrator who did it; only if the browser has changed
\* hands since the page was loaded may it name another one, and never for a
\* login.
Doer(t) == IF job[t].do = "login" THEN (IF job[t].res = "SUCCESS" THEN job[t].tgt ELSE None)
           ELSE sess[t]
ChangedHands(t) == t \in moved \/ BrowserOf[t] \in overtaken
EntriesTellTheTruth ==
    [][\A t \in Tabs : pc[t] = "log" /\ pc'[t] # "log" =>
           /\ job[t].do \in Changes =>
                 /\ (job[t].res = "SUCCESS") = (t \in changed \ broken)
                 /\ t \notin changed'
           /\ entry' # None =>
                 entry'.actor = Doer(t) \/ (job[t].do # "login" /\ ChangedHands(t))]_vars
=============================================================================
