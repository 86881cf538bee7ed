-------------------------- MODULE AdminSiteProofs --------------------------
(***************************************************************************)
(* Proofs about the administrators' site: the pages under the login and    *)
(* its storage (AdminSessions), for any tabs, administrators and sessions; *)
(* the audit log and its viewer (AuditLog), for any number of calls and    *)
(* clicks; the landing page (Dashboard), for any list of domains; and the  *)
(* move to a realm of their own (RealmMove), for any people and ids.  The  *)
(* four have no variable in common and each has its own invariant.         *)
(***************************************************************************)
EXTENDS AdminSessions, AuditLog, Dashboard, RealmMove, FiniteSetTheorems, TLAPS

-----------------------------------------------------------------------------
(* The inductive invariant.                                                *)

IsJob(j) == j = [f \in {"do", "tgt", "perms", "res", "saw"} |-> j[f]]

AtGate(t) == pc[t] \in {"gate", "resume"}
Working == {"holders", "check", "commit", "revoke", "log", "list", "fetch"}
ForLogin(t) == pc[t] = "verify" \/ (pc[t] = "log" /\ job[t].do = "login")

Shape == /\ store \in [Browsers -> Admins \union {None}]
         /\ last \in [Browsers -> Admins \union {None}]
         /\ DOMAIN page = Tabs /\ DOMAIN sess = Tabs /\ DOMAIN listed = Tabs
         /\ DOMAIN pc = Tabs /\ DOMAIN job = Tabs

\* A job is a record, a page that is waited for is one that can be shown, and
\* somebody logs in or is asked about.
JobFits(t) ==
  /\ IsJob(job[t])
  /\ AtGate(t) \/ pc[t] = "redirect" => job[t].do \in Pages \ {"blank"}
  /\ AtGate(t) \/ ForLogin(t) => job[t].tgt \in Admins
  /\ pc[t] = "verify" => job[t].do = "login"

\* A gate that nobody logged in under asks about who logged in last, until
\* one that was late writes the storage.
GateFollows(t) ==
  AtGate(t) /\ t \notin late => job[t].tgt = last[BrowserOf[t]] \/ BrowserOf[t] \in overtaken

\* A gate works on a blank page; what it saw is what the database held for
\* those it cleared; a handler of a page has somebody to act for.
PageFollows(t) ==
  /\ AtGate(t) => page[t] = "blank"
  /\ pc[t] = "resume" /\ job[t].saw # None /\ Allowed(job[t].saw, job[t].do) => t \in cleared
  /\ page[t] \notin {"login", "blank"} => t \in cleared /\ sess[t] # None
  /\ pc[t] \in Working /\ ~ForLogin(t) => sess[t] # None

\* Whom a page acts for is who logged in last, unless its browser changed hands.
HandsFollow(t) ==
  sess[t] # None =>
    /\ sess[t] = last[BrowserOf[t]] \/ ChangedHands(t)
    /\ pc[t] = "log" /\ job[t].do = "logout" => job[t].tgt = sess[t] \/ ChangedHands(t)

\* A handler that changed an account is on its way to its entry.
DeedsFollow(t) ==
  /\ t \in broken => t \in changed
  /\ t \in changed => pc[t] \in {"revoke", "log"}
  /\ pc[t] = "revoke" => t \in changed \ broken
  /\ pc[t] = "log" /\ job[t].do \in Changes => (job[t].res = "SUCCESS" <=> t \in changed \ broken)
  /\ pc[t] = "log" /\ job[t].do \notin Changes => t \notin changed
  /\ pc[t] \in {"holders", "check", "commit", "revoke"} => job[t].do \in Changes

TabFollows(t) == JobFits(t) /\ GateFollows(t) /\ PageFollows(t) /\ HandsFollow(t) /\ DeedsFollow(t)

\* The storage names who logged in last, or nobody after a logout.
StoreIsLast == \A b \in Browsers : store[b] = last[b] \/ b \in overtaken

SessInv == Shape /\ StoreIsLast /\ (\A t \in Tabs : TabFollows(t))

-----------------------------------------------------------------------------
(* What the steps of a handler do.                                         *)

\* A jump moves the tab that jumps and no other.
LEMMA GotoEffect ==
  ASSUME Shape, NEW t \in Tabs, NEW l, NEW j, Goto(t, l, j)
  PROVE  /\ DOMAIN pc' = Tabs /\ DOMAIN job' = Tabs
         /\ pc'[t] = l /\ job'[t] = j
         /\ \A u \in Tabs \ {t} : pc'[u] = pc[u] /\ job'[u] = job[u]
BY DEF Shape, Goto

LEMMA IdleEffect ==
  ASSUME Shape, NEW t \in Tabs, Idle(t)
  PROVE  /\ DOMAIN pc' = Tabs /\ DOMAIN job' = Tabs
         /\ pc'[t] = "idle" /\ job'[t] = NoJob
         /\ \A u \in Tabs \ {t} : pc'[u] = pc[u] /\ job'[u] = job[u]
BY DEF Shape, Goto, Idle

LEMMA RenderEffect ==
  ASSUME Shape, NEW t \in Tabs, NEW p, NEW a, Render(t, p, a)
  PROVE  /\ DOMAIN page' = Tabs /\ DOMAIN sess' = Tabs /\ DOMAIN listed' = Tabs
         /\ page'[t] = p /\ sess'[t] = a
         /\ \A u \in Tabs \ {t} : page'[u] = page[u] /\ sess'[u] = sess[u]
BY DEF Shape, Render

\* The other tabs and their handlers stay as they are.
Apart(t) ==
  /\ DOMAIN page' = Tabs /\ DOMAIN sess' = Tabs /\ DOMAIN listed' = Tabs
  /\ DOMAIN pc' = Tabs /\ DOMAIN job' = Tabs
  /\ \A u \in Tabs \ {t} :
       /\ pc'[u] = pc[u] /\ job'[u] = job[u] /\ page'[u] = page[u] /\ sess'[u] = sess[u]
       /\ (u \in cleared') = (u \in cleared)
       /\ (u \in changed') = (u \in changed)
       /\ (u \in broken') = (u \in broken)

\* Nobody logs in or out; at most the tab itself is no longer late, or is
\* rendered anew.
NoChange(t) ==
  /\ UNCHANGED <<store, last, overtaken>>
  /\ late' \in {late, late \ {t}} /\ moved' \in {moved, moved \ {t}}

\* A tab that is left alone keeps what the invariant says of it.
LEMMA OthersFollow ==
  ASSUME SessInv, NEW t \in Tabs, Apart(t), NoChange(t), TabFollows(t)'
  PROVE  SessInv'
<1>1. Shape'
  BY DEF SessInv, Shape, Apart, NoChange
<1>2. StoreIsLast'
  BY DEF SessInv, StoreIsLast, NoChange
<1>3. ASSUME NEW u \in Tabs, u # t  PROVE TabFollows(u)'
  <2>1. TabFollows(u)
    BY DEF SessInv
  <2>2. /\ pc'[u] = pc[u] /\ job'[u] = job[u] /\ page'[u] = page[u] /\ sess'[u] = sess[u]
        /\ (u \in cleared') = (u \in cleared)
        /\ (u \in changed') = (u \in changed)
        /\ (u \in broken') = (u \in broken)
    BY <1>3 DEF Apart
  <2>3. (u \in late) = (u \in late') /\ (u \in moved) = (u \in moved')
    BY <1>3 DEF NoChange
  <2>4. JobFits(u)'
    BY <2>1, <2>2 DEF TabFollows, JobFits, IsJob, AtGate, ForLogin, Pages, Keys, AllowListed
  <2>5. GateFollows(u)'
    BY <2>1, <2>2, <2>3 DEF TabFollows, GateFollows, AtGate, NoChange
  <2>6. PageFollows(u)'
    BY <2>1, <2>2 DEF TabFollows, PageFollows, AtGate, ForLogin, Working, Allowed, AllowListed
  <2>7. HandsFollow(u)'
    BY <2>1, <2>2, <2>3 DEF TabFollows, HandsFollow, ChangedHands, NoChange
  <2>8. DeedsFollow(u)'
    BY <2>1, <2>2 DEF TabFollows, DeedsFollow, Changes
  <2> QED BY <2>4, <2>5, <2>6, <2>7, <2>8 DEF TabFollows
<1> QED BY <1>1, <1>2, <1>3 DEF SessInv

\* When somebody logs in or out, the gates of the other tabs are late and
\* the pages they show act for somebody else.
LEMMA OthersAreTold ==
  ASSUME SessInv, NEW t \in Tabs, NEW a \in Admins \union {None},
         Apart(t), SetStore(t, a), ChangeHands(t, a), TabFollows(t)'
  PROVE  SessInv'
<1> USE TabsAssumption
<1> DEFINE b == BrowserOf[t]
<1>0. /\ b \in Browsers
      /\ store' = [store EXCEPT ![b] = a] /\ last' = [last EXCEPT ![b] = a]
      /\ overtaken' = overtaken \ {b}
  BY DEF SetStore, ChangeHands
<1>1. Shape'
  BY <1>0 DEF SessInv, Shape, Apart
<1>2. StoreIsLast'
  BY <1>0 DEF SessInv, Shape, StoreIsLast
<1>3. ASSUME NEW u \in Tabs, u # t  PROVE TabFollows(u)'
  <2>1. TabFollows(u)
    BY DEF SessInv
  <2>2. /\ pc'[u] = pc[u] /\ job'[u] = job[u] /\ page'[u] = page[u] /\ sess'[u] = sess[u]
        /\ (u \in cleared') = (u \in cleared)
        /\ (u \in changed') = (u \in changed)
        /\ (u \in broken') = (u \in broken)
    BY <1>3 DEF Apart
  <2>3. BrowserOf[u] \in Browsers
    OBVIOUS
  <2>4. /\ u \in late => u \in late'
        /\ u \in moved => u \in moved'
        /\ BrowserOf[u] = b => (AtGate(u) => u \in late') /\ (sess[u] # None => u \in moved')
    BY <1>3 DEF ChangeHands, AtGate, Shown
  <2>5. BrowserOf[u] # b => /\ last'[BrowserOf[u]] = last[BrowserOf[u]]
                            /\ (BrowserOf[u] \in overtaken) = (BrowserOf[u] \in overtaken')
    BY <1>0, <2>3 DEF SessInv, Shape
  <2>6. JobFits(u)'
    BY <2>1, <2>2 DEF TabFollows, JobFits, IsJob, AtGate, ForLogin, Pages, Keys, AllowListed
  <2>7. GateFollows(u)'
    BY <2>1, <2>2, <2>4, <2>5 DEF TabFollows, GateFollows, AtGate
  <2>8. PageFollows(u)'
    BY <2>1, <2>2 DEF TabFollows, PageFollows, AtGate, ForLogin, Working, Allowed, AllowListed
  <2>9. HandsFollow(u)'
    BY <2>1, <2>2, <2>4, <2>5 DEF TabFollows, HandsFollow, ChangedHands
  <2>10. DeedsFollow(u)'
    BY <2>1, <2>2 DEF TabFollows, DeedsFollow, Changes
  <2> QED BY <2>6, <2>7, <2>8, <2>9, <2>10 DEF TabFollows
<1> QED BY <1>1, <1>2, <1>3 DEF SessInv

-----------------------------------------------------------------------------
(* Pages that are opened, gates.                                           *)

LEMMA ShowEffect ==
  ASSUME Shape, NEW t \in Tabs, NEW p \in Pages \ {"blank"}, NEW a, Show(t, p, a)
  PROVE  /\ DOMAIN page' = Tabs /\ DOMAIN sess' = Tabs /\ DOMAIN listed' = Tabs
         /\ DOMAIN pc' = Tabs /\ DOMAIN job' = Tabs
         /\ page'[t] = p /\ sess'[t] = a /\ job'[t] = NoJob
         /\ pc'[t] \in {"idle", "list", "fetch"}
         /\ p = "login" => pc'[t] = "idle"
         /\ \A u \in Tabs \ {t} : /\ page'[u] = page[u] /\ sess'[u] = sess[u]
                                  /\ pc'[u] = pc[u] /\ job'[u] = job[u]
<1>1. Render(t, p, a) /\ Goto(t, Begin[p], NoJob)
  BY DEF Show
<1>2. Begin[p] \in {"idle", "list", "fetch"} /\ Begin["login"] = "idle"
  BY DEF Begin, Pages, Keys, AllowListed
<1> QED BY <1>1, <1>2, RenderEffect, GotoEffect

LEMMA AwaitEffect ==
  ASSUME Shape, NEW t \in Tabs, NEW l, NEW p, NEW a, Await(t, l, p, a)
  PROVE  /\ DOMAIN page' = Tabs /\ DOMAIN sess' = Tabs /\ DOMAIN listed' = Tabs
         /\ DOMAIN pc' = Tabs /\ DOMAIN job' = Tabs
         /\ page'[t] = "blank" /\ sess'[t] = None
         /\ pc'[t] = l /\ IsJob(job'[t]) /\ job'[t].do = p /\ job'[t].tgt = a
         /\ \A u \in Tabs \ {t} : /\ page'[u] = page[u] /\ sess'[u] = sess[u]
                                  /\ pc'[u] = pc[u] /\ job'[u] = job[u]
<1>1. Render(t, "blank", None) /\ Goto(t, l, [NoJob EXCEPT !.do = p, !.tgt = a])
  BY DEF Await
<1> DEFINE k == [NoJob EXCEPT !.do = p, !.tgt = a]
<1>2. IsJob(k) /\ k.do = p /\ k.tgt = a
  BY DEF NoJob, IsJob
<1>3. Goto(t, l, k)
  BY <1>1
<1> HIDE DEF k
<1> QED BY <1>1, <1>2, <1>3, RenderEffect, GotoEffect

\* A page is opened: the login page, or the gate of the page asks about whom
\* the storage names.
LEMMA EnterFollows ==
  ASSUME SessInv, NEW t \in Tabs, NEW p \in Pages \ {"blank"},
         pc[t] \in {"idle", "redirect"}, Enter(t, p)
  PROVE  SessInv'
<1> USE TabsAssumption, FirstAssumption
<1>0. Shape /\ StoreIsLast /\ TabFollows(t) /\ BrowserOf[t] \in Browsers
  BY DEF SessInv
<1>1. UNCHANGED <<rows, used, store, last, overtaken, cleared, changed, broken>>
      /\ late' = late \ {t} /\ moved' = moved \ {t}
  BY DEF Enter, deeds
<1>2. NoChange(t)
  BY <1>1 DEF NoChange
<1>3. t \notin changed' /\ t \notin broken'
  BY <1>0, <1>1 DEF TabFollows, DeedsFollow
<1>4. CASE Show(t, "login", None)
  <2>0. "login" \in Pages \ {"blank"}
    BY DEF Pages, Keys, AllowListed
  <2>1. /\ page'[t] = "login" /\ sess'[t] = None /\ job'[t] = NoJob /\ pc'[t] = "idle"
        /\ Apart(t)
    BY <1>0, <1>1, <1>4, <2>0, ShowEffect DEF Apart
  <2>2. TabFollows(t)'
    BY <2>1, <1>3 DEF TabFollows, JobFits, IsJob, NoJob, GateFollows, PageFollows, HandsFollow,
         DeedsFollow, AtGate, ForLogin, Working
  <2> QED BY <1>2, <2>1, <2>2, OthersFollow
<1>5. CASE store[BrowserOf[t]] # None /\ Await(t, "gate", p, store[BrowserOf[t]])
  <2> DEFINE a == store[BrowserOf[t]]
  <2>1. a \in Admins /\ (a = last[BrowserOf[t]] \/ BrowserOf[t] \in overtaken)
    BY <1>0, <1>5 DEF Shape, StoreIsLast
  <2>2. /\ page'[t] = "blank" /\ sess'[t] = None
        /\ pc'[t] = "gate" /\ IsJob(job'[t]) /\ job'[t].do = p /\ job'[t].tgt = a
        /\ Apart(t)
    BY <1>0, <1>1, <1>5, AwaitEffect DEF Apart
  <2>3. JobFits(t)'
    BY <2>1, <2>2 DEF JobFits, IsJob, AtGate, ForLogin, Pages, Keys, AllowListed
  <2>4. GateFollows(t)' /\ PageFollows(t)' /\ HandsFollow(t)' /\ DeedsFollow(t)'
    BY <2>1, <2>2, <1>1, <1>3 DEF GateFollows, PageFollows, HandsFollow, DeedsFollow,
         AtGate, ForLogin, Working
  <2> QED BY <1>2, <2>2, <2>3, <2>4, OthersFollow DEF TabFollows
<1> QED BY <1>4, <1>5 DEF Enter

LEMMA VisitFollows ==
  ASSUME SessInv, NEW t \in Tabs, Visit(t)  PROVE SessInv'
<1> USE PagesAssumption
<1>1. PICK p \in PagesOf[t] : Enter(t, p)
  BY DEF Visit
<1>2. p \in Pages \ {"blank"} /\ pc[t] = "idle"
  BY DEF Visit
<1> QED BY <1>1, <1>2, EnterFollows

LEMMA FollowFollows ==
  ASSUME SessInv, NEW t \in Tabs, Follow(t)  PROVE SessInv'
<1>1. job[t].do \in Pages \ {"blank"} /\ pc[t] = "redirect"
  BY DEF Follow, SessInv, TabFollows, JobFits
<1> QED BY <1>1, EnterFollows DEF Follow

\* The database clears the tab exactly for the account it answers with.
LEMMA RefreshFollows ==
  ASSUME SessInv, NEW t \in Tabs, RefreshSession(t)  PROVE SessInv'
<1>0. Shape /\ TabFollows(t)
  BY DEF SessInv
<1>1. pc[t] = "gate" /\ UNCHANGED <<store, pages, last, late, overtaken, moved, changed, broken>>
  BY DEF RefreshSession, logins, deeds
<1>2. PICK row \in GetAdminSession(t) : Goto(t, "resume", [job[t] EXCEPT !.saw = row])
  BY DEF RefreshSession
<1>3. /\ pc'[t] = "resume" /\ IsJob(job'[t])
      /\ job'[t].do = job[t].do /\ job'[t].tgt = job[t].tgt /\ job'[t].saw = row
      /\ DOMAIN pc' = Tabs /\ DOMAIN job' = Tabs
      /\ \A u \in Tabs \ {t} : pc'[u] = pc[u] /\ job'[u] = job[u]
  <2> DEFINE j == [job[t] EXCEPT !.saw = row]
  <2>1. IsJob(j) /\ j.do = job[t].do /\ j.tgt = job[t].tgt /\ j.saw = row
    BY <1>0 DEF TabFollows, JobFits, IsJob
  <2> QED BY <1>0, <1>2, <2>1, GotoEffect
<1>4. \A u \in Tabs \ {t} : (u \in cleared') = (u \in cleared)
  BY DEF RefreshSession
<1>5. Apart(t) /\ NoChange(t)
  BY <1>0, <1>1, <1>3, <1>4 DEF Apart, NoChange, Shape, pages
<1>6. JobFits(t)'
  BY <1>0, <1>1, <1>3 DEF TabFollows, JobFits, IsJob, AtGate, ForLogin, Pages, Keys, AllowListed
<1>7. GateFollows(t)'
  BY <1>0, <1>1, <1>3 DEF TabFollows, GateFollows, AtGate
<1>8. row # None => job[t].tgt \in There /\ row = rows[job[t].tgt]
  BY DEF GetAdminSession
<1>9. row # None /\ Allowed(row, job[t].do) => t \in cleared'
  BY <1>8 DEF RefreshSession
<1>10. PageFollows(t)'
  BY <1>0, <1>1, <1>3, <1>9
     DEF TabFollows, PageFollows, AtGate, ForLogin, Working, Allowed, AllowListed, pages
<1>11. HandsFollow(t)' /\ DeedsFollow(t)'
  BY <1>0, <1>1, <1>3 DEF TabFollows, HandsFollow, DeedsFollow, ChangedHands, pages
<1> QED BY <1>5, <1>6, <1>7, <1>10, <1>11, OthersFollow DEF TabFollows

\* What a login or a logout leaves of the tab that did it: another page.
LEMMA ExpelFollows ==
  ASSUME SessInv, NEW t \in Tabs, Expel(t), UNCHANGED cleared,
         \/ UNCHANGED deeds /\ t \notin changed
         \/ changed' = changed \ {t} /\ broken' = broken \ {t}
  PROVE  SessInv'
<1>0. Shape /\ TabFollows(t)
  BY DEF SessInv
<1>1. "login" \in Pages \ {"blank"}
  BY DEF Pages, Keys, AllowListed
<1>2. /\ page'[t] = "login" /\ sess'[t] = None /\ job'[t] = NoJob /\ pc'[t] = "idle"
      /\ Apart(t)
  BY <1>0, <1>1, ShowEffect DEF Expel, Apart, deeds
<1>3. t \notin changed' /\ t \notin broken'
  BY <1>0 DEF deeds, TabFollows, DeedsFollow
<1>4. TabFollows(t)'
  BY <1>2, <1>3 DEF TabFollows, JobFits, IsJob, NoJob, GateFollows, PageFollows, HandsFollow,
       DeedsFollow, AtGate, ForLogin, Working
<1> QED BY <1>2, <1>4, OthersAreTold DEF Expel

LEMMA RedirectFollows ==
  ASSUME SessInv, NEW t \in Tabs, NEW p \in Pages \ {"blank"}, NEW a \in Admins,
         Redirect(t, p), SetStore(t, a), ChangeHands(t, a), UNCHANGED <<cleared, deeds>>,
         t \notin changed
  PROVE  SessInv'
<1>0. Shape /\ TabFollows(t)
  BY DEF SessInv
<1>1. /\ page'[t] = "blank" /\ sess'[t] = None
      /\ pc'[t] = "redirect" /\ IsJob(job'[t]) /\ job'[t].do = p
      /\ Apart(t)
  BY <1>0, AwaitEffect DEF Redirect, Apart, deeds
<1>2. t \notin changed' /\ t \notin broken'
  BY <1>0 DEF deeds, TabFollows, DeedsFollow
<1>3. TabFollows(t)'
  BY <1>1, <1>2 DEF TabFollows, JobFits, GateFollows, PageFollows, HandsFollow,
       DeedsFollow, AtGate, ForLogin, Working
<1> QED BY <1>1, <1>3, OthersAreTold

\* A gate that lets somebody in writes the storage: it names who logged in
\* last, or the gate was late.
LEMMA AdmitFollows ==
  ASSUME SessInv, NEW t \in Tabs, pc[t] = "resume", job[t].saw # None,
         Admit(t), UNCHANGED <<cleared, deeds>>
  PROVE  SessInv'
<1> USE TabsAssumption, FirstAssumption
<1> DEFINE b == BrowserOf[t]
           a == job[t].tgt
           p == job[t].do
<1>0. Shape /\ StoreIsLast /\ TabFollows(t) /\ b \in Browsers
  BY DEF SessInv
<1>1. /\ a \in Admins /\ p \in Pages \ {"blank"}
      /\ t \notin late => a = last[b] \/ b \in overtaken
      /\ Allowed(job[t].saw, p) => t \in cleared
      /\ t \notin changed /\ t \notin broken
  BY <1>0 DEF TabFollows, JobFits, GateFollows, PageFollows, DeedsFollow, AtGate
<1>2. /\ store' = [store EXCEPT ![b] = a] /\ last' = last
      /\ overtaken' = overtaken \union (IF t \in late THEN {b} ELSE {})
      /\ late' = late \ {t} /\ moved' = moved \ {t}
      /\ cleared' = cleared /\ changed' = changed /\ broken' = broken
  BY DEF Admit, SetStore, deeds
<1>3. a = last[b] \/ b \in overtaken'
  BY <1>1, <1>2
<1>4. Apart(t) /\ TabFollows(t)'
  <2>1. CASE Allowed(job[t].saw, p) /\ Show(t, p, a)
    <3>1. /\ page'[t] = p /\ sess'[t] = a /\ job'[t] = NoJob
          /\ pc'[t] \in {"idle", "list", "fetch"} /\ (p = "login" => pc'[t] = "idle")
          /\ Apart(t)
      BY <1>0, <1>1, <1>2, <2>1, ShowEffect DEF Apart
    <3>2. TabFollows(t)'
      BY <1>1, <1>2, <1>3, <2>1, <3>1 DEF TabFollows, JobFits, IsJob, NoJob, GateFollows,
           PageFollows, HandsFollow, ChangedHands, DeedsFollow, AtGate, ForLogin, Working
    <3> QED BY <3>1, <3>2
  <2>2. CASE \E q \in {"password", "dashboard"} : Redirect(t, q)
    <3>1. PICK q \in {"password", "dashboard"} : Redirect(t, q)
      BY <2>2
    <3>2. q \in Pages \ {"blank"}
      BY DEF Pages, AllowListed
    <3>3. /\ page'[t] = "blank" /\ sess'[t] = None
          /\ pc'[t] = "redirect" /\ IsJob(job'[t]) /\ job'[t].do = q
          /\ Apart(t)
      BY <1>0, <1>2, <3>1, AwaitEffect DEF Redirect, Apart
    <3>4. TabFollows(t)'
      BY <1>1, <1>2, <3>2, <3>3 DEF TabFollows, JobFits, GateFollows, PageFollows, HandsFollow,
           DeedsFollow, AtGate, ForLogin, Working
    <3> QED BY <3>3, <3>4
  <2> QED BY <2>1, <2>2 DEF Admit
<1>5. Shape'
  BY <1>0, <1>1, <1>2, <1>4 DEF Shape, Apart
<1>6. StoreIsLast'
  BY <1>0, <1>2, <1>3 DEF Shape, StoreIsLast
<1>7. ASSUME NEW u \in Tabs, u # t  PROVE TabFollows(u)'
  <2>1. TabFollows(u)
    BY DEF SessInv
  <2>2. /\ pc'[u] = pc[u] /\ job'[u] = job[u] /\ page'[u] = page[u] /\ sess'[u] = sess[u]
        /\ (u \in late) = (u \in late') /\ (u \in moved) = (u \in moved')
        /\ BrowserOf[u] \in overtaken => BrowserOf[u] \in overtaken'
    BY <1>2, <1>4, <1>7 DEF Apart
  <2>3. JobFits(u)' /\ GateFollows(u)' /\ HandsFollow(u)'
    BY <2>1, <2>2, <1>2 DEF TabFollows, JobFits, IsJob, AtGate, ForLogin, GateFollows, HandsFollow,
         ChangedHands, Pages, Keys, AllowListed
  <2>4. PageFollows(u)' /\ DeedsFollow(u)'
    BY <2>1, <2>2, <1>2 DEF TabFollows, PageFollows, DeedsFollow, AtGate, ForLogin, Working,
         Allowed, AllowListed, Changes
  <2> QED BY <2>3, <2>4 DEF TabFollows
<1> QED BY <1>4, <1>5, <1>6, <1>7 DEF SessInv

LEMMA RequireAuthFollows ==
  ASSUME SessInv, NEW t \in Tabs, RequireAuth(t)  PROVE SessInv'
<1>1. pc[t] = "resume" /\ UNCHANGED <<cleared, deeds>>
  BY DEF RequireAuth
<1>2. t \notin changed
  BY <1>1 DEF SessInv, TabFollows, DeedsFollow
<1>3. CASE job[t].saw = None /\ Expel(t)
  BY <1>1, <1>2, <1>3, ExpelFollows
<1>4. CASE job[t].saw # None /\ Admit(t)
  BY <1>1, <1>4, AdmitFollows
<1> QED BY <1>3, <1>4 DEF RequireAuth

-----------------------------------------------------------------------------
(* Handlers of a page.                                                     *)

\* A step of a handler leaves the page, the storage and the other tabs alone.
Onward(t, l, j) ==
  /\ Goto(t, l, j)
  /\ UNCHANGED <<store, page, sess, logins, moved, cleared>> /\ DOMAIN listed' = Tabs
  /\ \A u \in Tabs \ {t} : /\ (u \in changed') = (u \in changed)
                           /\ (u \in broken') = (u \in broken)

LEMMA OnwardEffect ==
  ASSUME SessInv, NEW t \in Tabs, NEW l, NEW j, Onward(t, l, j)
  PROVE  /\ Apart(t) /\ NoChange(t)
         /\ pc'[t] = l /\ job'[t] = j /\ page'[t] = page[t] /\ sess'[t] = sess[t]
         /\ UNCHANGED <<store, last, late, overtaken, moved, cleared>>
<1>1. Shape
  BY DEF SessInv
<1>2. UNCHANGED <<store, last, late, overtaken, moved, cleared, page, sess>>
  BY DEF Onward, logins
<1>3. /\ DOMAIN pc' = Tabs /\ DOMAIN job' = Tabs
      /\ pc'[t] = l /\ job'[t] = j
      /\ \A u \in Tabs \ {t} : pc'[u] = pc[u] /\ job'[u] = job[u]
  BY <1>1, GotoEffect DEF Onward
<1> QED BY <1>1, <1>2, <1>3 DEF Onward, Apart, NoChange, Shape

\* The handler is done.
LEMMA IdleFollows ==
  ASSUME SessInv, NEW t \in Tabs, Onward(t, "idle", NoJob),
         t \notin changed', t \notin broken'
  PROVE  SessInv'
<1>1. TabFollows(t)
  BY DEF SessInv
<1>2. /\ pc'[t] = "idle" /\ job'[t] = NoJob /\ page'[t] = page[t] /\ sess'[t] = sess[t]
      /\ UNCHANGED <<last, overtaken, moved, cleared>> /\ Apart(t) /\ NoChange(t)
  BY OnwardEffect
<1>3. TabFollows(t)'
  BY <1>1, <1>2 DEF TabFollows, JobFits, IsJob, NoJob, GateFollows, PageFollows, HandsFollow,
       ChangedHands, DeedsFollow, AtGate, ForLogin, Working
<1> QED BY <1>2, <1>3, OthersFollow

\* The handler goes on, for the page's own administrator.
LEMMA WorkFollows ==
  ASSUME SessInv, NEW t \in Tabs, NEW l \in Working, NEW j,
         Onward(t, l, j), IsJob(j), sess[t] # None,
         l = "log" => /\ j.do # "login"
                      /\ j.do = "logout" => j.tgt = sess[t] \/ ChangedHands(t),
         t \in broken' => t \in changed',
         t \in changed' => l \in {"revoke", "log"},
         l = "revoke" => t \in changed' /\ t \notin broken',
         l = "log" /\ j.do \in Changes => (j.res = "SUCCESS" <=> t \in changed' \ broken'),
         l = "log" /\ j.do \notin Changes => t \notin changed',
         l \in {"holders", "check", "commit", "revoke"} => j.do \in Changes
  PROVE  SessInv'
<1>1. TabFollows(t)
  BY DEF SessInv
<1>2. /\ pc'[t] = l /\ job'[t] = j /\ page'[t] = page[t] /\ sess'[t] = sess[t]
      /\ UNCHANGED <<last, overtaken, moved, cleared>> /\ Apart(t) /\ NoChange(t)
  BY OnwardEffect
<1>3. JobFits(t)' /\ GateFollows(t)'
  BY <1>2 DEF JobFits, GateFollows, AtGate, ForLogin, Working
<1>4. PageFollows(t)'
  BY <1>1, <1>2 DEF TabFollows, PageFollows, AtGate, ForLogin, Working
<1>5. HandsFollow(t)'
  BY <1>1, <1>2 DEF TabFollows, HandsFollow, ChangedHands, Working
<1>6. DeedsFollow(t)'
  BY <1>2 DEF DeedsFollow, Changes
<1> QED BY <1>2, <1>3, <1>4, <1>5, <1>6, OthersFollow DEF TabFollows

\* A handler of the login page.
LEMMA LoginFollows ==
  ASSUME SessInv, NEW t \in Tabs, NEW l \in {"verify", "log"}, NEW j,
         Onward(t, l, j), IsJob(j), j.do = "login", j.tgt \in Admins,
         pc[t] \in {"idle", "verify"}, UNCHANGED deeds
  PROVE  SessInv'
<1>1. TabFollows(t)
  BY DEF SessInv
<1>2. /\ pc'[t] = l /\ job'[t] = j /\ page'[t] = page[t] /\ sess'[t] = sess[t]
      /\ UNCHANGED <<last, overtaken, moved, cleared>> /\ Apart(t) /\ NoChange(t)
  BY OnwardEffect
<1>3. t \notin changed' /\ t \notin broken'
  BY <1>1 DEF TabFollows, DeedsFollow, deeds
<1>4. JobFits(t)' /\ GateFollows(t)'
  BY <1>2 DEF JobFits, GateFollows, AtGate, ForLogin, Working
<1>5. PageFollows(t)' /\ HandsFollow(t)'
  BY <1>1, <1>2 DEF TabFollows, PageFollows, HandsFollow, ChangedHands, AtGate, ForLogin, Working
<1>6. DeedsFollow(t)'
  BY <1>2, <1>3 DEF DeedsFollow, Changes
<1> QED BY <1>2, <1>4, <1>5, <1>6, OthersFollow DEF TabFollows

\* Steps that change no account.
LEMMA PressIsOnward ==
  ASSUME SessInv, NEW t \in Tabs, NEW p, NEW l, NEW j, Press(t, p, l, j)
  PROVE  /\ Onward(t, l, j) /\ pc[t] = "idle" /\ page[t] \in p /\ UNCHANGED deeds
         /\ t \notin changed' /\ t \notin broken'
<1>1. Shape /\ TabFollows(t)
  BY DEF SessInv
<1> QED BY <1>1 DEF Press, Onward, pages, deeds, Shape, TabFollows, DeedsFollow

LEMMA TryLoginFollows ==
  ASSUME SessInv, NEW t \in Tabs, TryLogin(t)  PROVE SessInv'
<1>1. PICK a \in Admins : Press(t, {"login"}, "verify", [NoJob EXCEPT !.do = "login", !.tgt = a])
  BY DEF TryLogin
<1> DEFINE j == [NoJob EXCEPT !.do = "login", !.tgt = a]
<1>2. IsJob(j) /\ j.do = "login" /\ j.tgt = a
  BY DEF IsJob, NoJob
<1>3. Press(t, {"login"}, "verify", j)
  BY <1>1
<1> HIDE DEF j
<1> QED BY <1>2, <1>3, PressIsOnward, LoginFollows

LEMMA AuthenticateFollows ==
  ASSUME SessInv, NEW t \in Tabs, Authenticate(t)  PROVE SessInv'
<1>0. Shape /\ TabFollows(t) /\ pc[t] = "verify"
  BY DEF SessInv, Authenticate
<1>1. /\ IsJob(job[t]) /\ job[t].tgt \in Admins /\ job[t].do = "login"
      /\ t \notin changed /\ t \notin broken
  BY <1>0 DEF TabFollows, JobFits, ForLogin, DeedsFollow
<1>2. UNCHANGED deeds /\ (\A l, j : Goto(t, l, j) => Onward(t, l, j))
  BY <1>0 DEF Authenticate, Onward, Shape, pages, deeds
<1>3. ASSUME NEW r \in {"SUCCESS", "FAILURE"}, Goto(t, "log", [job[t] EXCEPT !.res = r])
      PROVE  SessInv'
  <2> DEFINE j == [job[t] EXCEPT !.res = r]
  <2>1. IsJob(j) /\ j.do = "login" /\ j.tgt \in Admins
    BY <1>1 DEF IsJob
  <2>2. Onward(t, "log", j)
    BY <1>2, <1>3
  <2> HIDE DEF j
  <2> QED BY <1>0, <1>2, <2>1, <2>2, LoginFollows
<1>4. CASE Idle(t)
  <2>1. Onward(t, "idle", NoJob) /\ t \notin changed' /\ t \notin broken'
    BY <1>1, <1>2, <1>4 DEF Idle, deeds
  <2> QED BY <2>1, IdleFollows
<1> QED BY <1>3, <1>4 DEF Authenticate

LEMMA RecordLoginFollows ==
  ASSUME SessInv, NEW t \in Tabs, RecordLogin(t)  PROVE SessInv'
<1>0. /\ Shape /\ TabFollows(t) /\ pc[t] = "log" /\ job[t].do = "login"
      /\ UNCHANGED <<cleared, deeds>>
  BY DEF SessInv, RecordLogin
<1>1. job[t].tgt \in Admins /\ t \notin changed /\ t \notin broken
  BY <1>0 DEF TabFollows, JobFits, ForLogin, DeedsFollow, Changes
<1>2. CASE job[t].res = "SUCCESS"
  <2>1. SetStore(t, job[t].tgt) /\ Redirect(t, "dashboard") /\ ChangeHands(t, job[t].tgt)
    BY <1>2 DEF RecordLogin, EndLogin
  <2>2. "dashboard" \in Pages \ {"blank"}
    BY DEF Pages, AllowListed
  <2> QED BY <1>0, <1>1, <2>1, <2>2, RedirectFollows
<1>3. CASE job[t].res # "SUCCESS"
  <2>1. Onward(t, "idle", NoJob) /\ t \notin changed' /\ t \notin broken'
    BY <1>0, <1>1, <1>3 DEF RecordLogin, EndLogin, Onward, Idle, Shape, pages, deeds
  <2> QED BY <2>1, IdleFollows
<1> QED BY <1>2, <1>3

\* A page that is neither blank nor the login page has somebody to act for.
LEMMA PressedBySomebody ==
  ASSUME SessInv, NEW t \in Tabs, page[t] \in Keys \union AllowListed
  PROVE  sess[t] # None
BY DEF SessInv, TabFollows, PageFollows, Keys, AllowListed

LEMMA PressLogoutFollows ==
  ASSUME SessInv, NEW t \in Tabs, PressLogout(t)  PROVE SessInv'
<1> USE TabsAssumption
<1> DEFINE j == [NoJob EXCEPT !.do = "logout", !.tgt = store[BrowserOf[t]], !.res = "SUCCESS"]
<1>1. IsJob(j) /\ j.do = "logout" /\ j.tgt = store[BrowserOf[t]]
  BY DEF IsJob, NoJob
<1>2. Press(t, Keys \union AllowListed, "log", j)
  BY DEF PressLogout
<1> HIDE DEF j
<1>3. /\ Onward(t, "log", j) /\ t \notin changed' /\ t \notin broken'
      /\ sess[t] # None
  BY <1>2, PressIsOnward, PressedBySomebody
<1>4. j.tgt = sess[t] \/ ChangedHands(t)
  BY <1>1, <1>3 DEF SessInv, StoreIsLast, TabFollows, HandsFollow, ChangedHands
<1> QED BY <1>1, <1>3, <1>4, WorkFollows DEF Working, Changes

LEMMA RecordLogoutFollows ==
  ASSUME SessInv, NEW t \in Tabs, RecordLogout(t)  PROVE SessInv'
<1>1. t \notin changed
  BY DEF SessInv, TabFollows, DeedsFollow, RecordLogout, Changes
<1> QED BY <1>1, ExpelFollows DEF RecordLogout

\* A button of a change, pressed on a page that somebody was shown.
LEMMA PressChangeFollows ==
  ASSUME SessInv, NEW t \in Tabs, NEW p \in SUBSET (Keys \union AllowListed),
         NEW l \in {"holders", "check", "commit"},
         NEW j, IsJob(j), j.do \in Changes, Press(t, p, l, j)
  PROVE  SessInv'
<1>1. Onward(t, l, j) /\ t \notin changed' /\ t \notin broken' /\ sess[t] # None
  BY PressIsOnward, PressedBySomebody
<1> QED BY <1>1, WorkFollows DEF Working

LEMMA CreateAccountFollows ==
  ASSUME SessInv, NEW t \in Tabs, CreateAccount(t)  PROVE SessInv'
<1>1. PICK ks \in Grants :
        Press(t, {"accounts"}, "commit", [NoJob EXCEPT !.do = "create", !.perms = ks])
  BY DEF CreateAccount
<1> DEFINE j == [NoJob EXCEPT !.do = "create", !.perms = ks]
<1>2. IsJob(j) /\ j.do \in Changes
  BY DEF IsJob, NoJob, Changes
<1>3. Press(t, {"accounts"}, "commit", j)
  BY <1>1
<1> HIDE DEF j
<1> QED BY <1>2, <1>3, PressChangeFollows DEF Keys

LEMMA SavePermsFollows ==
  ASSUME SessInv, NEW t \in Tabs, SavePerms(t)  PROVE SessInv'
<1>1. PICK a \in listed[t], ks \in Grants :
        Press(t, {"accounts"}, IF "accounts" \in ks THEN "commit" ELSE "holders",
              [NoJob EXCEPT !.do = "edit", !.tgt = a, !.perms = ks])
  BY DEF SavePerms
<1> DEFINE j == [NoJob EXCEPT !.do = "edit", !.tgt = a, !.perms = ks]
<1>2. IsJob(j) /\ j.do \in Changes
  BY DEF IsJob, NoJob, Changes
<1>3. PICK l \in {"holders", "commit"} : Press(t, {"accounts"}, l, j)
  BY <1>1
<1> HIDE DEF j
<1> QED BY <1>2, <1>3, PressChangeFollows DEF Keys

LEMMA ConfirmRemoveFollows ==
  ASSUME SessInv, NEW t \in Tabs, ConfirmRemove(t)  PROVE SessInv'
<1>1. PICK a \in listed[t] \ {sess[t]} :
        Press(t, {"accounts"}, "holders", [NoJob EXCEPT !.do = "remove", !.tgt = a])
  BY DEF ConfirmRemove
<1> DEFINE j == [NoJob EXCEPT !.do = "remove", !.tgt = a]
<1>2. IsJob(j) /\ j.do \in Changes
  BY DEF IsJob, NoJob, Changes
<1>3. Press(t, {"accounts"}, "holders", j)
  BY <1>1
<1> HIDE DEF j
<1> QED BY <1>2, <1>3, PressChangeFollows DEF Keys

LEMMA DoChangeFollows ==
  ASSUME SessInv, NEW t \in Tabs, DoChange(t)  PROVE SessInv'
<1> DEFINE j == [NoJob EXCEPT !.do = "password", !.tgt = sess[t]]
<1>2. IsJob(j) /\ j.do \in Changes
  BY DEF IsJob, NoJob, Changes
<1>3. Press(t, {"password"}, "check", j)
  BY DEF DoChange
<1> HIDE DEF j
<1> QED BY <1>2, <1>3, PressChangeFollows DEF AllowListed

\* What the handler of a change knows of its tab.
LEMMA ChangeIsUnderWay ==
  ASSUME SessInv, NEW t \in Tabs, pc[t] \in {"holders", "check", "commit", "revoke"}
  PROVE  /\ IsJob(job[t]) /\ job[t].do \in Changes /\ sess[t] # None
         /\ pc[t] = "revoke" => t \in changed /\ t \notin broken
         /\ pc[t] # "revoke" => t \notin changed /\ t \notin broken
BY DEF SessInv, TabFollows, JobFits, PageFollows, DeedsFollow, Working, ForLogin

\* The use case answers: a change that was made has its entry to come.
LEMMA AnswerFollows ==
  ASSUME SessInv, NEW t \in Tabs, IsJob(job[t]), job[t].do \in Changes, sess[t] # None,
         NEW r \in {"SUCCESS", "FAILURE"},
         Onward(t, "log", [job[t] EXCEPT !.res = r]),
         r = "SUCCESS" <=> t \in changed' \ broken', t \in broken' => t \in changed'
  PROVE  SessInv'
<1> DEFINE j == [job[t] EXCEPT !.res = r]
<1>1. IsJob(j) /\ j.do = job[t].do /\ j.res = r
  BY DEF IsJob
<1>2. Onward(t, "log", j)
  OBVIOUS
<1>3. j.do # "login" /\ j.do # "logout"
  BY <1>1 DEF Changes
<1> HIDE DEF j
<1> QED BY <1>1, <1>2, <1>3, WorkFollows DEF Working

LEMMA CheckFollows ==
  ASSUME SessInv, NEW t \in Tabs, Check(t)  PROVE SessInv'
<1>0. Shape /\ pc[t] \in {"holders", "check"}
  BY DEF SessInv, Check
<1>1. IsJob(job[t]) /\ job[t].do \in Changes /\ sess[t] # None /\ t \notin changed /\ t \notin broken
  BY <1>0, ChangeIsUnderWay
<1>2. UNCHANGED deeds /\ (\A l, j : Goto(t, l, j) => Onward(t, l, j))
  BY <1>0 DEF Check, Onward, Shape, pages, deeds
<1>3. t \notin changed' /\ t \notin broken'
  BY <1>1, <1>2 DEF deeds
<1>4. CASE Goto(t, "commit", job[t])
  BY <1>1, <1>2, <1>3, <1>4, WorkFollows DEF Working
<1>5. CASE Refuse(t)
  <2>1. Onward(t, "log", [job[t] EXCEPT !.res = "FAILURE"])
    BY <1>2, <1>5 DEF Refuse
  <2> QED BY <1>1, <1>3, <2>1, AnswerFollows
<1> QED BY <1>4, <1>5 DEF Check

LEMMA CommitFollows ==
  ASSUME SessInv, NEW t \in Tabs, Commit(t)  PROVE SessInv'
<1>0. Shape /\ pc[t] = "commit"
  BY DEF SessInv, Commit
<1>1. IsJob(job[t]) /\ job[t].do \in Changes /\ sess[t] # None /\ t \notin changed /\ t \notin broken
  BY <1>0, ChangeIsUnderWay
<1>2. \A l, j : Goto(t, l, j) => Onward(t, l, j)
  BY <1>0 DEF Commit, Onward, Shape, pages, deeds
<1>3. CASE /\ changed' = changed \union {t} /\ UNCHANGED broken
           /\ Goto(t, "revoke", job[t])
  BY <1>1, <1>2, <1>3, WorkFollows DEF Working
<1>4. CASE changed' = changed \union {t} /\ UNCHANGED broken /\ Agree(t)
  BY <1>1, <1>2, <1>4, AnswerFollows DEF Agree
<1>5. CASE changed' = changed \union {t} /\ Refuse(t) /\ broken' = broken \union {t}
  BY <1>1, <1>2, <1>5, AnswerFollows DEF Refuse
<1>6. CASE Refuse(t) /\ UNCHANGED deeds
  BY <1>1, <1>2, <1>6, AnswerFollows DEF Refuse, deeds
<1> QED BY <1>3, <1>4, <1>5, <1>6 DEF Commit

LEMMA RevokeFollows ==
  ASSUME SessInv, NEW t \in Tabs, Revoke(t)  PROVE SessInv'
<1>0. Shape /\ pc[t] = "revoke" /\ UNCHANGED changed
  BY DEF SessInv, Revoke
<1>1. IsJob(job[t]) /\ job[t].do \in Changes /\ sess[t] # None /\ t \in changed /\ t \notin broken
  BY <1>0, ChangeIsUnderWay
<1>2. \A l, j : Goto(t, l, j) => Onward(t, l, j)
  BY <1>0 DEF Revoke, Onward, Shape, pages
<1>3. CASE Agree(t) /\ UNCHANGED broken
  BY <1>0, <1>1, <1>2, <1>3, AnswerFollows DEF Agree
<1>4. CASE Refuse(t) /\ broken' = broken \union {t}
  BY <1>0, <1>1, <1>2, <1>4, AnswerFollows DEF Refuse
<1> QED BY <1>3, <1>4 DEF Revoke

LEMMA RecordChangeFollows ==
  ASSUME SessInv, NEW t \in Tabs, RecordChange(t)  PROVE SessInv'
<1>0. /\ Shape /\ TabFollows(t) /\ pc[t] = "log" /\ job[t].do \in Changes
      /\ changed' = changed \ {t} /\ broken' = broken \ {t} /\ UNCHANGED cleared
  BY DEF SessInv, RecordChange, Record
<1>1. sess[t] # None
  BY <1>0 DEF TabFollows, PageFollows, Working, ForLogin, Changes
<1>2. CASE Expel(t)
  BY <1>0, <1>2, ExpelFollows
<1>3. CASE UNCHANGED <<store, moved, pages, logins>>
           /\ (Goto(t, "list", NoJob) \/ Idle(t))
  <2>1. Onward(t, "list", NoJob) \/ Onward(t, "idle", NoJob)
    BY <1>0, <1>3 DEF Onward, Idle, Shape, pages
  <2>2. IsJob(NoJob) /\ "list" \in Working
    BY DEF IsJob, NoJob, Working
  <2>3. t \notin changed' /\ t \notin broken'
    BY <1>0
  <2> QED BY <1>1, <2>1, <2>2, <2>3, IdleFollows, WorkFollows
<1> QED BY <1>2, <1>3 DEF RecordChange

LEMMA RefreshListFollows ==
  ASSUME SessInv, NEW t \in Tabs, RefreshList(t)  PROVE SessInv'
<1>0. Shape /\ TabFollows(t) /\ pc[t] = "list"
  BY DEF SessInv, RefreshList
<1>1. DOMAIN listed' = Tabs
  BY <1>0 DEF RefreshList, Shape
<1>2. t \notin changed' /\ t \notin broken'
  BY <1>0 DEF RefreshList, TabFollows, DeedsFollow, deeds
<1>3. Onward(t, "idle", NoJob)
  BY <1>1 DEF RefreshList, Onward, Idle, deeds
<1> QED BY <1>2, <1>3, IdleFollows

LEMMA RenderListFollows ==
  ASSUME SessInv, NEW t \in Tabs, RenderList(t)  PROVE SessInv'
<1>0. Shape /\ TabFollows(t) /\ pc[t] = "fetch"
  BY DEF SessInv, RenderList
<1>1. t \notin changed' /\ t \notin broken' /\ sess[t] # None
  BY <1>0 DEF RenderList, TabFollows, DeedsFollow, PageFollows, Working, ForLogin, deeds
<1>2. \A l, j : Goto(t, l, j) => Onward(t, l, j)
  BY <1>0 DEF RenderList, Onward, Shape, pages, deeds
<1> DEFINE j == [NoJob EXCEPT !.do = "view", !.res = "SUCCESS"]
<1>3. IsJob(j) /\ j.do = "view"
  BY DEF IsJob, NoJob
<1>4. Goto(t, "log", j) \/ Idle(t)
  BY DEF RenderList
<1> HIDE DEF j
<1>5. CASE Goto(t, "log", j)
  BY <1>1, <1>2, <1>3, <1>5, WorkFollows DEF Working, Changes
<1>6. CASE Idle(t)
  BY <1>1, <1>2, <1>6, IdleFollows DEF Idle
<1> QED BY <1>4, <1>5, <1>6

LEMMA RecordReadFollows ==
  ASSUME SessInv, NEW t \in Tabs, RecordRead(t)  PROVE SessInv'
<1>0. Shape /\ TabFollows(t) /\ pc[t] = "log" /\ job[t].do = "view"
  BY DEF SessInv, RecordRead
<1>1. t \notin changed' /\ t \notin broken'
  BY <1>0 DEF RecordRead, TabFollows, DeedsFollow, Changes, deeds
<1>2. Onward(t, "idle", NoJob)
  BY <1>0 DEF RecordRead, Onward, Idle, Shape, pages, deeds
<1> QED BY <1>1, <1>2, IdleFollows

-----------------------------------------------------------------------------
(* The theorems.                                                           *)

LEMMA SessStart == Init => SessInv
<1> SUFFICES ASSUME Init  PROVE SessInv
  OBVIOUS
<1> USE TabsAssumption
<1>1. Shape /\ StoreIsLast
  BY DEF Init, Shape, StoreIsLast
<1>2. ASSUME NEW t \in Tabs  PROVE TabFollows(t)
  <2>1. /\ page[t] = "login" /\ sess[t] = None /\ pc[t] = "idle" /\ job[t] = NoJob
        /\ t \notin changed /\ t \notin broken
    BY DEF Init
  <2> QED BY <2>1 DEF TabFollows, JobFits, IsJob, NoJob, GateFollows, PageFollows, HandsFollow,
           DeedsFollow, AtGate, ForLogin, Working
<1> QED BY <1>1, <1>2 DEF SessInv

LEMMA SessStep == SessInv /\ [Next]_vars => SessInv'
<1> SUFFICES ASSUME SessInv, [Next]_vars  PROVE SessInv'
  OBVIOUS
<1>1. ASSUME NEW t \in Tabs, Handle(t)  PROVE SessInv'
  BY <1>1, VisitFollows, FollowFollows, RefreshFollows, RequireAuthFollows, TryLoginFollows,
     AuthenticateFollows, RecordLoginFollows, PressLogoutFollows, RecordLogoutFollows,
     CreateAccountFollows, SavePermsFollows, ConfirmRemoveFollows, DoChangeFollows, CheckFollows,
     CommitFollows, RevokeFollows, RecordChangeFollows, RefreshListFollows, RenderListFollows,
     RecordReadFollows DEF Handle
<1>2. CASE UNCHANGED vars
  <2>1. UNCHANGED <<store, page, sess, listed, pc, job, last, late, overtaken, moved, cleared,
                    changed, broken>>
    BY <1>2 DEF vars, pages, handler, logins, deeds
  <2>2. Shape' /\ StoreIsLast'
    BY <2>1 DEF SessInv, Shape, StoreIsLast
  <2>3. ASSUME NEW t \in Tabs  PROVE TabFollows(t)'
    <3>1. TabFollows(t)
      BY DEF SessInv
    <3>2. JobFits(t)' /\ GateFollows(t)' /\ HandsFollow(t)'
      BY <3>1, <2>1 DEF TabFollows, JobFits, IsJob, AtGate, ForLogin, GateFollows, HandsFollow,
         ChangedHands, Pages, Keys, AllowListed
    <3>3. PageFollows(t)' /\ DeedsFollow(t)'
      BY <3>1, <2>1 DEF TabFollows, PageFollows, DeedsFollow, AtGate, ForLogin, Working,
         Allowed, AllowListed, Changes
    <3> QED BY <3>2, <3>3 DEF TabFollows
  <2> QED BY <2>2, <2>3 DEF SessInv
<1> QED BY <1>1, <1>2 DEF Next

LEMMA SessInvAlways == Spec => []SessInv
BY SessStart, SessStep, PTL DEF Spec

\* In every number of browsers and tabs the storage names whoever logged in
\* last and has not logged out, except behind a gate that was late.
THEOREM StorageFollowsHolds == Spec => []StorageFollowsLogins
<1>1. SessInv => StorageFollowsLogins
  BY DEF SessInv, StoreIsLast, StorageFollowsLogins
<1> QED BY <1>1, SessInvAlways, PTL

\* No page is shown that the database did not allow while it was loading.
THEOREM ShownWasAllowedHolds == Spec => []ShownWasAllowed
<1>1. SessInv => ShownWasAllowed
  BY DEF SessInv, TabFollows, PageFollows, ShownWasAllowed
<1> QED BY <1>1, SessInvAlways, PTL

\* A handler moves its own tab only.
LEMMA HandleMovesOne ==
  ASSUME SessInv, NEW u \in Tabs, Handle(u), NEW t \in Tabs \ {u}
  PROVE  pc'[t] = pc[t]
<1>1. \A l : pc' = [pc EXCEPT ![u] = l] => pc'[t] = pc[t]
  BY DEF SessInv, Shape
<1>2. \E l : pc' = [pc EXCEPT ![u] = l]
  <2>1. \A l, j : Goto(u, l, j) => pc' = [pc EXCEPT ![u] = l]
    BY DEF Goto
  <2>2. Idle(u) => \E l : pc' = [pc EXCEPT ![u] = l]
    BY <2>1 DEF Idle
  <2>3. \A p, a : Show(u, p, a) => \E l : pc' = [pc EXCEPT ![u] = l]
    BY <2>1 DEF Show
  <2>4. \A l, p, a : Await(u, l, p, a) => pc' = [pc EXCEPT ![u] = l]
    BY <2>1 DEF Await
  <2>5. Visit(u) \/ Follow(u) \/ RefreshSession(u) \/ RequireAuth(u) =>
          \E l : pc' = [pc EXCEPT ![u] = l]
    BY <2>1, <2>3, <2>4 DEF Visit, Follow, Enter, RefreshSession, RequireAuth, Expel, Admit, Redirect
  <2>6. \A p, l, j : Press(u, p, l, j) => pc' = [pc EXCEPT ![u] = l]
    BY <2>1 DEF Press
  <2>7. TryLogin(u) \/ PressLogout(u) \/ CreateAccount(u) \/ SavePerms(u) \/ ConfirmRemove(u)
          \/ DoChange(u) => \E l : pc' = [pc EXCEPT ![u] = l]
    BY <2>6 DEF TryLogin, PressLogout, CreateAccount, SavePerms, ConfirmRemove, DoChange
  <2>8. Authenticate(u) \/ RecordLogin(u) \/ RecordLogout(u) \/ Check(u) =>
          \E l : pc' = [pc EXCEPT ![u] = l]
    BY <2>1, <2>2, <2>3, <2>4 DEF Authenticate, RecordLogin, EndLogin, RecordLogout, Expel, Redirect,
       Check, Refuse
  <2>9. Commit(u) \/ Revoke(u) \/ RecordChange(u) => \E l : pc' = [pc EXCEPT ![u] = l]
    BY <2>1, <2>2, <2>3 DEF Commit, Revoke, RecordChange, Expel, Agree, Refuse
  <2>10. RefreshList(u) \/ RenderList(u) \/ RecordRead(u) => \E l : pc' = [pc EXCEPT ![u] = l]
    BY <2>1, <2>2 DEF RefreshList, RenderList, RecordRead
  <2> QED BY <2>5, <2>7, <2>8, <2>9, <2>10 DEF Handle
<1> QED BY <1>1, <1>2

\* What one handler writes of itself.
LEMMA EntryTold ==
  ASSUME SessInv, NEW t \in Tabs, Handle(t), pc[t] = "log", pc'[t] # "log"
  PROVE  /\ job[t].do \in Changes => /\ (job[t].res = "SUCCESS") = (t \in changed \ broken)
                                     /\ t \notin changed'
         /\ entry' # None => entry'.actor = Doer(t) \/ (job[t].do # "login" /\ ChangedHands(t))
<1> USE TabsAssumption
<1>1. TabFollows(t) /\ StoreIsLast
  BY DEF SessInv
<1>2. RecordLogin(t) \/ RecordLogout(t) \/ RecordChange(t) \/ RecordRead(t)
  BY DEF Handle, Visit, Follow, RefreshSession, RequireAuth, TryLogin, Press, Authenticate,
     PressLogout, CreateAccount, SavePerms, ConfirmRemove, DoChange, Check, Commit, Revoke,
     RefreshList, RenderList
<1>3. job[t].do \in Changes => /\ (job[t].res = "SUCCESS") = (t \in changed \ broken)
                               /\ t \notin changed'
  <2>1. job[t].do \in Changes => (job[t].res = "SUCCESS" <=> t \in changed \ broken)
    BY <1>1 DEF TabFollows, DeedsFollow
  <2>2. job[t].do \in Changes => t \notin changed'
    BY <1>2 DEF RecordLogin, RecordLogout, RecordRead, RecordChange, Record, Changes
  <2> QED BY <2>1, <2>2
<1>4. ASSUME NEW a, NEW r, Log(a, r), entry' # None  PROVE entry'.actor = a
  BY <1>4 DEF Log
<1>5. CASE RecordLogin(t)
  BY <1>3, <1>4, <1>5 DEF RecordLogin, LoginActor, Doer
<1>6. CASE RecordLogout(t)
  <2>1. job[t].tgt = sess[t] \/ ChangedHands(t)
    BY <1>1, <1>6 DEF RecordLogout, TabFollows, PageFollows, HandsFollow, Working, ForLogin
  <2> QED BY <1>3, <1>4, <1>6, <2>1 DEF RecordLogout, Doer
<1>7. CASE RecordChange(t) \/ RecordRead(t)
  <2>1. job[t].do # "login"
    BY <1>7 DEF RecordChange, RecordRead, Changes
  <2>2. store[BrowserOf[t]] = sess[t] \/ ChangedHands(t)
    BY <1>1, <2>1 DEF TabFollows, PageFollows, HandsFollow, StoreIsLast, ChangedHands, Working,
       ForLogin
  <2>3. entry' # None => entry'.actor = store[BrowserOf[t]]
    BY <1>4, <1>7 DEF RecordChange, Record, RecordRead
  <2> QED BY <1>3, <2>1, <2>2, <2>3 DEF Doer
<1> QED BY <1>2, <1>3, <1>5, <1>6, <1>7

\* Every entry of the audit log tells how the action ended, and names who acted
\* unless the browser changed hands since the page was loaded, for every
\* interleaving of the handlers of a browser's tabs.
THEOREM EntriesAreTrue == Spec => EntriesTellTheTruth
<1> DEFINE Told(t) ==
      pc[t] = "log" /\ pc'[t] # "log" =>
        /\ job[t].do \in Changes => /\ (job[t].res = "SUCCESS") = (t \in changed \ broken)
                                    /\ t \notin changed'
        /\ entry' # None =>
             entry'.actor = Doer(t) \/ (job[t].do # "login" /\ ChangedHands(t))
<1>1. SessInv /\ [Next]_vars => [\A t \in Tabs : Told(t)]_vars
  <2> SUFFICES ASSUME SessInv, Next, NEW t \in Tabs  PROVE Told(t)
    OBVIOUS
  <2>1. PICK u \in Tabs : Handle(u)
    BY DEF Next
  <2>2. CASE u = t
    BY <2>1, <2>2, EntryTold
  <2>3. CASE u # t
    <3>1. pc'[t] = pc[t]
      BY <2>1, <2>3, HandleMovesOne
    <3> QED BY <3>1
  <2> QED BY <2>2, <2>3
<1> QED BY <1>1, SessInvAlways, PTL DEF Spec, EntriesTellTheTruth

-----------------------------------------------------------------------------
(* The audit log and its viewer. *)

ClickSteps == {"idle", "count", "select", "render", "done", "failed"}

\* A handler's record has the fields of NoClick, and counts rows.
ClickTyped(r) ==
    /\ r = [step |-> r.step, page |-> r.page, filter |-> r.filter, total |-> r.total, rows |-> r.rows]
    /\ r.step \in ClickSteps /\ r.page \in Nat /\ r.total \in Nat

TypeInv ==
    /\ AuditTypeOK
    /\ IsFiniteSet(log)
    /\ \A k \in Clicks : ClickTyped(click[k])

\* The clock only moves forward under a cleanup that is waiting.
CutoffBehind == cutoff # Blank => cutoff \in Nat /\ cutoff + Retention <= today

\* Without an overlap the one handler that is under way reads the page whose
\* number the pagination will show.
LoneHandler ==
    ~mixed => /\ \A k, j \in InFlight : k = j
              /\ \A k \in InFlight : click[k].page = pageNo

LogInv == TypeInv /\ CutoffBehind /\ EntriesMatchAnswers /\ LoneHandler /\ RowsMatchLabel

-----------------------------------------------------------------------------
\* What Handler makes is such a record.
LEMMA HandlerTyped ==
    ASSUME NEW step \in ClickSteps, NEW p \in Nat, NEW f, NEW n \in Nat, NEW drawn
    PROVE  /\ ClickTyped(Handler(step, p, f, n, drawn))
           /\ Handler(step, p, f, n, drawn).step = step
           /\ Handler(step, p, f, n, drawn).page = p
BY DEF ClickTyped, Handler

\* The first state.
LEMMA LogInitInv == ASSUME AuditAssumption PROVE LogInit => LogInv
<1> SUFFICES ASSUME AuditAssumption, LogInit PROVE LogInv
    OBVIOUS
<1>1. AuditTypeOK
    <2>1. NoFilter \in AuditLogFilter
        BY DEF NoFilter, AuditLogFilter
    <2>2. 0 \in 0 .. MaxDay
        BY DEF AuditAssumption
    <2>3. NoClick.step = "idle"
        BY DEF NoClick, Handler
    <2>4. \A k \in Clicks : click[k].step = "idle"
        BY <2>3 DEF LogInit
    <2>5. call \in [Calls -> CallStates]
        BY DEF LogInit, NewCall, CallStates
    <2>6. DOMAIN click = Clicks /\ log \subseteq Entries /\ mixed \in BOOLEAN
        BY DEF LogInit
    <2>7. today \in 0 .. MaxDay /\ cutoff \in 0 .. MaxDay \union {Blank} /\ inputs \in AuditLogFilter
        BY <2>1, <2>2 DEF LogInit
    <2>8. pageNo \in Nat \ {0} /\ total \in Nat
        BY DEF LogInit
    <2> QED BY <2>4, <2>5, <2>6, <2>7, <2>8 DEF AuditTypeOK
<1>2. IsFiniteSet(log)
    BY FS_EmptySet DEF LogInit
<1>3. \A k \in Clicks : ClickTyped(click[k])
    BY HandlerTyped DEF LogInit, NoClick, ClickSteps
<1>4. InFlight = {}
    BY DEF LogInit, InFlight, NoClick, Handler
<1> QED BY <1>1, <1>2, <1>3, <1>4
        DEF LogInv, TypeInv, LogInit, CutoffBehind, EntriesMatchAnswers, LoneHandler, RowsMatchLabel

\* What a filter lets through is counted by a number.
LEMMA CountIsNat ==
    ASSUME IsFiniteSet(log), NEW f
    PROVE  Cardinality(ApplyFilter(f)) \in Nat
BY FS_Subset, FS_CardinalityType DEF ApplyFilter

\* Where a step of the decorator leaves a call.
LEMMA CallMoves ==
    ASSUME LogInv, NEW c \in Calls, NEW step, NEW result,
           [step |-> step, result |-> result] \in CallStates, CallGoes(c, step, result)
    PROVE  /\ call' \in [Calls -> CallStates]
           /\ call'[c].step = step /\ call'[c].result = result
           /\ \A d \in Calls : d # c => call'[d] = call[d]
<1>1. call \in [Calls -> CallStates]
    BY DEF LogInv, TypeInv, AuditTypeOK
<1> QED BY <1>1 DEF CallGoes

\* Every entry there is belongs to a call that is past its commit.
LEMMA CommittedBefore ==
    ASSUME LogInv, NEW e \in log
    PROVE  /\ e.call \in Calls /\ e.result \in Results
           /\ call[e.call].step \in {"closing", "answered", "cancelled"}
           /\ call[e.call].result = e.result
BY DEF LogInv, TypeInv, AuditTypeOK, Entries, EntriesMatchAnswers

\* The steps of the decorator keep the invariant.
LEMMA CallsKeepInv ==
    ASSUME AuditAssumption, LogInv, NEW c \in Calls,
           CallWrite(c) \/ WriteEnds(c) \/ LogEntry(c) \/ Answer(c) \/ Cancelled(c)
    PROVE  LogInv'
<1>1. UNCHANGED <<today, cutoff, viewVars>>
    BY DEF CallWrite, WriteEnds, Cancelled, Answer, LogEntry
<1>2. CutoffBehind' /\ LoneHandler' /\ RowsMatchLabel' /\ (\A k \in Clicks : ClickTyped(click[k]))'
    BY <1>1 DEF LogInv, TypeInv, viewVars, CutoffBehind, LoneHandler, RowsMatchLabel, InFlight
<1>3. ASSUME call' \in [Calls -> CallStates], log' \subseteq Entries, IsFiniteSet(log'),
             EntriesMatchAnswers'
      PROVE  LogInv'
    <2>1. AuditTypeOK'
        BY <1>1, <1>3 DEF LogInv, TypeInv, AuditTypeOK, viewVars
    <2> QED BY <1>2, <1>3, <2>1 DEF LogInv, TypeInv
<1>4. IsFiniteSet(log) /\ log \subseteq Entries /\ call[c] \in CallStates
    BY DEF LogInv, TypeInv, AuditTypeOK
<1>5. CASE CallWrite(c) \/ WriteEnds(c)
    <2>1. UNCHANGED log /\ call[c].step \in {"idle", "running"}
        BY <1>5 DEF CallWrite, WriteEnds
    <2>2. PICK step, result :
            [step |-> step, result |-> result] \in CallStates /\ CallGoes(c, step, result)
        BY <1>5 DEF CallWrite, WriteEnds, CallStates
    <2>3. \A e \in log : e.call # c
        BY <2>1, CommittedBefore
    <2>4. EntriesMatchAnswers'
        BY <2>1, <2>2, <2>3, CallMoves, CommittedBefore DEF EntriesMatchAnswers, LogInv
    <2> QED BY <1>3, <1>4, <2>1, <2>2, <2>4, CallMoves
<1>6. CASE Answer(c) \/ Cancelled(c)
    <2>1. UNCHANGED log
        BY <1>6 DEF Answer, Cancelled
    <2>2. PICK step \in {"answered", "cancelled"} :
            [step |-> step, result |-> call[c].result] \in CallStates /\ CallGoes(c, step, call[c].result)
        BY <1>4, <1>6 DEF Answer, Cancelled, CallStates
    <2>3. /\ call' \in [Calls -> CallStates]
          /\ call'[c].step \in {"answered", "cancelled"} /\ call'[c].result = call[c].result
          /\ \A d \in Calls : d # c => call'[d] = call[d]
        BY <2>2, CallMoves
    <2>4. EntriesMatchAnswers'
        BY <2>1, <2>3, CommittedBefore DEF EntriesMatchAnswers, LogInv
    <2> QED BY <1>3, <1>4, <2>1, <2>3, <2>4
<1>7. CASE LogEntry(c)
    <2> DEFINE e == [call |-> c, at |-> today, result |-> call[c].result]
    <2>1. call[c].step = "logging" /\ CallGoes(c, "closing", call[c].result)
          /\ (log' = log \/ log' = log \union {e})
        BY <1>7 DEF LogEntry
    <2>2. call[c].result \in Results
        BY <1>4, <2>1 DEF CallStates
    <2>3. /\ call' \in [Calls -> CallStates]
          /\ call'[c].step = "closing" /\ call'[c].result = call[c].result
          /\ \A d \in Calls : d # c => call'[d] = call[d]
        BY <2>1, <2>2, CallMoves DEF CallStates
    <2>4. e \in Entries
        BY <2>2 DEF Entries, LogInv, TypeInv, AuditTypeOK
    <2>5. \A d \in log : d.call # c
        BY <2>1, CommittedBefore
    <2>6. ASSUME NEW d \in log'
          PROVE  /\ call'[d.call].step \in {"closing", "answered", "cancelled"}
                 /\ call'[d.call].result = d.result
                 /\ \A f \in log' : f.call = d.call => f = d
        <3>1. CASE d \in log
            BY <2>1, <2>3, <2>5, <3>1, CommittedBefore DEF EntriesMatchAnswers, LogInv
        <3>2. CASE d = e /\ d \notin log
            BY <2>1, <2>3, <2>5, <3>2
        <3> QED BY <2>1, <3>1, <3>2
    <2>7. EntriesMatchAnswers'
        BY <2>6 DEF EntriesMatchAnswers
    <2>8. IsFiniteSet(log')
        BY <1>4, <2>1, FS_AddElement
    <2> QED BY <1>3, <1>4, <2>1, <2>3, <2>4, <2>7, <2>8
<1> QED BY <1>5, <1>6, <1>7

\* So do the clock and the cleanup.
LEMMA CleanupKeepsInv ==
    ASSUME AuditAssumption, LogInv, NextDay \/ StartCleanup \/ DeleteOlderThan \/ CleanupFails
    PROVE  LogInv'
<1> USE DEF LogInv, TypeInv
<1>1. UNCHANGED <<call, viewVars>> /\ log' \subseteq log
    BY DEF NextDay, StartCleanup, DeleteOlderThan, CleanupFails, callVars
<1>2. LoneHandler' /\ RowsMatchLabel' /\ (\A k \in Clicks : ClickTyped(click[k]))'
    BY <1>1 DEF viewVars, LoneHandler, RowsMatchLabel, InFlight
<1>3. EntriesMatchAnswers' /\ IsFiniteSet(log')
    BY <1>1, FS_Subset DEF EntriesMatchAnswers
<1>4. AuditTypeOK' /\ CutoffBehind'
    <2>1. CASE NextDay
        BY <1>1, <2>1 DEF NextDay, AuditTypeOK, CutoffBehind, viewVars, AuditAssumption
    <2>2. CASE StartCleanup
        BY <1>1, <2>2 DEF StartCleanup, AuditTypeOK, CutoffBehind, viewVars, AuditAssumption
    <2>3. CASE DeleteOlderThan \/ CleanupFails
        BY <1>1, <2>3 DEF DeleteOlderThan, CleanupFails, AuditTypeOK, CutoffBehind, viewVars
    <2> QED BY <2>1, <2>2, <2>3
<1> QED BY <1>2, <1>3, <1>4

-----------------------------------------------------------------------------
\* What a step of the page leaves alone.
LEMMA PageFrame ==
    ASSUME LogInv, UNCHANGED <<today, cutoff, callVars>>
    PROVE  CutoffBehind' /\ EntriesMatchAnswers' /\ IsFiniteSet(log')
BY DEF LogInv, TypeInv, callVars, CutoffBehind, EntriesMatchAnswers

\* A click starts a handler: either it is alone, or the history notices.
LEMMA RefreshKeepsInv ==
    ASSUME AuditAssumption, LogInv, NEW k \in Clicks, NEW p \in Nat \ {0}, Refresh(k, p)
    PROVE  LogInv'
<1> USE DEF LogInv, TypeInv
<1> DEFINE started == Handler(IF Configured THEN "count" ELSE "failed", p, inputs, 0, <<>>)
<1>1. click' = [click EXCEPT ![k] = started] /\ pageNo' = p
        /\ mixed' = (InFlight # {} \/ ~Configured)
        /\ UNCHANGED <<today, cutoff, callVars, inputs, total, shown>>
    BY DEF Refresh
<1>2. ClickTyped(started) /\ (Configured => started.page = p)
        /\ started.step \in {"count", "failed"} /\ (started.step = "count" <=> Configured)
    BY HandlerTyped DEF ClickSteps
<1>3. \A j \in Clicks : click'[j] = IF j = k THEN started ELSE click[j]
    BY <1>1 DEF AuditTypeOK
<1>4. (\A j \in Clicks : ClickTyped(click[j]))'
    BY <1>2, <1>3
<1>5. AuditTypeOK'
    BY <1>1, <1>2, <1>3 DEF AuditTypeOK, callVars, AuditAssumption
<1>6. ASSUME ~mixed' PROVE InFlight' = {k} /\ click'[k].page = pageNo'
    BY <1>1, <1>2, <1>3, <1>6 DEF InFlight
<1>7. LoneHandler' /\ RowsMatchLabel'
    BY <1>6 DEF LoneHandler, RowsMatchLabel
<1> QED BY <1>1, <1>4, <1>5, <1>7, PageFrame

\* The steps of a handler after its click.
LEMMA HandlerKeepsInv ==
    ASSUME AuditAssumption, LogInv, NEW k \in Clicks,
           CountRows(k) \/ SelectRows(k) \/ ShowRows(k) \/ RefreshFails(k)
    PROVE  LogInv'
<1> USE DEF LogInv, TypeInv
<1>1. UNCHANGED <<today, cutoff, callVars, inputs, pageNo>>
    BY DEF CountRows, SelectRows, ShowRows, RefreshFails
<1>2. ClickTyped(click[k]) /\ click[k].step \in ClickSteps
    BY DEF ClickTyped
<1>3. ASSUME CountRows(k) \/ SelectRows(k) PROVE LogInv'
    <2>1. PICK r : /\ click' = [click EXCEPT ![k] = r]
                   /\ ClickTyped(r) /\ r.step \in {"select", "render"} /\ r.page = click[k].page
        <3>1. CASE CountRows(k)
            <4> DEFINE n == Cardinality(ApplyFilter(click[k].filter))
                       r == Handler("select", click[k].page, click[k].filter, n, <<>>)
            <4>1. n \in Nat
                BY CountIsNat
            <4>2. ClickTyped(r) /\ r.step = "select" /\ r.page = click[k].page
                BY <1>2, <4>1, HandlerTyped DEF ClickTyped, ClickSteps
            <4> QED BY <3>1, <4>2 DEF CountRows, Goes
        <3>2. CASE SelectRows(k)
            <4>1. PICK drawn : Goes(k, "render", click[k].total, drawn)
                BY <3>2 DEF SelectRows
            <4> DEFINE r == Handler("render", click[k].page, click[k].filter, click[k].total, drawn)
            <4>2. ClickTyped(r) /\ r.step = "render" /\ r.page = click[k].page
                BY <1>2, HandlerTyped DEF ClickTyped, ClickSteps
            <4> QED BY <4>1, <4>2 DEF Goes
        <3> QED BY <1>3, <3>1, <3>2
    <2>2. UNCHANGED <<total, shown, mixed>> /\ click[k].step \in {"count", "select"}
        BY <1>3 DEF CountRows, SelectRows
    <2>3. \A j \in Clicks : click'[j] = IF j = k THEN r ELSE click[j]
        BY <2>1 DEF AuditTypeOK
    <2>4. InFlight' = InFlight
        BY <2>1, <2>2, <2>3 DEF InFlight
    <2>5. AuditTypeOK' /\ (\A j \in Clicks : ClickTyped(click[j]))'
        BY <1>1, <2>1, <2>2, <2>3 DEF AuditTypeOK, callVars
    <2>6. LoneHandler' /\ RowsMatchLabel'
        BY <1>1, <2>1, <2>2, <2>3, <2>4 DEF LoneHandler, RowsMatchLabel, InFlight
    <2> QED BY <1>1, <2>5, <2>6, PageFrame
<1>4. ASSUME ShowRows(k) PROVE LogInv'
    <2> DEFINE r == Handler("done", click[k].page, click[k].filter, click[k].total, click[k].rows)
    <2>1. click' = [click EXCEPT ![k] = r] /\ click[k].step = "render" /\ mixed' = mixed
            /\ total' = click[k].total
        BY <1>4 DEF ShowRows, Goes
    <2>2. shown'.page = click[k].page /\ shown'.label = pageNo /\ shown'.total = total'
        BY <1>4 DEF ShowRows
    <2>3. ClickTyped(r) /\ r.step = "done"
        BY <1>2, HandlerTyped DEF ClickTyped, ClickSteps
    <2>4. \A j \in Clicks : click'[j] = IF j = k THEN r ELSE click[j]
        BY <2>1 DEF AuditTypeOK
    <2>5. InFlight' = InFlight \ {k} /\ k \in InFlight
        BY <2>1, <2>3, <2>4 DEF InFlight
    <2>6. AuditTypeOK' /\ (\A j \in Clicks : ClickTyped(click[j]))'
        BY <1>1, <1>2, <2>1, <2>3, <2>4 DEF AuditTypeOK, callVars, ClickTyped
    <2>7. LoneHandler'
        BY <1>1, <2>1, <2>4, <2>5 DEF LoneHandler
    <2>8. RowsMatchLabel'
        BY <1>1, <2>1, <2>2, <2>5 DEF RowsMatchLabel, LoneHandler
    <2> QED BY <1>1, <2>6, <2>7, <2>8, PageFrame
<1>5. ASSUME RefreshFails(k) PROVE LogInv'
    <2> DEFINE r == Handler("failed", click[k].page, click[k].filter, click[k].total, click[k].rows)
    <2>1. click' = [click EXCEPT ![k] = r] /\ mixed' = TRUE /\ UNCHANGED <<total, shown>>
        BY <1>5 DEF RefreshFails, Goes
    <2>2. ClickTyped(r) /\ r.step = "failed"
        BY <1>2, HandlerTyped DEF ClickTyped, ClickSteps
    <2>3. \A j \in Clicks : click'[j] = IF j = k THEN r ELSE click[j]
        BY <2>1 DEF AuditTypeOK
    <2>4. AuditTypeOK' /\ (\A j \in Clicks : ClickTyped(click[j]))'
        BY <1>1, <2>1, <2>2, <2>3 DEF AuditTypeOK, callVars
    <2> QED BY <1>1, <2>1, <2>4, PageFrame DEF LoneHandler, RowsMatchLabel
<1> QED BY <1>3, <1>4, <1>5

LEMMA NextKeepsInv == ASSUME AuditAssumption, LogInv, [LogNext]_logVars PROVE LogInv'
<1>1. CASE \E c \in Calls : CallWrite(c) \/ WriteEnds(c) \/ LogEntry(c) \/ Answer(c) \/ Cancelled(c)
    BY <1>1, CallsKeepInv
<1>2. CASE NextDay \/ StartCleanup \/ DeleteOlderThan \/ CleanupFails
    BY <1>2, CleanupKeepsInv
<1>3. CASE EditFilter \/ ShowDetail
    <2>1. UNCHANGED <<today, cutoff, callVars, pageNo, total, click, shown, mixed>> /\ inputs' \in AuditLogFilter
        BY <1>3 DEF EditFilter, ShowDetail, LogInv, TypeInv, AuditTypeOK
    <2>2. AuditTypeOK' /\ (\A k \in Clicks : ClickTyped(click[k]))' /\ LoneHandler' /\ RowsMatchLabel'
        BY <2>1 DEF LogInv, TypeInv, AuditTypeOK, callVars, LoneHandler, RowsMatchLabel, InFlight
    <2> QED BY <2>1, <2>2, PageFrame DEF LogInv, TypeInv
<1>4. ASSUME NEW k \in Clicks, Apply(k) \/ GoPrev(k) \/ GoNext(k) PROVE LogInv'
    <2>1. pageNo \in Nat \ {0}
        BY DEF LogInv, TypeInv, AuditTypeOK
    <2>2. PICK p \in Nat \ {0} : Refresh(k, p)
        <3>1. CASE Apply(k)
            BY <3>1 DEF Apply
        <3>2. CASE GoPrev(k)
            <4>1. pageNo - 1 \in Nat \ {0}
                BY <2>1, <3>2 DEF GoPrev
            <4> QED BY <3>2, <4>1 DEF GoPrev
        <3>3. CASE GoNext(k)
            <4>1. pageNo + 1 \in Nat \ {0}
                BY <2>1
            <4> QED BY <3>3, <4>1 DEF GoNext
        <3> QED BY <1>4, <3>1, <3>2, <3>3
    <2> QED BY <2>2, RefreshKeepsInv
<1>5. ASSUME NEW k \in Clicks, CountRows(k) \/ SelectRows(k) \/ ShowRows(k) \/ RefreshFails(k) PROVE LogInv'
    BY <1>5, HandlerKeepsInv
<1>6. CASE UNCHANGED logVars
    <2>1. AuditTypeOK' /\ (\A k \in Clicks : ClickTyped(click[k]))' /\ LoneHandler' /\ RowsMatchLabel'
        BY <1>6 DEF logVars, viewVars, callVars, LogInv, TypeInv, AuditTypeOK, LoneHandler, RowsMatchLabel, InFlight
    <2>2. UNCHANGED <<today, cutoff, callVars>>
        BY <1>6 DEF logVars
    <2> QED BY <2>1, <2>2, PageFrame DEF LogInv, TypeInv
<1> QED BY <1>1, <1>2, <1>3, <1>4, <1>5, <1>6 DEF LogNext

LEMMA LogInvHolds == ASSUME AuditAssumption PROVE LogSpec => []LogInv
<1>1. LogInit => LogInv
    BY LogInitInv
<1>2. LogInv /\ [LogNext]_logVars => LogInv'
    BY NextKeepsInv
<1> QED BY <1>1, <1>2, PTL DEF LogSpec

-----------------------------------------------------------------------------
\* The variables keep their types.
THEOREM TypeCorrect == ASSUME AuditAssumption PROVE LogSpec => []AuditTypeOK
<1>1. LogInv => AuditTypeOK
    BY DEF LogInv, TypeInv
<1> QED BY <1>1, LogInvHolds, PTL

\* audit_action: an entry says of a call how its write ended, and so what the
\* call answers if it answers; no call has two entries.  A call that was
\* cancelled has one only if its write had ended.
THEOREM AnswersAreLogged == ASSUME AuditAssumption PROVE LogSpec => []EntriesMatchAnswers
<1>1. LogInv => EntriesMatchAnswers
    BY DEF LogInv
<1> QED BY <1>1, LogInvHolds, PTL

\* The page: at rest, without an overlap or a failure, the page number that was
\* read for is the one the label and the handlers have.
THEOREM LabelIsTrue == ASSUME AuditAssumption PROVE LogSpec => []RowsMatchLabel
<1>1. LogInv => RowsMatchLabel
    BY DEF LogInv
<1> QED BY <1>1, LogInvHolds, PTL

\* audit_cleanup_task: whatever the clock does between the cutoff and the
\* DELETE, an entry within the retention stays.
THEOREM RetentionKept == ASSUME AuditAssumption PROVE LogSpec => OnlyOldEntriesGo
<1>1. ASSUME LogInv, [LogNext]_logVars, NEW e \in log \ log' PROVE e.at + Retention < today
    <2>1. DeleteOlderThan
        BY <1>1 DEF LogNext, logVars, viewVars, callVars, CallWrite, WriteEnds, Cancelled, Answer, LogEntry, NextDay,
               StartCleanup, CleanupFails, EditFilter, ShowDetail, Apply, GoPrev, GoNext, Refresh, CountRows,
               SelectRows, ShowRows, RefreshFails
    <2>2. cutoff \in Nat /\ cutoff + Retention <= today /\ e.at < cutoff
        BY <1>1, <2>1 DEF DeleteOlderThan, Expired, LogInv, CutoffBehind
    <2>3. e.at \in Nat /\ today \in Nat /\ Retention \in Nat
        BY <1>1 DEF LogInv, TypeInv, AuditTypeOK, Entries, AuditAssumption
    <2> QED BY <2>2, <2>3
<1>2. LogInv /\ [LogNext]_logVars => [\A e \in log \ log' : e.at + Retention < today]_logVars
    BY <1>1
<1> QED BY <1>2, LogInvHolds, PTL DEF LogSpec, OnlyOldEntriesGo

-----------------------------------------------------------------------------
(* The landing page. *)

ProbeSteps == {"closed", "service", "overall", "ok", "done"}

\* What the collection knows of the calls is behind the table.
Metering ==
    /\ ok \in Nat /\ failed \in Nat /\ records \in [Domains -> Nat]
    /\ overall.ok \in Nat /\ overall.all \in Nat
    /\ overall.ok <= ok /\ overall.all <= overall.ok + failed
    /\ usage.calls \in Nat /\ usage.failures \in Nat

ProbeTyped == probe = [step |-> probe.step, at |-> probe.at] /\ probe.step \in ProbeSteps /\ probe.at \in Nat

\* A domain is read only if it is visible, and counted only if it can be.
Reading ==
    /\ visible \subseteq granted \intersect Domains
    /\ DOMAIN count = Domains /\ DOMAIN growth = Domains
    /\ \A d \in Domains : d \notin visible => count[d] = Waiting /\ growth[d] = Waiting
    /\ \A d \in Domains : count[d].n \in Nat /\ (count[d].n > 0 => d \in Counted)
    /\ \A d \in Domains : growth[d].n \in Nat
    /\ probe.step = "closed" => ~usage.available /\ \A d \in Domains : count[d] = Waiting /\ growth[d] = Waiting
    /\ probe.step \in {"overall", "ok"} \/ usage.available => granted \intersect Metered # {}

\* The page shows what was read.
Viewing ==
    /\ view = NoView \/ probe.step # "closed"
    /\ \A card \in view.cards : card[1] \in granted /\ (card[2].n > 0 => card[1] \in Counted)
    /\ \A d \in view.trend : d \in granted /\ d \notin view.missing

DashInv == ProbeTyped /\ Metering /\ Reading /\ Viewing /\ FailuresAreReal

LEMMA DashInitInv == ASSUME DashboardAssumption, DashInit PROVE DashInv
<1>1. ProbeTyped
    BY DEF DashInit, ProbeTyped, ProbeSteps
<1>2. Metering
    BY DEF DashInit, Metering, NoUsage, DashboardAssumption
<1>3. Reading
    BY DEF DashInit, Reading, Waiting, NoUsage
<1>4. Viewing
    BY DEF DashInit, Viewing, NoView
<1>5. FailuresAreReal
    BY DEF DashInit, FailuresAreReal, NoUsage
<1> QED BY <1>1, <1>2, <1>3, <1>4, <1>5 DEF DashInv

\* What customers do reaches no number that was read before.
LEMMA WorldStep == ASSUME DashboardAssumption, DashInv, (\E d, n : WriteRow(d, n)) \/ RecordCall \/ UNCHANGED dashVars
                   PROVE DashInv'
<1>1. /\ UNCHANGED <<opened, count, growth, probe, overall, usage, view>>
      /\ ok' \in Nat /\ failed' \in Nat /\ ok <= ok' /\ failed <= failed' /\ records' \in [Domains -> Nat]
    <2>1. ok \in Nat /\ failed \in Nat /\ records \in [Domains -> Nat]
        BY DEF DashInv, Metering
    <2>2. CASE UNCHANGED dashVars
        BY <2>1, <2>2 DEF dashVars, world
    <2>3. CASE RecordCall
        BY <2>1, <2>3 DEF RecordCall
    <2>4. CASE \E d, n : WriteRow(d, n)
        <3>1. PICK d, n : WriteRow(d, n)
            BY <2>4
        <3>2. UNCHANGED <<ok, failed, opened, count, growth, probe, overall, usage, view>>
            BY <3>1 DEF WriteRow
        <3>3. n \in Nat /\ records' = [records EXCEPT ![d] = n]
            BY <3>1 DEF WriteRow, DashboardAssumption
        <3>4. records' \in [Domains -> Nat]
            BY <2>1, <3>3
        <3> QED BY <2>1, <3>2, <3>4
    <2> QED BY <2>2, <2>3, <2>4
<1>2. Metering'
    BY <1>1 DEF DashInv, Metering
<1>3. FailuresAreReal'
    BY <1>1 DEF DashInv, Metering, FailuresAreReal
<1>4. ProbeTyped' /\ Reading' /\ Viewing'
    BY <1>1 DEF DashInv, ProbeTyped, Reading, Viewing, opened
<1> QED BY <1>2, <1>3, <1>4 DEF DashInv

LEMMA OpenStep == ASSUME DashInv, NEW permissions, OpenPage(permissions) PROVE DashInv'
<1>1. /\ probe.step = "closed" /\ probe' = [step |-> "service", at |-> 1]
      /\ granted' = permissions /\ visible' = Domains \intersect permissions
      /\ UNCHANGED <<world, count, growth, overall, usage, view>>
    BY DEF OpenPage
<1>2. view = NoView /\ ~usage.available
    BY <1>1 DEF DashInv, Viewing, Reading
<1>3. ProbeTyped'
    BY <1>1 DEF ProbeTyped, ProbeSteps
<1>4. Reading'
    BY <1>1, <1>2 DEF DashInv, Reading
<1>5. Viewing'
    BY <1>1, <1>2 DEF Viewing, NoView
<1>6. Metering' /\ FailuresAreReal'
    BY <1>1 DEF DashInv, Metering, FailuresAreReal, world
<1> QED BY <1>3, <1>4, <1>5, <1>6 DEF DashInv

\* A card or a section is read.
LEMMA ReadStep == ASSUME DashInv, NEW d \in Domains, CountFor(d) \/ GrowthFor(d) PROVE DashInv'
<1>1. /\ UNCHANGED <<world, opened, probe, overall, usage, view>>
      /\ d \in visible /\ probe.step # "closed"
    BY DEF CountFor, GrowthFor, Loading
<1>2. Reading'
    <2>1. \A k : Read(k).n = k
        BY DEF Read
    <2>2. Unavailable.n = 0
        BY DEF Unavailable
    <2>3. records[d] \in Nat /\ d \in visible
        BY <1>1 DEF DashInv, Metering
    <2>4. CASE CountFor(d)
        <3>1. growth' = growth
            BY <2>4 DEF CountFor
        <3>2. PICK m : /\ count' = [count EXCEPT ![d] = m]
                       /\ m.n \in Nat /\ (m.n > 0 => d \in Counted)
            BY <2>1, <2>2, <2>3, <2>4 DEF CountFor
        <3>3. \A c \in Domains : count'[c] = IF c = d THEN m ELSE count[c]
            BY <3>2 DEF DashInv, Reading
        <3>4. DOMAIN count' = Domains
            BY <3>2 DEF DashInv, Reading
        <3> QED BY <1>1, <2>3, <3>1, <3>2, <3>3, <3>4 DEF DashInv, Reading, opened
    <2>5. CASE GrowthFor(d)
        <3>1. count' = count
            BY <2>5 DEF GrowthFor
        <3>2. PICK m : growth' = [growth EXCEPT ![d] = m] /\ m.n \in Nat
            BY <2>1, <2>2, <2>3, <2>5 DEF GrowthFor
        <3>3. \A c \in Domains : growth'[c] = IF c = d THEN m ELSE growth[c]
            BY <3>2 DEF DashInv, Reading
        <3>4. DOMAIN growth' = Domains
            BY <3>2 DEF DashInv, Reading
        <3> QED BY <1>1, <2>3, <3>1, <3>2, <3>3, <3>4 DEF DashInv, Reading, opened
    <2> QED BY <2>4, <2>5
<1>3. ProbeTyped' /\ Metering' /\ Viewing' /\ FailuresAreReal'
    BY <1>1 DEF DashInv, ProbeTyped, Metering, Viewing, FailuresAreReal, world, opened
<1> QED BY <1>2, <1>3 DEF DashInv

\* The collection of the usage moves on.
Collecting == ProbeService \/ NothingMetered \/ ReadOverall \/ ReadOk \/ UsageFails

LEMMA CollectStep == ASSUME DashInv, Collecting PROVE DashInv'
<1>1. UNCHANGED <<world, opened, count, growth, view>>
    BY DEF Collecting, ProbeService, NothingMetered, ReadOverall, ReadOk, UsageFails
<1>2. ProbeTyped' /\ probe'.step # "closed"
    BY DEF DashInv, ProbeTyped, ProbeSteps, Collecting, Probing, ProbeService, NothingMetered, ReadOverall, ReadOk, UsageFails
<1>3. Metering'
    <2>1. CASE ReadOverall
        BY <1>1, <2>1 DEF DashInv, Metering, ReadOverall, world
    <2>2. CASE ReadOk
        <3>1. overall.all \in Nat /\ ok \in Nat
            BY DEF DashInv, Metering
        <3>2. AtLeastZero(overall.all, ok) \in Nat
            BY <3>1 DEF AtLeastZero
        <3> QED BY <1>1, <2>2, <3>1, <3>2 DEF DashInv, Metering, ReadOk, world
    <2>3. CASE UNCHANGED <<overall, usage>>
        BY <1>1, <2>3 DEF DashInv, Metering, world
    <2> QED BY <2>1, <2>2, <2>3 DEF Collecting, ProbeService, NothingMetered, UsageFails
<1>4. probe'.step \in {"overall", "ok"} \/ usage'.available => granted \intersect Metered # {}
    <2>1. CASE ProbeService
        <3>1. probe.step = "service" /\ usage' = usage
            BY <2>1 DEF ProbeService, Probing
        <3>2. CASE Configs[probe.at] \in visible \intersect Metered
            BY <1>1, <3>2 DEF DashInv, Reading
        <3>3. CASE probe' = [probe EXCEPT !.at = @ + 1]
            BY <3>1, <3>3 DEF DashInv, Reading, ProbeTyped
        <3> QED BY <2>1, <3>2, <3>3 DEF ProbeService
    <2>2. CASE NothingMetered \/ UsageFails
        BY <2>2 DEF DashInv, Reading, ProbeTyped, NothingMetered, UsageFails
    <2>3. CASE ReadOverall \/ ReadOk
        BY <2>3 DEF DashInv, Reading, ReadOverall, ReadOk, Probing
    <2> QED BY <2>1, <2>2, <2>3 DEF Collecting
<1>5. Reading'
    BY <1>1, <1>2, <1>4 DEF DashInv, Reading, opened
<1>6. Viewing'
    BY <1>1, <1>2 DEF DashInv, Viewing, opened
<1>7. FailuresAreReal'
    <2>1. CASE ReadOk
        <3>1. /\ overall.all \in Nat /\ ok \in Nat /\ overall.ok \in Nat /\ failed \in Nat
              /\ overall.all <= ok + failed
            BY DEF DashInv, Metering
        <3>2. /\ usage'.calls = overall.all /\ usage'.failures = AtLeastZero(overall.all, ok)
              /\ failed' = failed /\ ok' = ok
            BY <1>1, <2>1 DEF ReadOk, world
        <3> QED BY <3>1, <3>2 DEF FailuresAreReal, AtLeastZero
    <2>2. CASE usage' = usage
        BY <1>1, <2>2 DEF DashInv, FailuresAreReal, world
    <2> QED BY <2>1, <2>2 DEF Collecting, ProbeService, NothingMetered, ReadOverall, UsageFails
<1> QED BY <1>2, <1>3, <1>5, <1>6, <1>7 DEF DashInv

LEMMA RenderStep == ASSUME DashInv, RenderPage \/ RenderOnboarding PROVE DashInv'
<1>1. UNCHANGED <<world, opened, count, growth, probe, overall, usage>> /\ probe.step = "done"
    BY DEF RenderPage, RenderOnboarding, Gathered, Probing
<1>2. Viewing'
    <2>1. CASE RenderPage
        <3>1. /\ view'.cards = {<<d, count[d]>> : d \in visible}
              /\ view'.trend = {d \in visible : growth[d].n > 0}
              /\ view'.missing = {d \in visible : growth[d] = Unavailable}
            BY <2>1 DEF RenderPage
        <3>2. \A d \in visible : d \in granted /\ (count[d].n > 0 => d \in Counted)
            BY DEF DashInv, Reading
        <3>3. Unavailable.n = 0
            BY DEF Unavailable
        <3> QED BY <1>1, <3>1, <3>2, <3>3 DEF Viewing, opened
    <2>2. CASE RenderOnboarding
        <3>1. view'.cards = {} /\ view'.trend = {}
            BY <2>2 DEF RenderOnboarding, NoView
        <3> QED BY <1>1, <3>1 DEF Viewing
    <2> QED BY <2>1, <2>2
<1>3. ProbeTyped' /\ Metering' /\ Reading' /\ FailuresAreReal'
    BY <1>1 DEF DashInv, ProbeTyped, Metering, Reading, FailuresAreReal, world, opened
<1> QED BY <1>2, <1>3 DEF DashInv

LEMMA DashInvHolds == ASSUME DashboardAssumption PROVE DashSpec => []DashInv
<1>1. DashInit => DashInv
    BY DashInitInv
<1>2. DashInv /\ [DashNext]_dashVars => DashInv'
    BY WorldStep, OpenStep, ReadStep, CollectStep, RenderStep DEF DashNext, Collecting
<1> QED BY <1>1, <1>2, PTL DEF DashSpec

\* _collect_ai_usage: the difference of two reads is never an invented failure.
THEOREM ReportedFailuresAreReal == ASSUME DashboardAssumption PROVE DashSpec => []FailuresAreReal
<1>1. DashInv => FailuresAreReal
    BY DEF DashInv
<1> QED BY <1>1, DashInvHolds, PTL

\* collect_dashboard_metrics: the sections keep to what the operator may see,
\* and to what could be read.
THEOREM ScopeIsKept == ASSUME DashboardAssumption PROVE DashSpec => []NothingElseIsRead
<1>1. DashInv => NothingElseIsRead
    BY DEF DashInv, Reading, Viewing, NothingElseIsRead
<1> QED BY <1>1, DashInvHolds, PTL

-----------------------------------------------------------------------------
(* The move of the administrators. *)

\* One of the two tables has no administrators, and ids and names are keys.
Tables ==
    /\ Distinct(user) /\ Distinct(admins)
    /\ revision = 8 => admins = {}
    /\ revision # 8 => \A r \in user : ~r.admin

\* A sequence is ahead of its table; tables are filled from 1 on SQLite.
Ahead == Enforced => /\ \A r \in user : r.id < sequence.user
                     /\ \A a \in admins : a.id < sequence.admin

Excepted == dismissed \union lost

SessionsListed == \A c \in cookies : c.who \in Excepted \/ c \in Staff

ActorsListed ==
    \A e \in audit : \/ e.actor = NoActor
                     \/ e.by \in Excepted
                     \/ [id |-> e.actor, who |-> e.by] \in Staff

\* The key on user, wherever it is enforced.
KeyHolds == Enforced /\ HasActorKey => \A e \in audit : e.actor \in IdsOf(user) \union {NoActor}

\* What a downgrade has copied still fits into user.
CopyFits ==
    merging => /\ revision = 9
               /\ Distinct(copied)
               /\ \A a \in copied, r \in user : a.id # r.id /\ a.who # r.who
               /\ Enforced => \A a \in copied : a.id < sequence.user

MoveInv == /\ TypeOK /\ Tables /\ Ahead /\ CopyFits
           /\ SessionsListed /\ ActorsListed /\ KeyHolds /\ TokensKeepTheirOwner

\* A step of the realms, the drop of a stale copy, or none.
RealmStep == \/ Realms!Next \/ StaleCopyCommits
             \/ UNCHANGED <<Customers, Staff>>

-----------------------------------------------------------------------------
\* What Staff and Customers are made of.
LEMMA AccountTyped == ASSUME NEW r \in Users
                      PROVE /\ Account(r) \in Accounts
                            /\ Account(r).id = r.id /\ Account(r).who = r.who
BY DEF Users, Account, Accounts

LEMMA StaffDef == \A a : a \in Staff <=> a \in admins \/ \E r \in user : r.admin /\ a = Account(r)
BY DEF Staff, OldAdmins

LEMMA CustomersDef == \A a : a \in Customers <=> \E r \in user : ~r.admin /\ a = Account(r)
BY DEF Customers, OldAdmins

LEMMA StaffNext == \A a : a \in Staff' <=> a \in admins' \/ \E r \in user' : r.admin /\ a = Account(r)
BY DEF Staff, OldAdmins, Account

LEMMA CustomersNext == \A a : a \in Customers' <=> \E r \in user' : ~r.admin /\ a = Account(r)
BY DEF Customers, OldAdmins, Account

\* Both realms have keys, whatever the revision.
LEMMA RealmsDistinct == ASSUME TypeOK, Tables
                        PROVE /\ Staff \subseteq Accounts /\ Distinct(Staff)
                              /\ Customers \subseteq Accounts /\ Distinct(Customers)
<1>1. \A r \in user : Account(r) \in Accounts /\ Account(r).id = r.id /\ Account(r).who = r.who
    BY AccountTyped DEF TypeOK
<1>2. Staff \subseteq Accounts /\ Customers \subseteq Accounts
    BY <1>1, StaffDef, CustomersDef DEF TypeOK
<1>3. Distinct(Customers)
    BY <1>1, CustomersDef DEF Tables, Distinct
<1>4. CASE revision = 8
    <2>1. \A a \in Staff : \E r \in user : a = Account(r)
        BY <1>4, StaffDef DEF Tables
    <2> QED BY <1>1, <1>2, <1>3, <2>1 DEF Tables, Distinct
<1>5. CASE revision # 8
    <2>1. Staff \subseteq admins
        BY <1>5, StaffDef DEF Tables
    <2> QED BY <1>2, <1>3, <2>1 DEF Tables, Distinct
<1> QED BY <1>4, <1>5

\* The id of a next row is new to its table.
LEMMA NextIdIsNew == ASSUME RealmAssumption, NEW rs, NEW n \in Ids, NEW next \in Nat,
                            \A r \in rs : r.id \in Ids,
                            Enforced => \A r \in rs : r.id < next,
                            NextId(n, rs, next)
                     PROVE \A r \in rs : r.id < n
BY DEF NextId, Follows, IdsOf, Ids, RealmAssumption

-----------------------------------------------------------------------------
\* The moves between the tables leave both realms as they are.
LEMMA OutMovesNobody == ASSUME TypeOK, Tables, MoveOut
                        PROVE Staff' = Staff /\ Customers' = Customers
<1>1. /\ admins' = {Account(r) : r \in OldAdmins} /\ user' = user \ OldAdmins /\ admins = {}
      /\ OldAdmins = {r \in user : r.admin}
    BY DEF MoveOut, Tables, OldAdmins
<1>2. \A a : a \in admins' <=> \E r \in user : r.admin /\ a = Account(r)
    BY <1>1
<1>3. \A r : r \in user' <=> r \in user /\ ~r.admin
    BY <1>1
<1>4. \A a : a \in Staff' <=> a \in Staff
    BY <1>1, <1>2, <1>3, StaffDef, StaffNext
<1>5. \A a : a \in Customers' <=> a \in Customers
    BY <1>3, CustomersDef, CustomersNext
<1> QED BY <1>4, <1>5

\* What the drop leaves as staff is what was copied.
LEMMA BackBringsCopy == ASSUME TypeOK, Tables, revision # 8, DropBack
                        PROVE Staff' = copied /\ Customers' = Customers
<1>1. /\ user' = user \union {AsUser(a) : a \in copied} /\ admins' = {}
      /\ \A r \in user : ~r.admin
    BY DEF DropBack, Tables
<1>2. \A a \in copied : AsUser(a).admin = TRUE /\ Account(AsUser(a)) = a
    BY DEF AsUser, Account, TypeOK, Accounts
<1>3. \A a : a \in Staff' <=> a \in copied
    BY <1>1, <1>2, StaffNext
<1>4. \A a : a \in Customers' <=> a \in Customers
    BY <1>1, <1>2, CustomersDef, CustomersNext
<1> QED BY <1>3, <1>4

\* What does not touch the tables leaves the realms.
LEMMA SameTables == ASSUME UNCHANGED <<user, admins>>
                    PROVE Staff' = Staff /\ Customers' = Customers
BY DEF Staff, Customers, OldAdmins, Account

\* From revision 9 on, a realm is a table.
LEMMA Moved == ASSUME Tables, revision # 8
               PROVE Staff = admins /\ \A a : a \in Customers <=> \E r \in user : a = Account(r)
BY StaffDef, CustomersDef DEF Tables

LEMMA MovedNext == ASSUME Tables', revision' # 8
                   PROVE Staff' = admins' /\ \A a : a \in Customers' <=> \E r \in user' : a = Account(r)
BY StaffNext, CustomersNext DEF Tables

\* Registration.
LEMMA RegisterStep == ASSUME RealmAssumption, MoveInv, NEW p \in People, Register(p)
                      PROVE MoveInv' /\ Realms!Next
<1>1. PICK n \in Ids : /\ NextId(n, user, sequence.user)
                       /\ user' = user \union {[id |-> n, who |-> p, admin |-> FALSE]}
                       /\ sequence' = IF Enforced THEN [sequence EXCEPT !.user = n + 1] ELSE sequence
    BY DEF Register
<1>2. /\ revision # 8 /\ p \notin NamesOf(user) /\ ~merging
      /\ UNCHANGED <<revision, leftover, admins, marks, merge, history>>
    BY DEF Register
<1> DEFINE new == [id |-> n, who |-> p, admin |-> FALSE]
<1>3. \A r \in user : r.id < n /\ r.who # p /\ r.id \in Ids
    <2>1. \A r \in user : r.id \in Ids
        BY DEF MoveInv, TypeOK, Users
    <2>2. sequence.user \in Nat
        BY DEF MoveInv, TypeOK
    <2>3. \A r \in user : r.id < n
        BY <1>1, <2>1, <2>2, NextIdIsNew DEF MoveInv, Ahead
    <2> QED BY <1>2, <2>1, <2>3 DEF NamesOf
<1>4. new \in Users /\ new.id = n /\ new.who = p /\ ~new.admin
    BY DEF Users
<1>5. TypeOK'
    <2>1. sequence' \in [user : 1 .. MaxId + 1, admin : 1 .. MaxId + 1]
        <3>1. n + 1 \in 1 .. MaxId + 1
            BY DEF RealmAssumption, Ids
        <3> QED BY <1>1, <3>1 DEF MoveInv, TypeOK
    <2> QED BY <1>1, <1>2, <1>4, <2>1 DEF MoveInv, TypeOK, marks, merge, history
<1>6. Tables'
    <2>1. Distinct(user)'
        <3>1. user' = user \union {new} /\ n \in Nat /\ \A r \in user : r.id \in Nat
            BY <1>1, <1>3 DEF Ids
        <3>2. \A r \in user : r.id # new.id /\ r.who # new.who
            BY <1>3, <1>4, <3>1
        <3>3. \A r, t \in user : r.id = t.id \/ r.who = t.who => r = t
            BY DEF MoveInv, Tables, Distinct
        <3> HIDE DEF new
        <3> QED BY <3>1, <3>2, <3>3 DEF Distinct
    <2> QED BY <1>1, <1>2, <1>4, <2>1 DEF MoveInv, Tables, Distinct
<1>7. Ahead'
    <2>1. ASSUME Enforced PROVE (\A r \in user : r.id < sequence.user)' /\ sequence'.admin = sequence.admin
        BY <1>1, <1>3, <1>4, <2>1 DEF MoveInv, TypeOK, Ids
    <2> QED BY <1>2, <2>1 DEF MoveInv, Ahead, Enforced
<1>8. Staff' = Staff /\ Customers' = Customers \union {Account(new)}
    BY <1>1, <1>2, <1>4, <1>6, Moved, MovedNext DEF MoveInv
<1>9. SessionsListed' /\ ActorsListed' /\ TokensKeepTheirOwner'
    BY <1>1, <1>2, <1>8
       DEF MoveInv, SessionsListed, ActorsListed, Excepted, TokensKeepTheirOwner, marks, history, Enforced
<1>11. KeyHolds' /\ CopyFits'
    BY <1>1, <1>2 DEF MoveInv, KeyHolds, CopyFits, HasActorKey, IdsOf, Enforced, marks, merge
<1>10. Realms!Next
    <2>1. Account(new) \in Accounts /\ Account(new).id = n /\ Account(new).who = p
        BY <1>4, AccountTyped
    <2>2. \A a \in Customers : a.id # n /\ a.who # p
        <3>1. \A r \in user : Account(r).id = r.id /\ Account(r).who = r.who
            BY DEF Account
        <3> QED BY <1>2, <1>3, <3>1, Moved DEF MoveInv, Ids
    <2>3. Realms!New(Account(new), Customers)
        BY <2>1, <2>2 DEF Realms!New
    <2> QED BY <1>8, <2>1, <2>3 DEF Realms!Next, Realms!Accounts, Realms!Ids, Accounts, Ids
<1> QED BY <1>5, <1>6, <1>7, <1>9, <1>10, <1>11 DEF MoveInv

\* Appointment of an administrator.
LEMMA AppointStep == ASSUME RealmAssumption, MoveInv, NEW p \in People, Appoint(p)
                     PROVE MoveInv' /\ Realms!Next
<1>1. PICK n \in Ids : /\ NextId(n, admins, sequence.admin)
                       /\ admins' = admins \union {[id |-> n, who |-> p]}
                       /\ sequence' = IF Enforced THEN [sequence EXCEPT !.admin = n + 1] ELSE sequence
    BY DEF Appoint
<1>2. /\ revision # 8 /\ p \notin NamesOf(admins)
      /\ UNCHANGED <<revision, leftover, user, marks, merge, history>>
    BY DEF Appoint
<1> DEFINE new == [id |-> n, who |-> p]
<1>3. \A a \in admins : a.id < n /\ a.who # p /\ a.id \in Ids
    <2>1. \A a \in admins : a.id \in Ids
        BY DEF MoveInv, TypeOK, Accounts
    <2>2. sequence.admin \in Nat
        BY DEF MoveInv, TypeOK
    <2>3. \A a \in admins : a.id < n
        BY <1>1, <2>1, <2>2, NextIdIsNew DEF MoveInv, Ahead
    <2> QED BY <1>2, <2>1, <2>3 DEF NamesOf
<1>4. new \in Accounts /\ new.id = n /\ new.who = p
    BY DEF Accounts
<1>5. TypeOK'
    <2>1. sequence' \in [user : 1 .. MaxId + 1, admin : 1 .. MaxId + 1]
        <3>1. n + 1 \in 1 .. MaxId + 1
            BY DEF RealmAssumption, Ids
        <3> QED BY <1>1, <3>1 DEF MoveInv, TypeOK
    <2> QED BY <1>1, <1>2, <1>4, <2>1 DEF MoveInv, TypeOK, marks, merge, history
<1>6. Tables'
    <2>1. Distinct(admins)'
        BY <1>1, <1>3, <1>4 DEF MoveInv, Tables, Distinct, Ids
    <2> QED BY <1>1, <1>2, <1>4, <2>1 DEF MoveInv, Tables, Distinct
<1>7. Ahead'
    <2>1. ASSUME Enforced PROVE (\A a \in admins : a.id < sequence.admin)' /\ sequence'.user = sequence.user
        BY <1>1, <1>3, <1>4, <2>1 DEF MoveInv, TypeOK, Ids
    <2> QED BY <1>2, <2>1 DEF MoveInv, Ahead, Enforced
<1>8. Staff' = Staff \union {new} /\ Customers' = Customers
    BY <1>1, <1>2, <1>4, <1>6, Moved, MovedNext DEF MoveInv
<1>9. SessionsListed' /\ ActorsListed' /\ TokensKeepTheirOwner'
    BY <1>1, <1>2, <1>8
       DEF MoveInv, SessionsListed, ActorsListed, Excepted, TokensKeepTheirOwner, marks, history, Enforced
<1>11. KeyHolds' /\ CopyFits'
    <2>1. sequence'.user = sequence.user
        BY <1>1 DEF MoveInv, TypeOK
    <2> QED BY <1>2, <2>1
            DEF MoveInv, KeyHolds, CopyFits, HasActorKey, IdsOf, Enforced, Distinct, marks, merge
<1>10. Realms!Next
    <2>1. Realms!New(new, Staff)
        BY <1>2, <1>3, <1>4, Moved DEF Realms!New, MoveInv, Ids
    <2> QED BY <1>4, <1>8, <2>1 DEF Realms!Next, Realms!Accounts, Realms!Ids, Accounts, Ids
<1> QED BY <1>5, <1>6, <1>7, <1>9, <1>10, <1>11 DEF MoveInv

\* Ids deleted from user leave with whatever the engine lets refer to them.
LEMMA ReferencesTyped == ASSUME TypeOK, NEW ids, References(ids)
                         PROVE tokens' \subseteq Owned /\ audit' \subseteq ActorEntries
<1>1. tokens' \subseteq tokens
    BY DEF References
<1>2. \A e \in ActorEntries : [e EXCEPT !.actor = NoActor] \in ActorEntries
    BY DEF ActorEntries
<1>3. audit' \subseteq ActorEntries
    BY <1>2 DEF References, TypeOK
<1> QED BY <1>1, <1>3 DEF TypeOK

LEMMA ReferencesList == ASSUME TypeOK, ActorsListed, NEW ids, References(ids), Staff' = Staff, UNCHANGED history
                        PROVE ActorsListed'
<1> SUFFICES ASSUME NEW f \in audit'
             PROVE \/ f.actor = NoActor \/ f.by \in Excepted \/ [id |-> f.actor, who |-> f.by] \in Staff
    BY DEF ActorsListed, Excepted, NoActor, history
<1>1. PICK e \in audit : f = e \/ f = [e EXCEPT !.actor = NoActor]
    BY DEF References
<1>2. e \in ActorEntries
    BY DEF TypeOK
<1>3. CASE f = [e EXCEPT !.actor = NoActor]
    BY <1>2, <1>3 DEF ActorEntries
<1>4. CASE f = e
    BY <1>4 DEF ActorsListed
<1> QED BY <1>1, <1>3, <1>4

LEMMA ReferencesKey == ASSUME TypeOK, KeyHolds, NEW ids, References(ids), HasActorKey,
                              \A r \in user : r.id \in ids \/ r \in user'
                       PROVE Enforced => \A e \in audit' : e.actor \in IdsOf(user') \union {NoActor}
<1> SUFFICES ASSUME Enforced, NEW f \in audit', f.actor # NoActor
             PROVE f.actor \in IdsOf(user')
    OBVIOUS
<1>0. audit \subseteq ActorEntries
    BY DEF TypeOK
<1>1. PICK e \in audit : f = IF e.actor \in ids THEN [e EXCEPT !.actor = NoActor] ELSE e
    BY DEF References
<1>2. f = e /\ e.actor \notin ids
    BY <1>0, <1>1 DEF ActorEntries
<1>3. PICK r \in user : r.id = e.actor
    BY <1>2 DEF KeyHolds, IdsOf
<1> QED BY <1>2, <1>3 DEF IdsOf

\* A customer is deleted.
LEMMA DeleteUserStep == ASSUME RealmAssumption, MoveInv, NEW r \in user, DeleteUser(r)
                        PROVE MoveInv' /\ Realms!Next
<1>1. /\ ~merging /\ ~r.admin /\ user' = user \ {r} /\ References({r.id})
      /\ UNCHANGED <<revision, leftover, admins, sequence, cookies, merge, history>>
    BY DEF DeleteUser
<1>2. TypeOK'
    BY <1>1, ReferencesTyped DEF MoveInv, TypeOK, merge, history
<1>3. Tables' /\ Ahead' /\ CopyFits'
    BY <1>1 DEF MoveInv, Tables, Distinct, Ahead, CopyFits, Enforced, merge
<1>4. r \in Users /\ Account(r).id = r.id /\ Account(r) \in Accounts
    BY AccountTyped DEF MoveInv, TypeOK
<1>5. Staff' = Staff
    <2>1. \A a : a \in Staff' <=> a \in Staff
        BY <1>1, StaffDef, StaffNext
    <2> QED BY <2>1
<1>6. Customers' = Customers \ {Account(r)}
    <2>1. \A t \in user : Account(t) = Account(r) <=> t = r
        BY DEF MoveInv, Tables, Distinct, Account
    <2>2. \A a : a \in Customers' <=> a \in Customers /\ a # Account(r)
        BY <1>1, <2>1, CustomersDef, CustomersNext
    <2> QED BY <2>2
<1>7. SessionsListed' /\ ActorsListed'
    BY <1>1, <1>5, ReferencesList DEF MoveInv, SessionsListed, Excepted, history
<1>8. TokensKeepTheirOwner'
    BY <1>1 DEF MoveInv, TokensKeepTheirOwner, References, Enforced
<1>9. KeyHolds'
    <2>1. CASE HasActorKey'
        <3>1. HasActorKey /\ \A t \in user : t.id \in {r.id} \/ t \in user'
            BY <1>1, <2>1 DEF HasActorKey
        <3> QED BY <1>1, <2>1, <3>1, ReferencesKey DEF MoveInv, KeyHolds, Enforced, IdsOf
    <2>2. CASE ~HasActorKey'
        BY <2>2 DEF KeyHolds
    <2> QED BY <2>1, <2>2
<1>10. Realms!Next
    BY <1>4, <1>5, <1>6 DEF Realms!Next, Realms!Accounts, Realms!Ids, Accounts, Ids
<1> QED BY <1>2, <1>3, <1>7, <1>8, <1>9, <1>10 DEF MoveInv

\* An administrator is deleted.
LEMMA DismissStep == ASSUME MoveInv, NEW a \in admins, Dismiss(a)
                     PROVE MoveInv' /\ Realms!Next
<1>1. /\ revision # 8 /\ admins' = admins \ {a} /\ dismissed' = dismissed \union {a.who}
      /\ UNCHANGED <<revision, leftover, user, sequence, marks, merge, lost>>
    BY DEF Dismiss
<1>2. a \in Accounts /\ a.who \in People
    BY DEF MoveInv, TypeOK, Accounts
<1>3. TypeOK'
    BY <1>1, <1>2 DEF MoveInv, TypeOK, marks, merge
<1>4. Tables' /\ Ahead' /\ CopyFits' /\ KeyHolds'
    BY <1>1 DEF MoveInv, Tables, Distinct, Ahead, CopyFits, KeyHolds, HasActorKey, IdsOf, Enforced, marks, merge
<1>5. Staff' = Staff \ {a} /\ Customers' = Customers
    BY <1>1, <1>4, Moved, MovedNext DEF MoveInv
<1>6. SessionsListed'
    BY <1>1, <1>5 DEF MoveInv, SessionsListed, Excepted, marks
<1>7. ActorsListed'
    <2>1. \A e \in audit : [id |-> e.actor, who |-> e.by] = a => e.by \in Excepted'
        BY <1>1 DEF Excepted
    <2> QED BY <1>1, <1>5, <2>1 DEF MoveInv, ActorsListed, Excepted, marks
<1>8. TokensKeepTheirOwner'
    BY <1>1 DEF MoveInv, TokensKeepTheirOwner, marks, Enforced
<1>9. Realms!Next
    BY <1>2, <1>5 DEF Realms!Next, Realms!Accounts, Realms!Ids, Accounts, Ids
<1> QED BY <1>3, <1>4, <1>6, <1>7, <1>8, <1>9 DEF MoveInv

\* What only notes an id.
Noting == \/ \E r \in user : IssueToken(r)
          \/ \E a \in admins : Login(a) \/ \E c \in cookies : RefreshCookie(c, a)
          \/ \E c \in cookies : NoteActor(c)

LEMMA NotingStep == ASSUME MoveInv, Noting
                    PROVE MoveInv' /\ UNCHANGED <<Customers, Staff>>
<1>1. UNCHANGED <<revision, leftover, user, admins, sequence, merge, history>>
    BY DEF Noting, IssueToken, Login, RefreshCookie, NoteActor
<1>2. Staff' = Staff /\ Customers' = Customers /\ admins \subseteq Staff
    BY <1>1, SameTables, StaffDef
<1>3. Tables' /\ Ahead' /\ CopyFits'
    BY <1>1 DEF MoveInv, Tables, Distinct, Ahead, CopyFits, Enforced, merge
<1>4. \A t \in tokens' : t \in tokens \/ \E r \in user : t = [user |-> r.id, who |-> r.who]
    BY DEF Noting, IssueToken, Login, RefreshCookie, NoteActor
<1>5. \A c \in cookies' : c \in cookies \/ c \in admins
    BY DEF Noting, IssueToken, Login, RefreshCookie, NoteActor
<1>6. \A e \in audit' : e \in audit \/ \E c \in cookies : e = [by |-> c.who, actor |-> c.id]
    BY DEF Noting, IssueToken, Login, RefreshCookie, NoteActor
<1>7. TypeOK'
    <2>1. \A r \in user : [user |-> r.id, who |-> r.who] \in Owned
        BY DEF MoveInv, TypeOK, Users, Owned
    <2>2. \A c \in cookies : [by |-> c.who, actor |-> c.id] \in ActorEntries
        BY DEF MoveInv, TypeOK, Accounts, ActorEntries
    <2> QED BY <1>1, <1>4, <1>5, <1>6, <2>1, <2>2 DEF MoveInv, TypeOK, merge, history
<1>8. SessionsListed'
    BY <1>1, <1>2, <1>5 DEF MoveInv, SessionsListed, Excepted, history
<1>9. ActorsListed'
    <2> SUFFICES ASSUME NEW e \in audit'
                 PROVE \/ e.actor = NoActor \/ e.by \in Excepted \/ [id |-> e.actor, who |-> e.by] \in Staff
        BY <1>1, <1>2 DEF ActorsListed, Excepted, NoActor, history
    <2>1. CASE e \in audit
        BY <2>1 DEF MoveInv, ActorsListed
    <2>2. ASSUME NEW c \in cookies, e = [by |-> c.who, actor |-> c.id]
          PROVE e.by \in Excepted \/ [id |-> e.actor, who |-> e.by] \in Staff
        <3>1. c = [id |-> e.actor, who |-> e.by] /\ c.who = e.by
            BY <2>2 DEF MoveInv, TypeOK, Accounts
        <3> QED BY <3>1 DEF MoveInv, SessionsListed
    <2> QED BY <1>6, <2>1, <2>2
<1>10. TokensKeepTheirOwner'
    BY <1>1, <1>4 DEF MoveInv, TokensKeepTheirOwner, Enforced
<1>11. KeyHolds'
    <2> SUFFICES ASSUME Enforced, HasActorKey, NEW e \in audit'
                 PROVE e.actor \in IdsOf(user) \union {NoActor}
        BY <1>1 DEF KeyHolds, Enforced, HasActorKey, IdsOf, NoActor
    <2>1. e \in audit \/ e.actor \in IdsOf(user)
        <3>1. CASE audit' = audit
            BY <3>1
        <3>2. ASSUME NEW c \in cookies, NoteActor(c) PROVE e \in audit \/ e.actor \in IdsOf(user)
            BY <3>2 DEF NoteActor
        <3> QED BY <3>1, <3>2 DEF Noting, IssueToken, Login, RefreshCookie
    <2> QED BY <2>1 DEF MoveInv, KeyHolds
<1> QED BY <1>2, <1>3, <1>7, <1>8, <1>9, <1>10, <1>11 DEF MoveInv

\* A sequence that was reset is ahead of the rows it was reset by.
LEMMA ResetAhead == ASSUME RealmAssumption, TypeOK, NEW table \in {"user", "admin"}, NEW rs, Reset(table, rs)
                    PROVE /\ sequence' \in [user : 1 .. MaxId + 1, admin : 1 .. MaxId + 1]
                          /\ Enforced => \A r \in rs : r.id < sequence'[table]
                          /\ \A other \in {"user", "admin"} \ {table} : sequence'[other] = sequence[other]
<1>1. PICK n \in 1 .. MaxId + 1 :
          /\ Follows(n, rs, 2)
          /\ sequence' = IF Enforced THEN [sequence EXCEPT ![table] = n] ELSE sequence
    BY DEF Reset
<1>2. \A r \in rs : r.id < n
    BY <1>1 DEF Follows
<1>3. sequence \in [user : 1 .. MaxId + 1, admin : 1 .. MaxId + 1]
    BY DEF TypeOK
<1>4. CASE table = "user"
    BY <1>1, <1>2, <1>3, <1>4
<1>5. CASE table = "admin"
    BY <1>1, <1>2, <1>3, <1>5
<1> QED BY <1>4, <1>5

LEMMA MoveOutStep == ASSUME RealmAssumption, MoveInv, MoveOut
                     PROVE MoveInv' /\ UNCHANGED <<Customers, Staff>>
<1>1. /\ revision = 8 /\ revision' = 9
      /\ admins' = {Account(r) : r \in OldAdmins} /\ user' = user \ OldAdmins
      /\ Reset("admin", admins') /\ References(IdsOf(OldAdmins))
      /\ UNCHANGED <<leftover, cookies, merge, history>>
      /\ OldAdmins = {r \in user : r.admin}
    BY DEF MoveOut, OldAdmins
<1>2. Staff' = Staff /\ Customers' = Customers
    BY OutMovesNobody DEF MoveInv
<1>3. \A r \in user : Account(r) \in Accounts /\ Account(r).id = r.id /\ Account(r).who = r.who
    BY AccountTyped DEF MoveInv, TypeOK
<1>4. \A a \in admins' : \E r \in user : a = Account(r)
    BY <1>1
<1>5. TypeOK'
    <2>1. admins' \subseteq Accounts /\ user' \subseteq Users
        BY <1>1, <1>3, <1>4 DEF MoveInv, TypeOK
    <2>2. tokens' \subseteq Owned /\ audit' \subseteq ActorEntries
        BY <1>1, ReferencesTyped DEF MoveInv
    <2>3. sequence' \in [user : 1 .. MaxId + 1, admin : 1 .. MaxId + 1]
        BY <1>1, ResetAhead DEF MoveInv
    <2> QED BY <1>1, <2>1, <2>2, <2>3 DEF MoveInv, TypeOK, merge, history
<1>6. Tables'
    <2>1. Distinct(user)' /\ \A r \in user' : ~r.admin
        BY <1>1 DEF MoveInv, Tables, Distinct
    <2>2. Distinct(admins)'
        BY <1>3, <1>4 DEF MoveInv, Tables, Distinct
    <2> QED BY <1>1, <2>1, <2>2 DEF Tables
<1>7. Ahead'
    <2>1. Enforced => \A a \in admins' : a.id < sequence'["admin"]
        BY <1>1, ResetAhead DEF MoveInv
    <2>2. sequence'["user"] = sequence["user"]
        BY <1>1, ResetAhead DEF MoveInv
    <2> QED BY <1>1, <2>1, <2>2 DEF MoveInv, Ahead, Enforced
<1>8. SessionsListed' /\ ActorsListed'
    BY <1>1, <1>2, ReferencesList DEF MoveInv, SessionsListed, Excepted, history
<1>9. TokensKeepTheirOwner'
    <2> SUFFICES ASSUME Enforced, NEW t \in tokens'
                 PROVE \E r \in user' : r.id = t.user /\ r.who = t.who
        BY DEF TokensKeepTheirOwner, Enforced
    <2>1. t \in tokens /\ t.user \notin IdsOf(OldAdmins)
        BY <1>1 DEF References
    <2>2. PICK r \in user : r.id = t.user /\ r.who = t.who
        BY <2>1 DEF MoveInv, TokensKeepTheirOwner
    <2>3. r \notin OldAdmins
        BY <2>1, <2>2 DEF IdsOf
    <2> QED BY <1>1, <2>2, <2>3
<1>10. KeyHolds' /\ CopyFits'
    <2>1. \A r \in user : r.id \in IdsOf(OldAdmins) \/ r \in user'
        BY <1>1 DEF IdsOf
    <2>2. KeyHolds'
        BY <1>1, <2>1, ReferencesKey DEF MoveInv, KeyHolds, HasActorKey, Enforced, IdsOf
    <2> QED BY <1>1, <2>2 DEF MoveInv, CopyFits, merge
<1> QED BY <1>2, <1>5, <1>6, <1>7, <1>8, <1>9, <1>10 DEF MoveInv

\* The copy: nobody moves yet.
LEMMA CopyBackStep == ASSUME RealmAssumption, MoveInv, CopyBack
                      PROVE MoveInv' /\ UNCHANGED <<Customers, Staff>>
<1>1. /\ revision = 9 /\ Mergeable /\ merging' = TRUE /\ copied' = admins
      /\ Reset("user", user \union {AsUser(a) : a \in admins})
      /\ UNCHANGED <<revision, leftover, user, admins, tokens, audit, cookies, dismissed, lost>>
    BY DEF CopyBack, marks, history
<1>2. Staff' = Staff /\ Customers' = Customers
    BY <1>1, SameTables
<1>3. /\ sequence' \in [user : 1 .. MaxId + 1, admin : 1 .. MaxId + 1]
      /\ Enforced => \A r \in user \union {AsUser(a) : a \in admins} : r.id < sequence'["user"]
      /\ sequence'["admin"] = sequence["admin"]
    BY <1>1, ResetAhead DEF MoveInv
<1>4. TypeOK' /\ Tables'
    BY <1>1, <1>3 DEF MoveInv, TypeOK, Tables, Distinct
<1>5. Ahead'
    BY <1>1, <1>3 DEF MoveInv, Ahead, Enforced
<1>6. CopyFits'
    <2>1. Enforced => \A a \in admins : a.id < sequence'.user
        <3>1. \A a \in admins : AsUser(a).id = a.id
            BY DEF AsUser
        <3> QED BY <1>3, <3>1
    <2>2. \A a \in admins, r \in user : a.id # r.id /\ a.who # r.who
        BY <1>1 DEF Mergeable, IdsOf, NamesOf
    <2> QED BY <1>1, <2>1, <2>2 DEF MoveInv, CopyFits, Tables, Distinct, Enforced
<1>7. SessionsListed' /\ ActorsListed' /\ KeyHolds' /\ TokensKeepTheirOwner'
    BY <1>1, <1>2 DEF MoveInv, SessionsListed, ActorsListed, Excepted, KeyHolds, HasActorKey, IdsOf,
                      TokensKeepTheirOwner, Enforced
<1> QED BY <1>2, <1>4, <1>5, <1>6, <1>7 DEF MoveInv

\* The drop: the staff is what was copied, and who is not among them although
\* never dismissed was appointed since.
LEMMA DropBackStep == ASSUME RealmAssumption, MoveInv, DropBack
                      PROVE MoveInv' /\ RealmStep
<1>1. /\ merging /\ merging' = FALSE /\ copied' = {} /\ revision' = 8
      /\ user' = user \union {AsUser(a) : a \in copied} /\ admins' = {}
      /\ lost' = lost \union NamesOf(admins \ copied)
      /\ UNCHANGED <<leftover, sequence, tokens, audit, cookies, dismissed>>
    BY DEF DropBack, marks
<1>2. /\ revision = 9 /\ Distinct(copied)
      /\ \A a \in copied, r \in user : a.id # r.id /\ a.who # r.who
      /\ Enforced => \A a \in copied : a.id < sequence.user
    BY <1>1 DEF MoveInv, CopyFits
<1>3. Staff' = copied /\ Customers' = Customers /\ Staff = admins
    BY <1>2, BackBringsCopy, Moved DEF MoveInv
<1>4. \A a \in copied : AsUser(a) \in Users /\ AsUser(a).id = a.id /\ AsUser(a).who = a.who
    BY DEF MoveInv, TypeOK, AsUser, Users, Accounts
<1>5. TypeOK'
    <2>1. NamesOf(admins \ copied) \subseteq People
        BY DEF MoveInv, TypeOK, NamesOf, Accounts
    <2>2. user' \subseteq Users /\ lost' \subseteq People
        BY <1>1, <1>4, <2>1 DEF MoveInv, TypeOK
    <2>3. merging' \in BOOLEAN /\ leftover' \in BOOLEAN
        BY <1>1, Zenon DEF MoveInv, TypeOK
    <2>4. revision' \in 8 .. 10 /\ admins' \subseteq Accounts /\ copied' \subseteq Accounts
        BY <1>1
    <2>5. /\ sequence' \in [user : 1 .. MaxId + 1, admin : 1 .. MaxId + 1]
          /\ tokens' \subseteq Owned /\ audit' \subseteq ActorEntries /\ cookies' \subseteq Accounts
          /\ dismissed' \subseteq People
        BY <1>1 DEF MoveInv, TypeOK
    <2> QED BY <2>2, <2>3, <2>4, <2>5 DEF TypeOK
<1>6. Tables'
    <2>1. \A r, s \in user : r.id = s.id \/ r.who = s.who => r = s
        BY DEF MoveInv, Tables, Distinct
    <2>2. \A a, b \in copied : a.id = b.id \/ a.who = b.who => a = b
        BY <1>2 DEF Distinct
    <2>3. Distinct(user)'
        BY <1>1, <1>2, <1>4, <2>1, <2>2 DEF Distinct
    <2> QED BY <1>1, <2>3 DEF Tables, Distinct
<1>7. Ahead' /\ CopyFits'
    BY <1>1, <1>2, <1>4 DEF MoveInv, Ahead, CopyFits, Enforced
<1>8. \A a \in admins : a \in copied \/ a.who \in Excepted'
    BY <1>1 DEF NamesOf, Excepted
<1>9. SessionsListed' /\ ActorsListed'
    <2>1. Excepted \subseteq Excepted'
        BY <1>1 DEF Excepted
    <2>2. SessionsListed'
        BY <1>1, <1>3, <1>8, <2>1 DEF MoveInv, SessionsListed
    <2>3. ASSUME NEW e \in audit, e.actor # NoActor, e.by \notin Excepted'
          PROVE [id |-> e.actor, who |-> e.by] \in Staff'
        <3>1. [id |-> e.actor, who |-> e.by] \in admins
            BY <1>3, <2>1, <2>3 DEF MoveInv, ActorsListed
        <3> QED BY <1>3, <1>8, <2>3, <3>1
    <2> QED BY <1>1, <2>2, <2>3 DEF ActorsListed, NoActor
<1>10. KeyHolds' /\ TokensKeepTheirOwner'
    BY <1>1, <1>2 DEF MoveInv, KeyHolds, HasActorKey, IdsOf, TokensKeepTheirOwner, Enforced, NoActor
<1>11. RealmStep
    BY <1>1, <1>3 DEF RealmStep, StaleCopyCommits
<1> QED BY <1>5, <1>6, <1>7, <1>9, <1>10, <1>11 DEF MoveInv

\* What changes neither a table nor what was noted.
LEMMA SchemaStep == ASSUME MoveInv, AbortBack \/ StopHalfway \/ DropActorKey \/ RestoreActorKey \/ UNCHANGED moveVars
                    PROVE MoveInv' /\ UNCHANGED <<Customers, Staff>>
<1>1. /\ UNCHANGED <<user, admins, sequence, tokens, audit, cookies, dismissed, lost>>
      /\ revision' \in 8 .. 10 /\ leftover' \in BOOLEAN
      /\ (revision' = 8) <=> (revision = 8)
      /\ merging' \in BOOLEAN /\ copied' \subseteq Accounts
      /\ CopyFits' /\ KeyHolds'
    <2>1. /\ revision \in 8 .. 10 /\ leftover \in BOOLEAN /\ merging \in BOOLEAN /\ copied \subseteq Accounts
          /\ CopyFits /\ KeyHolds
        BY DEF MoveInv, TypeOK
    <2>2. CASE AbortBack
        <3>1. /\ merging' = FALSE /\ copied' = {} /\ leftover' \in BOOLEAN
              /\ UNCHANGED <<revision, user, admins, sequence, marks, history>>
            BY <2>2 DEF AbortBack, Enforced
        <3> QED BY <2>1, <3>1 DEF CopyFits, KeyHolds, HasActorKey, IdsOf, Enforced, marks, history
    <2>3. CASE StopHalfway
        BY <2>1, <2>3 DEF StopHalfway, CopyFits, KeyHolds, HasActorKey, IdsOf, Enforced, Distinct,
                          marks, merge, history
    <2>4. CASE DropActorKey \/ RestoreActorKey
        <3>1. ~merging' /\ KeyHolds'
            BY <2>1, <2>4 DEF MoveInv, DropActorKey, RestoreActorKey, CopyFits, KeyHolds, HasActorKey,
                              IdsOf, Enforced, NoActor, marks, merge
        <3> QED BY <2>1, <2>4, <3>1 DEF DropActorKey, RestoreActorKey, CopyFits, marks, merge, history
    <2>5. CASE UNCHANGED moveVars
        BY <2>1, <2>5 DEF moveVars, CopyFits, KeyHolds, HasActorKey, IdsOf, Enforced, Distinct,
                          marks, merge, history
    <2> QED BY <2>2, <2>3, <2>4, <2>5
<1>2. Staff' = Staff /\ Customers' = Customers
    BY <1>1, SameTables
<1>3. TypeOK'
    BY <1>1 DEF MoveInv, TypeOK
<1>4. Tables' /\ Ahead'
    BY <1>1 DEF MoveInv, Tables, Distinct, Ahead, Enforced
<1>5. SessionsListed' /\ ActorsListed' /\ TokensKeepTheirOwner'
    BY <1>1, <1>2 DEF MoveInv, SessionsListed, ActorsListed, Excepted, TokensKeepTheirOwner, Enforced
<1> QED BY <1>1, <1>2, <1>3, <1>4, <1>5 DEF MoveInv

-----------------------------------------------------------------------------
LEMMA MoveInitInv == ASSUME RealmAssumption, MoveInit PROVE MoveInv /\ Realms!Init
<1>1. TypeOK
    <2>1. user \subseteq Users /\ admins \subseteq Accounts /\ revision \in 8 .. 10 /\ leftover \in BOOLEAN
        <3>1. user \in SUBSET Users /\ admins = {} /\ revision = 8 /\ leftover = FALSE
            BY DEF MoveInit
        <3>2. leftover \in BOOLEAN
            BY <3>1, Zenon
        <3>3. user \subseteq Users /\ admins \subseteq Accounts /\ revision \in 8 .. 10
            BY <3>1
        <3> QED BY <3>2, <3>3
    <2>2. sequence \in [user : 1 .. MaxId + 1, admin : 1 .. MaxId + 1]
        <3>1. 1 \in 1 .. MaxId + 1
            BY DEF RealmAssumption
        <3>2. sequence \in [user : 1 .. MaxId + 1, admin : {1}]
            BY DEF MoveInit
        <3> QED BY <3>1, <3>2
    <2>3. tokens \subseteq Owned
        <3>1. \A r \in user : [user |-> r.id, who |-> r.who] \in Owned
            <4>1. \A r \in user : r.id \in Ids /\ r.who \in People
                BY <2>1 DEF Users
            <4> QED BY <4>1 DEF Owned
        <3>2. \A t \in tokens : \E r \in user : t = [user |-> r.id, who |-> r.who]
            BY DEF MoveInit
        <3> QED BY <3>1, <3>2
    <2>4. audit \subseteq ActorEntries /\ cookies \subseteq Accounts /\ dismissed \subseteq People
        BY DEF MoveInit
    <2>5. merging \in BOOLEAN /\ copied \subseteq Accounts /\ lost \subseteq People
        <3>1. merging = FALSE /\ copied = {} /\ lost = {}
            BY DEF MoveInit
        <3>2. merging \in BOOLEAN
            BY <3>1, Zenon
        <3> QED BY <3>1, <3>2
    <2> QED BY <2>1, <2>2, <2>3, <2>4, <2>5 DEF TypeOK
<1>2. Tables
    BY DEF MoveInit, Tables, Distinct
<1>3. Ahead /\ CopyFits
    BY DEF MoveInit, Ahead, CopyFits
<1>4. SessionsListed /\ ActorsListed
    BY DEF MoveInit, SessionsListed, ActorsListed, Excepted, Enforced
<1>7. KeyHolds
    <2> SUFFICES ASSUME Enforced, NEW e \in audit, e.actor # NoActor
                 PROVE e.actor \in IdsOf(user)
        BY DEF KeyHolds
    <2>1. [id |-> e.actor, who |-> e.by] \in Staff /\ admins = {}
        BY DEF MoveInit
    <2>2. PICK r \in user : [id |-> e.actor, who |-> e.by] = Account(r)
        BY <2>1, StaffDef
    <2>3. e.actor = r.id
        BY <2>2 DEF Account
    <2> QED BY <2>3 DEF IdsOf
<1>5. TokensKeepTheirOwner
    <2>1. \A t \in tokens : \E r \in user : t = [user |-> r.id, who |-> r.who]
        BY DEF MoveInit
    <2> QED BY <2>1 DEF TokensKeepTheirOwner
<1>6. Realms!Init
    BY <1>1, <1>2, RealmsDistinct DEF Realms!Init, Realms!Accounts, Realms!Ids, Realms!Distinct, Accounts, Ids, Distinct
<1> QED BY <1>1, <1>2, <1>3, <1>4, <1>5, <1>6, <1>7 DEF MoveInv

LEMMA NextInv == ASSUME RealmAssumption, MoveInv, [MoveNext]_moveVars
                 PROVE MoveInv' /\ RealmStep
<1>1. ASSUME NEW p \in People, Register(p) \/ Appoint(p)
      PROVE MoveInv' /\ Realms!Next
    BY <1>1, RegisterStep, AppointStep
<1>2. ASSUME NEW r \in user, DeleteUser(r) PROVE MoveInv' /\ Realms!Next
    BY <1>2, DeleteUserStep
<1>3. ASSUME NEW a \in admins, Dismiss(a) PROVE MoveInv' /\ Realms!Next
    BY <1>3, DismissStep
<1>4. CASE Noting
    BY <1>4, NotingStep DEF RealmStep
<1>5. CASE MoveOut \/ CopyBack
    BY <1>5, MoveOutStep, CopyBackStep DEF RealmStep
<1>6. CASE DropBack
    BY <1>6, DropBackStep
<1>7. CASE AbortBack \/ StopHalfway \/ DropActorKey \/ RestoreActorKey \/ UNCHANGED moveVars
    BY <1>7, SchemaStep DEF RealmStep
<1> QED BY <1>1, <1>2, <1>3, <1>4, <1>5, <1>6, <1>7 DEF MoveNext, Noting, RealmStep

LEMMA MoveInvHolds == ASSUME RealmAssumption PROVE MoveSpec => []MoveInv
<1>1. MoveInit => MoveInv
    BY MoveInitInv
<1>2. MoveInv /\ [MoveNext]_moveVars => MoveInv'
    BY NextInv
<1> QED BY <1>1, <1>2, PTL DEF MoveSpec

\* 0009 and 0010, up, down or stopped halfway, and the program between them:
\* customers and administrators change only because somebody joins or leaves,
\* or because a downgrade commits a copy that was overtaken.
THEOREM MigrationsMoveNobody == ASSUME RealmAssumption PROVE MoveSpec => NobodyIsMoved
<1>1. MoveInit => Realms!Init
    BY MoveInitInv
<1>2. MoveInv /\ [MoveNext]_moveVars => [Realms!Next \/ StaleCopyCommits]_<<Customers, Staff>>
    BY NextInv DEF RealmStep
<1> QED BY <1>1, <1>2, MoveInvHolds, PTL DEF MoveSpec, NobodyIsMoved

\* 0009: sessions outlive the move, in both directions, but for those of who
\* was dismissed, or appointed behind the copy of a downgrade.
THEOREM SessionsSurvive == ASSUME RealmAssumption PROVE MoveSpec => []SessionsKeepTheirAdmin
<1>1. MoveInv => SessionsKeepTheirAdmin
    BY RealmsDistinct DEF MoveInv, SessionsListed, Excepted, SessionsKeepTheirAdmin, Distinct
<1> QED BY <1>1, MoveInvHolds, PTL

\* 0010: in the administrators' realm the ids of the audit log mean whom the
\* entries name, and no customer as long as it is part of user; at revision 9
\* the key on user certifies a customer.
THEOREM EntriesSurvive == ASSUME RealmAssumption PROVE MoveSpec => []EntriesKeepTheirActor
<1>1. ASSUME MoveInv, NEW e \in audit, e.actor # NoActor, e.by \notin dismissed \union lost
      PROVE /\ [id |-> e.actor, who |-> e.by] \in Staff
            /\ \A a \in Staff : a.who = e.by <=> a.id = e.actor
            /\ revision = 8 => e.actor \notin IdsOf(Customers)
    <2> DEFINE actor == [id |-> e.actor, who |-> e.by]
    <2>1. actor \in Staff /\ actor.id = e.actor /\ actor.who = e.by
        BY <1>1 DEF MoveInv, ActorsListed, Excepted
    <2>2. \A r \in Staff : r.id = actor.id \/ r.who = actor.who => r = actor
        BY <1>1, <2>1, RealmsDistinct DEF MoveInv, Distinct
    <2>3. ASSUME revision = 8 PROVE e.actor \notin IdsOf(Customers)
        <3>1. PICK r \in user : r.admin /\ actor = Account(r)
            BY <1>1, <2>1, <2>3, StaffDef DEF MoveInv, Tables
        <3>2. r.id = e.actor
            BY <2>1, <3>1 DEF Account
        <3>3. ASSUME NEW c \in Customers, c.id = e.actor PROVE FALSE
            <4>1. PICK t \in user : ~t.admin /\ c = Account(t)
                BY <3>3, CustomersDef
            <4>2. t.id = e.actor
                BY <3>3, <4>1 DEF Account
            <4> QED BY <1>1, <3>1, <3>2, <4>1, <4>2 DEF MoveInv, Tables, Distinct
        <3> QED BY <3>3 DEF IdsOf
    <2> QED BY <2>1, <2>2, <2>3
<1>2. ASSUME MoveInv, NEW e \in audit, e.actor # NoActor, Enforced, revision = 9
      PROVE e.actor \in IdsOf(Customers)
    <2>1. PICK r \in user : r.id = e.actor
        BY <1>2 DEF MoveInv, KeyHolds, HasActorKey, IdsOf
    <2>2. Account(r) \in Customers /\ Account(r).id = e.actor
        BY <1>2, <2>1, Moved DEF MoveInv, Account
    <2> QED BY <2>2 DEF IdsOf
<1>3. MoveInv => EntriesKeepTheirActor
    BY <1>1, <1>2 DEF EntriesKeepTheirActor
<1> QED BY <1>3, MoveInvHolds, PTL

\* 0004 and 0009: with enforced keys no token outlives its customer.
THEOREM TokensSurvive == ASSUME RealmAssumption PROVE MoveSpec => []TokensKeepTheirOwner
<1>1. MoveInv => TokensKeepTheirOwner
    BY DEF MoveInv
<1> QED BY <1>1, MoveInvHolds, PTL
============================================================================
