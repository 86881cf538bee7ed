------------------------------ MODULE AuditLog ------------------------------
(***************************************************************************)
(* The log of the administrators' actions: what the decorator of a write   *)
(* records, what the page /admin/audit-log shows of it, and what the       *)
(* retention task deletes.  Every click on the page runs a handler of its  *)
(* own, and a handler awaits two statements under READ COMMITTED before it *)
(* draws; time is counted in days.                                         *)
(***************************************************************************)
EXTENDS Naturals, FiniteSets, Sequences

CONSTANTS Calls,           \* calls of decorated writes, each made once
          Clicks,          \* handlers of the page, each run once
          Retention,       \* AUDIT_LOG_RETENTION_DAYS
          PageSize,        \* _PAGE_SIZE
          Configured,      \* whether bootstrap_admin wired logger and repository
          MaxDay,          \* bound on the clock
          Blank

AuditAssumption ==
    /\ Retention \in Nat \ {0} /\ PageSize \in Nat \ {0} /\ MaxDay \in Nat
    /\ Configured \in BOOLEAN

Results == {"SUCCESS", "FAILURE"}
Entries == [call : Calls, at : 0 .. MaxDay, result : Results]

\* A call and how its write ended.  closing: the entry is committed, or lost;
\* the session is being closed.
CallStates == [step : {"idle", "running", "cancelled"}, result : {Blank}]
              \union [step : {"logging", "closing", "answered", "cancelled"}, result : Results]
NewCall == [step |-> "idle", result |-> Blank]

\* A filter: the result stands for every field a row is compared with; since
\* and until are the two ends of a half-open interval.
AuditLogFilter == [result : Results \union {Blank}, since : 0 .. MaxDay + 1 \union {Blank},
                   until : 0 .. MaxDay + 1 \union {Blank}]
NoFilter == [result |-> Blank, since |-> Blank, until |-> Blank]

VARIABLES today,
          log,        \* the table admin_audit_log
          call,       \* where a decorated call is, and how its write ended
          cutoff,     \* the cutoff of a running cleanup, or Blank
          inputs,     \* what the filter bar holds
          pageNo, total, \* the state the handlers share
          click,      \* what a handler has read, see NoClick
          shown,      \* the grid and its pagination
          detail,     \* the dialog: an entry, a warning, or Blank
          mixed       \* history: a handler overlapped another one or failed

callVars == <<call, log>>
viewVars == <<inputs, pageNo, total, click, shown, detail, mixed>>
logVars == <<today, cutoff, callVars, viewVars>>

Handler(step, p, f, n, rows) == [step |-> step, page |-> p, filter |-> f, total |-> n, rows |-> rows]
NoClick == Handler("idle", 0, NoFilter, 0, <<>>)
NothingShown == [page |-> 0, label |-> 0, total |-> 0, filter |-> NoFilter, rows |-> <<>>]

InFlight == {k \in Clicks : click[k].step \in {"count", "select", "render"}}

LogInit ==
    /\ today = 0 /\ cutoff = Blank
    /\ log = {} /\ call = [c \in Calls |-> NewCall]
    /\ inputs = NoFilter /\ pageNo = 1 /\ total = 0
    /\ click = [k \in Clicks |-> NoClick]
    /\ shown = NothingShown /\ detail = Blank /\ mixed = FALSE

-----------------------------------------------------------------------------
(* audit_action: the decorator of a write.                                  *)

CallGoes(c, step, result) == call' = [call EXCEPT ![c] = [step |-> step, result |-> result]]

CallWrite(c) ==
    /\ call[c].step = "idle" /\ CallGoes(c, "running", Blank)
    /\ UNCHANGED <<today, cutoff, log, viewVars>>

\* The write returns or raises; a capture hook that fails changes neither.
WriteEnds(c) ==
    /\ call[c].step = "running"
    /\ \E result \in Results : CallGoes(c, "logging", result)
    /\ UNCHANGED <<today, cutoff, log, viewVars>>

\* The commit.  AuditLogger.log never raises, whether or not it could write;
\* without a logger it only warns.
LogEntry(c) ==
    /\ call[c].step = "logging"
    /\ CallGoes(c, "closing", call[c].result)
    /\ \/ Configured /\ log' = log \union {[call |-> c, at |-> today, result |-> call[c].result]}
       \/ UNCHANGED log
    /\ UNCHANGED <<today, cutoff, viewVars>>

\* The session is closed, and the decorator returns or raises again.
Answer(c) ==
    /\ call[c].step = "closing" /\ CallGoes(c, "answered", call[c].result)
    /\ UNCHANGED <<today, cutoff, log, viewVars>>

\* A cancellation is no Exception: it passes the decorator at whatever await it
\* is at, and after the commit it leaves the entry behind.
Cancelled(c) ==
    /\ call[c].step \in {"running", "logging", "closing"}
    /\ CallGoes(c, "cancelled", call[c].result)
    /\ UNCHANGED <<today, cutoff, log, viewVars>>

-----------------------------------------------------------------------------
(* audit_cleanup_task, started by the scheduler or by hand.                 *)

NextDay ==
    /\ today < MaxDay /\ today' = today + 1
    /\ UNCHANGED <<cutoff, callVars, viewVars>>

StartCleanup ==
    /\ cutoff = Blank /\ today >= Retention
    /\ cutoff' = today - Retention
    /\ UNCHANGED <<today, callVars, viewVars>>

Expired(e) == e.at < cutoff

DeleteOlderThan ==
    /\ cutoff # Blank
    /\ log' = {e \in log : ~Expired(e)}
    /\ cutoff' = Blank
    /\ UNCHANGED <<today, call, viewVars>>

CleanupFails ==
    /\ cutoff # Blank /\ cutoff' = Blank
    /\ UNCHANGED <<today, callVars, viewVars>>

-----------------------------------------------------------------------------
(* AdminAuditLogRepository: the queries of the page.                        *)

Matches(f, e) ==
    /\ f.result # Blank => e.result = f.result
    /\ f.since # Blank => e.at >= f.since
    /\ f.until # Blank => e.at < f.until

ApplyFilter(f) == {e \in log : Matches(f, e)}

\* The newest first; rows of one time come in any order.
Listings(rows) ==
    LET n == Cardinality(rows)
    IN  {s \in [1 .. n -> rows] : \A i, j \in 1 .. n : i < j => s[i] # s[j] /\ s[i].at >= s[j].at}

Lesser(a, b) == IF a < b THEN a ELSE b
Slice(s, p) == SubSeq(s, (p - 1) * PageSize + 1, Lesser(p * PageSize, Len(s)))

-----------------------------------------------------------------------------
(* The page.  A click changes the page number at once, and reads and draws  *)
(* afterwards.                                                              *)

EditFilter ==
    /\ inputs' \in AuditLogFilter
    /\ UNCHANGED <<today, cutoff, callVars, pageNo, total, click, shown, detail, mixed>>

\* _refresh, up to its first await.  Without a repository it raises.
Refresh(k, p) ==
    /\ click[k].step = "idle"
    /\ pageNo' = p
    /\ mixed' = (InFlight # {} \/ ~Configured)
    /\ click' = [click EXCEPT ![k] =
                    Handler(IF Configured THEN "count" ELSE "failed", p, inputs, 0, <<>>)]
    /\ UNCHANGED <<today, cutoff, callVars, inputs, total, shown, detail>>

MaxPage == LET pages == (total + PageSize - 1) \div PageSize
           IN  IF pages < 1 THEN 1 ELSE pages

Apply(k) == Refresh(k, 1)
GoPrev(k) == pageNo > 1 /\ Refresh(k, pageNo - 1)
GoNext(k) == pageNo < MaxPage /\ Refresh(k, pageNo + 1)

\* A handler goes on with what it knows so far.
Goes(k, step, n, rows) ==
    click' = [click EXCEPT ![k] = Handler(step, click[k].page, click[k].filter, n, rows)]

CountRows(k) ==
    /\ click[k].step = "count"
    /\ Goes(k, "select", Cardinality(ApplyFilter(click[k].filter)), <<>>)
    /\ UNCHANGED <<today, cutoff, callVars, inputs, pageNo, total, shown, detail, mixed>>

SelectRows(k) ==
    /\ click[k].step = "select"
    /\ \E s \in Listings(ApplyFilter(click[k].filter)) :
           Goes(k, "render", click[k].total, Slice(s, click[k].page))
    /\ UNCHANGED <<today, cutoff, callVars, inputs, pageNo, total, shown, detail, mixed>>

\* The grid gets the rows, the pagination whatever page number is there by now.
ShowRows(k) ==
    /\ click[k].step = "render"
    /\ total' = click[k].total
    /\ shown' = [page |-> click[k].page, label |-> pageNo, total |-> click[k].total,
                 filter |-> click[k].filter, rows |-> click[k].rows]
    /\ Goes(k, "done", click[k].total, click[k].rows)
    /\ UNCHANGED <<today, cutoff, callVars, inputs, pageNo, detail, mixed>>

\* The database fails: the old rows stay, the page number has moved.
RefreshFails(k) ==
    /\ click[k].step \in {"count", "select"}
    /\ Goes(k, "failed", click[k].total, click[k].rows)
    /\ mixed' = TRUE
    /\ UNCHANGED <<today, cutoff, callVars, inputs, pageNo, total, shown, detail>>

\* A click on a row asks for the whole entry, which may be gone by now.
GetById(e) == IF e \in log THEN e ELSE "not_found"

ShowDetail ==
    /\ \E i \in DOMAIN shown.rows : detail' = GetById(shown.rows[i])
    /\ UNCHANGED <<today, cutoff, callVars, inputs, pageNo, total, click, shown, mixed>>

-----------------------------------------------------------------------------
LogNext ==
    \/ \E c \in Calls : CallWrite(c) \/ WriteEnds(c) \/ LogEntry(c) \/ Answer(c) \/ Cancelled(c)
    \/ NextDay \/ StartCleanup \/ DeleteOlderThan \/ CleanupFails
    \/ EditFilter \/ ShowDetail
    \/ \E k \in Clicks :
           \/ Apply(k) \/ GoPrev(k) \/ GoNext(k)
           \/ CountRows(k) \/ SelectRows(k) \/ ShowRows(k) \/ RefreshFails(k)

LogSpec == LogInit /\ [][LogNext]_logVars

-----------------------------------------------------------------------------
\* Type invariant.
AuditTypeOK ==
    /\ today \in 0 .. MaxDay
    /\ log \subseteq Entries
    /\ call \in [Calls -> CallStates]
    /\ cutoff \in 0 .. MaxDay \union {Blank}
    /\ inputs \in AuditLogFilter
    /\ pageNo \in Nat \ {0} /\ total \in Nat
    /\ DOMAIN click = Clicks
    /\ \A k \in Clicks : click[k].step \in {"idle", "count", "select", "render", "done", "failed"}
    /\ mixed \in BOOLEAN

\* The log is append-only until an entry is older than the retention: "a bogus
\* env can't silently wipe history" (config.py), and a cleanup that waits for
\* the database deletes by the day it was started on.
OnlyOldEntriesGo ==
    [][\A e \in log \ log' : e.at + Retention < today]_logVars

\* What an entry says of a call is how its write ended, and with it the answer,
\* if the call got to answer: a write that returned is no FAILURE and one that
\* raised no SUCCESS.  A call that was cancelled while its write ran claims
\* nothing; one that was cancelled at the close of the session has its entry
\* all the same.  No call has two.
EntriesMatchAnswers ==
    \A e \in log :
        /\ call[e.call].step \in {"closing", "answered", "cancelled"}
        /\ call[e.call].result = e.result
        /\ \A d \in log : d.call = e.call => d = e

\* Once the page has come to rest, the rows under its label are those of the
\* page it names, unless two handlers overlapped or one failed since.  The
\* label is the shared page number when the last handler draws, not the one
\* its rows were read for.
RowsMatchLabel ==
    InFlight = {} /\ ~mixed /\ shown # NothingShown =>
        shown.page = pageNo /\ shown.label = pageNo /\ shown.total = total
=============================================================================
