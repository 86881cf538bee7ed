------------------------------ MODULE TaskAlerts ------------------------------
(***************************************************************************)
(* The middlewares of a background task and the error notifier they share   *)
(* with the HTTP exception handlers.  When a task fails, the notification    *)
(* middleware decides whether this failure is the last one and alerts, and   *)
(* then the retry middleware decides whether to send the message again: two  *)
(* decisions, in two classes, that have to agree.  The notifier keeps quiet  *)
(* about what it has alerted for a while; each process has its own memory.   *)
(***************************************************************************)
EXTENDS Naturals, FiniteSets

CONSTANTS
    Procs,        \* processes that execute tasks
    Lanes,        \* tasks a process executes at the same time
    Tasks,        \* messages, each sent once by a request
    Names,        \* task names
    Errors,       \* what may go wrong: records of a kind, a code and a tier
    Cancelled,    \* the error of a task that is cancelled
    None,
    MaxAttempts,  \* default_retry_count
    MaxCrashes    \* bound: processes that die

Kinds == {"permanent", "transient", "cancelled", "noresult"}

\* Where a status code lies between the thresholds of the notifier.
Tiers == {"below", "warning", "critical"}

ASSUME AttemptsAssumption == MaxAttempts \in Nat \ {0} /\ MaxCrashes \in Nat
ASSUME FiniteAssumption == IsFiniteSet(Procs) /\ IsFiniteSet(Lanes)
ASSUME ErrorsAssumption ==
    /\ \A e \in Errors : e.kind \in Kinds \ {"cancelled"} /\ e.tier \in Tiers
    /\ Cancelled.kind = "cancelled" /\ Cancelled.tier = "critical"
    /\ None \notin Names

VARIABLES
    routing,    \* a warning threshold is configured, and so a router
    inline,     \* BROKER_TYPE=inmemory: a process executes what it sends
    queue,      \* number of copies of each message that wait
    name,       \* [Tasks -> task name, or None before it is sent]
    pc,         \* step of an execution
    msg,        \* message it executes
    label,      \* its _retries label, shared by the middlewares
    err,        \* what it raised
    quiet,      \* keys in their cooldown, per process
    crashes,
    ended,      \* history: how a task ended
    window,     \* history: what was alerted within the cooldown, per process
    answered,   \* history: executions whose error is in the window
    alerted,    \* history: tasks whose failure was alerted
    redone      \* history: tasks an execution of which died with its process

settings == <<routing, inline>>
procVars == <<pc, msg, label, err>>
noteVars == <<quiet, window>>
histVars == <<crashes, ended, answered, alerted, redone>>
vars == <<settings, queue, name, procVars, noteVars, histVars>>

Slots == Procs \X Lanes
AnyProc == "any"
Messages ==
    [task : Tasks, attempt : 0 .. MaxAttempts - 1, at : Procs \cup {AnyProc}]

\* Alerts of the HTTP handlers carry the bare error code.
Http == "http"
Codes == {e.code : e \in Errors \cup {Cancelled}}
Incidents == [name : Names \cup {Http}, code : Codes, tier : Tiers]
Incident(n, e) == [name |-> n, code |-> e.code, tier |-> e.tier]

Init ==
    /\ routing \in BOOLEAN
    /\ inline \in BOOLEAN
    /\ queue = [m \in Messages |-> 0]
    /\ name = [t \in Tasks |-> None]
    /\ pc = [s \in Slots |-> "idle"]
    /\ msg = [s \in Slots |-> None]
    /\ label = [s \in Slots |-> 0]
    /\ err = [s \in Slots |-> None]
    /\ quiet = [p \in Procs |-> {}]
    /\ crashes = 0
    /\ ended = [t \in Tasks |-> "no"]
    /\ window = [p \in Procs |-> {}]
    /\ answered = [s \in Slots |-> FALSE]
    /\ alerted = {}
    /\ redone = {}

-----------------------------------------------------------------------------
(* ErrorNotifier and NotificationRouter.                                     *)

KeyBare(i) == <<i.code>>  \* mutant: the key of a task is its error code alone

KeyUntiered(i) ==  \* mutant: the tiers share a key when they are routed apart
    <<i.name, i.code>>

\* _cooldown_key, with the task's name the middleware puts before the code.
Key(i) == IF routing THEN <<i.tier, i.name, i.code>> ELSE <<i.name, i.code>>

\* _effective_min_threshold
Qualifies(i) == i.tier = "critical" \/ (routing /\ i.tier = "warning")

Passes(p, i) == Qualifies(i) /\ Key(i) \notin quiet[p]

\* maybe_dispatch: the cooldown starts with the decision, and the alert is
\* sent in the background, whatever becomes of it.
MaybeDispatch(p, i) ==
    IF Passes(p, i)
    THEN /\ quiet' = [quiet EXCEPT ![p] = @ \cup {Key(i)}]
         /\ window' = [window EXCEPT ![p] = @ \cup {i}]
    ELSE UNCHANGED noteVars

\* cooldown_seconds have passed since the last alert of a key.
Elapse(p, k) ==
    /\ k \in quiet[p]
    /\ quiet' = [quiet EXCEPT ![p] = @ \ {k}]
    /\ window' = [window EXCEPT ![p] = {i \in @ : Key(i) # k}]
    /\ UNCHANGED <<settings, queue, name, procVars, histVars>>

\* An exception handler of the server reports an error; the notifier is that
\* of the tasks when the broker is inline.
HttpError(p, e) ==
    /\ inline
    /\ MaybeDispatch(p, Incident(Http, e))
    /\ UNCHANGED <<settings, queue, name, procVars, histVars>>

-----------------------------------------------------------------------------
Goto(s, step) == pc' = [pc EXCEPT ![s] = step]

Message(t, k, p) ==
    [task |-> t, attempt |-> k, at |-> IF inline THEN p ELSE AnyProc]

Sent(m) == queue' = [queue EXCEPT ![m] = @ + 1]

\* kiq, from a request that p serves.
Send(t, n, p) ==
    /\ name[t] = None
    /\ name' = [name EXCEPT ![t] = n]
    /\ Sent(Message(t, 0, p))
    /\ UNCHANGED <<settings, procVars, noteVars, histVars>>

Execute(s, m) ==
    /\ pc[s] = "idle" /\ queue[m] > 0 /\ m.at \in {s[1], AnyProc}
    /\ queue' = [queue EXCEPT ![m] = @ - 1]
    /\ Goto(s, "run")
    /\ msg' = [msg EXCEPT ![s] = m]
    /\ label' = [label EXCEPT ![s] = m.attempt]
    /\ UNCHANGED <<settings, name, err, noteVars, histVars>>

\* The receiver acknowledges the message of an execution that is over.
Release(s) ==
    /\ Goto(s, "idle")
    /\ msg' = [msg EXCEPT ![s] = None]
    /\ label' = [label EXCEPT ![s] = 0]
    /\ err' = [err EXCEPT ![s] = None]
    /\ answered' = [answered EXCEPT ![s] = FALSE]

End(s, how) == ended' = [ended EXCEPT ![msg[s].task] = how]

Succeed(s) ==
    /\ pc[s] = "run"
    /\ Release(s)
    /\ End(s, "ok")
    /\ UNCHANGED <<settings, queue, name, noteVars, crashes, alerted, redone>>

\* The receiver catches BaseException and runs on_error of the middlewares,
\* the last registered first: the notification, the log, the retry.
Raise(s, e) ==
    /\ pc[s] = "run"
    /\ err' = [err EXCEPT ![s] = e]
    /\ Goto(s, "notify")
    /\ UNCHANGED <<settings, queue, name, msg, label, noteVars, histVars>>

-----------------------------------------------------------------------------
(* TaskFailureNotificationMiddleware.                                        *)

\* Mutant: registered before the retry middleware, it runs after it and
\* reads the counter that was incremented.
AttemptBumped(s) == label[s] + 2

Attempt(s) == label[s] + 1

\* _is_terminal_failure
IsTerminal(s) ==
    /\ err[s].kind # "noresult"
    /\ err[s].kind = "permanent" \/ Attempt(s) >= MaxAttempts

IncidentOf(s) == Incident(name[msg[s].task], err[s])

Notify(s) ==
    LET p == s[1] IN
    /\ pc[s] = "notify"
    /\ IF IsTerminal(s)
       THEN /\ MaybeDispatch(p, IncidentOf(s))
            /\ alerted' = IF Passes(p, IncidentOf(s))
                          THEN alerted \cup {msg[s].task} ELSE alerted
            /\ answered' = [answered EXCEPT ![s] = IncidentOf(s) \in window'[p]]
       ELSE UNCHANGED <<noteVars, alerted, answered>>
    /\ Goto(s, "retry")
    /\ UNCHANGED <<settings, queue, name, msg, label, err>>
    /\ UNCHANGED <<crashes, ended, redone>>

-----------------------------------------------------------------------------
(* PermanentAwareSmartRetryMiddleware, and the library's below it.           *)

WillRetry(s) ==
    /\ err[s].kind = "transient"
    /\ label[s] + 1 < MaxAttempts

\* The counter is incremented in the labels of the message itself.
Retry(s) ==
    /\ pc[s] = "retry"
    /\ Goto(s, IF WillRetry(s) THEN "resend" ELSE "ack")
    /\ label' = IF err[s].kind = "transient"
                THEN [label EXCEPT ![s] = @ + 1] ELSE label
    /\ UNCHANGED <<settings, queue, name, msg, err, noteVars, histVars>>

ResendOriginal(s) ==  \* mutant: the message keeps the attempt it had
    /\ pc[s] = "resend"
    /\ Sent(msg[s])
    /\ Goto(s, "resent")
    /\ UNCHANGED <<settings, name, msg, label, err, noteVars, histVars>>

\* on_send; an inline broker sleeps the announced delay first.
Resend(s) ==
    /\ pc[s] = "resend"
    /\ Sent(Message(msg[s].task, label[s], s[1]))
    /\ Goto(s, "resent")
    /\ UNCHANGED <<settings, name, msg, label, err, noteVars, histVars>>

Ack(s) ==
    /\ pc[s] \in {"ack", "resent"}
    /\ Release(s)
    /\ IF pc[s] = "ack" THEN End(s, "failed") ELSE UNCHANGED ended
    /\ UNCHANGED <<settings, queue, name, noteVars, crashes, alerted, redone>>

-----------------------------------------------------------------------------
\* The loop of an inline broker shuts down while a retry sleeps its delay.
CancelDelay(s) ==
    /\ inline /\ pc[s] = "resend"
    /\ Release(s)
    /\ End(s, "lost")
    /\ UNCHANGED <<settings, queue, name, noteVars, crashes, alerted, redone>>

\* A process dies.  A broker of its own delivers again what was not
\* acknowledged, with the labels it was sent with; an inline one is gone.
Crash(p) ==
    LET dead == {s \in Slots : s[1] = p /\ pc[s] # "idle"}
        gone == {m.task : m \in {n \in Messages : n.at = p /\ queue[n] > 0}}
                    \cup {msg[s].task : s \in dead}
    IN
    /\ crashes < MaxCrashes
    /\ crashes' = crashes + 1
    /\ quiet' = [quiet EXCEPT ![p] = {}]
    /\ window' = [window EXCEPT ![p] = {}]
    /\ queue' = [m \in Messages |->
           IF m.at = p THEN 0
           ELSE queue[m] + Cardinality({s \in dead : msg[s] = m})]
    /\ ended' = [t \in Tasks |->
           IF inline /\ t \in gone THEN "lost" ELSE ended[t]]
    /\ redone' = redone \cup {msg[s].task : s \in dead}
    /\ pc' = [s \in Slots |-> IF s \in dead THEN "idle" ELSE pc[s]]
    /\ msg' = [s \in Slots |-> IF s \in dead THEN None ELSE msg[s]]
    /\ label' = [s \in Slots |-> IF s \in dead THEN 0 ELSE label[s]]
    /\ err' = [s \in Slots |-> IF s \in dead THEN None ELSE err[s]]
    /\ answered' = [s \in Slots |-> s \notin dead /\ answered[s]]
    /\ UNCHANGED <<settings, name, alerted>>

-----------------------------------------------------------------------------
OnError(s) == Notify(s) \/ Retry(s) \/ Resend(s) \/ Ack(s)

Step(s) ==
    \/ \E m \in Messages : Execute(s, m)
    \/ Succeed(s)
    \/ \E e \in Errors : Raise(s, e)
    \/ OnError(s)

Next ==
    \/ \E t \in Tasks, n \in Names, p \in Procs : Send(t, n, p)
    \/ \E s \in Slots : Step(s) \/ Raise(s, Cancelled) \/ CancelDelay(s)
    \/ \E p \in Procs :
           \/ \E k \in quiet[p] : Elapse(p, k)
           \/ \E e \in Errors : HttpError(p, e)
           \/ Crash(p)

Spec == Init /\ [][Next]_vars

\* A process that lives takes the messages that wait for it, task functions
\* return or raise, and the loop goes on with their middlewares.
FairSpec == Spec /\ \A s \in Slots : WF_vars(Step(s))

-----------------------------------------------------------------------------
\* Type invariant.
AlertsTypeOK ==
    /\ routing \in BOOLEAN /\ inline \in BOOLEAN
    /\ queue \in [Messages -> Nat]
    /\ name \in [Tasks -> Names \cup {None}]
    /\ pc \in [Slots -> {"idle", "run", "notify", "retry", "resend", "resent",
                          "ack"}]
    /\ msg \in [Slots -> Messages \cup {None}]
    /\ label \in [Slots -> 0 .. MaxAttempts]
    /\ err \in [Slots -> Errors \cup {Cancelled, None}]
    /\ quiet \in [Procs -> SUBSET {Key(i) : i \in Incidents}]
    /\ crashes \in 0 .. MaxCrashes
    /\ ended \in [Tasks -> {"no", "ok", "failed", "lost"}]
    /\ window \in [Procs -> SUBSET Incidents]
    /\ answered \in [Slots -> BOOLEAN]
    /\ alerted \subseteq Tasks /\ redone \subseteq Tasks

\* A failure that is alerted is over: "retryable ones alert only once the
\* last attempt has failed" (TaskFailureNotificationMiddleware).  The message
\* is never tried again, by any process, unless a worker died with it.
AlertedIsOver ==
    \A t \in alerted \ redone :
        /\ \A m \in Messages : m.task = t => queue[m] = 0
        /\ \A s \in Slots : pc[s] # "idle" /\ msg[s].task = t =>
               pc[s] \in {"retry", "ack", "resent"}

\* No failure is given up in silence: when the retry middleware does not send
\* the message again, the process has alerted this very failure, of the same
\* task, code and tier, just now or within the cooldown: neither the two
\* counts of the attempts nor another task's alert or a lower tier's can hide
\* it.  A cancellation is not retried and, before the last attempt, not alerted.
NoSilentFailure ==
    \A s \in Slots :
        /\ pc[s] = "ack"
        /\ err[s].kind \in {"permanent", "transient"}
        /\ Qualifies(IncidentOf(s))
        => answered[s]

\* The retries that are announced are made, and not for ever: a task that was
\* sent succeeds, fails for good, or goes down with an inline broker.
TaskEnds == \A t \in Tasks : name[t] # None ~> ended[t] # "no"

=============================================================================
