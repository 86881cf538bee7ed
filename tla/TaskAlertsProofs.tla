--------------------------- MODULE TaskAlertsProofs ---------------------------
(***************************************************************************)
(* Theorems about TaskAlerts, for any number of processes, lanes, tasks and  *)
(* attempts, with a router or without, over either broker.                   *)
(***************************************************************************)
EXTENDS TaskAlerts, FiniteSetTheorems, TLAPS

\* An execution has a message that was sent, and an attempt left to make
\* until the retry middleware has counted it.
Executing ==
    \A s \in Slots : pc[s] # "idle" =>
        /\ msg[s] \in Messages
        /\ name[msg[s].task] \in Names
        /\ pc[s] \in {"run", "notify", "retry", "resend"} => label[s] < MaxAttempts

\* What is handled was raised.
Handling ==
    \A s \in Slots : pc[s] \notin {"idle", "run"} => err[s] \in Errors \cup {Cancelled}

Waiting == \A m \in Messages : queue[m] > 0 => name[m.task] \in Names

\* A key that is quiet stands for one incident above the threshold, which was
\* alerted: nothing else is muted by it.
QuietMeansAlerted ==
    \A p \in Procs, i \in Incidents :
        Qualifies(i) /\ Key(i) \in quiet[p] => i \in window[p]

\* What the notification middleware leaves to the retry middleware.
Notified ==
    \A s \in Slots :
        pc[s] = "retry" /\ IsTerminal(s) /\ Qualifies(IncidentOf(s)) => answered[s]

TypeInv == AlertsTypeOK /\ Executing /\ Handling /\ Waiting

Inv == TypeInv /\ QuietMeansAlerted /\ Notified /\ NoSilentFailure

-----------------------------------------------------------------------------
\* An error has the fields its incident is made of.
LEMMA ErrorFields ==
    ASSUME NEW e \in Errors \cup {Cancelled}
    PROVE  e.tier \in Tiers /\ e.code \in Codes
BY ErrorsAssumption DEF Codes, Kinds, Tiers

LEMMA IncidentType ==
    ASSUME NEW n \in Names \cup {Http}, NEW e \in Errors \cup {Cancelled}
    PROVE  Incident(n, e) \in Incidents
BY ErrorFields DEF Incident, Incidents

\* Messages that p sends.
LEMMA MessageType ==
    ASSUME NEW t \in Tasks, NEW p \in Procs, NEW k \in 0 .. MaxAttempts - 1
    PROVE  Message(t, k, p) \in Messages /\ Message(t, k, p).task = t
BY DEF Message, Messages

\* Two incidents above the threshold that share a key are the same.
LEMMA KeyInjective ==
    ASSUME NEW i \in Incidents, NEW j \in Incidents,
           Qualifies(i), Qualifies(j), Key(i) = Key(j)
    PROVE  i = j
<1>1. i.name = j.name /\ i.code = j.code
  BY DEF Key
<1>2. i.tier = j.tier
  <2>1. CASE routing
    BY <2>1 DEF Key
  <2>2. CASE ~routing
    BY <2>2 DEF Qualifies
  <2> QED BY <2>1, <2>2
<1> QED BY <1>1, <1>2 DEF Incidents

\* The notifier keeps its table and the history of its alerts in step, and an
\* incident above the threshold is in the history when it returns.
LEMMA Dispatched ==
    ASSUME AlertsTypeOK, QuietMeansAlerted, UNCHANGED settings,
           NEW p \in Procs, NEW i \in Incidents, MaybeDispatch(p, i)
    PROVE  /\ quiet' \in [Procs -> SUBSET {Key(j)' : j \in Incidents}]
           /\ window' \in [Procs -> SUBSET Incidents]
           /\ QuietMeansAlerted'
           /\ Qualifies(i) => i \in window'[p]
<1> USE DEF settings
<1>1. \A j \in Incidents : Key(j)' = Key(j) /\ Qualifies(j)' = Qualifies(j)
  BY DEF Key, Qualifies
<1>2. CASE Passes(p, i)
  <2>1. /\ quiet' = [quiet EXCEPT ![p] = @ \cup {Key(i)}]
        /\ window' = [window EXCEPT ![p] = @ \cup {i}]
    BY <1>2 DEF MaybeDispatch
  <2>2. Qualifies(i)
    BY <1>2 DEF Passes
  <2>3. QuietMeansAlerted'
    <3> SUFFICES ASSUME NEW q \in Procs, NEW j \in Incidents,
                        Qualifies(j), Key(j) \in quiet'[q]
                 PROVE  j \in window'[q]
      BY <1>1 DEF QuietMeansAlerted
    <3>1. CASE Key(j) \in quiet[q]
      BY <3>1, <2>1 DEF QuietMeansAlerted, AlertsTypeOK
    <3>2. CASE q = p /\ Key(j) = Key(i)
      BY <3>2, <2>1, <2>2, KeyInjective DEF AlertsTypeOK
    <3> QED BY <3>1, <3>2, <2>1 DEF AlertsTypeOK
  <2> QED BY <2>1, <2>3, <1>1 DEF AlertsTypeOK
<1>3. CASE ~Passes(p, i)
  <2>1. UNCHANGED <<quiet, window>>
    BY <1>3 DEF MaybeDispatch, noteVars
  <2>2. Qualifies(i) => i \in window[p]
    BY <1>3 DEF Passes, QuietMeansAlerted
  <2> QED BY <2>1, <2>2, <1>1 DEF AlertsTypeOK, QuietMeansAlerted
<1> QED BY <1>2, <1>3

-----------------------------------------------------------------------------
(* Type correctness.                                                         *)

LEMMA InitType == Init => TypeInv
BY AttemptsAssumption
DEF Init, TypeInv, AlertsTypeOK, Executing, Handling, Waiting

\* The keys of the table mean the same after a step: the settings are fixed.
LEMMA SameKeys ==
    ASSUME UNCHANGED settings
    PROVE  /\ \A i \in Incidents : Key(i)' = Key(i) /\ Qualifies(i)' = Qualifies(i)
           /\ {Key(i) : i \in Incidents}' = {Key(i) : i \in Incidents}
BY DEF settings, Key, Qualifies

LEMMA TypeStep == TypeInv /\ [Next]_vars => TypeInv'
<1> SUFFICES ASSUME TypeInv, [Next]_vars PROVE TypeInv'
  OBVIOUS
<1> USE AttemptsAssumption DEF TypeInv, AlertsTypeOK, Executing, Handling, Waiting
<1>1. ASSUME NEW t \in Tasks, NEW n \in Names, NEW p \in Procs, Send(t, n, p)
      PROVE  TypeInv'
  <2>1. 0 \in 0 .. MaxAttempts - 1
    OBVIOUS
  <2>2. Message(t, 0, p) \in Messages /\ Message(t, 0, p).task = t
    BY <2>1, MessageType
  <2>3. UNCHANGED settings /\ UNCHANGED <<procVars, noteVars, histVars>>
    BY <1>1 DEF Send
  <2>4. /\ name' = [name EXCEPT ![t] = n]
        /\ queue' = [queue EXCEPT ![Message(t, 0, p)] = @ + 1]
    BY <1>1 DEF Send, Sent
  <2>5. \A u \in Tasks : name[u] \in Names => name'[u] \in Names
    BY <2>4
  <2>6. \A m \in Messages : m.task \in Tasks
    BY DEF Messages
  <2>7. AlertsTypeOK'
    BY <2>2, <2>3, <2>4, SameKeys DEF settings, procVars, noteVars, histVars
  <2>8. Waiting'
    BY <2>2, <2>4, <2>5, <2>6
  <2>9. Executing' /\ Handling'
    BY <2>3, <2>5, <2>6 DEF procVars
  <2> QED BY <2>7, <2>8, <2>9
<1>2. ASSUME NEW s \in Slots, NEW m \in Messages, Execute(s, m) PROVE TypeInv'
  <2>1. UNCHANGED settings /\ UNCHANGED <<name, err, noteVars, histVars>>
    BY <1>2 DEF Execute
  <2>2. m.attempt \in 0 .. MaxAttempts - 1
    BY DEF Messages
  <2>3. AlertsTypeOK'
    BY <1>2, <2>1, <2>2, SameKeys DEF Execute, Goto, settings, noteVars, histVars
  <2>4. Waiting'
    BY <1>2, <2>1 DEF Execute
  <2>5. Executing' /\ Handling'
    BY <1>2, <2>1, <2>2 DEF Execute, Goto
  <2> QED BY <2>3, <2>4, <2>5
<1>3. ASSUME NEW s \in Slots, Release(s), pc[s] # "idle",
             NEW how \in {"ok", "failed", "lost"}, End(s, how) \/ UNCHANGED ended,
             UNCHANGED <<settings, queue, name, noteVars, crashes, alerted, redone>>
      PROVE  TypeInv'
  <2>1. UNCHANGED settings
    BY <1>3
  <2>2. ended' \in [Tasks -> {"no", "ok", "failed", "lost"}]
    BY <1>3 DEF End
  <2>3. AlertsTypeOK'
    BY <1>3, <2>1, <2>2, SameKeys DEF Release, Goto, settings, noteVars
  <2>4. Waiting' /\ Executing' /\ Handling'
    BY <1>3 DEF Release, Goto
  <2> QED BY <2>3, <2>4
<1>4. ASSUME NEW s \in Slots, NEW e \in Errors \cup {Cancelled}, Raise(s, e)
      PROVE  TypeInv'
  <2>1. UNCHANGED settings
    BY <1>4 DEF Raise
  <2>2. AlertsTypeOK'
    BY <1>4, <2>1, SameKeys DEF Raise, Goto, settings, noteVars, histVars
  <2>3. Waiting' /\ Executing' /\ Handling'
    BY <1>4 DEF Raise, Goto
  <2> QED BY <2>2, <2>3
<1>5. ASSUME NEW s \in Slots, Notify(s) PROVE TypeInv'
  <2>1. UNCHANGED <<settings, queue, name, msg, label, err, crashes, ended, redone>>
    BY <1>5 DEF Notify
  <2>2. UNCHANGED settings
    BY <2>1
  <2>3. /\ alerted' \subseteq Tasks
        /\ answered' \in [Slots -> BOOLEAN]
    <3>1. msg[s].task \in Tasks
      BY <1>5 DEF Notify, Messages
    <3>2. CASE IsTerminal(s)
      <4>1. alerted' = alerted \cup {msg[s].task} \/ alerted' = alerted
        BY <1>5, <3>2 DEF Notify
      <4>2. answered' = [answered EXCEPT ![s] = IncidentOf(s) \in window'[s[1]]]
        BY <1>5, <3>2 DEF Notify
      <4> QED BY <3>1, <4>1, <4>2
    <3>3. CASE ~IsTerminal(s)
      BY <1>5, <3>3 DEF Notify
    <3> QED BY <3>2, <3>3
  <2>4. /\ quiet' \in [Procs -> SUBSET {Key(j) : j \in Incidents}]
        /\ window' \in [Procs -> SUBSET Incidents]
    <3>1. s[1] \in Procs /\ IncidentOf(s) \in Incidents
      BY <1>5, IncidentType DEF Notify, Slots, IncidentOf
    <3>2. CASE IsTerminal(s)
      BY <1>5, <3>1, <3>2 DEF Notify, MaybeDispatch, noteVars
    <3>3. CASE ~IsTerminal(s)
      BY <1>5, <3>3 DEF Notify, noteVars
    <3> QED BY <3>2, <3>3
  <2>5. AlertsTypeOK'
    BY <1>5, <2>1, <2>2, <2>3, <2>4, SameKeys DEF Notify, Goto, settings
  <2>6. Waiting' /\ Executing' /\ Handling'
    BY <1>5, <2>1 DEF Notify, Goto
  <2> QED BY <2>5, <2>6
<1>6. ASSUME NEW s \in Slots, Retry(s) PROVE TypeInv'
  <2>1. UNCHANGED settings /\ UNCHANGED <<queue, name, msg, err, noteVars, histVars>>
    BY <1>6 DEF Retry
  <2>2. label[s] < MaxAttempts
    BY <1>6 DEF Retry
  <2>3. AlertsTypeOK'
    BY <1>6, <2>1, <2>2, SameKeys DEF Retry, Goto, settings, noteVars, histVars
  <2>4. WillRetry(s) => err[s].kind = "transient" /\ label[s] + 1 < MaxAttempts
    BY DEF WillRetry
  <2>5. Waiting' /\ Executing' /\ Handling'
    BY <1>6, <2>1, <2>2, <2>4 DEF Retry, Goto
  <2> QED BY <2>3, <2>5
<1>7. ASSUME NEW s \in Slots, Resend(s) PROVE TypeInv'
  <2>1. /\ UNCHANGED settings
        /\ UNCHANGED <<name, msg, label, err, noteVars, histVars>>
        /\ pc[s] = "resend"
    BY <1>7 DEF Resend
  <2>2. /\ msg[s].task \in Tasks /\ s[1] \in Procs
        /\ label[s] \in 0 .. MaxAttempts - 1
    BY <2>1 DEF Messages, Slots
  <2>3. /\ Message(msg[s].task, label[s], s[1]) \in Messages
        /\ Message(msg[s].task, label[s], s[1]).task = msg[s].task
    BY <2>2, MessageType
  <2>4. queue' = [queue EXCEPT ![Message(msg[s].task, label[s], s[1])] = @ + 1]
    BY <1>7 DEF Resend, Sent
  <2>5. AlertsTypeOK'
    BY <1>7, <2>1, <2>3, <2>4, SameKeys DEF Resend, Goto, settings, noteVars, histVars
  <2>6. Waiting'
    BY <2>1, <2>3, <2>4
  <2>7. Executing' /\ Handling'
    BY <1>7, <2>1 DEF Resend, Goto
  <2> QED BY <2>5, <2>6, <2>7
<1>8. ASSUME NEW p \in Procs, NEW k \in quiet[p], Elapse(p, k) PROVE TypeInv'
  <2>1. UNCHANGED settings /\ UNCHANGED <<queue, name, procVars, histVars>>
    BY <1>8 DEF Elapse
  <2>2. AlertsTypeOK'
    BY <1>8, <2>1, SameKeys DEF Elapse, settings, procVars, histVars
  <2>3. Waiting' /\ Executing' /\ Handling'
    BY <2>1 DEF procVars
  <2> QED BY <2>2, <2>3
<1>9. ASSUME NEW p \in Procs, NEW e \in Errors, HttpError(p, e) PROVE TypeInv'
  <2>1. UNCHANGED settings /\ UNCHANGED <<queue, name, procVars, histVars>>
    BY <1>9 DEF HttpError
  <2>2. Incident(Http, e) \in Incidents
    BY IncidentType
  <2>3. /\ quiet' \in [Procs -> SUBSET {Key(j) : j \in Incidents}]
        /\ window' \in [Procs -> SUBSET Incidents]
    BY <1>9, <2>2 DEF HttpError, MaybeDispatch, noteVars
  <2>4. AlertsTypeOK'
    BY <2>1, <2>3, SameKeys DEF settings, procVars, histVars
  <2>5. Waiting' /\ Executing' /\ Handling'
    BY <2>1 DEF procVars
  <2> QED BY <2>4, <2>5
<1>10. ASSUME NEW p \in Procs, Crash(p) PROVE TypeInv'
  <2> DEFINE dead == {s \in Slots : s[1] = p /\ pc[s] # "idle"}
  <2>1. /\ UNCHANGED settings /\ UNCHANGED <<name, alerted>>
        /\ crashes < MaxCrashes /\ crashes' = crashes + 1
        /\ quiet' = [quiet EXCEPT ![p] = {}]
        /\ window' = [window EXCEPT ![p] = {}]
        /\ queue' = [m \in Messages |->
               IF m.at = p THEN 0
               ELSE queue[m] + Cardinality({s \in dead : msg[s] = m})]
        /\ redone' = redone \cup {msg[s].task : s \in dead}
        /\ pc' = [s \in Slots |-> IF s \in dead THEN "idle" ELSE pc[s]]
        /\ msg' = [s \in Slots |-> IF s \in dead THEN None ELSE msg[s]]
        /\ label' = [s \in Slots |-> IF s \in dead THEN 0 ELSE label[s]]
        /\ err' = [s \in Slots |-> IF s \in dead THEN None ELSE err[s]]
        /\ answered' = [s \in Slots |-> s \notin dead /\ answered[s]]
    BY <1>10 DEF Crash
  <2>2. ended' \in [Tasks -> {"no", "ok", "failed", "lost"}]
    BY <1>10 DEF Crash
  <2>3. IsFiniteSet(Slots)
    BY FiniteAssumption, FS_Product DEF Slots
  <2>4. \A m \in Messages : Cardinality({s \in dead : msg[s] = m}) \in Nat
    <3> SUFFICES ASSUME NEW m \in Messages
                 PROVE  Cardinality({s \in dead : msg[s] = m}) \in Nat
      OBVIOUS
    <3>1. {s \in dead : msg[s] = m} \subseteq Slots
      OBVIOUS
    <3> QED BY <2>3, <3>1, FS_Subset, FS_CardinalityType
  <2>5. queue' \in [Messages -> Nat]
    BY <2>1, <2>4
  <2>6. redone' \subseteq Tasks
    BY <2>1 DEF Messages
  <2>7. AlertsTypeOK'
    <3>1. /\ quiet' \in [Procs -> SUBSET {Key(j) : j \in Incidents}]
          /\ window' \in [Procs -> SUBSET Incidents]
      BY <2>1
    <3>2. /\ pc' \in [Slots -> {"idle", "run", "notify", "retry", "resend",
                                "resent", "ack"}]
          /\ label' \in [Slots -> 0 .. MaxAttempts]
          /\ msg' \in [Slots -> Messages \cup {None}]
      BY <2>1
    <3>3. /\ err' \in [Slots -> Errors \cup {Cancelled, None}]
          /\ answered' \in [Slots -> BOOLEAN]
      BY <2>1
    <3>4. crashes' \in 0 .. MaxCrashes
      BY <2>1
    <3>5. UNCHANGED settings /\ UNCHANGED <<name, alerted>>
      BY <2>1
    <3> QED BY <2>2, <2>5, <2>6, <3>1, <3>2, <3>3, <3>4, <3>5, SameKeys DEF settings
  <2>8. Waiting'
    <3> SUFFICES ASSUME NEW m \in Messages, queue'[m] > 0
                 PROVE  name[m.task] \in Names
      BY <2>1
    <3>1. CASE queue[m] > 0
      BY <3>1
    <3>2. CASE queue[m] = 0
      <4>1. {s \in dead : msg[s] = m} # {}
        BY <2>1, <3>2, FS_EmptySet
      <4> QED BY <4>1
    <3> QED BY <3>1, <3>2
  <2>9. Executing' /\ Handling'
    BY <2>1
  <2> QED BY <2>7, <2>8, <2>9
<1>11. CASE UNCHANGED vars
  <2>1. UNCHANGED settings
    BY <1>11 DEF vars
  <2>2. AlertsTypeOK'
    BY <1>11, <2>1, SameKeys DEF vars, settings, procVars, noteVars, histVars
  <2>3. Waiting' /\ Executing' /\ Handling'
    BY <1>11 DEF vars, procVars
  <2> QED BY <2>2, <2>3
<1>12. ASSUME NEW s \in Slots, Succeed(s) \/ Ack(s) \/ CancelDelay(s) PROVE TypeInv'
  <2>1. Release(s) /\ pc[s] # "idle"
    BY <1>12 DEF Succeed, Ack, CancelDelay
  <2>2. UNCHANGED <<settings, queue, name, noteVars, crashes, alerted, redone>>
    BY <1>12 DEF Succeed, Ack, CancelDelay
  <2>3. \E how \in {"ok", "failed", "lost"} : End(s, how) \/ UNCHANGED ended
    BY <1>12 DEF Succeed, Ack, CancelDelay
  <2> QED BY <2>1, <2>2, <2>3, <1>3
<1> QED
  BY <1>1, <1>2, <1>4, <1>5, <1>6, <1>7, <1>8, <1>9, <1>10, <1>11, <1>12
  DEF Next, Step, OnError

\* The variables keep their types: the retry label never passes the number of
\* attempts, whatever is cancelled or dies.
THEOREM TypeCorrect == Spec => []AlertsTypeOK
<1>1. TypeInv => AlertsTypeOK
  BY DEF TypeInv
<1> QED BY InitType, TypeStep, <1>1, PTL DEF Spec

-----------------------------------------------------------------------------
(* No failure is given up in silence.                                        *)

\* Steps that leave the notifier alone keep its table in step.
LEMMA QuietUnchanged ==
    ASSUME UNCHANGED settings, UNCHANGED noteVars, QuietMeansAlerted
    PROVE  QuietMeansAlerted'
BY SameKeys DEF noteVars, QuietMeansAlerted

\* What the notifier and the retry middleware conclude depends on the
\* execution alone.
LEMMA SameVerdict ==
    ASSUME NEW s \in Slots, UNCHANGED settings,
           msg'[s] = msg[s], label'[s] = label[s], err'[s] = err[s],
           name'[msg[s].task] = name[msg[s].task]
    PROVE  /\ IsTerminal(s)' = IsTerminal(s)
           /\ IncidentOf(s)' = IncidentOf(s)
           /\ Qualifies(IncidentOf(s))' = Qualifies(IncidentOf(s))
BY DEF settings, IsTerminal, Attempt, IncidentOf, Incident, Qualifies

\* A step leaves an execution alone.
Untouched(s) ==
    /\ pc'[s] = pc[s] /\ msg'[s] = msg[s] /\ label'[s] = label[s]
    /\ err'[s] = err[s] /\ answered'[s] = answered[s]
    /\ pc[s] # "idle" => name'[msg[s].task] = name[msg[s].task]

\* Notified and NoSilentFailure, of one execution.
Silence(s) ==
    /\ pc[s] = "retry" /\ IsTerminal(s) /\ Qualifies(IncidentOf(s)) => answered[s]
    /\ /\ pc[s] = "ack" /\ err[s].kind \in {"permanent", "transient"}
       /\ Qualifies(IncidentOf(s))
       => answered[s]

LEMMA UntouchedSilence ==
    ASSUME NEW s \in Slots, UNCHANGED settings, Untouched(s), Silence(s)
    PROVE  Silence(s)'
BY SameVerdict DEF Untouched, Silence

\* The step of s itself.
LEMMA OwnStep ==
    ASSUME Inv, NEW s \in Slots,
           \/ \E m \in Messages : Execute(s, m)
           \/ \E e \in Errors \cup {Cancelled} : Raise(s, e)
           \/ Succeed(s) \/ Ack(s) \/ CancelDelay(s)
           \/ Notify(s) \/ Retry(s) \/ Resend(s)
    PROVE  /\ UNCHANGED settings /\ QuietMeansAlerted' /\ Silence(s)'
           /\ \A q \in Slots \ {s} : Untouched(q)
<1> USE DEF Inv, TypeInv, AlertsTypeOK
<1>1. CASE \E m \in Messages : Execute(s, m)
  <2> PICK m \in Messages : Execute(s, m)
    BY <1>1
  <2>1. UNCHANGED settings /\ UNCHANGED noteVars
    BY DEF Execute
  <2>2. pc'[s] = "run" /\ \A q \in Slots \ {s} : Untouched(q)
    BY DEF Execute, Goto, histVars, Untouched
  <2> QED BY <2>1, <2>2, QuietUnchanged DEF Silence
<1>2. CASE \E e \in Errors \cup {Cancelled} : Raise(s, e)
  <2> PICK e \in Errors \cup {Cancelled} : Raise(s, e)
    BY <1>2
  <2>1. UNCHANGED settings /\ UNCHANGED noteVars
    BY DEF Raise
  <2>2. pc'[s] = "notify" /\ \A q \in Slots \ {s} : Untouched(q)
    BY DEF Raise, Goto, histVars, Untouched
  <2> QED BY <2>1, <2>2, QuietUnchanged DEF Silence
<1>3. CASE Succeed(s) \/ Ack(s) \/ CancelDelay(s)
  <2>1. UNCHANGED settings /\ UNCHANGED noteVars /\ UNCHANGED name /\ Release(s)
    BY <1>3 DEF Succeed, Ack, CancelDelay
  <2>2. pc'[s] = "idle" /\ \A q \in Slots \ {s} : Untouched(q)
    BY <2>1 DEF Release, Goto, Untouched
  <2> QED BY <2>1, <2>2, QuietUnchanged DEF Silence
<1>4. CASE Notify(s)
  <2>1. /\ UNCHANGED settings /\ UNCHANGED <<name, msg, label, err>>
        /\ pc[s] = "notify" /\ pc' = [pc EXCEPT ![s] = "retry"]
    BY <1>4 DEF Notify, Goto
  <2>2. s[1] \in Procs /\ IncidentOf(s) \in Incidents
    BY <2>1, IncidentType DEF Slots, IncidentOf, Executing, Handling
  <2>3. /\ IsTerminal(s)' = IsTerminal(s)
        /\ Qualifies(IncidentOf(s))' = Qualifies(IncidentOf(s))
    BY <2>1, SameVerdict
  <2>4. CASE IsTerminal(s)
    <3>1. /\ MaybeDispatch(s[1], IncidentOf(s))
          /\ answered' = [answered EXCEPT ![s] = IncidentOf(s) \in window'[s[1]]]
      BY <1>4, <2>4 DEF Notify
    <3>2. /\ QuietMeansAlerted'
          /\ Qualifies(IncidentOf(s)) => IncidentOf(s) \in window'[s[1]]
      BY <2>1, <2>2, <3>1, Dispatched
    <3>3. Silence(s)'
      BY <2>1, <2>3, <3>1, <3>2 DEF Silence
    <3>4. \A q \in Slots \ {s} : Untouched(q)
      BY <2>1, <3>1 DEF Untouched
    <3> QED BY <2>1, <3>2, <3>3, <3>4
  <2>5. CASE ~IsTerminal(s)
    <3>1. UNCHANGED noteVars /\ UNCHANGED answered
      BY <1>4, <2>5 DEF Notify
    <3>2. Silence(s)'
      BY <2>1, <2>3, <2>5 DEF Silence
    <3>3. \A q \in Slots \ {s} : Untouched(q)
      BY <2>1, <3>1 DEF Untouched
    <3> QED BY <2>1, <3>1, <3>2, <3>3, QuietUnchanged
  <2> QED BY <2>4, <2>5
<1>5. CASE Retry(s)
  <2>1. /\ UNCHANGED settings /\ UNCHANGED noteVars
        /\ UNCHANGED <<name, msg, err, answered>> /\ pc[s] = "retry"
        /\ pc' = [pc EXCEPT ![s] = IF WillRetry(s) THEN "resend" ELSE "ack"]
    BY <1>5 DEF Retry, Goto, histVars
  <2>2. Silence(s)'
    <3> SUFFICES ASSUME pc'[s] = "ack", err'[s].kind \in {"permanent", "transient"},
                        Qualifies(IncidentOf(s))'
                 PROVE  answered[s]
      BY <2>1 DEF Silence
    <3>1. ~WillRetry(s)
      BY <2>1
    <3>2. IsTerminal(s)
      BY <2>1, <3>1, AttemptsAssumption DEF WillRetry, IsTerminal, Attempt
    <3>3. Qualifies(IncidentOf(s))
      BY <2>1 DEF settings, Qualifies, IncidentOf, Incident
    <3> QED BY <2>1, <3>2, <3>3 DEF Notified
  <2>3. \A q \in Slots \ {s} : Untouched(q)
    BY <1>5, <2>1 DEF Retry, Untouched
  <2> QED BY <2>1, <2>2, <2>3, QuietUnchanged
<1>6. CASE Resend(s)
  <2>1. UNCHANGED settings /\ UNCHANGED noteVars
    BY <1>6 DEF Resend
  <2>2. pc'[s] = "resent" /\ \A q \in Slots \ {s} : Untouched(q)
    BY <1>6 DEF Resend, Goto, histVars, Untouched
  <2> QED BY <2>1, <2>2, QuietUnchanged DEF Silence
<1> QED BY <1>1, <1>2, <1>3, <1>4, <1>5, <1>6

\* A step of nobody, or of the surroundings.
LEMMA OtherStep ==
    ASSUME Inv,
           \/ \E t \in Tasks, n \in Names, p \in Procs : Send(t, n, p)
           \/ \E p \in Procs : \/ \E k \in quiet[p] : Elapse(p, k)
                               \/ \E e \in Errors : HttpError(p, e)
                               \/ Crash(p)
           \/ UNCHANGED vars
    PROVE  /\ UNCHANGED settings /\ QuietMeansAlerted'
           /\ \A q \in Slots : Untouched(q) \/ pc'[q] = "idle"
<1> USE DEF Inv, TypeInv, AlertsTypeOK
<1>1. CASE \E t \in Tasks, n \in Names, p \in Procs : Send(t, n, p)
  <2> PICK t \in Tasks, n \in Names, p \in Procs : Send(t, n, p)
    BY <1>1
  <2>1. /\ UNCHANGED settings /\ UNCHANGED noteVars
        /\ UNCHANGED <<procVars, histVars>>
        /\ name[t] = None /\ name' = [name EXCEPT ![t] = n]
    BY DEF Send
  <2>2. \A q \in Slots : pc[q] # "idle" => name'[msg[q].task] = name[msg[q].task]
    BY <2>1, ErrorsAssumption DEF Executing, Messages
  <2>3. \A q \in Slots : Untouched(q)
    BY <2>1, <2>2 DEF procVars, histVars, Untouched
  <2> QED BY <2>1, <2>3, QuietUnchanged
<1>2. ASSUME NEW p \in Procs, NEW k \in quiet[p], Elapse(p, k)
      PROVE  /\ UNCHANGED settings /\ QuietMeansAlerted'
             /\ \A q \in Slots : Untouched(q)
  <2>1. /\ UNCHANGED settings /\ UNCHANGED <<name, procVars, histVars>>
        /\ quiet' = [quiet EXCEPT ![p] = @ \ {k}]
        /\ window' = [window EXCEPT ![p] = {i \in @ : Key(i) # k}]
    BY <1>2 DEF Elapse
  <2>2. QuietMeansAlerted'
    <3> SUFFICES ASSUME NEW q \in Procs, NEW j \in Incidents,
                        Qualifies(j), Key(j) \in quiet'[q]
                 PROVE  j \in window'[q]
      BY <2>1, SameKeys DEF QuietMeansAlerted
    <3>1. Key(j) \in quiet[q] /\ (q = p => Key(j) # k)
      BY <2>1
    <3>2. j \in window[q]
      BY <3>1 DEF QuietMeansAlerted
    <3> QED BY <2>1, <3>1, <3>2
  <2>3. \A q \in Slots : Untouched(q)
    BY <2>1 DEF procVars, histVars, Untouched
  <2> QED BY <2>1, <2>2, <2>3
<1>3. ASSUME NEW p \in Procs, NEW e \in Errors, HttpError(p, e)
      PROVE  /\ UNCHANGED settings /\ QuietMeansAlerted'
             /\ \A q \in Slots : Untouched(q)
  <2>1. /\ UNCHANGED settings /\ UNCHANGED <<name, procVars, histVars>>
        /\ MaybeDispatch(p, Incident(Http, e))
    BY <1>3 DEF HttpError
  <2>2. QuietMeansAlerted'
    BY <2>1, IncidentType, Dispatched
  <2>3. \A q \in Slots : Untouched(q)
    BY <2>1 DEF procVars, histVars, Untouched
  <2> QED BY <2>1, <2>2, <2>3
<1>4. ASSUME NEW p \in Procs, Crash(p)
      PROVE  /\ UNCHANGED settings /\ QuietMeansAlerted'
             /\ \A q \in Slots : Untouched(q) \/ pc'[q] = "idle"
  <2> DEFINE dead == {s \in Slots : s[1] = p /\ pc[s] # "idle"}
  <2>1. /\ UNCHANGED settings /\ UNCHANGED name
        /\ quiet' = [quiet EXCEPT ![p] = {}]
        /\ window' = [window EXCEPT ![p] = {}]
        /\ pc' = [s \in Slots |-> IF s \in dead THEN "idle" ELSE pc[s]]
        /\ msg' = [s \in Slots |-> IF s \in dead THEN None ELSE msg[s]]
        /\ label' = [s \in Slots |-> IF s \in dead THEN 0 ELSE label[s]]
        /\ err' = [s \in Slots |-> IF s \in dead THEN None ELSE err[s]]
        /\ answered' = [s \in Slots |-> s \notin dead /\ answered[s]]
    BY <1>4 DEF Crash
  <2>2. QuietMeansAlerted'
    BY <2>1, SameKeys DEF QuietMeansAlerted
  <2>3. \A q \in Slots : Untouched(q) \/ pc'[q] = "idle"
    BY <2>1 DEF Untouched
  <2> QED BY <2>1, <2>2, <2>3
<1>5. CASE UNCHANGED vars
  <2>1. UNCHANGED settings /\ UNCHANGED noteVars
    BY <1>5 DEF vars
  <2>2. \A q \in Slots : Untouched(q)
    BY <1>5 DEF vars, procVars, histVars, Untouched
  <2> QED BY <2>1, <2>2, QuietUnchanged
<1> QED BY <1>1, <1>2, <1>3, <1>4, <1>5

LEMMA InvStep == Inv /\ [Next]_vars => Inv'
<1> SUFFICES ASSUME Inv, [Next]_vars PROVE Inv'
  OBVIOUS
<1>1. TypeInv'
  BY TypeStep DEF Inv
<1>2. \A q \in Slots : Silence(q)
  BY DEF Inv, Notified, NoSilentFailure, Silence
<1>3. /\ UNCHANGED settings /\ QuietMeansAlerted'
      /\ \A q \in Slots : Untouched(q) \/ Silence(q)'
  <2>1. ASSUME NEW s \in Slots,
               Step(s) \/ Raise(s, Cancelled) \/ CancelDelay(s)
        PROVE  <1>3
    <3>1. \/ \E m \in Messages : Execute(s, m)
          \/ \E e \in Errors \cup {Cancelled} : Raise(s, e)
          \/ Succeed(s) \/ Ack(s) \/ CancelDelay(s)
          \/ Notify(s) \/ Retry(s) \/ Resend(s)
      BY <2>1 DEF Step, OnError
    <3> QED BY <3>1, OwnStep
  <2>2. \/ \E s \in Slots : Step(s) \/ Raise(s, Cancelled) \/ CancelDelay(s)
        \/ \E t \in Tasks, n \in Names, p \in Procs : Send(t, n, p)
        \/ \E p \in Procs : \/ \E k \in quiet[p] : Elapse(p, k)
                            \/ \E e \in Errors : HttpError(p, e)
                            \/ Crash(p)
        \/ UNCHANGED vars
    BY DEF Next
  <2>3. ASSUME ~\E s \in Slots : Step(s) \/ Raise(s, Cancelled) \/ CancelDelay(s)
        PROVE  <1>3
    BY <2>2, <2>3, OtherStep DEF Silence
  <2> QED BY <2>1, <2>3
<1>4. \A q \in Slots : Silence(q)'
  BY <1>2, <1>3, UntouchedSilence
<1>5. Notified' /\ NoSilentFailure'
  BY <1>4 DEF Silence, Notified, NoSilentFailure
<1> QED BY <1>1, <1>3, <1>5 DEF Inv

\* A task failure that is neither retried nor alerted is one that the process
\* has alerted within the cooldown, of the same task, code and tier; for every
\* number of attempts, with a router or without.
THEOREM NoSilentFailureHolds == Spec => []NoSilentFailure
<1>1. Init => Inv
  <2> SUFFICES ASSUME Init PROVE Inv
    OBVIOUS
  <2>1. TypeInv
    BY InitType
  <2>2. \A s \in Slots : pc[s] = "idle"
    BY DEF Init
  <2>3. \A p \in Procs : quiet[p] = {}
    BY DEF Init
  <2> QED BY <2>1, <2>2, <2>3
          DEF Inv, QuietMeansAlerted, Notified, NoSilentFailure
<1>2. Inv => NoSilentFailure
  BY DEF Inv
<1> QED BY <1>1, <1>2, InvStep, PTL DEF Spec

-----------------------------------------------------------------------------
(* A failure that is alerted is over.                                        *)

\* The execution still decides what becomes of its message.
Owns(s) == pc[s] \in {"run", "notify", "retry", "resend", "ack"}

\* A task whose executions never died waits or is executed in one place.
OneCopy ==
    \A t \in Tasks \ redone :
        /\ \A m \in Messages : m.task = t => queue[m] <= 1
        /\ \A m, n \in Messages :
               m.task = t /\ n.task = t /\ queue[m] > 0 /\ queue[n] > 0 => m = n
        /\ \A m \in Messages, s \in Slots :
               m.task = t /\ queue[m] > 0 => ~(Owns(s) /\ msg[s].task = t)
        /\ \A s, q \in Slots :
               Owns(s) /\ Owns(q) /\ msg[s].task = t /\ msg[q].task = t => s = q

\* The retry middleware has confirmed the verdict, or is going to.
Over ==
    \A t \in alerted \ redone :
        /\ name[t] \in Names
        /\ \A m \in Messages : m.task = t => queue[m] = 0
        /\ \A s \in Slots : pc[s] # "idle" /\ msg[s].task = t =>
               pc[s] \in {"ack", "resent"} \/ (pc[s] = "retry" /\ ~WillRetry(s))

OverInv == TypeInv /\ OneCopy /\ Over

\* Steps that send nothing, start nothing and alert nothing.
LEMMA NothingNew ==
    ASSUME OverInv,
           UNCHANGED alerted, redone \subseteq redone', redone' \subseteq Tasks,
           \A t \in Tasks : name[t] \in Names => name'[t] \in Names,
           \A m \in Messages : m.task \notin redone' =>
               queue'[m] \in Nat /\ queue'[m] <= queue[m],
           \A s \in Slots : pc'[s] # "idle" =>
               /\ msg'[s] = msg[s] /\ pc[s] # "idle"
               /\ Owns(s)' => Owns(s)
               /\ \/ pc'[s] = pc[s] /\ (pc[s] = "retry" => label'[s] = label[s] /\ err'[s] = err[s])
                  \/ pc[s] \notin {"ack", "resent", "retry"}
                  \/ pc[s] = "retry" /\ (pc'[s] = "ack" \/ WillRetry(s))
    PROVE  OneCopy' /\ Over'
<1> USE DEF OverInv, TypeInv, AlertsTypeOK
<1>1. OneCopy'
  <2> SUFFICES ASSUME NEW t \in Tasks \ redone'
               PROVE  /\ \A m \in Messages : m.task = t => queue'[m] <= 1
                      /\ \A m, n \in Messages :
                             m.task = t /\ n.task = t /\ queue'[m] > 0 /\ queue'[n] > 0 => m = n
                      /\ \A m \in Messages, s \in Slots :
                             m.task = t /\ queue'[m] > 0 => ~(Owns(s)' /\ msg'[s].task = t)
                      /\ \A s, q \in Slots :
                             Owns(s)' /\ Owns(q)' /\ msg'[s].task = t /\ msg'[q].task = t => s = q
    BY DEF OneCopy
  <2>1. \A m \in Messages : m.task = t => queue'[m] <= queue[m] /\ queue'[m] \in Nat /\ queue[m] \in Nat
    OBVIOUS
  <2>2. \A s \in Slots : Owns(s)' => Owns(s) /\ msg'[s] = msg[s]
    BY DEF Owns
  <2>3. t \in Tasks \ redone
    OBVIOUS
  <2> QED BY <2>1, <2>2, <2>3 DEF OneCopy
<1>2. Over'
  <2> SUFFICES ASSUME NEW t \in alerted \ redone'
               PROVE  /\ name'[t] \in Names
                      /\ \A m \in Messages : m.task = t => queue'[m] = 0
                      /\ \A s \in Slots : pc'[s] # "idle" /\ msg'[s].task = t =>
                             pc'[s] \in {"ack", "resent"} \/ (pc'[s] = "retry" /\ ~WillRetry(s)')
    BY DEF Over
  <2>1. \A s \in Slots : label'[s] = label[s] /\ err'[s] = err[s] => WillRetry(s)' = WillRetry(s)
    BY DEF WillRetry
  <2>2. /\ t \in alerted \ redone /\ t \in Tasks
        /\ \A m \in Messages : m.task = t => queue'[m] \in Nat /\ queue'[m] <= queue[m]
    OBVIOUS
  <2> QED BY <2>1, <2>2 DEF Over
<1> QED BY <1>1, <1>2

\* A message goes into the queue of a task that is nowhere else.
LEMMA SentOnce ==
    ASSUME OverInv, UNCHANGED <<alerted, redone, msg, label, err>>,
           NEW m \in Messages, Sent(m), m.task \notin alerted \ redone,
           \A t \in Tasks : name[t] \in Names => name'[t] \in Names,
           m.task \notin redone =>
               /\ \A n \in Messages : n.task = m.task => queue[n] = 0
               /\ \A s \in Slots : msg[s].task = m.task => ~Owns(s)',
           \A s \in Slots : pc'[s] = pc[s] \/ (pc[s] = "resend" /\ pc'[s] = "resent")
    PROVE  OneCopy' /\ Over'
<1> USE DEF OverInv, TypeInv, AlertsTypeOK
<1>1. \A n \in Messages : queue'[n] = IF n = m THEN queue[n] + 1 ELSE queue[n]
  BY DEF Sent
<1>2. \A s \in Slots : Owns(s)' => Owns(s)
  BY DEF Owns
<1>3. OneCopy'
  BY <1>1, <1>2 DEF OneCopy
<1>4. \A s \in Slots : WillRetry(s)' = WillRetry(s)
  BY DEF WillRetry
<1>5. Over'
  BY <1>1, <1>4 DEF Over
<1> QED BY <1>3, <1>5

LEMMA OverStep == OverInv /\ [Next]_vars => OverInv'
<1> SUFFICES ASSUME OverInv, [Next]_vars PROVE OneCopy' /\ Over'
  BY TypeStep DEF OverInv
<1> USE DEF OverInv, TypeInv, AlertsTypeOK
<1>1. ASSUME NEW t \in Tasks, NEW n \in Names, NEW p \in Procs, Send(t, n, p)
      PROVE  OneCopy' /\ Over'
  <2>1. /\ name[t] = None /\ name' = [name EXCEPT ![t] = n]
        /\ Sent(Message(t, 0, p)) /\ UNCHANGED <<procVars, histVars>>
    BY <1>1 DEF Send
  <2>2. Message(t, 0, p) \in Messages /\ Message(t, 0, p).task = t
    BY MessageType, AttemptsAssumption
  <2>3. name[t] \notin Names
    BY <2>1, ErrorsAssumption
  <2>4. /\ t \notin alerted \ redone
        /\ \A m \in Messages : m.task = t => queue[m] = 0
        /\ \A s \in Slots : msg[s].task = t => ~Owns(s)
    BY <2>3 DEF Over, Waiting, Executing, Owns
  <2> QED BY <2>1, <2>2, <2>4, SentOnce DEF procVars, histVars, Owns
<1>2. ASSUME NEW s \in Slots, NEW m \in Messages, Execute(s, m) PROVE OneCopy' /\ Over'
  <2>1. /\ pc[s] = "idle" /\ queue[m] > 0 /\ m.task \in Tasks
        /\ \A n \in Messages : queue'[n] = IF n = m THEN queue[n] - 1 ELSE queue[n]
        /\ \A q \in Slots : /\ pc'[q] = IF q = s THEN "run" ELSE pc[q]
                            /\ msg'[q] = IF q = s THEN m ELSE msg[q]
                            /\ q # s => label'[q] = label[q] /\ err'[q] = err[q]
        /\ UNCHANGED <<name, alerted, redone>>
    BY <1>2 DEF Execute, Goto, histVars, Messages
  <2>2. m.task \notin alerted \ redone
    BY <2>1 DEF Over
  <2>3. \A q \in Slots : Owns(q)' <=> (q = s \/ Owns(q))
    BY <2>1 DEF Owns
  <2>4. OneCopy'
    BY <2>1, <2>3 DEF OneCopy, Owns
  <2>5. \A q \in Slots \ {s} : WillRetry(q)' = WillRetry(q)
    BY <2>1 DEF WillRetry
  <2> QED BY <2>1, <2>2, <2>3, <2>4, <2>5 DEF Over
<1>3. ASSUME NEW s \in Slots, Succeed(s) \/ Ack(s) \/ CancelDelay(s)
      PROVE  OneCopy' /\ Over'
  <2>1. Release(s) /\ UNCHANGED <<queue, name, alerted, redone>>
    BY <1>3 DEF Succeed, Ack, CancelDelay
  <2>2. /\ pc'[s] = "idle"
        /\ \A q \in Slots \ {s} : /\ pc'[q] = pc[q] /\ msg'[q] = msg[q]
                                  /\ label'[q] = label[q] /\ err'[q] = err[q]
    BY <2>1 DEF Release, Goto
  <2> QED BY <2>1, <2>2, NothingNew DEF Owns
<1>4. ASSUME NEW s \in Slots, NEW e \in Errors \cup {Cancelled}, Raise(s, e)
      PROVE  OneCopy' /\ Over'
  <2>1. /\ pc[s] = "run" /\ pc'[s] = "notify"
        /\ \A q \in Slots \ {s} : pc'[q] = pc[q] /\ err'[q] = err[q]
        /\ UNCHANGED <<queue, name, msg, label, alerted, redone>>
    BY <1>4 DEF Raise, Goto, histVars
  <2> QED BY <2>1, NothingNew DEF Owns
<1>5. ASSUME NEW s \in Slots, Notify(s) PROVE OneCopy' /\ Over'
  <2>1. /\ UNCHANGED <<queue, name, msg, label, err, redone>>
        /\ pc[s] = "notify" /\ pc'[s] = "retry" /\ Owns(s)
        /\ \A q \in Slots \ {s} : pc'[q] = pc[q]
    BY <1>5 DEF Notify, Goto, Owns
  <2>2. \A q \in Slots : (Owns(q)' <=> Owns(q)) /\ WillRetry(q)' = WillRetry(q)
    BY <2>1 DEF Owns, WillRetry
  <2>3. OneCopy'
    BY <2>1, <2>2 DEF OneCopy
  <2>4. msg[s].task \notin alerted \ redone
    BY <2>1 DEF Over
  <2>5. CASE alerted' = alerted
    BY <2>1, <2>2, <2>3, <2>4, <2>5 DEF Over
  <2>6. CASE alerted' = alerted \cup {msg[s].task} /\ IsTerminal(s)
    <3>1. ~WillRetry(s)
      BY <2>1, <2>6, AttemptsAssumption DEF IsTerminal, Attempt, WillRetry
    <3>2. msg[s].task \in Tasks /\ name[msg[s].task] \in Names
      BY <2>1 DEF Executing, Messages
    <3>3. ASSUME msg[s].task \notin redone
          PROVE  /\ \A m \in Messages : m.task = msg[s].task => queue[m] = 0
                 /\ \A q \in Slots : msg[q].task = msg[s].task => q = s \/ ~Owns(q)
      BY <2>1, <3>2, <3>3 DEF OneCopy
    <3>4. \A q \in Slots : pc[q] # "idle" /\ ~Owns(q) => pc[q] = "resent"
      BY DEF Owns
    <3>5. ASSUME NEW t \in alerted' \ redone, t # msg[s].task
          PROVE  /\ name'[t] \in Names
                 /\ \A m \in Messages : m.task = t => queue'[m] = 0
                 /\ \A q \in Slots : pc'[q] # "idle" /\ msg'[q].task = t =>
                        pc'[q] \in {"ack", "resent"} \/ (pc'[q] = "retry" /\ ~WillRetry(q)')
      BY <2>1, <2>2, <2>6, <3>5 DEF Over
    <3>6. ASSUME msg[s].task \notin redone
          PROVE  \A q \in Slots : pc'[q] # "idle" /\ msg'[q].task = msg[s].task =>
                        pc'[q] \in {"ack", "resent"} \/ (pc'[q] = "retry" /\ ~WillRetry(q)')
      BY <2>1, <2>2, <3>1, <3>3, <3>4, <3>6
    <3> QED BY <2>1, <2>3, <3>2, <3>3, <3>5, <3>6 DEF Over
  <2> QED BY <1>5, <2>3, <2>5, <2>6 DEF Notify
<1>6. ASSUME NEW s \in Slots, Retry(s) PROVE OneCopy' /\ Over'
  <2>1. /\ pc[s] = "retry" /\ pc'[s] = IF WillRetry(s) THEN "resend" ELSE "ack"
        /\ \A q \in Slots \ {s} : pc'[q] = pc[q] /\ label'[q] = label[q]
        /\ UNCHANGED <<queue, name, msg, err, alerted, redone>>
    BY <1>6 DEF Retry, Goto, histVars
  <2> QED BY <2>1, NothingNew DEF Owns
<1>7. ASSUME NEW s \in Slots, Resend(s) PROVE OneCopy' /\ Over'
  <2>1. /\ pc[s] = "resend" /\ pc'[s] = "resent" /\ Owns(s)
        /\ \A q \in Slots \ {s} : pc'[q] = pc[q]
        /\ Sent(Message(msg[s].task, label[s], s[1]))
        /\ UNCHANGED <<name, msg, label, err, alerted, redone>>
    BY <1>7 DEF Resend, Goto, histVars, Owns
  <2>2. /\ msg[s].task \in Tasks /\ s[1] \in Procs /\ label[s] \in 0 .. MaxAttempts - 1
    BY <2>1, AttemptsAssumption DEF Executing, Messages, Slots
  <2>3. /\ Message(msg[s].task, label[s], s[1]) \in Messages
        /\ Message(msg[s].task, label[s], s[1]).task = msg[s].task
    BY <2>2, MessageType
  <2>4. msg[s].task \notin alerted \ redone
    BY <2>1 DEF Over
  <2>5. ASSUME msg[s].task \notin redone
        PROVE  /\ \A m \in Messages : m.task = msg[s].task => queue[m] = 0
               /\ \A q \in Slots : msg[q].task = msg[s].task => ~Owns(q)'
    <3>1. \A q \in Slots \ {s} : Owns(q)' = Owns(q)
      BY <2>1 DEF Owns
    <3> QED BY <2>1, <2>2, <2>5, <3>1 DEF OneCopy, Owns
  <2> QED BY <2>1, <2>3, <2>4, <2>5, SentOnce
<1>8. ASSUME \/ \E p \in Procs, k \in UNION {quiet[q] : q \in Procs} : Elapse(p, k)
             \/ \E p \in Procs, e \in Errors : HttpError(p, e)
             \/ UNCHANGED vars
      PROVE  OneCopy' /\ Over'
  <2>1. UNCHANGED <<queue, name, pc, msg, label, err, alerted, redone>>
    BY <1>8 DEF Elapse, HttpError, procVars, histVars, vars
  <2> QED BY <2>1, NothingNew DEF Owns
<1>9. ASSUME NEW p \in Procs, Crash(p) PROVE OneCopy' /\ Over'
  <2> DEFINE dead == {s \in Slots : s[1] = p /\ pc[s] # "idle"}
  <2>1. /\ UNCHANGED <<name, alerted>>
        /\ queue' = [m \in Messages |->
               IF m.at = p THEN 0
               ELSE queue[m] + Cardinality({s \in dead : msg[s] = m})]
        /\ redone' = redone \cup {msg[s].task : s \in dead}
        /\ pc' = [s \in Slots |-> IF s \in dead THEN "idle" ELSE pc[s]]
        /\ msg' = [s \in Slots |-> IF s \in dead THEN None ELSE msg[s]]
        /\ label' = [s \in Slots |-> IF s \in dead THEN 0 ELSE label[s]]
        /\ err' = [s \in Slots |-> IF s \in dead THEN None ELSE err[s]]
    BY <1>9 DEF Crash
  <2>2. ASSUME NEW m \in Messages, m.task \notin redone'
        PROVE  queue'[m] \in Nat /\ queue'[m] <= queue[m]
    <3>1. {s \in dead : msg[s] = m} = {}
      BY <2>1, <2>2
    <3>2. Cardinality({s \in dead : msg[s] = m}) = 0
      BY <3>1, FS_EmptySet
    <3> QED BY <2>1, <3>2
  <2>3. redone' \subseteq Tasks
    BY <2>1 DEF Executing, Messages
  <2>4. \A s \in Slots : pc'[s] # "idle" =>
            /\ pc'[s] = pc[s] /\ msg'[s] = msg[s] /\ label'[s] = label[s] /\ err'[s] = err[s]
    BY <2>1
  <2> QED BY <2>1, <2>2, <2>3, <2>4, NothingNew DEF Owns
<1> QED
  BY <1>1, <1>2, <1>3, <1>4, <1>5, <1>6, <1>7, <1>8, <1>9 DEF Next, Step, OnError

\* An alert is the last word about a task: once one was sent, no process tries
\* the task again, unless a worker died with it.
THEOREM AlertedIsOverHolds == Spec => []AlertedIsOver
<1>1. Init => OverInv
  <2> SUFFICES ASSUME Init PROVE OneCopy /\ Over
    BY InitType DEF OverInv
  <2>1. /\ \A s \in Slots : pc[s] = "idle"
        /\ \A m \in Messages : queue[m] = 0
        /\ alerted = {}
    BY DEF Init
  <2> QED BY <2>1 DEF OneCopy, Over, Owns
<1>2. OverInv => AlertedIsOver
  BY DEF OverInv, Over, AlertedIsOver
<1> QED BY <1>1, <1>2, OverStep, PTL DEF Spec

=============================================================================
