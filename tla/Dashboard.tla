------------------------------ MODULE Dashboard ------------------------------
(***************************************************************************)
(* The landing page of the administrators: its numbers are read by         *)
(* coroutines that run side by side, each with statements of its own,      *)
(* while customers write.  A read that fails costs its own section only;   *)
(* the failed agent calls are no column but a difference of two reads.     *)
(***************************************************************************)
EXTENDS Naturals, Sequences, FiniteSets

CONSTANTS Configs,      \* the pages discovered at start, in their order
          Counted,      \* domains whose service has count_datas
          Dated,        \* domains whose service has count_datas_by_day
          Metered,      \* domains whose service has get_usage_summary
          MaxRows       \* bound on the rows of a table

Domains == {Configs[i] : i \in 1 .. Len(Configs)}
AccountsGrant == "accounts"

DashboardAssumption == MaxRows \in Nat

VARIABLES records,      \* records of each domain
          ok, failed,   \* agent calls in the window, by status
          granted,      \* the permissions of the session that opened the page
          visible,      \* visible_configs
          count, growth,\* what the cards and the trend have read, by domain
          probe,        \* _collect_ai_usage: where it is
          overall,      \* its first read
          usage,        \* AiUsageMetrics
          view          \* what is rendered

world == <<records, ok, failed>>
opened == <<granted, visible>>
dashVars == <<world, opened, count, growth, probe, overall, usage, view>>

\* Waiting, None, or a number.
Waiting == [state |-> "waiting", n |-> 0]
Unavailable == [state |-> "unavailable", n |-> 0]
Read(k) == [state |-> "read", n |-> k]
Metrics == {Waiting, Unavailable} \union {Read(k) : k \in 0 .. MaxRows}

NoUsage == [available |-> FALSE, calls |-> 0, failures |-> 0]
NoView == [kind |-> "none", cards |-> {}, trend |-> {}, missing |-> {}, usage |-> "none", infra |-> FALSE]

DashInit ==
    /\ records \in [Domains -> 0 .. MaxRows] /\ ok \in 0 .. MaxRows /\ failed \in 0 .. MaxRows
    /\ granted = {} /\ visible = {}
    /\ count = [d \in Domains |-> Waiting] /\ growth = [d \in Domains |-> Waiting]
    /\ probe = [step |-> "closed", at |-> 1] /\ overall = [ok |-> 0, all |-> 0]
    /\ usage = NoUsage /\ view = NoView

-----------------------------------------------------------------------------
(* What others do meanwhile. *)

WriteRow(d, n) ==
    /\ n \in 0 .. MaxRows /\ records' = [records EXCEPT ![d] = n]
    /\ UNCHANGED <<ok, failed, opened, count, growth, probe, overall, usage, view>>

\* The window's start is fixed when the page is opened, and no row is deleted.
RecordCall ==
    /\ \/ ok < MaxRows /\ ok' = ok + 1 /\ UNCHANGED failed
       \/ failed < MaxRows /\ failed' = failed + 1 /\ UNCHANGED ok
    /\ UNCHANGED <<records, opened, count, growth, probe, overall, usage, view>>

-----------------------------------------------------------------------------
\* Permissions are filtered once, before anything is read.
OpenPage(permissions) ==
    /\ probe.step = "closed"
    /\ granted' = permissions
    /\ visible' = Domains \intersect permissions
    /\ probe' = [step |-> "service", at |-> 1]
    /\ UNCHANGED <<world, count, growth, overall, usage, view>>

Loading == probe.step # "closed" /\ view = NoView

CountFor(d) ==
    /\ Loading /\ d \in visible /\ count[d] = Waiting
    /\ \/ d \in Counted /\ count' = [count EXCEPT ![d] = Read(records[d])]
       \/ count' = [count EXCEPT ![d] = Unavailable]
    /\ UNCHANGED <<world, opened, growth, probe, overall, usage, view>>

\* The days of the window are added up.
GrowthFor(d) ==
    /\ Loading /\ d \in visible /\ growth[d] = Waiting
    /\ \/ d \in Dated /\ \E k \in 0 .. records[d] : growth' = [growth EXCEPT ![d] = Read(k)]
       \/ growth' = [growth EXCEPT ![d] = Unavailable]
    /\ UNCHANGED <<world, opened, count, probe, overall, usage, view>>

Probing(step) == Loading /\ probe.step = step

\* A service that cannot be built, or has no summary, is passed over.
ProbeService ==
    /\ Probing("service") /\ probe.at <= Len(Configs)
    /\ \/ Configs[probe.at] \in visible \intersect Metered /\ probe' = [probe EXCEPT !.step = "overall"]
       \/ probe' = [probe EXCEPT !.at = @ + 1]
    /\ UNCHANGED <<world, opened, count, growth, overall, usage, view>>

NothingMetered ==
    /\ Probing("service") /\ probe.at > Len(Configs)
    /\ probe' = [probe EXCEPT !.step = "done"]
    /\ UNCHANGED <<world, opened, count, growth, overall, usage, view>>

ReadOverall ==
    /\ Probing("overall")
    /\ probe' = [probe EXCEPT !.step = "ok"]
    /\ overall' = [ok |-> ok, all |-> ok + failed]
    /\ UNCHANGED <<world, opened, count, growth, usage, view>>

\* max(overall - ok, 0): calls recorded since the first read are in the second.
AtLeastZero(a, b) == IF a >= b THEN a - b ELSE 0

ReadOk ==
    /\ Probing("ok")
    /\ probe' = [probe EXCEPT !.step = "done"]
    /\ usage' = [available |-> TRUE, calls |-> overall.all, failures |-> AtLeastZero(overall.all, ok)]
    /\ UNCHANGED <<world, opened, count, growth, overall, view>>

UsageFails ==
    /\ Probing("overall") \/ Probing("ok")
    /\ probe' = [probe EXCEPT !.step = "done"]
    /\ UNCHANGED <<world, opened, count, growth, overall, usage, view>>

-----------------------------------------------------------------------------
HasAnyData == (\E d \in visible : count[d].n > 0) \/ usage.calls > 0

Gathered == /\ Probing("done")
            /\ \A d \in visible : count[d] # Waiting /\ growth[d] # Waiting

UsagePanel == IF ~usage.available THEN "none" ELSE IF usage.calls = 0 THEN "no calls" ELSE "numbers"

\* A card has a number or "Unavailable"; the trend names whom it leaves out.
RenderPage ==
    /\ Gathered /\ HasAnyData
    /\ view' = [kind |-> "populated",
                cards |-> {<<d, count[d]>> : d \in visible},
                trend |-> {d \in visible : growth[d].n > 0},
                missing |-> {d \in visible : growth[d] = Unavailable},
                usage |-> UsagePanel,
                infra |-> AccountsGrant \in granted]
    /\ UNCHANGED <<world, opened, count, growth, probe, overall, usage>>

RenderOnboarding ==
    /\ Gathered /\ ~HasAnyData
    /\ view' = [NoView EXCEPT !.kind = "onboarding", !.infra = AccountsGrant \in granted]
    /\ UNCHANGED <<world, opened, count, growth, probe, overall, usage>>

DashNext ==
    \/ \E d \in Domains, n \in 0 .. MaxRows : WriteRow(d, n)
    \/ RecordCall
    \/ \E permissions \in SUBSET (Domains \union {AccountsGrant}) : OpenPage(permissions)
    \/ \E d \in Domains : CountFor(d) \/ GrowthFor(d)
    \/ ProbeService \/ NothingMetered \/ ReadOverall \/ ReadOk \/ UsageFails
    \/ RenderPage \/ RenderOnboarding

DashSpec == DashInit /\ [][DashNext]_dashVars

-----------------------------------------------------------------------------
\* dashboard_metrics.py:222, two reads of a table that grows between them: the
\* page never reports a failure that did not happen, never more failures than
\* calls, and hides no more of them than calls succeeded in between.
FailuresAreReal ==
    usage.available => /\ usage.failures <= failed
                       /\ usage.failures <= usage.calls
                       /\ usage.calls <= usage.failures + ok

\* dashboard_metrics.py:266 and :5: nothing is read of a domain the operator
\* may not see, and what could not be read is not shown as a number.
NothingElseIsRead ==
    /\ \A d \in Domains : d \notin granted => count[d] = Waiting /\ growth[d] = Waiting
    /\ \A card \in view.cards : card[1] \in granted /\ (card[2].n > 0 => card[1] \in Counted)
    /\ \A d \in view.trend : d \in granted /\ d \notin view.missing
    /\ usage.available => granted \intersect Metered # {}
=============================================================================
