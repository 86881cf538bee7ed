-------------------------- MODULE AgentHooksProofs --------------------------
(***************************************************************************)
(* Theorems about the harness.  The shared policy and the two places that  *)
(* apply it, for every set of changed paths, every token and every         *)
(* description: the reminder of the hooks and the required check of the    *)
(* pull request.  Then the hooks at work: for every number of processes,   *)
(* sessions and events, what the lock of the work ledger is good for.      *)
(***************************************************************************)
EXTENDS AgentHooks, FooterCheck, TLAPS


\* The hooks carry a copy of the policy (completion_gate.py of the Codex and
\* Antigravity hooks); the shared one computes a status first.  They remind in
\* the same cases.
THEOREM CopiesAgree ==
    ASSUME NEW changed \in SUBSET Paths, NEW token, NEW diff, NEW pr
    PROVE  GovernorChangingSegment(changed, token, diff, pr)
             <=> RenderReminder(EvaluateGate(changed, token, diff, pr))
<1> DEFINE subset == changed \intersect GovernorFiles
           entry == MatchLogEntry(changed, pr)
<1>1. CASE changed = {} \/ IsLogOnlyBackfill(changed) \/ token \in ExplorationTokens
    <2>1. EvaluateGate(changed, token, diff, pr)
            \in {"silent_no_changes", "silent_log_only", "silent_exploration"}
        BY <1>1 DEF EvaluateGate
    <2>2. ~RenderReminder(EvaluateGate(changed, token, diff, pr))
        BY <2>1 DEF RenderReminder
    <2> QED BY <1>1, <2>2 DEF GovernorChangingSegment
<1>2. CASE ~(changed = {} \/ IsLogOnlyBackfill(changed) \/ token \in ExplorationTokens)
    <2>1. CASE subset = {} \/ IsSyncCosmeticOnly(subset, diff)
        <3>1. EvaluateGate(changed, token, diff, pr) \in {"silent_not_governor", "silent_sync_cosmetic"}
            BY <1>2, <2>1 DEF EvaluateGate
        <3>2. ~RenderReminder(EvaluateGate(changed, token, diff, pr))
            BY <3>1 DEF RenderReminder
        <3> QED BY <2>1, <3>2 DEF GovernorChangingSegment, IsGovernorChanging
    <2>2. CASE ~(subset = {} \/ IsSyncCosmeticOnly(subset, diff))
        <3>1. EvaluateGate(changed, token, diff, pr) = entry
            BY <1>2, <2>2 DEF EvaluateGate
        <3> QED BY <1>2, <2>2, <3>1 DEF GovernorChangingSegment, IsGovernorChanging, RenderReminder
    <2> QED BY <2>1, <2>2
<1> QED BY <1>1, <1>2

-----------------------------------------------------------------------------
\* What the block of a required footer says once the check passes.
LEMMA NothingWrong ==
    ASSUME NEW body, NEW changed, RequiresFooter(changed), Passes(body, TRUE, changed)
    PROVE  /\ FooterFound(body)
           /\ FooterViolations(body) = {}
           /\ HasField(body.lines, "trigger") => ValueOf(body.lines, "trigger").text = "yes"
<1>1. ~BypassesCheck(body)
    BY DEF Passes, CheckBody
<1>2. FooterFound(body)
    BY <1>1 DEF Passes, CheckBody
<1> QED BY <1>1, <1>2 DEF Passes, CheckBody

\* Every field is there: the declaration of no trigger, which ends the
\* validation early, is no way around the rest.
LEMMA EveryFieldThere ==
    ASSUME NEW body, NEW changed, RequiresFooter(changed), Passes(body, TRUE, changed)
    PROVE  /\ ~DeclaresNo(body.lines)
           /\ \A f \in RequiredFields : HasField(body.lines, f)
<1>1. ~DeclaresNo(body.lines)
    BY NothingWrong DEF DeclaresNo
<1>2. FieldViolations(body.lines) = {}
    BY <1>1, NothingWrong DEF FooterViolations
<1> QED BY <1>1, <1>2 DEF FieldViolations

\* A governor-changing pull request passes the required check only with a
\* footer outside of code that holds nothing but the ten fields, once each and
\* in the declared order, with valid values, a trigger and a round of review.
\* The bypass token and the other declaration of the trigger never help
\* (ADR 048-G1).
THEOREM FooterIsComplete ==
    ASSUME NEW body, NEW changed, RequiresFooter(changed), Passes(body, TRUE, changed)
    PROVE  LET lines == body.lines IN
           /\ ~BypassesCheck(body)
           /\ FooterHeading(lines) # 0
           /\ \A i \in FooterBlock(lines) : lines[i].kind \in {"field", "blank"}
           /\ \A i \in FieldLines(lines) : lines[i].field \in RequiredFields
           /\ \A f \in RequiredFields : \E i \in FieldLines(lines) : lines[i].field = f
           /\ \A i, j \in FieldLines(lines) : i < j =>
                  /\ lines[i].field # lines[j].field
                  /\ ~(Rank(lines[j].field) < Rank(lines[i].field))
           /\ \A i \in FieldLines(lines) : ValidValue(lines[i].field, lines[i].value)
           /\ ValueOf(lines, "trigger").text = "yes"
           /\ ValueOf(lines, "rounds").number # 0
<1> DEFINE lines == body.lines
<1>1. FooterFound(body) /\ FooterViolations(body) = {} /\ ~DeclaresNo(lines)
    BY NothingWrong, EveryFieldThere
<1>2. LineViolations(lines) = {} /\ FieldViolations(lines) = {}
         /\ OutOfOrder(lines) = {} /\ NoRounds(lines) = {}
    BY <1>1 DEF FooterViolations
<1>3. FieldLines(lines) = Kept(lines)
    BY <1>2 DEF LineViolations, Kept
<1>4. \A i \in FooterBlock(lines) : lines[i].kind \in {"field", "blank"}
    BY <1>2 DEF LineViolations
<1>5. \A i \in FieldLines(lines) : ValidValue(lines[i].field, lines[i].value)
    BY <1>2, <1>3 DEF LineViolations
<1>6. \A i \in FieldLines(lines) : lines[i].field \in RequiredFields
    BY <1>2, <1>3 DEF FieldViolations
<1>7. HasField(lines, "trigger") /\ HasField(lines, "rounds")
    <2>1. "trigger" \in RequiredFields /\ "rounds" \in RequiredFields
        <3>1. 1 \in DOMAIN FIELD_ORDER /\ 3 \in DOMAIN FIELD_ORDER
            BY DEF FIELD_ORDER
        <3>2. FIELD_ORDER[1] = "trigger" /\ FIELD_ORDER[3] = "rounds"
            BY DEF FIELD_ORDER
        <3> QED BY <3>1, <3>2 DEF RequiredFields
    <2> QED BY <2>1, EveryFieldThere
<1>8. ValueOf(lines, "trigger").text = "yes"
    BY <1>7, NothingWrong
<1>9. ValueOf(lines, "rounds").number # 0
    BY <1>2, <1>7, <1>8 DEF NoRounds
<1>10. \A f \in RequiredFields : \E i \in FieldLines(lines) : lines[i].field = f
    BY <1>3, EveryFieldThere DEF HasField
<1>11. ASSUME NEW i \in FieldLines(lines), NEW j \in FieldLines(lines), i < j
       PROVE  /\ lines[i].field # lines[j].field
              /\ ~(Rank(lines[j].field) < Rank(lines[i].field))
    <2>1. lines[i].field # lines[j].field
        BY <1>3, <1>11 DEF Kept
    <2>2. ~(Rank(lines[j].field) < Rank(lines[i].field))
        BY <1>2, <1>3, <1>6, <1>11 DEF OutOfOrder
    <2> QED BY <2>1, <2>2
<1> QED BY <1>1, <1>4, <1>5, <1>6, <1>8, <1>9, <1>10, <1>11 DEF FooterFound

-----------------------------------------------------------------------------
\* Where hook and check differ.  A reminder always announces a check that will
\* ask for the footer; a silent hook means the check will not, or one of the
\* waivers that only the hook knows: an exploration token, the cosmetic edits
\* of /sync-guidelines, a log entry of this (or of an unknown) pull request.
THEOREM ReminderAnnouncesCheck ==
    ASSUME NEW changed \in SUBSET Paths, NEW token, NEW diff, NEW pr
    PROVE  /\ RenderReminder(EvaluateGate(changed, token, diff, pr)) => RequiresFooter(changed)
           /\ RequiresFooter(changed) =>
                 \/ RenderReminder(EvaluateGate(changed, token, diff, pr))
                 \/ token \in ExplorationTokens
                 \/ IsSyncCosmeticOnly(changed \intersect GovernorFiles, diff)
                 \/ changed \intersect LogEntries # {}
<1>1. ASSUME changed \intersect LogEntries = {}
      PROVE  MatchLogEntry(changed, pr) = "missing"
    BY <1>1 DEF MatchLogEntry
<1> QED BY <1>1, CopiesAgree DEF GovernorChangingSegment, RequiresFooter

-----------------------------------------------------------------------------
(* The work ledger.                                                        *)

LedgerFields == {"version", "prompt", "goal", "status", "files", "workflow"}
Kinds == {"prompt", "files", "goal", "workflow", "result"}

LEMMA FieldsOfLedger == DOMAIN DefaultLedger = LedgerFields
BY DEF DefaultLedger, LedgerFields

\* A file that holds a ledger holds all its fields.
FileFits(f) == f.kind = "ledger" => DOMAIN f.ledger = LedgerFields

\* A file that says the last verification failed.
TellsFailure(f) == Readable(f) /\ f.ledger.status = "failed"

\* An update starts from a whole ledger of the current version, and from the
\* status of the file.
LEMMA LoadFits ==
    ASSUME NEW f, FileFits(f)
    PROVE  /\ DOMAIN Load(f) = LedgerFields /\ Load(f).version = 2
           /\ Readable(f) => Load(f).status = f.ledger.status
<1>1. CASE Readable(f)
    <2> DEFINE l == f.ledger
    <2>1. DOMAIN l = LedgerFields
        BY <1>1 DEF FileFits, Readable
    <2>2. Load(f) = MigrateLedger(l)
        BY <1>1 DEF Load
    <2> HIDE DEF l
    <2>3. /\ DOMAIN MigrateLedger(l) = LedgerFields /\ MigrateLedger(l).version = 2
          /\ MigrateLedger(l).status = l.status
        BY <2>1 DEF MigrateLedger, LedgerFields
    <2> QED BY <2>2, <2>3 DEF l
<1>2. CASE ~Readable(f)
    <2>1. Load(f) = DefaultLedger
        BY <1>2 DEF Load
    <2>2. DefaultLedger.version = 2
        BY DEF DefaultLedger
    <2> QED BY <1>2, <2>1, <2>2, FieldsOfLedger
<1> QED BY <1>1, <1>2

\* A change keeps the fields and the version; only a result changes a status
\* that is not "unknown".
LEMMA ApplyFits ==
    ASSUME NEW l, DOMAIN l = LedgerFields, NEW c, c.kind \in Kinds
    PROVE  /\ DOMAIN Apply(l, c) = LedgerFields
           /\ Apply(l, c).version = l.version
           /\ c.kind # "result" /\ l.status # "unknown" => Apply(l, c).status = l.status
<1>1. CASE c.kind = "prompt"
    BY <1>1 DEF Apply, RecordPrompt, LedgerFields
<1>2. CASE c.kind = "files"
    BY <1>2 DEF Apply, RecordChangedFiles, LedgerFields
<1>3. CASE c.kind = "goal"
    BY <1>3 DEF Apply, SetFields, LedgerFields
<1>4. CASE c.kind = "workflow"
    BY <1>4 DEF Apply, SetWorkflow, LedgerFields
<1>5. CASE c.kind = "result"
    BY <1>5 DEF Apply, RecordResult, LedgerFields
<1> QED BY <1>1, <1>2, <1>3, <1>4, <1>5 DEF Kinds

-----------------------------------------------------------------------------
(* The inductive invariant.                                                *)

Critical == {"read", "write", "unlock"}

Shape == /\ DOMAIN pc = Hooks /\ DOMAIN change = Hooks /\ DOMAIN base = Hooks
         /\ FileFits(file)

\* Where flock works, one process at a time is between reading the ledger and
\* giving the lock back, and what it read is what it replaces.
OneWriter ==
    flock => \A h \in Hooks : /\ pc[h] \in Critical => lock = h
                              /\ pc[h] = "write" => base[h] = Load(file)

\* A process that updates has something to change, and a whole ledger to
\* change it in.
ChangeFits ==
    \A h \in Hooks : /\ pc[h] \in Critical \union {"lock"} => change[h].kind \in Kinds
                     /\ pc[h] = "write" => DOMAIN base[h] = LedgerFields /\ base[h].version = 2

\* No update loses a failure.
FailureStays == flock /\ verdict = "failed" => TellsFailure(file)

HookInv == Shape /\ OneWriter /\ ChangeFits /\ FailureStays

LEMMA HooksStart == Init => HookInv
<1> SUFFICES ASSUME Init  PROVE HookInv
    OBVIOUS
<1>1. FileFits(file)
    BY FilesAssumption, FieldsOfLedger DEF Init, FileFits
<1>2. Shape
    BY <1>1 DEF Init, Shape
<1>3. \A h \in Hooks : pc[h] = "idle"
    BY DEF Init
<1>4. verdict # "failed"
    BY NoneAssumption DEF Init
<1> QED BY <1>2, <1>3, <1>4 DEF HookInv, OneWriter, ChangeFits, FailureStays, Critical

-----------------------------------------------------------------------------
(* Steps.                                                                  *)

\* A step of one process.
Others(h) ==
    /\ DOMAIN pc' = Hooks /\ DOMAIN change' = Hooks /\ DOMAIN base' = Hooks
    /\ \A g \in Hooks \ {h} : pc'[g] = pc[g] /\ change'[g] = change[g] /\ base'[g] = base[g]

\* What Goto and Finish do.
LEMMA GotoMoves ==
    ASSUME HookInv, NEW h \in Hooks, NEW l, Goto(h, l), UNCHANGED <<change, base>>
    PROVE  Others(h) /\ pc'[h] = l
BY DEF HookInv, Shape, Goto, Others

LEMMA FinishMoves ==
    ASSUME HookInv, NEW h \in Hooks, Finish(h)
    PROVE  Others(h) /\ pc'[h] = "idle"
BY DEF HookInv, Shape, Finish, Goto, Set, Others

LEMMA StartMoves ==
    ASSUME HookInv, NEW h \in Hooks, NEW s, NEW k, NEW p, NEW c, NEW l, Start(h, s, k, p, c, l)
    PROVE  Others(h) /\ pc'[h] = l /\ change'[h] = c
BY DEF HookInv, Shape, Start, Goto, Set, Others

LEMMA AfterUpdateMoves ==
    ASSUME HookInv, NEW h \in Hooks, AfterUpdate(h)
    PROVE  Others(h) /\ pc'[h] \in {"changed", "idle"}
<1>1. CASE event[h] = "stop"
    BY <1>1 DEF AfterUpdate, HookInv, Shape, Goto, Set, Others
<1>2. CASE event[h] # "stop"
    BY <1>2, FinishMoves DEF AfterUpdate
<1> QED BY <1>1, <1>2

\* A process that does not touch the ledger, or that leaves it.
LEMMA Elsewhere ==
    ASSUME HookInv, NEW h \in Hooks, Others(h), UNCHANGED <<file, flock, verdict>>,
           lock' = lock \/ (lock = h /\ lock' = None),
           pc'[h] \notin Critical, pc'[h] = "lock" => change'[h].kind \in Kinds
    PROVE  HookInv'
<1>1. Shape' /\ FailureStays'
    BY DEF HookInv, Shape, FailureStays, Others
<1>2. OneWriter'
    BY DEF HookInv, OneWriter, Others, Critical
<1>3. ChangeFits'
    BY DEF HookInv, ChangeFits, Others, Critical
<1> QED BY <1>1, <1>2, <1>3 DEF HookInv

\* A process that takes the lock, when nobody has it.
LEMMA AcquireKeeps ==
    ASSUME HookInv, NEW h \in Hooks, Acquire(h)
    PROVE  HookInv'
<1>1. /\ pc[h] = "lock" /\ flock /\ lock = None /\ lock' = h
      /\ UNCHANGED <<file, flock, verdict, change, base>>
    BY DEF Acquire, At, local, history
<1>2. Others(h) /\ pc'[h] = "read"
    BY <1>1, GotoMoves DEF Acquire
<1>3. \A g \in Hooks : pc[g] \notin Critical
    BY <1>1, NoneAssumption DEF HookInv, OneWriter
<1>4. OneWriter'
    BY <1>1, <1>2, <1>3 DEF OneWriter, Others, Critical
<1>5. Shape' /\ ChangeFits' /\ FailureStays'
    BY <1>1, <1>2 DEF HookInv, Shape, ChangeFits, FailureStays, Others
<1> QED BY <1>4, <1>5 DEF HookInv

LEMMA GoUnlockedKeeps ==
    ASSUME HookInv, NEW h \in Hooks, GoUnlocked(h)
    PROVE  HookInv'
<1>1. pc[h] = "lock" /\ ~flock /\ UNCHANGED <<file, lock, flock, verdict, change, base>>
    BY DEF GoUnlocked, At, local, history, ledger
<1>2. Others(h) /\ pc'[h] = "read"
    BY <1>1, GotoMoves DEF GoUnlocked
<1> QED BY <1>1, <1>2 DEF HookInv, OneWriter, Shape, ChangeFits, FailureStays, Others

LEMMA ReadBaseKeeps ==
    ASSUME HookInv, NEW h \in Hooks, ReadBase(h)
    PROVE  HookInv'
<1>1. /\ pc[h] = "read" /\ base' = [base EXCEPT ![h] = Load(file)]
      /\ UNCHANGED <<file, lock, flock, verdict, change>>
    BY DEF ReadBase, At, Set, history, ledger
<1>2. Others(h) /\ pc'[h] = "write" /\ base'[h] = Load(file)
    BY <1>1 DEF ReadBase, Goto, HookInv, Shape, Others
<1>3. Load(file)' = Load(file)
    BY <1>1 DEF Load, Readable
<1>4. OneWriter'
    BY <1>1, <1>2, <1>3 DEF HookInv, OneWriter, Others, Critical
<1>5. DOMAIN Load(file) = LedgerFields /\ Load(file).version = 2
    BY LoadFits DEF HookInv, Shape
<1>6. Shape' /\ ChangeFits' /\ FailureStays'
    BY <1>1, <1>2, <1>5 DEF HookInv, Shape, ChangeFits, FailureStays, Others, Critical
<1> QED BY <1>4, <1>6 DEF HookInv

\* What a Replace writes: a whole ledger, and under flock the change of the one
\* that is there.
LEMMA ReplaceKeeps ==
    ASSUME HookInv, NEW h \in Hooks, Replace(h)
    PROVE  HookInv'
<1>1. pc[h] = "write" /\ UNCHANGED <<lock, flock, change, base>>
    BY DEF Replace, At, local
<1>2. Others(h) /\ pc'[h] = "unlock"
    BY <1>1, GotoMoves DEF Replace
<1>3. change[h].kind \in Kinds
    BY <1>1 DEF HookInv, ChangeFits, Critical
<1>4. CASE UNCHANGED <<file, verdict>>
    <2>1. Load(file)' = Load(file)
        BY <1>4 DEF Load, Readable
    <2>2. OneWriter'
        BY <1>1, <1>2, <2>1 DEF HookInv, OneWriter, Others, Critical
    <2> QED BY <1>1, <1>2, <1>4, <2>2
           DEF HookInv, Shape, ChangeFits, FailureStays, Others, Critical
<1>5. CASE /\ file' = Written(Apply(base[h], change[h]))
           /\ verdict' = IF change[h].kind = "result" THEN file'.ledger.status ELSE verdict
    <2> DEFINE l == Apply(base[h], change[h])
    <2>1. file'.kind = "ledger" /\ file'.ledger = l
        BY <1>5 DEF Written
    <2>2. DOMAIN base[h] = LedgerFields /\ base[h].version = 2
        BY <1>1 DEF HookInv, ChangeFits
    <2>3. /\ DOMAIN l = LedgerFields /\ l.version = 2
          /\ change[h].kind # "result" /\ base[h].status # "unknown" => l.status = base[h].status
        BY <1>3, <2>2, ApplyFits
    <2> HIDE DEF l
    <2>4. Shape' /\ ChangeFits'
        BY <1>1, <1>2, <2>1, <2>3 DEF HookInv, Shape, FileFits, ChangeFits, Others, Critical
    <2>5. OneWriter'
        BY <1>1, <1>2 DEF HookInv, OneWriter, Others, Critical
    <2>6. FailureStays'
        <3> SUFFICES ASSUME flock, verdict' = "failed"  PROVE TellsFailure(file')
            BY <1>1 DEF FailureStays
        <3>1. CASE change[h].kind = "result"
            BY <1>5, <2>1, <2>3, <3>1 DEF TellsFailure, Readable
        <3>2. CASE change[h].kind # "result"
            <4>1. TellsFailure(file) /\ base[h] = Load(file)
                BY <1>1, <1>5, <3>2 DEF HookInv, FailureStays, OneWriter
            <4>2. base[h].status = "failed"
                BY <4>1, LoadFits DEF TellsFailure, HookInv, Shape
            <4> QED BY <2>1, <2>3, <3>2, <4>2 DEF TellsFailure, Readable
        <3> QED BY <3>1, <3>2
    <2> QED BY <2>4, <2>5, <2>6 DEF HookInv
<1> QED BY <1>4, <1>5 DEF Replace

-----------------------------------------------------------------------------
(* Everything else that happens.                                           *)

\* Nothing that does not touch a process or the ledger matters.
LEMMA AsideKeeps ==
    ASSUME HookInv, UNCHANGED <<file, lock, flock, verdict, pc, change, base>>
    PROVE  HookInv'
BY DEF HookInv, Shape, FileFits, OneWriter, Load, Readable, ChangeFits, FailureStays, TellsFailure

LEMMA EventKeeps ==
    ASSUME HookInv, NEW h \in Hooks, Event(h)
    PROVE  HookInv'
<1>1. ASSUME NEW s, NEW k, NEW p, NEW c, NEW l, Start(h, s, k, p, c, l),
             UNCHANGED <<ledger, verdict>>,
             l \in {"lock", "git", "changed"}, l = "lock" => c.kind \in Kinds
      PROVE  HookInv'
    BY <1>1, StartMoves, Elsewhere DEF ledger, Critical
<1>2. ASSUME NEW a \in Harnesses, UserPrompt(h, a)  PROVE HookInv'
    <2>1. PICK prompt \in Prompts, p \in BOOLEAN :
            /\ IF p /\ ~IsHarnessNotification(prompt)
               THEN Start(h, None, "prompt", p, [kind |-> "prompt", arg |-> prompt.text], "lock")
               ELSE UNCHANGED <<pc, local, stuck>>
            /\ UNCHANGED <<ledger, history>>
        BY <1>2 DEF UserPrompt
    <2> DEFINE c == [kind |-> "prompt", arg |-> prompt.text]
    <2>2. c.kind \in Kinds
        BY DEF Kinds
    <2> HIDE DEF c
    <2>3. CASE Start(h, None, "prompt", p, c, "lock")
        BY <1>1, <2>1, <2>2, <2>3 DEF history
    <2>4. CASE UNCHANGED <<pc, local, stuck>>
        BY AsideKeeps, <2>1, <2>4 DEF history, ledger, local
    <2> QED BY <2>1, <2>3, <2>4 DEF c
<1>3. ASSUME NEW a \in Harnesses, ToolUse(h, a)  PROVE HookInv'
    <2>1. PICK v \in Verdicts[a] :
            /\ Start(h, None, "tool", TRUE, [kind |-> "result", arg |-> v = "passed"], "lock")
            /\ UNCHANGED <<ledger, history>>
        BY <1>3 DEF ToolUse
    <2> DEFINE c == [kind |-> "result", arg |-> v = "passed"]
    <2>2. c.kind \in Kinds
        BY Zenon DEF Kinds
    <2>3. Start(h, None, "tool", TRUE, c, "lock")
        BY <2>1
    <2> HIDE DEF c
    <2> QED BY <1>1, <2>1, <2>2, <2>3 DEF history
<1>4. ASSUME Skill(h)  PROVE HookInv'
    <2>1. PICK c \in Skills : /\ Start(h, None, "skill", TRUE, c, "lock")
                              /\ UNCHANGED <<ledger, history>>
        BY <1>4 DEF Skill
    <2>2. c.kind \in Kinds
        BY SkillsAssumption DEF Kinds
    <2> QED BY <1>1, <2>1, <2>2 DEF history
<1>5. ASSUME NEW s \in Sessions, Stop(h, s)  PROVE HookInv'
    <2>1. PICK p \in BOOLEAN : /\ Start(h, s, "stop", p, None, IF p THEN "git" ELSE "changed")
                               /\ UNCHANGED <<ledger, history>>
        BY <1>5 DEF Stop
    <2>2. PICK l \in {"git", "changed"} : Start(h, s, "stop", p, None, l)
        BY <2>1
    <2> QED BY <1>1, <2>1, <2>2 DEF history
<1> QED BY <1>2, <1>3, <1>4, <1>5 DEF Event

LEMMA AskGitKeeps ==
    ASSUME HookInv, NEW h \in Hooks, AskGit(h)
    PROVE  HookInv'
<1>1. PICK py \in {tree \intersect PyFiles, {}} :
         change' = [change EXCEPT ![h] = [kind |-> "files", arg |-> py]]
    BY DEF AskGit, Set
<1>2. /\ pc' = [pc EXCEPT ![h] = "lock"]
      /\ UNCHANGED <<file, lock, flock, verdict, base>>
    BY DEF AskGit, Goto, ledger, history
<1>3. Others(h) /\ pc'[h] = "lock" /\ change'[h].kind = "files"
    BY <1>1, <1>2 DEF HookInv, Shape, Others
<1> QED BY <1>2, <1>3, Elsewhere DEF Critical, Kinds

LEMMA LeaveKeeps ==
    ASSUME HookInv, NEW h \in Hooks,
           TimeOut(h) \/ LockDenied(h) \/ Unlock(h) \/ Kill(h) \/ PrintMessage(h)
    PROVE  HookInv'
<1>1. /\ UNCHANGED <<file, flock, verdict>>
      /\ lock' = lock \/ (lock = h /\ lock' = None)
    BY DEF TimeOut, LockDenied, Unlock, Kill, PrintMessage, ledger, history
<1>2. AfterUpdate(h) \/ Finish(h)
    BY DEF TimeOut, LockDenied, Unlock, Kill, PrintMessage
<1>3. Others(h) /\ pc'[h] \in {"changed", "idle"}
    BY <1>2, AfterUpdateMoves, FinishMoves
<1> QED BY <1>1, <1>3, Elsewhere DEF Critical

\* The reminders read the ledger and leave it alone.
LEMMA RemindersKeep ==
    ASSUME HookInv, NEW h \in Hooks,
           \/ AskChanged(h) \/ BuildSegments(h) \/ ReadStage(h) \/ ReadToken(h) \/ HasFired(h)
           \/ PruneRead(h) \/ PruneUnlink(h) \/ Claim(h) \/ Stamp(h) \/ ConsumeMarkers(h)
    PROVE  HookInv'
<1> DEFINE Steps == {"compose", "stage", "consume", "token", "fired", "prune", "unlink", "stamp", "print"}
<1>1. UNCHANGED <<file, lock, flock, verdict, change, base>>
    BY DEF AskChanged, BuildSegments, ReadStage, ReadToken, HasFired, PruneRead, PruneUnlink,
           Claim, Stamp, ConsumeMarkers, ledger, history, local
<1>2. (\E l \in Steps : Goto(h, l)) \/ (pc[h] = "prune" /\ pc' = pc)
    <2>1. NextGate(h) => \E l \in Steps : Goto(h, l)
        BY DEF NextGate
    <2>2. FirstGate(h) \in Steps
        BY DEF FirstGate
    <2>3. AskChanged(h) \/ BuildSegments(h) => \E l \in Steps : Goto(h, l)
        BY <2>2 DEF AskChanged, BuildSegments
    <2>4. ReadStage(h) \/ ReadToken(h) \/ HasFired(h) => \E l \in Steps : Goto(h, l)
        BY <2>1 DEF ReadStage, ReadToken, HasFired, Refused
    <2>5. PruneRead(h) => (\E l \in Steps : Goto(h, l)) \/ (pc[h] = "prune" /\ pc' = pc)
        BY DEF PruneRead, At
    <2>6. PruneUnlink(h) \/ Claim(h) \/ Stamp(h) \/ ConsumeMarkers(h) => \E l \in Steps : Goto(h, l)
        BY DEF PruneUnlink, Claim, Stamp, Refused, ConsumeMarkers
    <2> QED BY <2>3, <2>4, <2>5, <2>6
<1>3. Others(h) /\ pc'[h] \in Steps
    <2>1. CASE \E l \in Steps : Goto(h, l)
        BY <1>1, <2>1, GotoMoves
    <2>2. CASE pc[h] = "prune" /\ pc' = pc
        BY <1>1, <2>2 DEF Others, HookInv, Shape
    <2> QED BY <1>2, <2>1, <2>2
<1> QED BY <1>1, <1>3, Elsewhere DEF Critical

LEMMA HooksStep == HookInv /\ [Next]_vars => HookInv'
<1> SUFFICES ASSUME HookInv, [Next]_vars  PROVE HookInv'
    OBVIOUS
<1>1. CASE (\E p \in Paths : Edit(p)) \/ Commit \/ UNCHANGED vars
    BY <1>1, AsideKeeps DEF Edit, Commit, vars, ledger, history, local
<1>2. ASSUME NEW h \in Hooks, Event(h) \/ UpdateStep(h) \/ StopStep(h)
      PROVE  HookInv'
    BY <1>2, EventKeeps, AcquireKeeps, GoUnlockedKeeps, ReadBaseKeeps, ReplaceKeeps, LeaveKeeps,
       AskGitKeeps, RemindersKeep DEF UpdateStep, StopStep
<1>3. ASSUME NEW h \in Hooks, LockDenied(h) \/ Kill(h) \/ Hang(h)
      PROVE  HookInv'
    BY <1>3, LeaveKeeps, AsideKeeps DEF Hang, ledger, history, local
<1> QED BY <1>1, <1>2, <1>3 DEF Next

LEMMA HookInvAlways == HooksSpec => []HookInv
BY HooksStart, HooksStep, PTL DEF HooksSpec

-----------------------------------------------------------------------------
(* The theorems about the ledger.                                          *)

\* A verification that failed is shown to every new session until another one
\* passes, for every number of hooks, sessions and events.
THEOREM FailureIsShownHolds == HooksSpec => []FailureIsShown
<1>1. HookInv => FailureIsShown
    <2> SUFFICES ASSUME HookInv, flock, verdict = "failed"
                 PROVE  "failed" \in SessionSummary(file)
        BY DEF FailureIsShown
    <2>1. Readable(file) /\ Load(file).status = "failed"
        BY LoadFits DEF HookInv, Shape, FailureStays, TellsFailure
    <2>2. ~CompletedCache(Load(file)) /\ HasContent(Load(file))
        BY <2>1 DEF CompletedCache, HasContent
    <2> QED BY <2>1, <2>2 DEF SessionSummary
<1> QED BY <1>1, HookInvAlways, PTL

\* No update undoes another one, wherever flock works: what replaces the ledger
\* is one update's change of the ledger that is there.
THEOREM UpdatesBuildOnEachOtherHolds == HooksSpec => UpdatesBuildOnEachOther
<1> DEFINE Builds ==
      flock /\ file' # file =>
          \E h \in Hooks : At(h, "write") /\ file' = Written(Apply(Load(file), change[h]))
<1>1. HookInv /\ [Next]_vars => [Builds]_vars
    <2> SUFFICES ASSUME HookInv, Next, flock, file' # file
                 PROVE  \E h \in Hooks : At(h, "write") /\ file' = Written(Apply(Load(file), change[h]))
        OBVIOUS
    <2>1. PICK h \in Hooks : Replace(h)
        BY DEF Next, Edit, Commit, Event, UserPrompt, ToolUse, Skill, Stop, UpdateStep, StopStep,
               Acquire, GoUnlocked, TimeOut, ReadBase, Unlock, AskGit, AskChanged, BuildSegments,
               ReadStage, ReadToken, HasFired, PruneRead, PruneUnlink, Claim, Stamp, ConsumeMarkers,
               PrintMessage, LockDenied, Kill, Hang, ledger
    <2>2. At(h, "write") /\ file' = Written(Apply(base[h], change[h]))
        BY <2>1 DEF Replace
    <2>3. base[h] = Load(file)
        BY <2>2 DEF At, HookInv, OneWriter
    <2> QED BY <2>2, <2>3
<1> QED BY <1>1, HookInvAlways, PTL DEF HooksSpec, UpdatesBuildOnEachOther
=============================================================================
