----------------------------- MODULE WorkLedger -----------------------------
(***************************************************************************)
(* The work ledger the coding harnesses share: what its file may hold, how *)
(* it is read, what each update helper changes, and what the hooks say     *)
(* after reading it.  No state: AgentHooks moves the file.                 *)
(***************************************************************************)
EXTENDS FiniteSets

CONSTANT None

\* Stages the gates tell apart; "unheard" is a string no version of them knows.
Stages == {"idle", "planned", "executing", "complete", "unheard"}

DefaultWorkflow == [stage |-> "idle", plan |-> None, review |-> "not_required"]

DefaultLedger ==
    [version |-> 2, prompt |-> None, goal |-> None, status |-> "unknown", files |-> {},
     workflow |-> DefaultWorkflow]

-----------------------------------------------------------------------------
(* The file: absent, text that is no ledger, or a ledger of some version.  *)
(* Version 1 had no workflow.                                              *)

Absent == [kind |-> "absent"]
Garbage == [kind |-> "garbage"]
Written(l) == [kind |-> "ledger", ledger |-> l]

NormaliseWorkflow(w) == IF w = None THEN DefaultWorkflow ELSE w

Readable(file) == file.kind = "ledger" /\ file.ledger.version \in {1, 2}

MigrateLedger(l) == [l EXCEPT !.version = 2, !.workflow = NormaliseWorkflow(@)]

\* What an update starts from: nobody may be told that the file was unreadable.
Load(file) == IF Readable(file) THEN MigrateLedger(file.ledger) ELSE DefaultLedger

\* The stage gate reads the file itself, and migrates nothing.
LedgerStage(file) ==
    IF file.kind = "ledger" /\ file.ledger.workflow # None THEN file.ledger.workflow.stage ELSE None

-----------------------------------------------------------------------------
(* The changes of the update helpers.                                      *)

RecordPrompt(l, p) == [l EXCEPT !.prompt = p]

RecordChangedFiles(l, py) ==
    [l EXCEPT !.files = py,
              !.status = IF py # {} /\ @ = "unknown" THEN "pending" ELSE @]

SetFields(l, g) == [l EXCEPT !.goal = g]

\* Only the arguments a skill passes; the others keep what they were.
SetWorkflow(l, args) ==
    LET old == NormaliseWorkflow(l.workflow)
    IN  [l EXCEPT !.workflow = [k \in DOMAIN old |-> IF k \in DOMAIN args THEN args[k] ELSE old[k]]]

\* A pass clears the list of changed files.
RecordResult(l, passed) ==
    [l EXCEPT !.status = IF passed THEN "passed" ELSE "failed",
              !.files = IF passed THEN {} ELSE @]

Apply(l, change) ==
    CASE change.kind = "prompt"   -> RecordPrompt(l, change.arg)
      [] change.kind = "files"    -> RecordChangedFiles(l, change.arg)
      [] change.kind = "goal"     -> SetFields(l, change.arg)
      [] change.kind = "workflow" -> SetWorkflow(l, change.arg)
      [] change.kind = "result"   -> RecordResult(l, change.arg)

-----------------------------------------------------------------------------
(* What a Stop hook advises, and what a new session is told.               *)

WorkflowAdvisories(file, changed, governorChanging) ==
    LET l == Load(file)
    IN  IF changed = {} THEN {}
        ELSE {s \in {"plan", "review", "verify"} :
                 CASE s = "plan"   -> governorChanging /\ l.workflow.plan = None
                   [] s = "review" -> governorChanging /\ l.workflow.review \in {None, "not_required", "pending"}
                   [] s = "verify" -> l.status \in {"pending", "failed"} /\ l.files # {}}

\* mutant: a complete workflow hides whatever is left
CompletedCacheAny(l) == l.workflow.stage = "complete"

\* A completed cache is not a request to resume old work.
CompletedCache(l) ==
    /\ l.workflow.stage = "complete"
    /\ l.files = {}
    /\ l.status \notin {"pending", "failed"}
    /\ l.workflow.review \in {None, "not_required", "complete"}

HasContent(l) ==
    \/ l.goal # None
    \/ l.prompt # None
    \/ l.status # "unknown"
    \/ l.files # {}
    \/ l.workflow.stage \notin {None, "idle"}

\* The lines of the summary: the verification line always says its status.
SessionSummary(file) ==
    LET l == Load(file)
    IN  IF ~Readable(file) \/ CompletedCache(l) \/ ~HasContent(l) THEN {}
        ELSE {l.status} \union {s \in {"goal", "modified", "last_msg"} :
                 CASE s = "goal"     -> l.goal # None
                   [] s = "modified" -> l.files # {} /\ l.status \in {"unknown", "pending", "failed"}
                   [] s = "last_msg" -> l.prompt # None}
=============================================================================
