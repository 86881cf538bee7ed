---------------------------- MODULE GovernorGate ----------------------------
(***************************************************************************)
(* The policy the hooks of every harness share: what a prompt, a command   *)
(* and the result of a tool mean to them, and which reminders a set of     *)
(* changed paths earns.  No state: AgentHooks calls these.                 *)
(***************************************************************************)
EXTENDS FiniteSets, Sequences

CONSTANTS Paths,            \* paths of the working tree
          PyFiles,          \* those that end with .py
          ImplFiles,        \* .py files under src/ or examples/
          GovernorFiles,    \* those a Tier A, B or C glob matches
          FoundationFiles,  \* those with a foundation prefix
          StructureFiles,   \* src/ files of a domain's structure
          CosmeticFiles,    \* the two files /sync-guidelines rewrites
          LogEntries,       \* governor-review-log entries
          LogPr,            \* the pull request a log entry is about
          Harnesses,
          Nothing           \* no value

ASSUME PathsAssumption ==
    /\ ImplFiles \subseteq PyFiles /\ PyFiles \subseteq Paths
    /\ GovernorFiles \subseteq Paths /\ FoundationFiles \subseteq Paths
    /\ StructureFiles \subseteq Paths /\ CosmeticFiles \subseteq Paths /\ LogEntries \subseteq Paths

-----------------------------------------------------------------------------
(* Prompts.  One of them: its exception token, whether a safety rule       *)
(* matches, whether it is nothing but a block of the harness's own.        *)

PlanWaiverTokens == {"trivial", "hotfix"}
ExplorationTokens == {"exploration"}
Tokens == PlanWaiverTokens \union ExplorationTokens

CheckSafety(prompt) == prompt.danger

\* The parser is never reached past a safety rule.
SafeParse(prompt) == IF CheckSafety(prompt) THEN "blocked" ELSE prompt.token

IsHarnessNotification(prompt) == prompt.notice

\* The most recent marker of a state directory.
LatestToken(markers) == IF markers = <<>> THEN Nothing ELSE markers[Len(markers)]

-----------------------------------------------------------------------------
(* Commands, and how their result is read.                                 *)

BashDenied(command) == command.danger

\* One program, its own exit status, and no inspection flag.
IsVerificationCommand(command) ==
    /\ ~command.composite
    /\ ~command.inspects
    /\ \/ command.program \in {"pytest", "pyright"}
       \/ <<command.program, command.verb>> \in
             {<<"pre-commit", "run">>, <<"python", "-m pytest">>, <<"make", "test">>, <<"make", "demo-rag">>,
              <<"make", "demo">>, <<"make", "check-core">>, <<"alembic", "upgrade">>}

\* A result as a payload carries it: an exit code, an error envelope, the text
\* of the shell tool.  Nothing where the field is missing.
Responses == [code : {Nothing, 0, 1}, error : {Nothing, "cancelled", "other"},
              text : {Nothing, "output", "output_signal", "output_exit", "output_background",
                      "status", "rejected"}]

Verdict(code) == IF code = Nothing THEN Nothing ELSE IF code = 0 THEN "passed" ELSE "failed"

\* The Codex hook knows codes only.
CodexVerdict(r) == Verdict(r.code)

\* The text of a completed foreground command starts with "Output:".
ShellTextOutcome(text) ==
    CASE text = "output"                                  -> 0
      [] text \in {"output_signal", "output_exit", "rejected"} -> 1
      [] text \in {"output_background", "status", Nothing}  -> Nothing

AntigravityVerdict(r) ==
    CASE r.error = "cancelled"                      -> Nothing
      [] r.error # "cancelled" /\ r.code # Nothing    -> Verdict(r.code)
      [] r.error = "other" /\ r.code = Nothing        -> "failed"
      [] r.error = Nothing /\ r.code = Nothing        -> Verdict(ShellTextOutcome(r.text))

\* What a hook of each harness may make of the result of a command.
Verdicts == [a \in Harnesses |-> {IF a = "codex" THEN CodexVerdict(r) ELSE AntigravityVerdict(r) : r \in Responses}]

-----------------------------------------------------------------------------
(* Reminders about the changed paths.                                      *)

SyncAdvisory(changed) ==
    IF changed \intersect FoundationFiles # {} THEN "foundation"
    ELSE IF changed \intersect StructureFiles # {} THEN "structure" ELSE Nothing

IsLogOnlyBackfill(changed) == changed # {} /\ changed \subseteq LogEntries

IsGovernorChanging(changed) == changed \intersect GovernorFiles # {}

\* What a Stop hook takes for governor-changing work.
GovernorWork(changed) == ~IsLogOnlyBackfill(changed) /\ IsGovernorChanging(changed)

\* diff is what git says of each cosmetic file; no diff at all is cosmetic too.
IsCosmeticDiff(diff) == diff \in {"empty", "cosmetic"}

IsSyncCosmeticOnly(subset, diff) ==
    subset # {} /\ \A p \in subset : p \in CosmeticFiles /\ IsCosmeticDiff(diff[p])

MatchLogEntry(changed, pr) ==
    LET entries == changed \intersect LogEntries
    IN  CASE entries = {}                 -> "missing"
          [] entries # {} /\ pr = Nothing -> "unknown"
          [] entries # {} /\ pr # Nothing -> IF \E p \in entries : LogPr[p] = pr THEN "match" ELSE "mismatch"

\* Whether the completion gate reminds of the Governor Footer.
GovernorChangingSegment(changed, token, diff, pr) ==
    /\ changed # {}
    /\ ~IsLogOnlyBackfill(changed)
    /\ token \notin ExplorationTokens
    /\ IsGovernorChanging(changed)
    /\ ~IsSyncCosmeticOnly(changed \intersect GovernorFiles, diff)
    /\ MatchLogEntry(changed, pr) \in {"missing", "mismatch"}

\* The policy the hooks copied, as a status (the first that applies) and its
\* rendering.
EvaluateGate(changed, token, diff, pr) ==
    LET subset == changed \intersect GovernorFiles
    IN  IF changed = {} THEN "silent_no_changes"
        ELSE IF IsLogOnlyBackfill(changed) THEN "silent_log_only"
        ELSE IF token \in ExplorationTokens THEN "silent_exploration"
        ELSE IF subset = {} THEN "silent_not_governor"
        ELSE IF IsSyncCosmeticOnly(subset, diff) THEN "silent_sync_cosmetic"
        ELSE MatchLogEntry(changed, pr)

RenderReminder(status) == status \in {"missing", "mismatch"}
=============================================================================
