----------------------------- MODULE AgentHooks -----------------------------
(***************************************************************************)
(* The hooks of the coding harnesses at work in one tree.  Every prompt,   *)
(* tool call and stop of a session starts a process of its own; they share *)
(* the work ledger, which an update reads and replaces under a lock, and   *)
(* the marker files of their harness, which no lock protects: exception    *)
(* tokens, and the marker that a session was reminded of its plan.         *)
(* One action reads or writes one file.                                    *)
(***************************************************************************)
EXTENDS WorkLedger, GovernorGate, Naturals

CONSTANTS Hooks,        \* processes that may run at a time
          Sessions,
          HarnessOf,    \* the harness of a session
          Prompts, Commands,
          Skills,       \* changes the workflow skills ask for
          Files,        \* what the ledger may hold at first
          MaxEvents,    \* hook runs, edits and commits of a behaviour
          MaxFaults     \* hooks that are killed or hang, changes of a
                        \*   marker file that fail

ASSUME HarnessAssumption == HarnessOf \in [Sessions -> Harnesses]
ASSUME NoneAssumption == None \notin Hooks \union {"failed"}
ASSUME SkillsAssumption == \A c \in Skills : c.kind \in {"goal", "workflow"}
ASSUME FilesAssumption ==
    \A f \in Files : f.kind = "ledger" => DOMAIN f.ledger = DOMAIN DefaultLedger

VARIABLES file,         \* current-work.json
          lock,         \* the process with the flock on current-work.json.lock
          flock,        \* whether the filesystem has flock
          tokens,       \* exception-token markers of a harness, oldest first
          marker,       \* stage-gate marker of a session
          tree,         \* paths that differ from HEAD
          recent,       \* paths of a commit of the last two hours
          pc, sess, event, placed,
          change,       \* what the update changes
          base,         \* the ledger it read
          seen,         \* the changed paths a Stop goes by
          round,        \* 1 at the stage gate, 2 at the plan-execute gate
          todo, doomed, \* markers it has yet to look at, the one it will unlink
          says,         \* the segments of its message
          stuck,        \* processes that hang
          told,         \* history: reminders a session was shown
          refused,      \* history: sessions a claim of which was refused
          failed,       \* history: sessions a Stop hook of which was killed,
                        \*   hangs, or failed to change a marker file
          verdict,      \* history: the last result written to the ledger
          left, faults

ledger == <<file, lock, flock>>
git == <<tree, recent>>
history == <<told, refused, failed, verdict>>
local == <<sess, event, placed, change, base, seen, round, todo, doomed, says>>
vars == <<ledger, tokens, marker, git, pc, local, stuck, history, left, faults>>

NoMarker == [by |-> None, is |-> "absent"]
DayOld == [by |-> None, is |-> "stale"]

Init ==
    /\ file \in Files
    /\ lock = None
    /\ flock \in BOOLEAN
    /\ tokens = [a \in Harnesses |-> <<>>]
    /\ \E m \in {NoMarker, DayOld} : marker = [s \in Sessions |-> m]
    /\ tree = ImplFiles
    /\ recent = {}
    /\ pc = [h \in Hooks |-> "idle"]
    /\ sess = [h \in Hooks |-> None]
    /\ event = [h \in Hooks |-> "none"]
    /\ placed = [h \in Hooks |-> TRUE]
    /\ change = [h \in Hooks |-> None]
    /\ base = [h \in Hooks |-> None]
    /\ seen = [h \in Hooks |-> {}]
    /\ round = [h \in Hooks |-> 1]
    /\ todo = [h \in Hooks |-> {}]
    /\ doomed = [h \in Hooks |-> None]
    /\ says = [h \in Hooks |-> {}]
    /\ stuck = {}
    /\ told = [s \in Sessions |-> 0]
    /\ refused = {}
    /\ failed = {}
    /\ verdict = None
    /\ left = MaxEvents
    /\ faults = MaxFaults

At(h, l) == pc[h] = l /\ h \notin stuck
Goto(h, l) == pc' = [pc EXCEPT ![h] = l]
Set(f, h, v) == [f EXCEPT ![h] = v]

\* The process ends, and with it all it knew.
Finish(h) ==
    /\ Goto(h, "idle")
    /\ sess' = Set(sess, h, None) /\ event' = Set(event, h, "none")
    /\ placed' = Set(placed, h, TRUE) /\ change' = Set(change, h, None)
    /\ base' = Set(base, h, None) /\ seen' = Set(seen, h, {})
    /\ round' = Set(round, h, 1) /\ todo' = Set(todo, h, {})
    /\ doomed' = Set(doomed, h, None) /\ says' = Set(says, h, {})

-----------------------------------------------------------------------------
(* The working tree.                                                       *)

Edit(p) ==
    /\ left > 0 /\ left' = left - 1
    /\ p \notin tree
    /\ tree' = tree \union {p}
    /\ UNCHANGED <<ledger, tokens, marker, recent, pc, local, stuck, history, faults>>

Commit ==
    /\ left > 0 /\ left' = left - 1
    /\ tree # {}
    /\ recent' = tree
    /\ tree' = {}
    /\ UNCHANGED <<ledger, tokens, marker, pc, local, stuck, history, faults>>

\* What counts as changed: the last commit, when nothing is uncommitted.
ChangedFiles == IF tree # {} THEN tree ELSE recent

-----------------------------------------------------------------------------
(* Events.  A process whose cwd the harness cannot place leaves the ledger *)
(* alone.                                                                  *)

Start(h, s, kind, p, c, l) ==
    /\ At(h, "idle")
    /\ left > 0 /\ left' = left - 1
    /\ Goto(h, l)
    /\ sess' = Set(sess, h, s)
    /\ event' = Set(event, h, kind)
    /\ placed' = Set(placed, h, p)
    /\ change' = Set(change, h, c)
    /\ UNCHANGED <<base, seen, round, todo, doomed, says, stuck>>

\* UserPromptSubmit of a prompt no safety rule stops: its token, if it has
\* one, becomes a marker before the ledger gets the prompt.
UserPrompt(h, a) ==
    \E prompt \in Prompts, p \in BOOLEAN :
        /\ SafeParse(prompt) # "blocked"
        /\ tokens' = IF prompt.token = Nothing THEN tokens
                     ELSE [tokens EXCEPT ![a] = Append(@, prompt.token)]
        /\ IF p /\ ~IsHarnessNotification(prompt)
           THEN Start(h, None, "prompt", p, [kind |-> "prompt", arg |-> prompt.text], "lock")
           ELSE /\ At(h, "idle") /\ prompt.token # Nothing
                /\ left > 0 /\ left' = left - 1
                /\ UNCHANGED <<pc, local, stuck>>
        /\ UNCHANGED <<ledger, marker, git, history, faults>>

\* PostToolUse of a command that PreToolUse let through and that has a verdict.
ToolUse(h, a) ==
    \E command \in Commands, v \in Verdicts[a] \ {Nothing} :
        /\ ~BashDenied(command)
        /\ IsVerificationCommand(command)
        /\ Start(h, None, "tool", TRUE, [kind |-> "result", arg |-> v = "passed"], "lock")
        /\ UNCHANGED <<ledger, tokens, marker, git, history, faults>>

Skill(h) ==
    \E c \in Skills :
        /\ Start(h, None, "skill", TRUE, c, "lock")
        /\ UNCHANGED <<ledger, tokens, marker, git, history, faults>>

Stop(h, s) ==
    \E p \in BOOLEAN :
        /\ Start(h, s, "stop", p, None, IF p THEN "git" ELSE "changed")
        /\ UNCHANGED <<ledger, tokens, marker, git, history, faults>>

\* git is asked before the lock is taken; a git that fails has no answer, which
\* reads like no file.
AskGit(h) ==
    /\ At(h, "git")
    /\ \E py \in {tree \intersect PyFiles, {}} :
          change' = Set(change, h, [kind |-> "files", arg |-> py])
    /\ Goto(h, "lock")
    /\ UNCHANGED <<ledger, tokens, marker, git, sess, event, placed, base, seen, round, todo,
                   doomed, says, stuck, history, left, faults>>

-----------------------------------------------------------------------------
(* An update of the ledger.                                                *)

\* A Stop goes on to its reminders; any other process has nothing left to do.
AfterUpdate(h) ==
    IF event[h] = "stop"
    THEN /\ Goto(h, "changed")
         /\ change' = Set(change, h, None) /\ base' = Set(base, h, None)
         /\ UNCHANGED <<sess, event, placed, seen, round, todo, doomed, says>>
    ELSE Finish(h)

Acquire(h) ==
    /\ At(h, "lock") /\ flock
    /\ lock = None
    /\ lock' = h
    /\ Goto(h, "read")
    /\ UNCHANGED <<file, flock, tokens, marker, git, local, stuck, history, left, faults>>

\* Where nobody can lock, updates run as they are.
GoUnlocked(h) ==
    /\ At(h, "lock") /\ ~flock
    /\ Goto(h, "read")
    /\ UNCHANGED <<ledger, tokens, marker, git, local, stuck, history, left, faults>>

\* mutant: an update that waited long enough goes ahead
TimeOutWrites(h) ==
    /\ At(h, "lock") /\ flock
    /\ lock # None
    /\ Goto(h, "read")
    /\ UNCHANGED <<ledger, tokens, marker, git, local, stuck, history, left, faults>>

\* mutant: a blocking flock
TimeOutNever(h) == At(h, "lock") /\ FALSE /\ UNCHANGED vars

\* Another writer held the lock for _LOCK_TIMEOUT_S: the update is dropped.
TimeOut(h) ==
    /\ At(h, "lock") /\ flock
    /\ lock # None
    /\ AfterUpdate(h)
    /\ UNCHANGED <<ledger, tokens, marker, git, stuck, history, left, faults>>

\* flock refuses this caller for a reason of its own: dropped as well.
LockDenied(h) ==
    /\ At(h, "lock") /\ flock
    /\ AfterUpdate(h)
    /\ UNCHANGED <<ledger, tokens, marker, git, stuck, history, left, faults>>

ReadBase(h) ==
    /\ At(h, "read")
    /\ base' = Set(base, h, Load(file))
    /\ Goto(h, "write")
    /\ UNCHANGED <<ledger, tokens, marker, git, sess, event, placed, change, seen, round, todo,
                   doomed, says, stuck, history, left, faults>>

\* os.replace swaps the new ledger in, or the write fails and nothing changes.
Replace(h) ==
    /\ At(h, "write")
    /\ \/ /\ file' = Written(Apply(base[h], change[h]))
          /\ verdict' = IF change[h].kind = "result" THEN file'.ledger.status ELSE verdict
       \/ UNCHANGED <<file, verdict>>
    /\ Goto(h, "unlock")
    /\ UNCHANGED <<lock, flock, tokens, marker, git, local, stuck, told, refused, failed, left, faults>>

Unlock(h) ==
    /\ At(h, "unlock")
    /\ lock' = IF lock = h THEN None ELSE lock
    /\ AfterUpdate(h)
    /\ UNCHANGED <<file, flock, tokens, marker, git, stuck, history, left, faults>>

-----------------------------------------------------------------------------
(* The reminders of a Stop.                                                *)

AskChanged(h) ==
    /\ At(h, "changed")
    /\ seen' = Set(seen, h, ChangedFiles)
    /\ Goto(h, "compose")
    /\ UNCHANGED <<ledger, tokens, marker, git, sess, event, placed, change, base, round, todo,
                   doomed, says, stuck, history, left, faults>>

Diffs == [CosmeticFiles -> {"empty", "cosmetic", "substantive"}]
Prs == {Nothing} \union {LogPr[p] : p \in LogEntries}

\* The completion gate asks git once more, and gh for the pull request.
Segments(h, diff, pr) ==
    {x \in {"sync", "governor"} :
        CASE x = "sync"     -> SyncAdvisory(seen[h]) # Nothing
          [] x = "governor" -> GovernorChangingSegment(ChangedFiles, LatestToken(tokens[HarnessOf[sess[h]]]), diff, pr)}
    \union (IF placed[h] THEN WorkflowAdvisories(file, seen[h], GovernorWork(seen[h])) ELSE {})

\* The gates are about a changed implementation source.
FirstGate(h) == IF placed[h] /\ seen[h] \intersect ImplFiles # {} THEN "stage" ELSE "consume"

BuildSegments(h) ==
    /\ At(h, "compose")
    /\ \E diff \in Diffs, pr \in Prs : says' = Set(says, h, Segments(h, diff, pr))
    /\ Goto(h, FirstGate(h))
    /\ UNCHANGED <<ledger, tokens, marker, git, sess, event, placed, change, base, seen, round,
                   todo, doomed, stuck, history, left, faults>>

\* A gate that stays silent hands over to the next one.
NextGate(h) ==
    /\ Goto(h, IF round[h] = 1 THEN "stage" ELSE "consume")
    /\ round' = Set(round, h, 2)

GatedStages(n) == IF n = 1 THEN {"idle", "complete", "blocked"} ELSE {"planned"}

ReadStage(h) ==
    /\ At(h, "stage")
    /\ IF LedgerStage(file) \in GatedStages(round[h])
       THEN Goto(h, "token") /\ UNCHANGED round
       ELSE NextGate(h)
    /\ UNCHANGED <<ledger, tokens, marker, git, sess, event, placed, change, base, seen, todo,
                   doomed, says, stuck, history, left, faults>>

ReadToken(h) ==
    /\ At(h, "token")
    /\ IF LatestToken(tokens[HarnessOf[sess[h]]]) \in PlanWaiverTokens
       THEN NextGate(h)
       ELSE Goto(h, "fired") /\ UNCHANGED round
    /\ UNCHANGED <<ledger, tokens, marker, git, sess, event, placed, change, base, seen, todo,
                   doomed, says, stuck, history, left, faults>>

\* The markers of a state directory.
MarkersWith(s) == {t \in Sessions : HarnessOf[t] = HarnessOf[s] /\ marker[t] # NoMarker}

\* A fault, of which there are MaxFaults; the history notes the session.
Fails(h) ==
    /\ faults > 0 /\ faults' = faults - 1
    /\ failed' = failed \union ({sess[h]} \ {None})

\* mark_fired returns None: no reminder.
Refused(h) ==
    /\ refused' = refused \union {sess[h]}
    /\ Goto(h, "consume")

\* has_fired_this_session: a marker that cannot be read counts as none.
\* mark_fired then makes the directory and lists the markers it may prune.
HasFired(h) ==
    /\ At(h, "fired")
    /\ \/ /\ marker[sess[h]].is = "fresh"
          /\ NextGate(h)
          /\ UNCHANGED <<todo, refused, failed, faults>>
       \/ /\ todo' = Set(todo, h, MarkersWith(sess[h]))
          /\ Goto(h, "prune")
          /\ UNCHANGED <<round, refused, failed, faults>>
       \/ /\ Refused(h) /\ Fails(h)
          /\ UNCHANGED <<todo, round>>
    /\ UNCHANGED <<ledger, tokens, marker, git, sess, event, placed, change, base, seen,
                   doomed, says, stuck, told, verdict, left>>

\* mutant: markers are never pruned
PruneReadKeep(h) ==
    /\ At(h, "prune")
    /\ \E s \in todo[h] : todo' = Set(todo, h, todo[h] \ {s})
    /\ UNCHANGED <<ledger, tokens, marker, git, pc, sess, event, placed, change, base, seen, round,
                   doomed, says, stuck, history, left, faults>>

\* A marker that is gone, that cannot be read or that is a day old goes.
PruneRead(h) ==
    /\ At(h, "prune")
    /\ \E s \in todo[h] :
          /\ todo' = Set(todo, h, todo[h] \ {s})
          /\ \/ marker[s].is = "fresh" /\ UNCHANGED <<pc, doomed>>
             \/ doomed' = Set(doomed, h, s) /\ Goto(h, "unlink")
    /\ UNCHANGED <<ledger, tokens, marker, git, sess, event, placed, change, base, seen, round,
                   says, stuck, history, left, faults>>

\* unlink takes whatever has the name by now; where it fails, all stays.
PruneUnlink(h) ==
    /\ At(h, "unlink")
    /\ \/ marker' = Set(marker, doomed[h], NoMarker) /\ UNCHANGED <<failed, faults>>
       \/ Fails(h) /\ UNCHANGED marker
    /\ doomed' = Set(doomed, h, None)
    /\ Goto(h, "prune")
    /\ UNCHANGED <<ledger, tokens, git, sess, event, placed, change, base, seen, round, todo,
                   says, stuck, told, refused, verdict, left>>

\* The exclusive create that claims the reminder: the file is still empty.  It
\* is refused by another marker, or fails.
Claim(h) ==
    /\ At(h, "prune")
    /\ todo[h] = {}
    /\ \/ /\ marker[sess[h]] = NoMarker
          /\ marker' = Set(marker, sess[h], [by |-> h, is |-> "empty"])
          /\ Goto(h, "stamp")
          /\ UNCHANGED <<refused, failed, faults>>
       \/ /\ marker[sess[h]] # NoMarker
          /\ Refused(h)
          /\ UNCHANGED <<marker, failed, faults>>
       \/ /\ Refused(h) /\ Fails(h)
          /\ UNCHANGED marker
    /\ UNCHANGED <<ledger, tokens, git, local, stuck, told, verdict, left>>

\* The record is written to the file that was created, unlinked or not; where
\* the write fails, the empty file stays.
Stamp(h) ==
    /\ At(h, "stamp")
    /\ \/ /\ marker' = IF marker[sess[h]].by = h
                       THEN Set(marker, sess[h], [by |-> h, is |-> "fresh"])
                       ELSE marker
          /\ says' = Set(says, h, says[h] \union {"reminder"})
          /\ Goto(h, "consume")
          /\ UNCHANGED <<refused, failed, faults>>
       \/ /\ Refused(h) /\ Fails(h)
          /\ UNCHANGED <<marker, says>>
    /\ UNCHANGED <<ledger, tokens, git, sess, event, placed, change, base, seen, round, todo,
                   doomed, stuck, told, verdict, left>>

\* Every exception token of the harness, whoever wrote it.
ConsumeMarkers(h) ==
    /\ At(h, "consume")
    /\ tokens' = [tokens EXCEPT ![HarnessOf[sess[h]]] = <<>>]
    /\ Goto(h, "print")
    /\ UNCHANGED <<ledger, marker, git, local, stuck, history, left, faults>>

PrintMessage(h) ==
    /\ At(h, "print")
    /\ told' = IF "reminder" \in says[h] THEN [told EXCEPT ![sess[h]] = @ + 1] ELSE told
    /\ Finish(h)
    /\ UNCHANGED <<ledger, tokens, marker, git, stuck, refused, failed, verdict, left, faults>>

-----------------------------------------------------------------------------
(* Faults: a hook is killed, and its locks go with it, or hangs.           *)

Kill(h) ==
    /\ pc[h] # "idle" /\ h \notin stuck
    /\ lock' = IF lock = h THEN None ELSE lock
    /\ Fails(h)
    /\ Finish(h)
    /\ UNCHANGED <<file, flock, tokens, marker, git, stuck, told, refused, verdict, left>>

Hang(h) ==
    /\ pc[h] # "idle" /\ h \notin stuck
    /\ stuck' = stuck \union {h}
    /\ Fails(h)
    /\ UNCHANGED <<ledger, tokens, marker, git, pc, local, told, refused, verdict, left>>

-----------------------------------------------------------------------------

UpdateStep(h) ==
    Acquire(h) \/ GoUnlocked(h) \/ TimeOut(h) \/ ReadBase(h) \/ Replace(h) \/ Unlock(h)

StopStep(h) ==
    \/ AskGit(h) \/ AskChanged(h) \/ BuildSegments(h)
    \/ ReadStage(h) \/ ReadToken(h) \/ HasFired(h)
    \/ PruneRead(h) \/ PruneUnlink(h) \/ Claim(h) \/ Stamp(h)
    \/ ConsumeMarkers(h) \/ PrintMessage(h)

Event(h) ==
    \/ \E a \in Harnesses : UserPrompt(h, a) \/ ToolUse(h, a)
    \/ Skill(h)
    \/ \E s \in Sessions : Stop(h, s)

Next ==
    \/ \E p \in Paths : Edit(p)
    \/ Commit
    \/ \E h \in Hooks :
          \/ Event(h) \/ UpdateStep(h) \/ StopStep(h)
          \/ LockDenied(h) \/ Kill(h) \/ Hang(h)

HooksSpec ==
    Init /\ [][Next]_vars /\ \A h \in Hooks : WF_vars(UpdateStep(h) \/ StopStep(h))

-----------------------------------------------------------------------------
(* Properties.                                                             *)

\* Every ledger that is written is one update's change of the ledger it
\* replaces, so that no update undoes another one, wherever flock works
\* (_update_ledger).
UpdatesBuildOnEachOther ==
    [][flock /\ file' # file =>
          \E h \in Hooks : At(h, "write") /\ file' = Written(Apply(Load(file), change[h]))]_vars

\* A verification that failed is shown to every new session until another one
\* passes, whatever prompts, stops and skills wrote since (mark_verified,
\* build_session_summary).
FailureIsShown == flock /\ verdict = "failed" => "failed" \in SessionSummary(file)

\* A hook that was not killed and does not hang ends, even when another one
\* hangs with the lock (_lock_ledger: a hook must not hang on a stuck holder).
EveryHookEnds == \A h \in Hooks : (pc[h] # "idle") ~> (pc[h] = "idle" \/ h \in stuck)

\* A session one of whose claims was refused is reminded by another of its
\* hooks: whoever holds the marker is about to remind, however the hooks of
\* other sessions prune, die or hang meanwhile.  Excepted are the sessions a
\* hook of which was killed, hangs, or could not change a marker file
\* (mark_fired: another writer won; stage_gate.py:162, :165, :180).
RefusedIsTold ==
    \A s \in Sessions : (s \in refused) ~> (told[s] > 0 \/ s \in failed)
=============================================================================
