----------------------------- MODULE UsageLedger -----------------------------
(***************************************************************************)
(* A request that asks a language model, from the retrieval of its context *)
(* to the answer its client gets, and the ledger of usage that is written  *)
(* on the way.  track_agent_usage wraps the call of the model: whatever    *)
(* the call ends with, a row is inserted, once for each call_id, and then  *)
(* the answer or the exception goes on.  The ledger is a table of its own, *)
(* so that its failures, its rival writers and the reports that read it    *)
(* meet the request at every await.                                        *)
(***************************************************************************)
EXTENDS Naturals, FiniteSets, FiniteSetsExt

CONSTANTS Reqs,        \* requests; the fresh call_id of an adapter is its request
          JobIds,      \* call_ids that callers other than the adapters choose
          Orgs,        \* organisations such callers charge
          Errors,      \* what the embedder and the model may raise
          PageSize,    \* rows on a page of the usage list
          None

Agents == {"docs_answer", "classification", "job"}
CallIds == Reqs \union JobIds
Ok == [code |-> "ok"]

\* A text the user sends, as far as the input guard tells texts apart:
\* harmless, an imperative of the rule table, or one with invisible characters.
Texts == {"benign", "imperative", "smuggled"}
StripInvisible(text) == IF text = "smuggled" THEN "imperative" ELSE text
DetectPromptInjection(text) == \E t \in {text, StripInvisible(text)} : t = "imperative"

\* A mention of personal data: its type, whose it is, and how it is formatted.
Mentions == [type : {"email", "phone"}, value : {"a"}, form : {"plain", "spaced"}]
ScanPii(text) == {<<m.type, m.value>> : m \in text}
BlockingPiiTypes == {"email", "ipv4"}
\* An answer is blocked for precise personal data that no chunk contains.
CheckOutput(answer, chunks) ==
    \A t \in ScanPii(answer) \ UNION {ScanPii(c) : c \in chunks} : t[1] \notin BlockingPiiTypes

\* The two exceptions of the guards, marked is_guardrail_block.
PromptInjectionDetected ==
    [source |-> "app", name |-> "promptinjectiondetected", says |-> {"blocked"},
     code |-> "PROMPT_INJECTION_DETECTED"]
GuardrailBlocked ==
    [source |-> "app", name |-> "guardrailblocked", says |-> {"blocked"},
     code |-> "GUARDRAIL_BLOCKED"]
Blocks == {PromptInjectionDetected, GuardrailBlocked}
Causes == {Ok} \union Blocks \union Errors

\* The status of a ledger row, read off the class and the text of an exception.
TimeoutNames == {"timeouterror", "apitimeouterror"}
RateLimitIn == {"ratelimiterror", "ratelimitexception"}
StatusFromException(e) ==
    CASE e.name \in TimeoutNames \/ "timeout" \in e.says -> "timeout"
      [] e.name \in RateLimitIn \/ {"rate", "limit"} \subseteq e.says -> "rate_limited"
      [] OTHER -> "error"
StatusOf(c) == IF c = Ok THEN "ok" ELSE StatusFromException(c)

\* What the server answers for an exception.
IsProviderException(e) == e.source \in {"provider", "bedrock_model"}
RateLimitNames == RateLimitIn \union {"throttlingexception", "toomanyrequestsexception"}
AuthNames == {"authenticationerror", "unauthorizederror"}
ContextNames == {"contextlengtherror", "maxtokensexceeded"}
NotFoundNames == {"modelnotfounderror", "modelnotfoundexception"}
Classify(e) ==
    CASE e.name \in RateLimitNames \/ "throttl" \in e.says \/ {"rate", "limit"} \subseteq e.says
            -> "LLM_RATE_LIMITED"
      [] e.name \in AuthNames \/ {"authentication", "unauthorized"} \intersect e.says # {}
            -> "LLM_AUTH_FAILED"
      [] e.name \in ContextNames \/ ("context" \in e.says /\ {"length", "window"} \intersect e.says # {})
            -> "LLM_CONTEXT_LENGTH_EXCEEDED"
      [] e.name \in NotFoundNames \/ {"model", "not found"} \subseteq e.says
            -> "LLM_MODEL_NOT_FOUND"
      [] OTHER -> "INTERNAL_SERVER_ERROR"
ErrorCode(e) == CASE e \in Blocks -> e.code
                  [] e \notin Blocks /\ IsProviderException(e) -> Classify(e)
                  [] OTHER -> "INTERNAL_SERVER_ERROR"
AnswerTo(c) == IF c = Ok THEN "ok" ELSE ErrorCode(c)

Statuses == {"ok", "error", "timeout", "rate_limited"}
Codes == {"ok", "PROMPT_INJECTION_DETECTED", "GUARDRAIL_BLOCKED", "LLM_RATE_LIMITED",
          "LLM_AUTH_FAILED", "LLM_CONTEXT_LENGTH_EXCEEDED", "LLM_MODEL_NOT_FOUND",
          "INTERNAL_SERVER_ERROR"}
Labels == {"idle", "retrieve", "guard", "run", "output", "lock", "insert", "lookup",
           "respond", "done"}

ASSUME ErrorsAssumption ==
    /\ \A e \in Errors : DOMAIN e = {"source", "name", "says"}
    /\ None \notin Reqs /\ None \notin Orgs /\ None \notin Statuses

VARIABLES pc,          \* where a request is
          agent,       \* which caller of the tracker serves it
          id, org,     \* call_id and org_id it records under
          cause,       \* Ok, or the exception on its way up
          charged,     \* the model answered: its provider charges for it
          used,        \* the capture holds the usage of the run
          kept,        \* how the record went: "none", "row", "theirs", "failed"
          looks,       \* lookups after a unique violation
          answer,      \* what the client got
          lock,        \* the insert lock of each recorder
          ledger,      \* ai_usage_log: a row, or None, for each call_id
          visible,     \* call_ids a new session finds
          report       \* one reader of the ledger: summary or list

call == <<agent, id, org, cause, charged, used>>
store == <<ledger, visible>>
vars == <<pc, call, kept, looks, answer, lock, store, report>>

Rows == [by : Reqs, org : Orgs \union {None}, status : Statuses, tokens : BOOLEAN, blocked : BOOLEAN]

ASSUME RowsAssumption == None \notin Rows
ASSUME PageAssumption == PageSize \in Nat

LedgerTypeOK ==
    /\ pc \in [Reqs -> Labels]
    /\ agent \in [Reqs -> Agents]
    /\ id \in [Reqs -> CallIds]
    /\ org \in [Reqs -> Orgs \union {None}]
    /\ cause \in [Reqs -> Causes]
    /\ charged \in [Reqs -> BOOLEAN]
    /\ used \in [Reqs -> BOOLEAN]
    /\ kept \in [Reqs -> {"none", "row", "theirs", "failed"}]
    /\ looks \in [Reqs -> 0 .. 3]
    /\ answer \in [Reqs -> Codes \union {"none", "cancelled"}]
    /\ lock \in [Agents -> Reqs \union {None}]
    /\ ledger \in [CallIds -> Rows \union {None}]
    /\ visible \subseteq {c \in CallIds : ledger[c] # None}

Idle == [pc |-> "idle", status |-> None, calls |-> 0, counted |-> 0]

Init ==
    /\ pc = [r \in Reqs |-> "idle"]
    /\ agent = [r \in Reqs |-> "job"]
    /\ id = [r \in Reqs |-> r]
    /\ org = [r \in Reqs |-> None]
    /\ cause = [r \in Reqs |-> Ok]
    /\ charged = [r \in Reqs |-> FALSE]
    /\ used = [r \in Reqs |-> FALSE]
    /\ kept = [r \in Reqs |-> "none"]
    /\ looks = [r \in Reqs |-> 0]
    /\ answer = [r \in Reqs |-> "none"]
    /\ lock = [a \in Agents |-> None]
    /\ ledger = [c \in CallIds |-> None]
    /\ visible = {}
    /\ report = Idle

Goto(r, from, to) == pc[r] = from /\ pc' = [pc EXCEPT ![r] = to]

-----------------------------------------------------------------------------
\* The question arrives at the router of docs or of classification, under a
\* fresh call_id and without org_id; or a caller of track_agent_usage brings
\* its own call_id, which an earlier attempt may have used.
AskDocs(r) ==
    /\ Goto(r, "idle", "retrieve")
    /\ agent' = [agent EXCEPT ![r] = "docs_answer"]
    /\ UNCHANGED <<id, org, cause, charged, used, kept, looks, answer, lock, store, report>>

AskClassify(r) ==
    /\ Goto(r, "idle", "guard")
    /\ agent' = [agent EXCEPT ![r] = "classification"]
    /\ UNCHANGED <<id, org, cause, charged, used, kept, looks, answer, lock, store, report>>

AskJob(r) ==
    /\ Goto(r, "idle", "run")
    /\ \E c \in JobIds, o \in Orgs : /\ id' = [id EXCEPT ![r] = c]
                                     /\ org' = [org EXCEPT ![r] = o]
    /\ UNCHANGED <<agent, cause, charged, used, kept, looks, answer, lock, store, report>>

\* The question is embedded and searched before the tracker is entered: an
\* error here goes to the client and leaves no row.
Retrieve(r) ==
    /\ \/ Goto(r, "retrieve", "guard") /\ UNCHANGED cause
       \/ /\ Goto(r, "retrieve", "respond")
          /\ \E e \in Errors : cause' = [cause EXCEPT ![r] = e]
    /\ UNCHANGED <<agent, id, org, charged, used, kept, looks, answer, lock, store, report>>

\* Inside the tracker: the input guard looks at every text of the user.
InputGuard(r) ==
    /\ pc[r] = "guard"
    /\ \E text \in Texts, category \in Texts :
          IF \E t \in {text} \union (IF agent[r] = "classification" THEN {category} ELSE {}) :
                DetectPromptInjection(t)
          THEN /\ cause' = [cause EXCEPT ![r] = PromptInjectionDetected]
               /\ pc' = [pc EXCEPT ![r] = "lock"]
          ELSE pc' = [pc EXCEPT ![r] = "run"] /\ UNCHANGED cause
    /\ UNCHANGED <<agent, id, org, charged, used, kept, looks, answer, lock, store, report>>

\* mutant: the usage is taken from the result after the output guard
RunThenGuard(r) ==
    /\ \/ /\ Goto(r, "run", IF agent[r] = "docs_answer" THEN "output" ELSE "lock")
          /\ charged' = [charged EXCEPT ![r] = TRUE]
          /\ used' = [used EXCEPT ![r] = agent[r] # "docs_answer"]
          /\ UNCHANGED cause
       \/ /\ Goto(r, "run", "lock")
          /\ \E e \in Errors : cause' = [cause EXCEPT ![r] = e]
          /\ UNCHANGED <<charged, used>>
    /\ UNCHANGED <<agent, id, org, kept, looks, answer, lock, store, report>>
\* agent.run answers, and its usage is captured at once, or raises.
Run(r) ==
    /\ \/ /\ Goto(r, "run", IF agent[r] = "docs_answer" THEN "output" ELSE "lock")
          /\ charged' = [charged EXCEPT ![r] = TRUE]
          /\ used' = [used EXCEPT ![r] = TRUE]
          /\ UNCHANGED cause
       \/ /\ Goto(r, "run", "lock")
          /\ \E e \in Errors : cause' = [cause EXCEPT ![r] = e]
          /\ UNCHANGED <<charged, used>>
    /\ UNCHANGED <<agent, id, org, kept, looks, answer, lock, store, report>>

\* The output guard of the docs adapter, over the chunks the prompt was made of.
OutputGuard(r) ==
    /\ Goto(r, "output", "lock")
    /\ \E text \in SUBSET Mentions, chunk \in SUBSET Mentions :
          cause' = [cause EXCEPT ![r] = IF CheckOutput(text, {chunk}) THEN @ ELSE GuardrailBlocked]
    /\ UNCHANGED <<agent, id, org, charged, used, kept, looks, answer, lock, store, report>>

-----------------------------------------------------------------------------
\* AgentUsageCapture.record, through the service, to insert_usage_once.
\* The usage of a captured result; a call without one counts zeros.
TokensOf(r) == used[r]
\* mutant: the exception of the output guard has no marker
RecordUnmarked(r) == [by |-> r, org |-> org[r], status |-> StatusOf(cause[r]), tokens |-> TokensOf(r),
                      blocked |-> cause[r] = PromptInjectionDetected]
Record(r) == [by |-> r, org |-> org[r], status |-> StatusOf(cause[r]), tokens |-> TokensOf(r),
              blocked |-> cause[r] \in Blocks]

AcquireLock(r) ==
    /\ Goto(r, "lock", "insert")
    /\ lock[agent[r]] = None
    /\ lock' = [lock EXCEPT ![agent[r]] = r]
    /\ UNCHANGED <<call, kept, looks, answer, store, report>>

\* The record is over, one way or the other: the lock is free again.
\* mutant: a failed insert leaves the lock taken
EndRecordHolding(r, from, how) ==
    /\ Goto(r, from, "respond")
    /\ kept' = [kept EXCEPT ![r] = how]
    /\ lock' = [lock EXCEPT ![agent[r]] = IF how = "failed" THEN @ ELSE None]
    /\ UNCHANGED <<call, looks, answer, report>>
EndRecord(r, from, how) ==
    /\ Goto(r, from, "respond")
    /\ kept' = [kept EXCEPT ![r] = how]
    /\ lock' = [lock EXCEPT ![agent[r]] = None]
    /\ UNCHANGED <<call, looks, answer, report>>

Store(r) == ledger' = [ledger EXCEPT ![id[r]] = Record(r)]

\* The commit and the refresh of the new row.  A session that loses its
\* connection in between has stored the row and still raises.
Insert(r) ==
    /\ ledger[id[r]] = None
    /\ \/ EndRecord(r, "insert", "row") /\ Store(r)
       \/ EndRecord(r, "insert", "failed") /\ Store(r)
       \/ EndRecord(r, "insert", "failed") /\ UNCHANGED ledger
    /\ UNCHANGED visible

\* Another row has the call_id: IntegrityError, rollback, and the lookups begin.
UniqueViolation(r) ==
    /\ Goto(r, "insert", "lookup")
    /\ ledger[id[r]] # None
    /\ UNCHANGED <<call, kept, looks, answer, lock, store, report>>

\* One of three lookups, each in a session of its own: the row that is there
\* is the result, whatever its fields, and without one the error is raised.
SelectExisting(r) ==
    /\ UNCHANGED store
    /\ \/ id[r] \in visible /\ EndRecord(r, "lookup", "theirs")
       \/ id[r] \notin visible /\ looks[r] = 2 /\ EndRecord(r, "lookup", "failed")
       \/ /\ id[r] \notin visible /\ looks[r] < 2
          /\ pc[r] = "lookup"
          /\ looks' = [looks EXCEPT ![r] = @ + 1]
          /\ UNCHANGED <<pc, call, kept, answer, lock, report>>
       \/ EndRecord(r, "lookup", "failed")    \* the lookup's own session fails

\* A committed row reaches the sessions of every process.
BecomesVisible(c) ==
    /\ ledger[c] # None /\ c \notin visible
    /\ visible' = visible \union {c}
    /\ UNCHANGED <<pc, call, kept, looks, answer, lock, ledger, report>>

\* mutant: every caller is strict
StrictAlways(r) == kept[r] = "failed" /\ cause[r] = Ok
\* Only a strict recorder, the default no adapter uses, turns an answer into
\* an error; an exception of the call is never replaced by one of the record.
RecordRaises(r) == kept[r] = "failed" /\ cause[r] = Ok /\ agent[r] = "job"

Respond(r) ==
    /\ Goto(r, "respond", "done")
    /\ answer' = [answer EXCEPT ![r] = IF RecordRaises(r) THEN "INTERNAL_SERVER_ERROR"
                                       ELSE AnswerTo(cause[r])]
    /\ UNCHANGED <<call, kept, looks, lock, store, report>>

\* A cancelled task: CancelledError is no Exception, so nothing is recorded for
\* it, and a commit under way may have been made or not.
Cancel(r) ==
    /\ pc[r] \in {"retrieve", "run", "lock", "insert", "lookup"}
    /\ pc' = [pc EXCEPT ![r] = "done"]
    /\ answer' = [answer EXCEPT ![r] = "cancelled"]
    /\ lock' = [a \in Agents |-> IF lock[a] = r THEN None ELSE lock[a]]
    /\ \/ UNCHANGED ledger
       \/ pc[r] = "insert" /\ ledger[id[r]] = None /\ Store(r)
    /\ UNCHANGED <<call, kept, looks, visible, report>>

-----------------------------------------------------------------------------
\* The two reports of the router and their filter by status; the others filter
\* alike.  A summary and its totals by organisation are two sessions, a page of
\* the list and the number of all its rows two statements.
Matching(status) == {c \in CallIds : ledger[c] # None /\ (status = None \/ ledger[c].status = status)}
\* mutant: the calls without an organisation, all those of the adapters, are left out
SumByKnownOrg(status) == Cardinality({c \in Matching(status) : ledger[c].org \in Orgs})
\* The calls of all groups: they are disjoint, so their counts add up to this.
SumByOrg(status) == Cardinality({c \in Matching(status) : ledger[c].org \in Orgs \union {None}})
SelectUsageSummary ==
    /\ report.pc = "idle"
    /\ \E s \in Statuses \union {None} :
          report' = [pc |-> "by_org", status |-> s, calls |-> Cardinality(Matching(s)), counted |-> 0]
    /\ UNCHANGED <<pc, call, kept, looks, answer, lock, store>>
SelectUsageByOrg ==
    /\ report.pc = "by_org"
    /\ report' = [report EXCEPT !.pc = "done", !.counted = SumByOrg(report.status)]
    /\ UNCHANGED <<pc, call, kept, looks, answer, lock, store>>
SelectUsageLogs ==
    /\ report.pc = "idle"
    /\ \E s \in Statuses \union {None} :
          report' = [pc |-> "count", status |-> s,
                     calls |-> Min({PageSize, Cardinality(Matching(s))}), counted |-> 0]
    /\ UNCHANGED <<pc, call, kept, looks, answer, lock, store>>
CountUsageLogs ==
    /\ report.pc = "count"
    /\ report' = [report EXCEPT !.pc = "done", !.counted = Cardinality(Matching(report.status))]
    /\ UNCHANGED <<pc, call, kept, looks, answer, lock, store>>

Step(r) == \/ AskDocs(r) \/ AskClassify(r) \/ AskJob(r)
           \/ Retrieve(r) \/ InputGuard(r) \/ Run(r) \/ OutputGuard(r)
           \/ AcquireLock(r) \/ Insert(r) \/ UniqueViolation(r) \/ SelectExisting(r) \/ Respond(r)

Next == \/ \E r \in Reqs : Step(r) \/ Cancel(r)
        \/ \E c \in CallIds : BecomesVisible(c)
        \/ SelectUsageSummary \/ SelectUsageByOrg \/ SelectUsageLogs \/ CountUsageLogs

LedgerSpec == Init /\ [][Next]_vars
\* The event loop runs what can run, and a call of the model or of the database
\* ends, by its timeout if by nothing else.
LedgerFairSpec == LedgerSpec /\ \A r \in Reqs : WF_vars(Step(r))

-----------------------------------------------------------------------------
Answered(r) == pc[r] = "done" /\ answer[r] # "cancelled"
Mine(r) == ledger[id[r]] # None /\ ledger[id[r]].by = r

\* What the provider charged for is on the ledger with its tokens, also when
\* the answer was blocked, however many rows of the same call_id race for it:
\* only a failed write or the row of another attempt stands in its place.  A
\* report, read in two steps, never shows a call that its total leaves out.
NothingPaidIsLost ==
    /\ \A r \in Reqs : Answered(r) /\ charged[r] =>
         \/ Mine(r) /\ ledger[id[r]].tokens
         \/ kept[r] = "failed"
         \/ ~Mine(r) /\ ledger[id[r]] # None
    /\ report.pc = "done" => report.calls <= report.counted

\* The adapters' ledger never decides their answer: whatever happens to the
\* record, the client of docs and classification gets the model's answer, the
\* guard's block or the mapped error.
AnswerSurvivesLedger ==
    \A r \in Reqs : Answered(r) /\ agent[r] # "job" => answer[r] = AnswerTo(cause[r])

\* A row tells the same story as the answer of the request that wrote it: marked
\* as blocked exactly when the client was told so, "ok" exactly when the call
\* was answered, unless a strict recorder raised after its row was stored.
RowTellsTheAnswer ==
    \A r \in Reqs : Answered(r) /\ Mine(r) =>
        LET row == ledger[id[r]] IN
        /\ row.blocked <=> answer[r] \in {"PROMPT_INJECTION_DETECTED", "GUARDRAIL_BLOCKED"}
        /\ row.status = "ok" => answer[r] = "ok" \/ (agent[r] = "job" /\ kept[r] = "failed")
        /\ answer[r] = "ok" => row.status = "ok"

\* Every request ends, whoever holds the insert lock, fails or is cancelled.
EveryCallEnds == \A r \in Reqs : <>(pc[r] = "done")
=============================================================================
