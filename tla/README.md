# A verification of the FastAPI agent blueprint

This directory holds TLA+ modules that model the parts of this repository where
several actors share state: requests on one event loop, several server
processes over one database, background workers, a relational database next to
a vector store, command line migrators, and the hook processes of the coding
harnesses over one ledger file. TLC checks small instances of the modules, and
TLAPS proves the most important properties for every value of the constants.

The reference is the code under `src/`; `PROJECT.json` maps every definition to
the lines it models. Paths below leave out the leading `src/src/`.

## 1. The system

A FastAPI server, a NiceGUI admin application in the same process, and a taskiq
worker and scheduler, each built of domains (`user`, `auth`, `admin_identity`,
`docs`, `classification`, `ai_usage`) over a shared core (`_core`). A domain has
routers or pages, use cases, services and repositories. Beside the application
stand the migrators of its stores and a harness of hooks and checks for the
agents that work on the repository.

What matters for the models of the application: **a repository method is one
database session** (`Database.session`,
`_core/infrastructure/persistence/rdb/database.py:191`). It commits on its own,
and a service method that calls three repository methods runs three
transactions. Between any two awaits another request runs, here or in another
process, and the request itself may be cancelled (the client disconnects), its
process may die, or the database may fail. Nothing above the session undoes what
an earlier session committed.

### Inventory

| Component | State | What is hard | What makes it correct |
|---|---|---|---|
| Customer token realm (`auth`) | users, refresh-token rows, row locks, tokens in clients' hands | two refreshes of one token; failure between revoke and insert; a cancelled holder of a lock | a token is exchanged once, a login has one live token, a logout is final |
| Administrators' accounts (`admin_identity`, `_apps/admin`) | account rows with permissions, open pages, wizards under way | count and write in two sessions; wizards racing wizards and seeds; a wizard that dies half-way | the configured password never lands on a real account, a holder of `accounts` remains, there is a way in |
| Administrators' token realm | as `auth`, and passwords | password and tokens change in two sessions | no token outlives the password it came from |
| Admin pages and sessions | session storage of a browser, pages rendered | tabs share the storage; a handler's answer comes late | the storage follows the logins, a page shows what was allowed |
| Admin audit log | entries, viewer, retention | written for whoever is logged in by then; overlapping refreshes | entries tell the truth, retention is kept |
| Docs ingestion (`docs`, vector stores, worker) | document rows, vectors, task queue | two stores without a transaction; retries; partial uploads | row and store agree |
| AI usage ledger, RAG and classification | one row per `call_id`, an in-process lock per repository | a failed record after a paid call; two recorders of one `call_id` | what was paid for is on the ledger, the answer survives it |
| Background tasks, error notification | message labels, order of middlewares, cooldown table | middlewares that share a dictionary; cancelled tasks | one alert per failure that nobody retries |
| HTTP edge (`body_size_middleware`, handlers) | bytes counted, response state | reader and writer of one exchange in two tasks | one answer per request, each failure reported |
| User CRUD and the generic stack | rows with unique columns | check-then-write; read-back after the commit; pages cut from a moving table | a refusal is told as a conflict, an error wrote nothing |
| Configuration, containers, discovery, start | settings, container trees, middlewares installed | one setting read in several ways; a second application in one process; starts racing a migration | what is configured is what runs |
| DynamoDB and the cloud migrators | items, indexes, cursors | batches accepted in part; a migrator killed between two calls | a caller learns what landed, a rerun repairs |
| Migrations of the schema | tables, ids noted by others | administrators change tables under live sessions | nobody is moved |
| Agent harness (`.agents`, `.codex`, ...) | work ledger, markers, tokens, lock | hooks run side by side, are killed, hang | no update undoes another one, reminders are shown |
| Repository tools | none | text a regular expression misreads | the footer check cannot be passed by accident |

Interactions: requests of every kind share the database; `docs` queues tasks
for the worker and writes to the vector store; every server seeds accounts when
it starts; the worker's middlewares feed the notifier, and so do the exception
handlers; RAG queries and classification feed the ledger; every action of the
admin pages feeds the audit log.

## 2. The modules

    TokenExchange <|-- RefreshTokens --> AdminTokens        tokens of both realms
    AdminAccounts --> StartUp <-- Configuration             accounts, seeds, starts
    AdminSessions, AuditLog, Dashboard                      the admin site
    DocsIngestion, TaskAlerts                               documents, tasks, alerts
    UsageLedger, UserCrud, HttpEdge                         requests of customers
    CloudMigrations --> DynamoRepository                    the cloud stores
    TwoRealms <|-- RealmMove                                revisions 0009 and 0010
    WorkLedger, GovernorGate --> AgentHooks                 the harness
    GovernorGate --> FooterCheck                            the required check
    *Proofs                                                 theorems
    MC*                                                     instances for TLC

(`<|--` is implemented by, `-->` is used by.) One action is one database session,
one statement where a session has several that matter, one external call, or one
file access, with everything the code does between that await and the next. The
definitions marked as mutants are what a plausible defect would make of the
definition that follows them; no specification uses them. For each property of a
run one of them shows that the property can fail.

### RefreshTokens, TokenExchange, AdminTokens

`RefreshTokens` is `AuthUseCase` and `AuthService` over
`RefreshTokenRepository`. `status[j]` is the row of the token with jti `j`,
`lock[j]` the session that holds its `SELECT ... FOR UPDATE`, `held` the tokens
that reached a client, `age` whether `expires_at` and then the decoder's leeway
have passed; `parent` and `root` are history. A refresh is `Rotate` (decode,
select), `RevokeSelect` (`FOR UPDATE`, look again), `RevokeWrite` (update,
commit), `LoadUser`, `InsertToken`, `Respond`; `Abort` may end it at any point,
the session in progress rolls back, the earlier ones stay. `RowLocks = FALSE` is
SQLite: `FOR UPDATE` does nothing and the foreign key does not cascade.

`TokenExchange` says the same in a page: issue, claim, exchange, abandon, kill.
`live` are the active rows, `claimed` the tokens of rotations between
`RevokeWrite` and `InsertToken`.

`AdminAuthService` mirrors `AuthService`, so `AdminTokens` extends
`RefreshTokens` with the password each token goes back to (`gen`), the temporary
password that cannot log in through the API, and `change_password`, which updates
the password and then revokes. `late` is history: the logins and rotations the
revocation overlapped.

Abstractions: a token is its jti; ids of users are never reused; `register`'s
check and insert of the user are one action; access tokens carry no state.

### AdminAccounts

One action per session of `ensure_admin_user`, `create_first_admin`,
`create_admin_account`, `delete_account` and `update_permissions`. Username and
email are one `name`; permissions are the one key the guards look at. `env` is
the set of accounts whose password is the configured one, `told` those whose
password somebody has seen. `pages` are accounts with an open accounts page,
whose callbacks go on with the session read when it was loaded. `raced` is history. A seed that fails fails the startup of its process, which
is started again (`Restart`). `Abort` is a cancellation, a crash or a failure.

### AdminSessions, AuditLog, Dashboard

`AdminSessions` has the storage of each browser, the tabs that share it, and in
each tab one handler at a time: login, logout, the gate of a page
(`require_auth`, `refresh_session` with its write after the await), account and
password changes. What is done is logged for whoever the storage names at that
moment; `log()` never raises. `last`, `overtaken` and what an entry should say
are history. Passwords and crashes are left out.

`AuditLog` is the other side: the decorator of a write (`logger.py`, not used by
a domain yet), the viewer with its filter and pages, whose refreshes may overlap,
and the retention task. The commit of an entry and the return of the decorator are
two steps (`LogEntry`, `Answer`), for the close of the session is awaited between
them and a cancellation may come there. Time is counted in days, a filter is result, since and
until; `MaxDay` bounds the days.

`Dashboard` is the landing page: coroutines that read counts, growth and usage
side by side while rows are written. The window is fixed when the page opens, the
days of a window are summed, a page is rendered once.

### DocsIngestion

A document's row (`row`, `count`) and its vectors (`vectors`); a vector is a
document, a chunk index and the upload that put it, for every upload has fresh
keys. A message of the queue is a document and its `_retries` label. `POST` is
`CreateRow` and then `Embed`, `Put`, `Save` (or `Cleanup`), or `Kick`; `DELETE`
is `DeleteSelect`, the purge (`Find`, `Drop`) and `Erase`; a task is
`TaskSelect`, the purge, `Embed`, `Put`, `Save`. `Raised` is what an exception
does. The faults are named by `Faults` and bounded by `MaxFaults`. `disturbed` is
history: the documents that were hit by a fault which can break the bookkeeping,
or by an overlap of two operations.

Abstractions: the content is the number of its chunks; S3 may return any of the
vectors of a document; a put that fails has stored nothing; the broker keeps the
message of a worker that died. The in-memory store goes with the in-process
broker, where a worker cannot die without the store.

### TaskAlerts

An execution (a lane of a process) goes through `run`, `notify`, `retry`,
`resend`, `ack`: `on_error` runs over the middlewares in reverse order of
registration, and `Notify` is one action because it never awaits. `label` is the
`_retries` label the retry middleware increments in place. `at` ties a message to
its process when the broker is the inline one, where a retry sleeps its delay and
a crash loses everything. `quiet` is the cooldown table without its clock:
`Elapse` may come at any time after an alert. `window`, `answered`, `alerted`,
`redone` and `ended` are history. A status code is the tier it falls in; the retry
library below the middleware is external; what becomes of an alert that is being
sent is left out (a failure is logged).

### UsageLedger

`track_agent_usage` around the call of a model, with its callers: the RAG answer
(retrieve, input guard, call, output guard), classification, and a third kind,
`job`, for any other caller, which may bring a `call_id` of its own. The row is
inserted in a session under the `asyncio.Lock` of the recorder's repository, which
orders the recorders of one process; across processes the unique constraint decides,
and its loser looks the winner up, and `visible` with `BecomesVisible` is the lag its three
looks are for. Strict and lenient recorders, cancellation, provider errors and how
they map to an answer are in; prompts are what the guards tell apart.

### UserCrud

The create, bulk create, update, delete and list of `BaseService` and
`BaseRepository` as the user domain uses them, a step a statement under READ
COMMITTED. An insert waits for the uncommitted row it collides with; deadlocks
are broken by the database; `CommitLost` is a commit whose answer is lost.
Deleting a row that is gone only warns. Ids are never handed out twice, other sort
columns may have equal values; password, full name and timestamps are left out.

### HttpEdge

One request: the body limit with its wrapped `receive` and `send` over a shared
state, the request log, the exception handlers and what they offer the notifier.
An application is a reader and a writer, side by side when it streams. A body is a
sequence of frame sizes, a limit of 0 switches the middleware off, and a client may
hang up at any time. Starlette and uvicorn are external; the contextvars are left
out, and a request is assumed to send an `Origin` header.

### Configuration and StartUp

`Configuration` is operators over a record of settings: the validator that refuses
a process, and the selectors of the containers. `StartUp` boots servers, workers
and schedulers over them: containers, wiring, task middlewares, the admin mount,
and the seed of `AdminAccounts`. A process may die at any step (`crashes`) and a
server may build its application twice (`builds`); a migration may come late. What
only the first request does, the race of two `create_all`, and domains whose import
is skipped are left out.

### CloudMigrations and DynamoRepository

`CloudMigrations` is the table and vector-index migrators, one action per call of
the service, killed or refused anywhere, of several releases. `DynamoRepository` puts
`BaseDynamoRepository` next to them over one partition: single items, batches with
unprocessed leftovers, queries with a cursor. A sort key is its place, so that a
condition is an interval; the order of the items within a page is left out, that of
the pages is in; reads of an index are consistent; serialization is left out; the
service changes one index at a time.

### RealmMove and TwoRealms

Revisions 0009 and 0010, up, down and stopped halfway, between steps of the
program. `TwoRealms` is what they promise: people join and leave, and nothing else.
On PostgreSQL a revision is one transaction under READ COMMITTED; on SQLite statements
before the first INSERT or UPDATE commit on their own and no foreign key is enforced.
The downgrade of 0009 is two steps, `CopyBack` (INSERT ... SELECT) and `DropBack`
(DROP TABLE and commit), or `AbortBack`: its ALTER TABLE keeps the program out of
`user` until then, but on PostgreSQL administrators are appointed and dismissed in
between. `merging` and `copied` are what it holds meanwhile, `lost` is history. The
upgrade of 0009 is one action: the program of this commit does not touch the realm of
administrators before it, and what an earlier program did at revision 8 is in
`MoveInit`. MySQL is left
out: the raw SQL quotes `"user"`, which it does not accept by default. The program
needs revision 9 to log in administrators; a handler under way when 0009 comes down
may still issue a token, delete a customer or write an audit entry.

### WorkLedger, GovernorGate, AgentHooks, FooterCheck

`AgentHooks` is the hooks of the harnesses as processes over the work ledger
(`WorkLedger`), its lock, the exception tokens and the once-per-session marker; one
action reads or writes one file. `GovernorGate` is the policy they share. A hook
may be killed, hang, be denied the lock, or fail to make the directory of the markers
or to create, write or remove a marker (`Fails`; `failed` is the history of it). One tree, goal, scope and plan as one
field, tokens ordered by their write, the two-hour and 24-hour windows as states;
blockers, tasks and formatting are left out; hooks of the Claude harness are not
part of the repository's sources. `FooterCheck` is the required check of a pull
request over lines as records of what the regular expressions make of them.

## 3. What is checked

Every run is an entry of `PROJECT.json`; the mutants there show that each property
of a run can fail.

| Run | Instance | Properties and what they show |
|---|---|---|
| `rotation` | 1 user, 3 tokens, 3 requests, row locks, fair | `SingleUse`, `OneLiveTokenPerLogin`, `LogoutIsFinal`; `ImplementsExchange`, the refinement of `TokenExchange`; `EveryRequestAnswered`: locks are released also by the cancelled |
| `setup_wizard` | empty table, 4 ids, 3 names, 4 requests, every operation | `AntiTakeover`, `SetupLeavesAnAdmin`; `LastHolderLostOnlyByRace`: the guard fails by a race and in no other way; `RecoveryLostOnlyByCrash`: a start that ran alone leaves a way in, unless a creation died before its password was shown |
| `admin_password_change` | 2 administrators, 3 tokens, 3 requests | `OldTokensDie` |
| `docs_agree` | 2 documents of up to 2 chunks, 2 requests, 2 workers, either vector store, any 2 faults | `StoresAgree`: row and vectors agree when nothing is under way on a document that nothing disturbed |
| `task_incidents` | 2 tasks of 2 names, 3 attempts, 1 crash, with and without router, either broker, fair | `AlertedIsOver`, `NoSilentFailure`: the notifier and the retry middleware agree on what is final; `TaskEnds` |
| `usage_calls` | 2 calls of any caller, one shared `call_id`, a report in two steps, fair | `NothingPaidIsLost`, `AnswerSurvivesLedger`, `RowTellsTheAnswer`, `EveryCallEnds`: the lock of a recorder is let go by everyone |
| `user_crud` | 2 names and 2 mails, 2 writers, a walk through pages of 1, fair | `RawRefusalOnlyIfRivalGone`: a refusal of the constraint is a 409 unless its rival is gone by then; `ErrorsWriteNothing`, but for lost commits and failed read-backs; `NoLostUpdate`; `WalkVisitsEach`; `EveryRequestEnds`: deadlocks are broken |
| `admin_sessions` | 1 browser, 2 tabs, 2 administrators, failures of the database | `StorageFollowsLogins`, `ShownWasAllowed`, `EntriesTellTheTruth` |
| `agent_hooks` | 2 hooks of 2 sessions, 2 events, with or without `flock`, 1 fault (a kill, a hang, a failed change of a marker), fair | `UpdatesBuildOnEachOther`, `FailureIsShown`, `EveryHookEnds`; `RefusedIsTold`: a reminder refused to one hook is shown by another one, unless the fault hit a hook of the session |
| `server_start` | 1 server under every setting of one group on three bases; deployments of 2 processes with 1 death and 2 builds; fair | `SettingsHonoured`, `OneTreeServes`, `TasksRunWhole`, `EveryProcessServes` |
| `http_edge` | 1 request, bodies of up to 3 frames, limit 2 or off | `OneAnswer`, `OverLimitIsRefused`, `FailuresAreReported` |
| `cloud_stores` | 2 operations: runs of a migrator of 3 releases, calls over a full partition of 3 places, chunks of 2, 2 retries | `BatchTellsWhatLanded`: a 503 counts what is missing; `ReadsSeeWhatStays`: an empty page ends no walk; `RerunRepairs`: an undisturbed run over a table at rest repairs whatever was left |

### Bounds

The races are between two requests of a kind, a third that interferes, and the
result of the two; three or four requests and three tokens hold all of them (the
theorems hold for any number). The wizard run has four ids, because two wizards, a
seed and a creation may each insert one. Two chunks and batches of one are the
least with a partial upload and with a top_k that matters (`MinTopK = 1` scales
down the code's 10). `MaxAttempts` is the code's 3 for the alerts and 2 for the
documents, where a retry must happen and be the last. The alerts have one
execution at a time: `Notify` is atomic, so a second lane adds executions and no
new races. `MaxPassword = 2` has one forced and one voluntary change. Two calls are
the winner and the loser of a `call_id`. In `user_crud` two writers over two values
of each unique column can collide in either order, which a deadlock needs;
`MaxId = 5` holds what both batches insert. Two tabs are what a stale answer and a
change of hands need. Two hooks with two events each let an update be overtaken;
the ledger starts unreadable, which reads as an absent file does, or as one
of version 1, which is migrated. Settings are varied one group of fields
at a time, because the validator and the selectors read one group each; the bases are
the three kinds of environments. Bodies lie below, at and above the limit in one frame and in
several. Three places with chunks of two have a full chunk, a rest, and an index page
that ends between equal keys; two operations are a failed run and its repair. One
release drops an index, changes another and adds a third, one only drops an index:
a run that adds waits for the service, a run that only deletes does not.

Symmetry is used in runs without liveness only, over interchangeable identities.
Deadlock is not checked: the requests of a behaviour are finitely many, and
when all are done the model stops, as a server without requests does. The type
invariants `LedgerTypeOK` and `CrudTypeOK` are no runs' properties; they are proved.

### Fairness

Liveness is stated under weak fairness of the steps of whatever is under way:
asyncio resumes a coroutine whose await is answered, and sessions answer or fail
(`Abort` is never fair: nothing has to fail). A process takes a task that waits for
it, and a task function returns or raises. A call of a model ends, by its timeout if
by nothing else. A database breaks deadlocks. A hook goes on unless it was killed or
hangs; the end of a hang, a kill and a denied lock are not fair. A start goes on, a
process that died is started again because of `restart: unless-stopped` in
`docker-compose.yml`, and a migration that was begun is finished; deaths are bounded,
so that `EveryProcessServes` says nothing of a process that crashes for ever. No
arrival of a request is fair.

## 4. What is proved

TLAPS checks the eight proof modules to the last leaf. The constants are
arbitrary: any sets of users, tokens, requests, ids, names, processes and calls,
any number of attempts.

`TokensProofs`. For the customers' tokens, assuming that `None` is no identity and
`RowLocks \in BOOLEAN`: `TypeCorrect` and `NeverBothCorrect` on every engine, because
the successor is inserted only after the revoke was committed and nothing writes
`active` into a row twice. `SingleUseCorrect`, `OneLiveTokenCorrect`, `LogoutFinal` and
the refinement `ExchangeImplemented` assume `RowLocks`. The properties are not
inductive: that two rotations do not both issue depends on what they hold in between.
The invariant adds that a request in `revoke_write` holds its row's lock and
the row is active, that at most one rotation of a token is between revoke and
insert, and that an exchanged token is never claimed again. For the administrators':
every step but the creation of an account is one of the customers' realm, so its
invariant carries over. `AdminTypeCorrect`, and `OldTokensDieHolds`, with row locks or
without. `Dying` is the strengthening: while a revocation that nothing overlapped is
under way, whoever is going to issue a token for the administrator knows the new
password, and every live token that goes back to an older one is among the rows the
revocation has selected.

`StartUpProofs`. The accounts: `TypeCorrect`, `AntiTakeoverHolds`,
`OneBootstrapRowHolds`, `SetupLeavesAnAdminHolds`, `LastHolderGuarded`, `RecoveryHolds`.
The invariant relates the rows to their names (two rows never share one, a bootstrap
row is called as configured) and to what a seed that found a bootstrap row remembers:
ids are never reused, so the row it will update is that row or gone. The start of the
processes, for any deployments whose settings have values of the validated types
(`Fits`): `StartTypes`, `TidySettingsAreHonoured`, `ServersHangOffOneTree`,
`TasksAlwaysRunWhole`. The first of these is a statement about the validators and the
selectors for every record of settings, not for the six of the run; the others are
over `StartInv`: the properties speak of processes that serve, the invariant of every
stage on the way there. What a process has hung up by then (`Done`) hangs off its
newest tree, what it does not run hangs nowhere, and its settings were accepted
(`OnItsWay`).

`TaskAlertsProofs` (finitely many processes, at least one attempt, the kinds and
tiers of the errors): `TypeCorrect`; `NoSilentFailureHolds`, over an invariant about the
notifier's table (a quiet key stands for one incident above the threshold, which the
process has alerted) and `Notified`, which carries the conclusion of the notification
middleware over to the retry middleware's turn, where `WillRetry` and `IsTerminal` are
shown to be opposites for every error but a cancellation. `AlertedIsOverHolds`: there
is one copy of a task, waiting or in a lane (`OneCopy`), so that the lane that
alerts is the only place the task could be tried again from, unless a worker died.

`StoresProofs` has three parts, about systems that share no state.

The ledger (any requests, rows, errors and page size): `TypesHold`,
`NothingPaidIsLostHolds`, `AnswerSurvivesLedgerHolds`, `RowTellsTheAnswerHolds`.
`LedgerInv`: every row is the record of a request that is past recording, whose cause
and usage no longer change (`RowsAreRecords`); a charge beyond that point has its row,
its own or the one that got there first, or its recording failed
(`ChargesFollow`); an answer follows from the cause and, for a strict
recorder, from its failure; what a report has read is no more than is there by now.

The documents (any documents, actors, chunks, batches and retries, either store):
`DocsTypes` and `StoresAgreeHolds`. `StoresAgree` speaks of a document nobody works on;
`DocsInv` says what the store holds of an undisturbed one at every step of the
operation, of which there is only one (`Underway`): the vectors of one upload of as
many chunks as the row counts, nothing after a purge, a part of the new upload between
two batches. That a purge leaves nothing is arithmetic over finite sets: its
`top_k` is at least the `chunk_count` it read, which is the number of the document's
vectors, so none is cut off.

The cloud stores (any partition, batches, limits, filters, releases and migrators):
`BatchTellsWhatLandedHolds` and `ReadsSeeWhatStaysHolds` over `RepoInv`, which splits the
keys of a batch into those that are done with, those that wait for the service and
those whose chunk is still to come, without overlap, and says of a walk that it has
shown all that stayed up to its cursor, and nothing beyond. `RerunRepairsHolds` over
`MigrationsInv`: of a run that is alone and began over a table at rest, the
indexes it has not yet to delete stand as its model says, and what is missing is what it
has yet to add (`Converges`); of the vector index likewise (`VectorFits`). Proving it
corrected the property: a run that only drops an index ends while the service is still
taking it away, so an index in that state does not count (`Standing`). That a release's
models name their vector index (`ModelsAssumption`) is what `cli.py` passes on.

`UserCrudProofs` (any writers, readers, names, ids and page size): `CrudTypes`,
`RawRefusalHolds`, `ErrorsWriteNothingHolds`, `WalkVisitsEachHolds`,
`NoLostUpdateHolds`. `CrudInv` has three parts. `KeysAreUnique`: an id is handed out
once, to a committed row or to one that an open transaction holds.
`WriterFits`: while a refused writer looks for the field that was taken, every row that
refused it and is unchanged is still to be met by the lookup, or a field has been
found taken already (`RivalsFit`); only a transaction that is still open holds rows. `ReaderFits`: the offset of the
next page is the rank in the listing of the first row not shown, for rows
that nobody touched (`NothingSkipped`, `NothingTwice`); the position of a row in a
listing is the number of rows before it, which is shown by counting
(`FS_Injection`, `FS_CountingElements`), since induction over the sequence is not available.

`HttpEdgeProofs` (any bodies, cut into frames in any way, and any limits):
`OneAnswerHolds`, `OverLimitHolds`, `FailuresAreReportedHolds`. `EdgeInv` relates the
frames delivered to the bytes counted, and every moment of a request to what has
been sent by then: a response is started at most once, by a layer of the middleware, the
application or the last error handler, and whoever comes later is muted.

`AgentHooksProofs`. Of the gates, without a state: `CopiesAgree` (the gates copied
into two harnesses are the shared policy), `FooterIsComplete`,
`ReminderAnnouncesCheck`. Of the hooks that share the ledger: `FailureIsShownHolds` and
`UpdatesBuildOnEachOtherHolds`, for any sessions of any harnesses and any files the tree may
hold. `HookInv`: whoever is between read and write holds the lock, and what it read is
what the file holds (`OneWriter`), an update has something to change and a whole ledger to change it in
(`ChangeFits`), and a failure that was written stays in the file until a later
result replaces it (`FailureStays`).

`AdminSiteProofs`. The audit log: `TypeCorrect`, `AnswersAreLogged` (an entry says how
the write ended, and with it the answer of a call that got to answer; a call cancelled
before the commit has none, one cancelled behind it may have one, and no call has two),
`LabelIsTrue` (page read, label and page number are one whenever nothing loads, no two
refreshes overlapped and none failed),
`RetentionKept` (no run removes an entry younger than the retention, however late its
DELETE). The revision of the realms: `MigrationsMoveNobody`, the refinement of
`TwoRealms` but for `StaleCopyCommits`, the downgrade that brings back the staff of the
moment of its copy; `SessionsSurvive` and `EntriesSurvive`, for administrators who were
neither deleted nor appointed behind that copy (`dismissed`, `lost`); and, where foreign
keys are enforced, `TokensSurvive`. `EntriesSurvive` speaks of the administrators' realm
and says beside it what the key on `user` is worth: while administrators are in `user` no
customer has the actor's id, and after 0009 the key, where it is enforced, holds because
a customer has it, the case 0010 was written for (`KeyHolds`). The invariant separates the
ids in use before, halfway and after a revision and says what a copy under way may differ
in from what it copied (`CopyFits`); `MaxId` is any positive number. The dashboard:
`ReportedFailuresAreReal`, over what each of the two reads remembers of the calls at its
time, and `ScopeIsKept`. The tabs of a browser: `StorageFollowsHolds`,
`ShownWasAllowedHolds` and `EntriesAreTrue`; the invariant says that the storage of a
browser names who logged in last, unless a late write overtook that (`StoreIsLast`),
and of a tab at every step whom it asks about and acts for, whether the gate has
cleared it, and what it has changed and still has to log (`TabFollows`).

The audit log, the revision, the dashboard and the three theorems about the gates
have no run in `PROJECT.json`: their invariants were tried on small instances while
the proofs were written, and the theorems cover every instance. The other inductive
invariants were checked by TLC on the instances of the runs before they were proved.

A `CASE` whose guards overlap says only that one of the arms is taken. Where the code
tests in an order, the model therefore has `IF` chains (`InsertRow`, `TokenState`,
`Committed`, `AlertTarget`): TLC takes the first arm in any case, a proof may not.

Every invariant and every action property of the runs is a theorem. Model-checked only:
the liveness properties (`EveryRequestAnswered`, `TaskEnds`, `EveryCallEnds`,
`EveryRequestEnds`, `EveryHookEnds`, `RefusedIsTold`, `EveryProcessServes`), which need
ENABLED and are out of the prover's reach.

## 5. Where the code does other than one might expect

The properties hold with these cases named in them (`raced`, `late`, `disturbed`,
`overtaken`, `failed`, `lost`, `Tidy`, ...), or they are why a definition looks as it does.

- On SQLite two rotations of one token both succeed
  (`tests/unit/admin_identity/domain/test_admin_auth_service.py:168` expects single use).
- Two administrators who remove each other leave no holder of `accounts`; a wizard
  that dies after its insert leaves an administrator nobody can log in as, and the
  seed disabled (`admin_account_use_case.py:67`, `:117`).
- A rate limit of the embedder is a permanent error for the retry middleware. A DELETE
  that overlaps an ingestion reads `chunk_count` 0 and purges nothing
  (`docs_router.py:103`, `document_service.py:145`).
- A rule file that `/sync-guidelines` rewrites counts as a cosmetic change also when git
  shows no diff of it (`.agents/shared/governor/sync_cosmetic.py`).
- A provider without a model is silently a stub; `notification_provider=slack` ignores a
  Discord URL; `ENV=PROD`, a padded `STORAGE_TYPE` or blank credentials pass the
  validator and are read differently by a selector. `Tidy` excludes them.
- The marker that keeps a reminder from being shown twice is pruned by a Stop that reads
  it before it is written: both are shown (`.agents/shared/governor/stage_gate.py:171`).
  A marker that could not be written or removed silences its session (`:180`, `:193`).
- `update_item` leaves the keys of the indexes stale
  (`base_dynamo_repository.py:252`); a changed vector index is made anew without its
  vectors, while the documents keep their `chunk_count`
  (`migrations/s3vectors/migrator.py:48`).
- Of two overlapping refreshes of the audit viewer the later answer wins, whatever the
  label says (`pages/audit_log.py:92`); a decorated write that is cancelled before the
  commit of its entry leaves none, one cancelled behind it leaves an entry of a call
  that answered nothing (`audit/logger.py:383`).
- Revision 0009 on SQLite hands the id of a deleted administrator out again (`:101`), does
  not cascade (`:110`) and cannot be run again when it stopped halfway (`:27`); the key
  that 0010's downgrade restores may not hold (`:157`). An administrator appointed on
  PostgreSQL while 0009 comes down is dropped with the table, a dismissal is undone
  (`:151`).
- The landing page shows its first-run hints when the counts could not be read
  (`dashboard_metrics.py:130`), and its window starts at a naive local time (`:152`).

## 6. What is not modelled, and why

- Observability and logging: output only. Page rendering and theme: no state.
- Object storage and the HTTP client: thin wrappers of client libraries, without a
  state of their own and without a domain that uses them.
- What becomes of an alert that is being sent: a failure is logged.
- The other revisions of the schema only create tables and columns. The other
  tools read documents line by line (links, languages, budgets); the examples repeat the
  pattern of the domains.
- Re-rooting of hooks to other worktrees, and the formatting they run.
- Prompts, texts, vectors' contents, password hashes, serialization.

## 7. The plan

The order was: tokens, accounts, documents and alerts, where several actors share
rows; then the ledger, the generic stack, the admin site; then the edges: HTTP,
start, harness, cloud stores, migrations. What is left, the most useful first:

1. An abstract specification of documents over one store, implemented by
   `DocsIngestion` for the documents nothing disturbs; the same for the ledger, as a set
   of records that only grows.
2. `AuditLog` and `AdminSessions` composed: which of the entries a viewer shows
   belong to actions of a tab that changed hands.
3. The safety checks of migrations (`tools/`), as a policy over revisions compared with
   what `RealmMove` shows of 0009 and 0010.
