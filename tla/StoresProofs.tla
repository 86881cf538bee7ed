---------------------------- MODULE StoresProofs ----------------------------
(***************************************************************************)
(* Theorems about what the stores hold, for every instance: the usage      *)
(* ledger (UsageLedger), the vectors of the documents (DocsIngestion), the *)
(* DynamoDB tables and the S3 Vectors indexes (DynamoRepository and        *)
(* CloudMigrations).  The three systems share no state; each part below is *)
(* about one of them.                                                      *)
(***************************************************************************)
EXTENDS UsageLedger, DocsIngestion, DynamoRepository,
        FiniteSetTheorems, WellFoundedInduction, SequenceTheorems, TLAPS

-----------------------------------------------------------------------------
(***************************************************************************)
(* The usage ledger.                                                       *)
(***************************************************************************)

-----------------------------------------------------------------------------
(* The inductive invariant.                                                *)

Recorded == {c \in CallIds : ledger[c] # None}

\* Every row is the record of a request that is over with recording, under
\* that request's call_id: a request writes one row, once its cause and its
\* usage are settled.
RowsAreRecords ==
    \A c \in Recorded : \E r \in Reqs :
        pc[r] \in {"respond", "done"} /\ id[r] = c /\ ledger[c] = Record(r)

\* The usage is captured with the answer, and a charge has its record to come
\* or in place, its own or the one that got there first.
ChargesFollow ==
    \A r \in Reqs :
        /\ charged[r] => used[r]
        /\ pc[r] \in {"idle", "retrieve", "guard", "run"} => ~charged[r]
        /\ charged[r] /\ (pc[r] = "respond" \/ Answered(r)) =>
              kept[r] = "failed" \/ id[r] \in Recorded

\* The answer follows from the cause and, for a strict recorder, its failure.
AnswersFollow ==
    \A r \in Reqs : Answered(r) =>
        answer[r] = IF RecordRaises(r) THEN "INTERNAL_SERVER_ERROR" ELSE AnswerTo(cause[r])

\* What a report has read is no more than what is there by now.
ReportFollows ==
    /\ DOMAIN report = {"pc", "status", "calls", "counted"}
    /\ report.calls \in Nat
    /\ report.pc \in {"by_org", "count"} => report.calls <= Cardinality(Matching(report.status))
    /\ report.pc = "done" => report.calls <= report.counted

LedgerInv == /\ LedgerTypeOK /\ IsFiniteSet(Recorded)
             /\ RowsAreRecords /\ ChargesFollow /\ AnswersFollow /\ ReportFollows

-----------------------------------------------------------------------------
(* Rows.                                                                   *)

\* A record is what its request knows.
LEMMA RecordSays ==
    ASSUME NEW r
    PROVE  /\ Record(r).by = r /\ Record(r).org = org[r]
           /\ Record(r).status = StatusOf(cause[r])
           /\ Record(r).tokens = used[r]
           /\ Record(r).blocked = (cause[r] \in Blocks)
BY Zenon DEF Record, TokensOf

LEMMA RecordStays ==
    ASSUME NEW r, org'[r] = org[r], cause'[r] = cause[r], used'[r] = used[r]
    PROVE  Record(r)' = Record(r)
BY Zenon DEF Record, TokensOf

LEMMA StatusFits ==
    ASSUME NEW c
    PROVE  StatusOf(c) \in Statuses /\ (StatusOf(c) = "ok" <=> c = Ok)
BY DEF StatusOf, StatusFromException, Statuses

LEMMA RecordFits ==
    ASSUME LedgerTypeOK, NEW r \in Reqs
    PROVE  Record(r) \in Rows /\ Record(r) # None
<1>1. org[r] \in Orgs \union {None} /\ used[r] \in BOOLEAN
    BY DEF LedgerTypeOK
<1>2. StatusOf(cause[r]) \in Statuses
    BY StatusFits
<1>3. (cause[r] \in Blocks) \in BOOLEAN
    OBVIOUS
<1>4. Record(r) \in Rows
    BY <1>1, <1>2, <1>3, Zenon DEF Record, TokensOf, Rows
<1> QED BY <1>4, RowsAssumption

\* A row stays the record of its request when no step touches it.
LEMMA RowsStay ==
    ASSUME LedgerInv, UNCHANGED ledger,
           \A q \in Reqs : pc[q] \in {"respond", "done"} =>
               /\ pc'[q] \in {"respond", "done"} /\ id'[q] = id[q]
               /\ org'[q] = org[q] /\ cause'[q] = cause[q] /\ used'[q] = used[q]
    PROVE  RowsAreRecords' /\ Recorded' = Recorded
<1>1. Recorded' = Recorded
    BY DEF Recorded
<1>2. ASSUME NEW c \in Recorded
      PROVE  \E r \in Reqs : pc'[r] \in {"respond", "done"} /\ id'[r] = c /\ ledger'[c] = Record(r)'
    <2>1. PICK r \in Reqs : pc[r] \in {"respond", "done"} /\ id[r] = c /\ ledger[c] = Record(r)
        BY DEF LedgerInv, RowsAreRecords
    <2>2. Record(r)' = Record(r)
        BY <2>1, RecordStays
    <2> QED BY <2>1, <2>2
<1> QED BY <1>1, <1>2 DEF RowsAreRecords

\* A request writes its row where there is none.
LEMMA RowWritten ==
    ASSUME LedgerInv, NEW r \in Reqs, Store(r), ledger[id[r]] = None, pc[r] = "insert",
           UNCHANGED call, pc'[r] \in {"respond", "done"},
           \A q \in Reqs \ {r} : pc'[q] = pc[q]
    PROVE  /\ RowsAreRecords' /\ Recorded' = Recorded \union {id[r]} /\ IsFiniteSet(Recorded)'
           /\ ledger' \in [CallIds -> Rows \union {None}]
           /\ \A c \in Recorded : ledger'[c] = ledger[c]
<1>1. id[r] \in CallIds /\ Record(r) \in Rows /\ Record(r) # None
    BY RecordFits DEF LedgerInv, LedgerTypeOK
<1>2. ledger \in [CallIds -> Rows \union {None}] /\ ledger' = [ledger EXCEPT ![id[r]] = Record(r)]
    BY DEF LedgerInv, LedgerTypeOK, Store
<1>3. Recorded' = Recorded \union {id[r]}
    BY <1>1, <1>2 DEF Recorded
<1>4. IsFiniteSet(Recorded')
    BY <1>3, FS_AddElement DEF LedgerInv
<1>5. \A c \in Recorded : ledger'[c] = ledger[c]
    BY <1>2 DEF Recorded
<1>6. \A q \in Reqs : Record(q)' = Record(q) /\ id'[q] = id[q]
    BY RecordStays DEF call
<1>7. ASSUME NEW c \in Recorded'
      PROVE  \E q \in Reqs : pc'[q] \in {"respond", "done"} /\ id'[q] = c /\ ledger'[c] = Record(q)'
    <2>1. CASE c = id[r]
        BY <1>1, <1>2, <1>6, <2>1
    <2>2. CASE c \in Recorded
        <3>1. PICK q \in Reqs : pc[q] \in {"respond", "done"} /\ id[q] = c /\ ledger[c] = Record(q)
            BY <2>2 DEF LedgerInv, RowsAreRecords
        <3>2. pc'[q] = pc[q]
            BY <3>1
        <3> QED BY <1>5, <1>6, <2>2, <3>1, <3>2
    <2> QED BY <1>3, <1>7, <2>1, <2>2
<1>8. ledger' \in [CallIds -> Rows \union {None}]
    BY <1>1, <1>2
<1> QED BY <1>3, <1>4, <1>5, <1>7, <1>8 DEF RowsAreRecords

LEMMA MatchingIsFinite ==
    ASSUME LedgerInv, NEW s
    PROVE  IsFiniteSet(Matching(s)) /\ Cardinality(Matching(s)) \in Nat
<1>1. Matching(s) \subseteq Recorded
    BY DEF Matching, Recorded
<1> QED BY <1>1, FS_Subset, FS_CardinalityType DEF LedgerInv

LEMMA SmallerOfTwo ==
    ASSUME NEW m \in Nat, NEW n \in Nat
    PROVE  Min({m, n}) \in Nat /\ Min({m, n}) <= n
<1>1. \E x \in {m, n} : \A y \in {m, n} : x =< y
    OBVIOUS
<1> QED BY <1>1 DEF Min

\* What a report reads never shrinks.
LEMMA MatchingGrows ==
    ASSUME LedgerInv, Recorded \subseteq Recorded', IsFiniteSet(Recorded'), NEW s,
           \A c \in Recorded : ledger'[c] = ledger[c]
    PROVE  /\ Cardinality(Matching(s)) \in Nat /\ Cardinality(Matching(s)') \in Nat
           /\ Cardinality(Matching(s)) <= Cardinality(Matching(s)')
<1>1. Matching(s) \subseteq Matching(s)' /\ Matching(s)' \subseteq Recorded'
    BY DEF Matching, Recorded
<1>2. IsFiniteSet(Matching(s)')
    BY <1>1, FS_Subset
<1>3. IsFiniteSet(Matching(s)) /\ Cardinality(Matching(s)) <= Cardinality(Matching(s)')
    BY <1>1, <1>2, FS_Subset
<1> QED BY <1>2, <1>3, FS_CardinalityType

LEMMA ReportStays ==
    ASSUME LedgerInv, UNCHANGED report, Recorded \subseteq Recorded', IsFiniteSet(Recorded'),
           \A c \in Recorded : ledger'[c] = ledger[c]
    PROVE  ReportFollows'
<1> DEFINE s == report.status
<1>1. /\ Cardinality(Matching(s)) \in Nat /\ Cardinality(Matching(s)') \in Nat
      /\ Cardinality(Matching(s)) <= Cardinality(Matching(s)')
    BY MatchingGrows
<1>2. report.calls \in Nat /\ (report.pc \in {"by_org", "count"} => report.calls <= Cardinality(Matching(s)))
    BY DEF LedgerInv, ReportFollows
<1>3. Matching(report.status)' = Matching(s)'
    OBVIOUS
<1> QED BY <1>1, <1>2, <1>3 DEF LedgerInv, ReportFollows

-----------------------------------------------------------------------------
(* Steps.                                                                  *)

LEMMA LedgerStart == Init => LedgerInv
<1> SUFFICES ASSUME Init  PROVE LedgerInv
    OBVIOUS
<1>1. LedgerTypeOK
    BY DEF Init, LedgerTypeOK, Labels, Agents, CallIds, Causes
<1>2. Recorded = {}
    BY DEF Init, Recorded
<1>3. IsFiniteSet(Recorded)
    BY <1>2, FS_EmptySet
<1>4. RowsAreRecords /\ ChargesFollow /\ AnswersFollow /\ ReportFollows
    BY <1>2 DEF Init, RowsAreRecords, ChargesFollow, AnswersFollow, ReportFollows, Answered, Idle
<1> QED BY <1>1, <1>3, <1>4 DEF LedgerInv

\* The request moves, and no other one does.
Moves(r, from, to) ==
    /\ pc[r] \in from /\ pc'[r] \in to
    /\ pc' \in [Reqs -> Labels]
    /\ \A q \in Reqs \ {r} : pc'[q] = pc[q]

LEMMA GotoMoves ==
    ASSUME LedgerTypeOK, NEW r \in Reqs, NEW from, NEW to \in Labels, Goto(r, from, to)
    PROVE  Moves(r, {from}, {to})
BY DEF LedgerTypeOK, Goto, Moves

Before == {"idle", "retrieve", "guard", "run", "output", "lock", "insert", "lookup"}

\* A step on the way to the record: no row, no answer, no report.
LEMMA OnTheWay ==
    ASSUME LedgerInv, NEW r \in Reqs, Moves(r, Before, Labels \ {"done"}),
           LedgerTypeOK', UNCHANGED <<ledger, report>>,
           \A q \in Reqs \ {r} : /\ agent'[q] = agent[q] /\ id'[q] = id[q] /\ org'[q] = org[q]
                                 /\ cause'[q] = cause[q] /\ charged'[q] = charged[q]
                                 /\ used'[q] = used[q] /\ kept'[q] = kept[q] /\ answer'[q] = answer[q],
           charged'[r] => used'[r],
           pc'[r] \in {"idle", "retrieve", "guard", "run"} => ~charged'[r],
           pc'[r] = "respond" /\ charged'[r] => kept'[r] = "failed" \/ id'[r] \in Recorded
    PROVE  LedgerInv'
<1>1. RowsAreRecords' /\ Recorded' = Recorded
    BY RowsStay DEF Moves, Before
<1>2. IsFiniteSet(Recorded')
    BY <1>1 DEF LedgerInv
<1>3. ChargesFollow'
    BY <1>1 DEF LedgerInv, ChargesFollow, Moves, Answered
<1>4. AnswersFollow'
    <2> SUFFICES ASSUME NEW q \in Reqs, Answered(q)'
                 PROVE  answer'[q] = IF RecordRaises(q)' THEN "INTERNAL_SERVER_ERROR" ELSE AnswerTo(cause[q])'
        BY DEF AnswersFollow
    <2>1. q # r
        BY DEF Answered, Moves
    <2>2. Answered(q) /\ RecordRaises(q)' = RecordRaises(q)
        BY <2>1 DEF Answered, Moves, RecordRaises
    <2> QED BY <2>1, <2>2 DEF LedgerInv, AnswersFollow
<1>5. ReportFollows'
    BY <1>1, <1>2, ReportStays
<1> QED BY <1>1, <1>2, <1>3, <1>4, <1>5 DEF LedgerInv

LEMMA AskKeeps ==
    ASSUME LedgerInv, NEW r \in Reqs, AskDocs(r) \/ AskClassify(r) \/ AskJob(r)
    PROVE  LedgerInv'
<1>1. LedgerTypeOK /\ pc[r] = "idle"
    BY DEF LedgerInv, AskDocs, AskClassify, AskJob, Goto
<1>2. \E l \in {"retrieve", "guard", "run"} : Goto(r, "idle", l)
    BY DEF AskDocs, AskClassify, AskJob
<1>3. Moves(r, {"idle"}, {"retrieve", "guard", "run"})
    BY <1>1, <1>2, GotoMoves DEF Labels, Moves
<1>4. /\ UNCHANGED <<cause, charged, used, kept, looks, answer, lock, ledger, visible, report>>
      /\ agent' \in [Reqs -> Agents] /\ id' \in [Reqs -> CallIds] /\ org' \in [Reqs -> Orgs \union {None}]
      /\ \A q \in Reqs \ {r} : agent'[q] = agent[q] /\ id'[q] = id[q] /\ org'[q] = org[q]
    BY <1>1 DEF AskDocs, AskClassify, AskJob, LedgerTypeOK, Agents, CallIds, store
<1>5. LedgerTypeOK'
    BY <1>1, <1>3, <1>4 DEF LedgerTypeOK, Moves
<1>6. ~charged[r]
    BY <1>1 DEF LedgerInv, ChargesFollow
<1>7. Moves(r, Before, Labels \ {"done"})
    BY <1>3 DEF Moves, Before, Labels
<1> QED BY <1>3, <1>4, <1>5, <1>6, <1>7, OnTheWay DEF Moves

LEMMA RetrieveKeeps ==
    ASSUME LedgerInv, NEW r \in Reqs, Retrieve(r)
    PROVE  LedgerInv'
<1>1. LedgerTypeOK /\ pc[r] = "retrieve"
    BY DEF LedgerInv, Retrieve, Goto
<1>2. Moves(r, {"retrieve"}, {"guard", "respond"})
    BY <1>1, GotoMoves DEF Retrieve, Labels, Moves
<1>3. /\ UNCHANGED <<agent, id, org, charged, used, kept, looks, answer, lock, ledger, visible, report>>
      /\ cause' \in [Reqs -> Causes]
      /\ \A q \in Reqs \ {r} : cause'[q] = cause[q]
    BY <1>1 DEF Retrieve, LedgerTypeOK, Causes, store
<1>4. LedgerTypeOK'
    BY <1>1, <1>2, <1>3 DEF LedgerTypeOK, Moves
<1>5. ~charged[r]
    BY <1>1 DEF LedgerInv, ChargesFollow
<1>6. Moves(r, Before, Labels \ {"done"})
    BY <1>2 DEF Moves, Before, Labels
<1> QED BY <1>3, <1>4, <1>5, <1>6, OnTheWay

LEMMA InputGuardKeeps ==
    ASSUME LedgerInv, NEW r \in Reqs, InputGuard(r)
    PROVE  LedgerInv'
<1>1. LedgerTypeOK /\ pc[r] = "guard"
    BY DEF LedgerInv, InputGuard
<1>2. \/ pc' = [pc EXCEPT ![r] = "lock"] /\ cause' = [cause EXCEPT ![r] = PromptInjectionDetected]
      \/ pc' = [pc EXCEPT ![r] = "run"] /\ UNCHANGED cause
    BY DEF InputGuard
<1>3. Moves(r, {"guard"}, {"lock", "run"})
    BY <1>1, <1>2 DEF Moves, LedgerTypeOK, Labels
<1>4. /\ UNCHANGED <<agent, id, org, charged, used, kept, looks, answer, lock, ledger, visible, report>>
      /\ cause' \in [Reqs -> Causes]
      /\ \A q \in Reqs \ {r} : cause'[q] = cause[q]
    BY <1>1, <1>2 DEF InputGuard, LedgerTypeOK, Causes, Blocks, store
<1>5. LedgerTypeOK'
    BY <1>1, <1>3, <1>4 DEF LedgerTypeOK, Moves
<1>6. ~charged[r]
    BY <1>1 DEF LedgerInv, ChargesFollow
<1>7. Moves(r, Before, Labels \ {"done"}) /\ pc'[r] # "respond"
    BY <1>3 DEF Moves, Before, Labels
<1> QED BY <1>4, <1>5, <1>6, <1>7, OnTheWay

LEMMA RunKeeps ==
    ASSUME LedgerInv, NEW r \in Reqs, Run(r)
    PROVE  LedgerInv'
<1>1. LedgerTypeOK /\ pc[r] = "run"
    BY DEF LedgerInv, Run, Goto
<1>2. Moves(r, {"run"}, {"output", "lock"})
    BY <1>1, GotoMoves DEF Run, Labels, Moves
<1>3. /\ UNCHANGED <<agent, id, org, kept, looks, answer, lock, ledger, visible, report>>
      /\ cause' \in [Reqs -> Causes] /\ charged' \in [Reqs -> BOOLEAN] /\ used' \in [Reqs -> BOOLEAN]
      /\ \A q \in Reqs \ {r} : cause'[q] = cause[q] /\ charged'[q] = charged[q] /\ used'[q] = used[q]
    BY <1>1 DEF Run, LedgerTypeOK, Causes, store
<1>4. LedgerTypeOK'
    BY <1>1, <1>2, <1>3 DEF LedgerTypeOK, Moves
<1>5. charged'[r] => used'[r]
    BY <1>1 DEF Run, LedgerTypeOK, LedgerInv, ChargesFollow
<1>6. /\ Moves(r, Before, Labels \ {"done"})
      /\ pc'[r] \notin {"idle", "retrieve", "guard", "run", "respond"}
    BY <1>2 DEF Moves, Before, Labels
<1> QED BY <1>3, <1>4, <1>5, <1>6, OnTheWay

LEMMA OutputGuardKeeps ==
    ASSUME LedgerInv, NEW r \in Reqs, OutputGuard(r)
    PROVE  LedgerInv'
<1>1. LedgerTypeOK /\ pc[r] = "output"
    BY DEF LedgerInv, OutputGuard, Goto
<1>2. Moves(r, {"output"}, {"lock"})
    BY <1>1, GotoMoves DEF OutputGuard, Labels
<1>3. PICK c \in {cause[r], GuardrailBlocked} : cause' = [cause EXCEPT ![r] = c]
    BY DEF OutputGuard
<1>4. /\ UNCHANGED <<agent, id, org, charged, used, kept, looks, answer, lock, ledger, visible, report>>
      /\ cause' \in [Reqs -> Causes]
      /\ \A q \in Reqs \ {r} : cause'[q] = cause[q]
    BY <1>1, <1>3 DEF OutputGuard, LedgerTypeOK, Causes, Blocks, store
<1>5. LedgerTypeOK'
    BY <1>1, <1>2, <1>4 DEF LedgerTypeOK, Moves
<1>6. charged[r] => used[r]
    BY DEF LedgerInv, ChargesFollow
<1>7. /\ Moves(r, Before, Labels \ {"done"})
      /\ pc'[r] \notin {"idle", "retrieve", "guard", "run", "respond"}
    BY <1>2 DEF Moves, Before, Labels
<1> QED BY <1>4, <1>5, <1>6, <1>7, OnTheWay

LEMMA AcquireLockKeeps ==
    ASSUME LedgerInv, NEW r \in Reqs, AcquireLock(r)
    PROVE  LedgerInv'
<1>1. LedgerTypeOK /\ pc[r] = "lock"
    BY DEF LedgerInv, AcquireLock, Goto
<1>2. Moves(r, {"lock"}, {"insert"})
    BY <1>1, GotoMoves DEF AcquireLock, Labels
<1>3. /\ UNCHANGED <<agent, id, org, cause, charged, used, kept, looks, answer, ledger, visible, report>>
      /\ lock' \in [Agents -> Reqs \union {None}]
    BY <1>1 DEF AcquireLock, LedgerTypeOK, call, store
<1>4. LedgerTypeOK'
    BY <1>1, <1>2, <1>3 DEF LedgerTypeOK, Moves
<1>5. charged[r] => used[r]
    BY DEF LedgerInv, ChargesFollow
<1>6. /\ Moves(r, Before, Labels \ {"done"})
      /\ pc'[r] \notin {"idle", "retrieve", "guard", "run", "respond"}
    BY <1>2 DEF Moves, Before, Labels
<1> QED BY <1>3, <1>4, <1>5, <1>6, OnTheWay

LEMMA UniqueViolationKeeps ==
    ASSUME LedgerInv, NEW r \in Reqs, UniqueViolation(r)
    PROVE  LedgerInv'
<1>1. LedgerTypeOK /\ pc[r] = "insert"
    BY DEF LedgerInv, UniqueViolation, Goto
<1>2. Moves(r, {"insert"}, {"lookup"})
    BY <1>1, GotoMoves DEF UniqueViolation, Labels
<1>3. UNCHANGED <<agent, id, org, cause, charged, used, kept, looks, answer, lock, ledger, visible, report>>
    BY DEF UniqueViolation, call, store
<1>4. LedgerTypeOK'
    BY <1>1, <1>2, <1>3 DEF LedgerTypeOK, Moves
<1>5. charged[r] => used[r]
    BY DEF LedgerInv, ChargesFollow
<1>6. /\ Moves(r, Before, Labels \ {"done"})
      /\ pc'[r] \notin {"idle", "retrieve", "guard", "run", "respond"}
    BY <1>2 DEF Moves, Before, Labels
<1> QED BY <1>3, <1>4, <1>5, <1>6, OnTheWay

\* A record that ends without a row of its own has failed, or another one's
\* row is there.
LEMMA EndRecordKeeps ==
    ASSUME LedgerInv, NEW r \in Reqs, NEW from \in {"insert", "lookup"},
           NEW how \in {"theirs", "failed"}, EndRecord(r, from, how), UNCHANGED store,
           how = "theirs" => id[r] \in Recorded
    PROVE  LedgerInv'
<1>1. LedgerTypeOK
    BY DEF LedgerInv
<1>2. Moves(r, {from}, {"respond"})
    BY <1>1, GotoMoves DEF EndRecord, Labels
<1>3. /\ UNCHANGED <<agent, id, org, cause, charged, used, looks, answer, ledger, visible, report>>
      /\ kept' \in [Reqs -> {"none", "row", "theirs", "failed"}] /\ kept'[r] = how
      /\ \A q \in Reqs \ {r} : kept'[q] = kept[q]
      /\ lock' \in [Agents -> Reqs \union {None}]
    BY <1>1 DEF EndRecord, LedgerTypeOK, call, store
<1>4. LedgerTypeOK'
    BY <1>1, <1>2, <1>3 DEF LedgerTypeOK, Moves
<1>5. charged[r] => used[r]
    BY DEF LedgerInv, ChargesFollow
<1>6. Moves(r, Before, Labels \ {"done"}) /\ pc'[r] = "respond"
    BY <1>2 DEF Moves, Before, Labels
<1> QED BY <1>3, <1>4, <1>5, <1>6, OnTheWay

LEMMA SelectExistingKeeps ==
    ASSUME LedgerInv, NEW r \in Reqs, SelectExisting(r)
    PROVE  LedgerInv'
<1>1. LedgerTypeOK /\ UNCHANGED store
    BY DEF LedgerInv, SelectExisting
<1>2. CASE id[r] \in visible /\ EndRecord(r, "lookup", "theirs")
    <2>1. id[r] \in Recorded
        BY <1>1, <1>2 DEF LedgerTypeOK, Recorded
    <2> QED BY <1>1, <1>2, <2>1, EndRecordKeeps
<1>3. CASE EndRecord(r, "lookup", "failed")
    BY <1>1, <1>3, EndRecordKeeps
<1>4. CASE /\ looks[r] < 2 /\ pc[r] = "lookup"
           /\ looks' = [looks EXCEPT ![r] = @ + 1]
           /\ UNCHANGED <<pc, call, kept, answer, lock, report>>
    <2>1. LedgerTypeOK'
        BY <1>1, <1>4 DEF LedgerTypeOK, call, store
    <2>2. charged[r] => used[r]
        BY DEF LedgerInv, ChargesFollow
    <2>3. Moves(r, Before, Labels \ {"done"}) /\ pc'[r] = "lookup"
        BY <1>1, <1>4 DEF Moves, Before, Labels, LedgerTypeOK
    <2> QED BY <1>1, <1>4, <2>1, <2>2, <2>3, OnTheWay DEF call, store
<1> QED BY <1>2, <1>3, <1>4 DEF SelectExisting

\* The row is stored: by an insert, or by one whose task was cancelled.
LEMMA StoreKeeps ==
    ASSUME LedgerInv, NEW r \in Reqs, Store(r), ledger[id[r]] = None,
           Moves(r, {"insert"}, {"respond", "done"}),
           pc'[r] = "done" => answer'[r] = "cancelled",
           UNCHANGED <<call, looks, visible, report>>,
           kept' \in [Reqs -> {"none", "row", "theirs", "failed"}],
           answer' \in [Reqs -> Codes \union {"none", "cancelled"}],
           lock' \in [Agents -> Reqs \union {None}],
           \A q \in Reqs \ {r} : kept'[q] = kept[q] /\ answer'[q] = answer[q]
    PROVE  LedgerInv'
<1>0. UNCHANGED <<agent, id, org, cause, charged, used>> /\ pc[r] = "insert"
    BY DEF call, Moves
<1>1. /\ RowsAreRecords' /\ Recorded' = Recorded \union {id[r]} /\ IsFiniteSet(Recorded)'
      /\ ledger' \in [CallIds -> Rows \union {None}]
      /\ \A c \in Recorded : ledger'[c] = ledger[c]
    BY RowWritten DEF Moves
<1>2. visible' \subseteq {c \in CallIds : ledger'[c] # None}
    BY <1>1 DEF LedgerInv, LedgerTypeOK, Recorded
<1>3. LedgerTypeOK'
    BY <1>0, <1>1, <1>2 DEF LedgerInv, LedgerTypeOK, Moves
<1>4. ChargesFollow'
    BY <1>0, <1>1 DEF LedgerInv, ChargesFollow, Answered, Moves
<1>5. AnswersFollow'
    <2> SUFFICES ASSUME NEW q \in Reqs, Answered(q)'
                 PROVE  answer'[q] = IF RecordRaises(q)' THEN "INTERNAL_SERVER_ERROR" ELSE AnswerTo(cause[q])'
        BY DEF AnswersFollow
    <2>1. q # r
        BY DEF Answered, Moves
    <2>2. Answered(q) /\ RecordRaises(q)' = RecordRaises(q)
        BY <1>0, <2>1 DEF Answered, Moves, RecordRaises
    <2> QED BY <1>0, <2>1, <2>2 DEF LedgerInv, AnswersFollow
<1>6. ReportFollows'
    BY <1>1, ReportStays
<1> QED BY <1>1, <1>3, <1>4, <1>5, <1>6 DEF LedgerInv

LEMMA InsertKeeps ==
    ASSUME LedgerInv, NEW r \in Reqs, Insert(r)
    PROVE  LedgerInv'
<1>1. LedgerTypeOK /\ ledger[id[r]] = None /\ UNCHANGED visible
    BY DEF LedgerInv, Insert
<1>2. ASSUME NEW how \in {"row", "failed"}, EndRecord(r, "insert", how), Store(r)  PROVE LedgerInv'
    <2>1. Moves(r, {"insert"}, {"respond"})
        BY <1>1, <1>2, GotoMoves DEF EndRecord, Labels
    <2>2. /\ UNCHANGED <<call, looks, visible, report, answer>>
          /\ kept' \in [Reqs -> {"none", "row", "theirs", "failed"}]
          /\ \A q \in Reqs \ {r} : kept'[q] = kept[q]
          /\ lock' \in [Agents -> Reqs \union {None}]
          /\ answer' \in [Reqs -> Codes \union {"none", "cancelled"}]
        BY <1>1, <1>2 DEF EndRecord, LedgerTypeOK
    <2>3. Moves(r, {"insert"}, {"respond", "done"}) /\ pc'[r] # "done"
        BY <2>1 DEF Moves
    <2> QED BY <1>1, <1>2, <2>2, <2>3, StoreKeeps
<1>3. CASE EndRecord(r, "insert", "failed") /\ UNCHANGED ledger
    BY <1>1, <1>3, EndRecordKeeps DEF store
<1> QED BY <1>2, <1>3 DEF Insert

LEMMA CodesFit ==
    ASSUME NEW c \in Causes
    PROVE  /\ AnswerTo(c) \in Codes
           /\ AnswerTo(c) = "ok" <=> c = Ok
           /\ AnswerTo(c) \in {"PROMPT_INJECTION_DETECTED", "GUARDRAIL_BLOCKED"} <=> c \in Blocks
<1>1. CASE c = Ok
    <2>1. Ok \notin Blocks
        BY DEF Ok, Blocks, PromptInjectionDetected, GuardrailBlocked
    <2> QED BY <1>1, <2>1 DEF AnswerTo, Codes
<1>2. CASE c # Ok /\ c \in Blocks
    <2>1. c.code \in {"PROMPT_INJECTION_DETECTED", "GUARDRAIL_BLOCKED"}
        BY <1>2 DEF Blocks, PromptInjectionDetected, GuardrailBlocked
    <2>2. AnswerTo(c) = c.code
        BY <1>2 DEF AnswerTo, ErrorCode
    <2> QED BY <1>2, <2>1, <2>2 DEF Codes
<1>3. CASE c # Ok /\ c \notin Blocks
    <2>1. Classify(c) \in {"LLM_RATE_LIMITED", "LLM_AUTH_FAILED", "LLM_CONTEXT_LENGTH_EXCEEDED",
                          "LLM_MODEL_NOT_FOUND", "INTERNAL_SERVER_ERROR"}
        BY DEF Classify
    <2>2. AnswerTo(c) \in {Classify(c), "INTERNAL_SERVER_ERROR"}
        BY <1>3 DEF AnswerTo, ErrorCode
    <2> QED BY <1>3, <2>1, <2>2 DEF Codes
<1> QED BY <1>1, <1>2, <1>3

LEMMA RespondKeeps ==
    ASSUME LedgerInv, NEW r \in Reqs, Respond(r)
    PROVE  LedgerInv'
<1> DEFINE a == IF RecordRaises(r) THEN "INTERNAL_SERVER_ERROR" ELSE AnswerTo(cause[r])
<1>1. LedgerTypeOK /\ pc[r] = "respond"
    BY DEF LedgerInv, Respond, Goto
<1>2. Moves(r, {"respond"}, {"done"})
    BY <1>1, GotoMoves DEF Respond, Labels
<1>3. a \in Codes
    BY <1>1, CodesFit DEF LedgerTypeOK, Codes
<1>4. answer' = [answer EXCEPT ![r] = a]
    BY DEF Respond
<1> HIDE DEF a
<1>5. /\ UNCHANGED <<agent, id, org, cause, charged, used, kept, looks, lock, ledger, visible, report>>
      /\ answer' \in [Reqs -> Codes \union {"none", "cancelled"}] /\ answer'[r] = a
      /\ \A q \in Reqs \ {r} : answer'[q] = answer[q]
    BY <1>1, <1>3, <1>4 DEF Respond, LedgerTypeOK, call, store
<1>6. LedgerTypeOK'
    BY <1>1, <1>2, <1>5 DEF LedgerTypeOK, Moves
<1>7. RowsAreRecords' /\ Recorded' = Recorded /\ IsFiniteSet(Recorded')
    BY <1>2, <1>5, RowsStay DEF Moves, LedgerInv
<1>8. ChargesFollow'
    BY <1>1, <1>2, <1>5, <1>7 DEF LedgerInv, ChargesFollow, Answered, Moves
<1>9. AnswersFollow'
    <2> SUFFICES ASSUME NEW q \in Reqs, Answered(q)'
                 PROVE  answer'[q] = IF RecordRaises(q)' THEN "INTERNAL_SERVER_ERROR" ELSE AnswerTo(cause[q])'
        BY DEF AnswersFollow
    <2>1. RecordRaises(q)' = RecordRaises(q) /\ cause'[q] = cause[q]
        BY <1>5 DEF RecordRaises
    <2>2. CASE q = r
        BY <1>5, <2>1, <2>2 DEF a
    <2>3. CASE q # r
        BY <1>2, <1>5, <2>1, <2>3 DEF LedgerInv, AnswersFollow, Answered, Moves
    <2> QED BY <2>2, <2>3
<1>10. ReportFollows'
    BY <1>5, <1>7, ReportStays
<1> QED BY <1>6, <1>7, <1>8, <1>9, <1>10 DEF LedgerInv

LEMMA CancelKeeps ==
    ASSUME LedgerInv, NEW r \in Reqs, Cancel(r)
    PROVE  LedgerInv'
<1>1. LedgerTypeOK /\ pc[r] \in {"retrieve", "run", "lock", "insert", "lookup"}
    BY DEF LedgerInv, Cancel
<1>2. Moves(r, {pc[r]}, {"done"})
    BY <1>1 DEF Cancel, LedgerTypeOK, Labels, Moves
<1>3. /\ UNCHANGED <<call, kept, looks, visible, report>>
      /\ kept' \in [Reqs -> {"none", "row", "theirs", "failed"}]
      /\ answer' \in [Reqs -> Codes \union {"none", "cancelled"}] /\ answer'[r] = "cancelled"
      /\ \A q \in Reqs \ {r} : answer'[q] = answer[q]
      /\ lock' \in [Agents -> Reqs \union {None}]
    BY <1>1 DEF Cancel, LedgerTypeOK
<1>4. CASE pc[r] = "insert" /\ ledger[id[r]] = None /\ Store(r)
    <2>1. Moves(r, {"insert"}, {"respond", "done"})
        BY <1>2, <1>4 DEF Moves
    <2> QED BY <1>3, <1>4, <2>1, StoreKeeps
<1>5. CASE UNCHANGED ledger
    <2>0. UNCHANGED <<agent, id, org, cause, charged, used>>
        BY <1>3 DEF call
    <2>1. LedgerTypeOK'
        BY <1>1, <1>2, <1>3, <1>5, <2>0 DEF LedgerTypeOK, Moves
    <2>2. RowsAreRecords' /\ Recorded' = Recorded /\ IsFiniteSet(Recorded')
        BY <1>1, <1>2, <1>5, <2>0, RowsStay DEF Moves, LedgerInv
    <2>3. ChargesFollow'
        BY <1>2, <1>3, <2>0, <2>2 DEF LedgerInv, ChargesFollow, Answered, Moves
    <2>4. AnswersFollow'
        <3> SUFFICES ASSUME NEW q \in Reqs, Answered(q)'
                     PROVE  answer'[q] = IF RecordRaises(q)' THEN "INTERNAL_SERVER_ERROR" ELSE AnswerTo(cause[q])'
            BY DEF AnswersFollow
        <3>1. q # r /\ RecordRaises(q)' = RecordRaises(q) /\ cause'[q] = cause[q]
            BY <1>3, <2>0 DEF Answered, RecordRaises
        <3> QED BY <1>2, <1>3, <3>1 DEF LedgerInv, AnswersFollow, Answered, Moves
    <2>5. ReportFollows'
        BY <1>3, <1>5, <2>2, ReportStays
    <2> QED BY <2>1, <2>2, <2>3, <2>4, <2>5 DEF LedgerInv
<1> QED BY <1>4, <1>5 DEF Cancel

\* Steps that leave the requests and their rows alone.
LEMMA RequestsStay ==
    ASSUME LedgerInv, UNCHANGED <<pc, call, kept, looks, answer, lock, ledger>>,
           visible' \subseteq {c \in CallIds : ledger[c] # None}, ReportFollows'
    PROVE  LedgerInv'
<1>1. UNCHANGED <<agent, id, org, cause, charged, used>>
    BY DEF call
<1>2. LedgerTypeOK'
    BY <1>1 DEF LedgerInv, LedgerTypeOK
<1>3. RowsAreRecords' /\ Recorded' = Recorded /\ IsFiniteSet(Recorded')
    BY <1>1, RowsStay DEF LedgerInv
<1>4. ChargesFollow' /\ AnswersFollow'
    BY <1>1, <1>3 DEF LedgerInv, ChargesFollow, AnswersFollow, Answered, RecordRaises
<1> QED BY <1>2, <1>3, <1>4 DEF LedgerInv

LEMMA BecomesVisibleKeeps ==
    ASSUME LedgerInv, NEW c \in CallIds, BecomesVisible(c)
    PROVE  LedgerInv'
<1>1. visible' \subseteq {d \in CallIds : ledger[d] # None}
    BY DEF BecomesVisible, LedgerInv, LedgerTypeOK
<1>2. UNCHANGED <<ledger, report>> /\ Recorded' = Recorded /\ IsFiniteSet(Recorded')
    BY DEF BecomesVisible, Recorded, LedgerInv
<1>3. ReportFollows'
    BY <1>2, ReportStays
<1> QED BY <1>1, <1>3, RequestsStay DEF BecomesVisible

\* Every row belongs to a group, so the groups add up to all rows.
LEMMA GroupsAddUp ==
    ASSUME LedgerInv, NEW s
    PROVE  SumByOrg(s) = Cardinality(Matching(s))
<1>1. ASSUME NEW c \in Matching(s)  PROVE ledger[c].org \in Orgs \union {None}
    <2>1. c \in Recorded
        BY DEF Matching, Recorded
    <2>2. PICK r \in Reqs : ledger[c] = Record(r)
        BY <2>1 DEF LedgerInv, RowsAreRecords
    <2> QED BY <2>2, RecordSays DEF LedgerInv, LedgerTypeOK
<1>2. {c \in Matching(s) : ledger[c].org \in Orgs \union {None}} = Matching(s)
    BY <1>1
<1> QED BY <1>2 DEF SumByOrg

LEMMA ReportKeeps ==
    ASSUME LedgerInv, SelectUsageSummary \/ SelectUsageByOrg \/ SelectUsageLogs \/ CountUsageLogs
    PROVE  LedgerInv'
<1>1. UNCHANGED <<pc, call, kept, looks, answer, lock, ledger, visible>>
    BY DEF SelectUsageSummary, SelectUsageByOrg, SelectUsageLogs, CountUsageLogs, store
<1>3. ASSUME NEW s  PROVE Cardinality(Matching(s)) \in Nat
    BY MatchingIsFinite
<1>4. ReportFollows'
    <2>1. CASE SelectUsageSummary
        <3>1. PICK s \in Statuses \union {None} :
                 report' = [pc |-> "by_org", status |-> s, calls |-> Cardinality(Matching(s)), counted |-> 0]
            BY <2>1 DEF SelectUsageSummary
        <3>2. /\ report'.pc = "by_org" /\ report'.status = s /\ report'.calls = Cardinality(Matching(s))
              /\ DOMAIN report' = {"pc", "status", "calls", "counted"}
            BY <3>1
        <3>3. Matching(report.status)' = Matching(s)
            BY <1>1, <3>2 DEF Matching
        <3> QED BY <1>3, <3>2, <3>3 DEF ReportFollows
    <2>2. CASE SelectUsageLogs
        <3>1. PICK s \in Statuses \union {None} :
                 report' = [pc |-> "count", status |-> s,
                            calls |-> Min({PageSize, Cardinality(Matching(s))}), counted |-> 0]
            BY <2>2 DEF SelectUsageLogs
        <3> DEFINE n == Cardinality(Matching(s))
        <3>2. n \in Nat
            BY <1>3
        <3>3. Min({PageSize, n}) \in Nat /\ Min({PageSize, n}) <= n
            BY <3>2, SmallerOfTwo, PageAssumption
        <3>4. /\ report'.pc = "count" /\ report'.status = s /\ report'.calls = Min({PageSize, n})
              /\ DOMAIN report' = {"pc", "status", "calls", "counted"}
            BY <3>1
        <3>5. Matching(report.status)' = Matching(s)
            BY <1>1, <3>4 DEF Matching
        <3> QED BY <3>2, <3>3, <3>4, <3>5 DEF ReportFollows
    <2>3. CASE SelectUsageByOrg
        <3> DEFINE n == SumByOrg(report.status)
        <3>1. n = Cardinality(Matching(report.status))
            BY GroupsAddUp
        <3>2. report' = [report EXCEPT !.pc = "done", !.counted = n] /\ report.pc = "by_org"
            BY <2>3 DEF SelectUsageByOrg
        <3> HIDE DEF n
        <3>3. report'.pc = "done" /\ report'.calls = report.calls /\ report'.counted = n
            BY <3>2 DEF LedgerInv, ReportFollows
        <3> QED BY <3>1, <3>2, <3>3 DEF LedgerInv, ReportFollows
    <2>4. CASE CountUsageLogs
        <3> DEFINE n == Cardinality(Matching(report.status))
        <3>2. report' = [report EXCEPT !.pc = "done", !.counted = n] /\ report.pc = "count"
            BY <2>4 DEF CountUsageLogs
        <3>3. report'.pc = "done" /\ report'.calls = report.calls /\ report'.counted = n
            BY <3>2 DEF LedgerInv, ReportFollows
        <3> QED BY <3>2, <3>3 DEF LedgerInv, ReportFollows
    <2> QED BY <2>1, <2>2, <2>3, <2>4
<1> QED BY <1>1, <1>4, RequestsStay DEF LedgerInv, LedgerTypeOK

LEMMA LedgerStep == LedgerInv /\ [Next]_vars => LedgerInv'
<1> SUFFICES ASSUME LedgerInv, [Next]_vars  PROVE LedgerInv'
    OBVIOUS
<1>1. ASSUME NEW r \in Reqs, Step(r) \/ Cancel(r)  PROVE LedgerInv'
    BY <1>1, AskKeeps, RetrieveKeeps, InputGuardKeeps, RunKeeps, OutputGuardKeeps, AcquireLockKeeps,
       InsertKeeps, UniqueViolationKeeps, SelectExistingKeeps, RespondKeeps, CancelKeeps DEF Step
<1>2. ASSUME NEW c \in CallIds, BecomesVisible(c)  PROVE LedgerInv'
    BY <1>2, BecomesVisibleKeeps
<1>3. CASE SelectUsageSummary \/ SelectUsageByOrg \/ SelectUsageLogs \/ CountUsageLogs
    BY <1>3, ReportKeeps
<1>4. CASE UNCHANGED vars
    <2>1. UNCHANGED <<pc, call, kept, looks, answer, lock, ledger, visible, report>>
        BY <1>4 DEF vars, store
    <2>2. Recorded' = Recorded /\ IsFiniteSet(Recorded')
        BY <2>1 DEF Recorded, LedgerInv
    <2>3. ReportFollows'
        BY <2>1, <2>2, ReportStays
    <2> QED BY <2>1, <2>3, RequestsStay DEF LedgerInv, LedgerTypeOK
<1> QED BY <1>1, <1>2, <1>3, <1>4 DEF Next

LEMMA LedgerInvAlways == LedgerSpec => []LedgerInv
BY LedgerStart, LedgerStep, PTL DEF LedgerSpec

-----------------------------------------------------------------------------
(* The theorems.                                                           *)

\* The variables keep their types; a lookup never finds a row that is not there.
THEOREM TypesHold == LedgerSpec => []LedgerTypeOK
BY LedgerInvAlways, PTL DEF LedgerInv

\* A request's own row is its record, once it is answered.
LEMMA MineIsRecord ==
    ASSUME LedgerInv, NEW r \in Reqs, Mine(r)
    PROVE  ledger[id[r]] = Record(r)
<1>1. id[r] \in Recorded
    BY DEF Mine, Recorded, LedgerInv, LedgerTypeOK
<1>2. PICK q \in Reqs : ledger[id[r]] = Record(q)
    BY <1>1 DEF LedgerInv, RowsAreRecords
<1>3. q = r
    BY <1>2, RecordSays DEF Mine
<1> QED BY <1>2, <1>3

\* What a provider charged for is on the ledger with its tokens, or a write
\* failed, or the row of another attempt is there; the totals of a report leave
\* out no call it shows.
THEOREM NothingPaidIsLostHolds == LedgerSpec => []NothingPaidIsLost
<1>1. LedgerInv => NothingPaidIsLost
    <2> SUFFICES ASSUME LedgerInv  PROVE NothingPaidIsLost
        OBVIOUS
    <2>1. ASSUME NEW r \in Reqs, Answered(r), charged[r], kept[r] # "failed"
          PROVE  \/ Mine(r) /\ ledger[id[r]].tokens
                 \/ ~Mine(r) /\ ledger[id[r]] # None
        <3>1. ledger[id[r]] # None
            BY <2>1 DEF LedgerInv, ChargesFollow, Recorded
        <3>2. Mine(r) => ledger[id[r]].tokens
            <4>1. used[r]
                BY <2>1 DEF LedgerInv, ChargesFollow
            <4>2. Record(r).tokens
                BY <4>1, RecordSays
            <4> QED BY <4>2, MineIsRecord
        <3> QED BY <3>1, <3>2
    <2> QED BY <2>1 DEF NothingPaidIsLost, LedgerInv, ReportFollows
<1> QED BY <1>1, LedgerInvAlways, PTL

\* The adapters' ledger never decides their answer.
THEOREM AnswerSurvivesLedgerHolds == LedgerSpec => []AnswerSurvivesLedger
<1>1. LedgerInv => AnswerSurvivesLedger
    BY DEF LedgerInv, AnswersFollow, AnswerSurvivesLedger, RecordRaises
<1> QED BY <1>1, LedgerInvAlways, PTL

\* A row tells the same story as the answer of the request that wrote it.
THEOREM RowTellsTheAnswerHolds == LedgerSpec => []RowTellsTheAnswer
<1>1. LedgerInv => RowTellsTheAnswer
    <2> SUFFICES ASSUME LedgerInv, NEW r \in Reqs, Answered(r), Mine(r)
                 PROVE  LET entry == ledger[id[r]] IN
                        /\ entry.blocked <=> answer[r] \in {"PROMPT_INJECTION_DETECTED", "GUARDRAIL_BLOCKED"}
                        /\ entry.status = "ok" => answer[r] = "ok" \/ (agent[r] = "job" /\ kept[r] = "failed")
                        /\ answer[r] = "ok" => entry.status = "ok"
        BY DEF RowTellsTheAnswer
    <2> DEFINE a == AnswerTo(cause[r])
               entry == ledger[id[r]]
    <2>1. entry = Record(r)
        BY MineIsRecord
    <2>2. entry.blocked <=> cause[r] \in Blocks
        BY <2>1, RecordSays
    <2>3. entry.status = "ok" <=> cause[r] = Ok
        BY <2>1, RecordSays, StatusFits
    <2>4. /\ a = "ok" <=> cause[r] = Ok
          /\ a \in {"PROMPT_INJECTION_DETECTED", "GUARDRAIL_BLOCKED"} <=> cause[r] \in Blocks
        BY CodesFit DEF LedgerInv, LedgerTypeOK
    <2>5. answer[r] = IF RecordRaises(r) THEN "INTERNAL_SERVER_ERROR" ELSE a
        BY DEF LedgerInv, AnswersFollow
    <2> HIDE DEF a, entry
    <2>6. CASE RecordRaises(r)
        BY <2>2, <2>3, <2>4, <2>5, <2>6 DEF RecordRaises, entry
    <2>7. CASE ~RecordRaises(r)
        BY <2>2, <2>3, <2>4, <2>5, <2>7 DEF entry
    <2> QED BY <2>6, <2>7
<1> QED BY <1>1, LedgerInvAlways, PTL

-----------------------------------------------------------------------------
(***************************************************************************)
(* The documents and their vectors.                                        *)
(***************************************************************************)

-----------------------------------------------------------------------------
(* The inductive invariant.                                                *)

\* The vectors of one upload of the first n chunks of d.
Upload(d, n, u) == [doc : {d}, index : 1 .. n, upload : {u}]
Whole(d, n) == \E u \in Nat : VectorsOf(d) = Upload(d, n, u)

Steps == {"idle", "kick", "embed", "put", "save", "cleanup", "find", "drop", "erase"}

DocsTypeOK ==
    /\ row \in [Docs -> {"unused", "stored", "deleted"}]
    /\ count \in [Docs -> 0 .. MaxChunks] /\ chunks \in [Docs -> 0 .. MaxChunks]
    /\ small \subseteq {d \in Docs : row[d] # "unused"} /\ disturbed \subseteq Docs
    /\ vectors \subseteq Vectors /\ uploads \in [Docs -> Nat]
    /\ \A v \in vectors : v.upload <= uploads[v.doc]
    /\ at \in [Procs -> Steps] /\ doc \in [Procs -> Docs \cup {NoDoc}]
    /\ seen \in [Procs -> 0 .. MaxChunks] /\ held \in [Procs -> SUBSET Vectors]

\* Who works on nothing is idle, a worker has no client to answer, and nobody
\* touches the vectors of a document it does not work on.
ProcFits(p) ==
    /\ at[p] = "idle" <=> doc[p] = NoDoc
    /\ at[p] \in {"kick", "cleanup", "erase"} => p \in Handlers
    /\ \A v \in held[p] : v.doc = doc[p] /\ v.upload <= uploads[v.doc]

\* A document that nothing has hit, between two operations.
AtRest(d) ==
    /\ Whole(d, count[d])
    /\ row[d] # "stored" => count[d] = 0
    /\ d \in small /\ row[d] = "stored" => count[d] = chunks[d]

\* What is in the store while p works on such a document, d.
Underway(p, d) ==
    /\ row[d] = "stored" /\ count[d] = seen[p]
    /\ p \in Workers /\ d \in small => seen[p] = chunks[d]
    /\ at[p] = "kick" => seen[p] = 0 /\ d \notin small
    /\ at[p] \in {"kick", "embed", "cleanup", "erase"} => VectorsOf(d) = {}
    /\ at[p] = "put" =>
          /\ held[p] \subseteq Upload(d, chunks[d], uploads[d]) /\ held[p] # {}
          /\ VectorsOf(d) = Upload(d, chunks[d], uploads[d]) \ held[p]
    /\ at[p] = "save" => VectorsOf(d) = Upload(d, chunks[d], uploads[d])
    /\ at[p] = "find" => seen[p] > 0 /\ Whole(d, seen[p])
    /\ at[p] = "drop" => held[p] = VectorsOf(d)

\* One operation at a time works on a document that nothing has hit.
DocFits(d) ==
    d \notin disturbed =>
        /\ \A p, q \in Procs : doc[p] = d /\ doc[q] = d => p = q
        /\ ~Busy(d) => AtRest(d)
        /\ \A p \in Procs : doc[p] = d => Underway(p, d)

DocsInv == /\ DocsTypeOK
           /\ \A p \in Procs : ProcFits(p)
           /\ \A d \in Docs : DocFits(d)

-----------------------------------------------------------------------------
(* Uploads.                                                                *)

LEMMA UploadSize ==
    ASSUME NEW d, NEW n \in Nat, NEW u
    PROVE  /\ IsFiniteSet(Upload(d, n, u)) /\ Cardinality(Upload(d, n, u)) = n
           /\ {v.index : v \in Upload(d, n, u)} = 1 .. n
<1> DEFINE f == [i \in 1 .. n |-> [doc |-> d, index |-> i, upload |-> u]]
<1>1. IsFiniteSet(1 .. n) /\ Cardinality(1 .. n) = n
    BY FS_Interval
<1>2. f \in [1 .. n -> Upload(d, n, u)]
    BY DEF Upload
<1>3. \A v \in Upload(d, n, u) : v.index \in 1 .. n /\ f[v.index] = v
    BY DEF Upload
<1>5. \A i \in 1 .. n : f[i].index = i
    OBVIOUS
<1>4. f \in Bijection(1 .. n, Upload(d, n, u))
    BY <1>2, <1>3, <1>5 DEF Bijection, Injection, Surjection, IsInjective
<1> QED
    BY <1>1, <1>2, <1>3, <1>4, <1>5, FS_Bijection DEF ExistsBijection

\* Of finitely many uploads one is the last.
LEMMA LastUpload ==
    ASSUME NEW T \in SUBSET Nat, NEW n \in Nat, \A t \in T : t <= n, T # {}
    PROVE  \E m \in T : \A t \in T : t <= m
<1> DEFINE After(m) == {t \in T : t > m}
           A == {After(m) : m \in T}
<1>1. IsFiniteSet(T)
    BY FS_BoundedSetOfNaturals
<1>2. A \subseteq FiniteSubsetsOf(T) /\ A # {}
    <2>1. ASSUME NEW m \in T PROVE After(m) \in FiniteSubsetsOf(T)
        <3>1. After(m) \in SUBSET T
            OBVIOUS
        <3>2. IsFiniteSet(After(m))
            BY <1>1, <3>1, FS_Subset
        <3> QED BY <3>1, <3>2 DEF FiniteSubsetsOf
    <2> QED BY <2>1
<1>3. PICK x \in A : \A y \in A : ~(<<y, x>> \in StrictSubsetOrdering(T))
    <2>1. IsWellFoundedOn(StrictSubsetOrdering(T), FiniteSubsetsOf(T))
        BY FS_StrictSubsetOrderingWellFounded
    <2> HIDE DEF A
    <2> QED BY <1>2, <2>1, WFMin
<1>4. PICK m \in T : x = After(m)
    OBVIOUS
<1>5. ASSUME NEW t \in T, t > m PROVE FALSE
    <2>1. After(t) \in A /\ t \in x /\ t \notin After(t)
        BY <1>4, <1>5
    <2>3. \A u \in T : u > t => u > m
        BY <1>5
    <2>4. After(t) \subseteq x /\ After(t) \subseteq T /\ x \subseteq T
        BY <1>4, <2>3
    <2>2. <<After(t), x>> \in StrictSubsetOrdering(T)
        BY <2>1, <2>4 DEF StrictSubsetOrdering
    <2> QED BY <1>3, <2>1, <2>2
<1> QED BY <1>5

\* The key that a purge deletes is that of a vector of the same chunk.
LEMMA KeyOfChunk ==
    ASSUME DocsTypeOK, NEW v \in vectors
    PROVE  /\ KeyOf(v) \in vectors
           /\ KeyOf(v).doc = v.doc /\ KeyOf(v).index = v.index
<1>1. CASE ~InMemory
    BY <1>1 DEF KeyOf
<1>2. CASE InMemory
    <2> DEFINE Same == {w \in vectors : w.doc = v.doc /\ w.index = v.index}
    <2> DEFINE T == {w.upload : w \in Same}
    <2>1. T \in SUBSET Nat /\ T # {}
        BY DEF DocsTypeOK, Vectors
    <2>2. uploads[v.doc] \in Nat /\ \A t \in T : t <= uploads[v.doc]
        BY DEF DocsTypeOK, Vectors
    <2>3. PICK m \in T : \A t \in T : t <= m
        BY <2>1, <2>2, LastUpload
    <2>4. PICK w \in Same : w.upload = m
        OBVIOUS
    <2>5. \A x \in vectors : x.doc = v.doc /\ x.index = v.index => x.upload <= w.upload
        BY <2>3, <2>4
    <2> QED BY <1>2, <2>4, <2>5 DEF KeyOf
<1> QED BY <1>1, <1>2

-----------------------------------------------------------------------------
(* A step of one process touches the document it works on and no other.    *)

Others(p) ==
    \A q \in Procs \ {p} : /\ at'[q] = at[q] /\ doc'[q] = doc[q]
                           /\ seen'[q] = seen[q] /\ held'[q] = held[q]
OtherDocs(d) ==
    \A e \in Docs \ {d} :
        /\ VectorsOf(e)' = VectorsOf(e)
        /\ row'[e] = row[e] /\ count'[e] = count[e] /\ chunks'[e] = chunks[e]
        /\ uploads'[e] = uploads[e]
        /\ (e \in small') = (e \in small)
        /\ (e \in disturbed') = (e \in disturbed)

LEMMA StepOfOne ==
    ASSUME DocsInv, NEW p \in Procs, NEW d \in Docs,
           DocsTypeOK', ProcFits(p)', uploads'[d] >= uploads[d],
           doc[p] \in {d, NoDoc}, doc'[p] \in {d, NoDoc}, Others(p), OtherDocs(d),
           d \notin disturbed' =>
               /\ \A q \in Procs \ {p} : doc[q] # d
               /\ doc'[p] = d => Underway(p, d)'
               /\ doc'[p] = NoDoc => AtRest(d)'
    PROVE  DocsInv'
<1>1. NoDoc \notin Docs
    BY ActorsAssumption
<1>2. ASSUME NEW q \in Procs PROVE ProcFits(q)'
    <2>1. CASE q = p
        BY <2>1
    <2>2. CASE q # p
        <3>1. ProcFits(q) /\ at'[q] = at[q] /\ doc'[q] = doc[q] /\ held'[q] = held[q]
            BY <2>2 DEF DocsInv, Others
        <3>2. held[q] \subseteq Vectors
            BY DEF DocsInv, DocsTypeOK
        <3>3. ASSUME NEW v \in held[q] PROVE v.doc = doc'[q] /\ v.upload <= uploads'[v.doc]
            <4>1. v.doc = doc[q] /\ v.upload <= uploads[v.doc] /\ v.doc \in Docs /\ v.upload \in Nat
                BY <3>1, <3>2, <3>3 DEF ProcFits, Vectors
            <4>2. uploads'[v.doc] >= uploads[v.doc]
                BY <4>1 DEF OtherDocs, DocsInv, DocsTypeOK
            <4>3. uploads[v.doc] \in Nat /\ uploads'[v.doc] \in Nat
                BY <4>1 DEF DocsInv, DocsTypeOK
            <4> QED BY <3>1, <4>1, <4>2, <4>3
        <3> QED BY <3>1, <3>3 DEF ProcFits
    <2> QED BY <2>1, <2>2
<1>3. ASSUME NEW e \in Docs, e \notin disturbed' PROVE DocFits(e)'
    <2>1. CASE e = d
        <3>1. \A q \in Procs \ {p} : doc'[q] # d
            BY <1>3, <2>1 DEF Others
        <3>2. Busy(d)' <=> doc'[p] = d
            BY <3>1 DEF Busy
        <3>3. \A q, r \in Procs : doc'[q] = d /\ doc'[r] = d => q = r
            BY <3>1
        <3>4. \A q \in Procs : doc'[q] = d => Underway(q, d)'
            BY <1>3, <2>1, <3>1
        <3>5. ~Busy(d)' => AtRest(d)'
            BY <1>3, <2>1, <3>2
        <3> QED BY <2>1, <3>3, <3>4, <3>5 DEF DocFits
    <2>2. CASE e # d
        <3>1. e \notin disturbed /\ DocFits(e) /\ e # NoDoc
            BY <1>1, <1>3, <2>2 DEF DocsInv, OtherDocs
        <3>2. doc[p] # e /\ doc'[p] # e
            BY <2>2, <3>1
        <3>3. \A q \in Procs : (doc'[q] = e) <=> (doc[q] = e)
            BY <3>2 DEF Others
        <3>4. /\ VectorsOf(e)' = VectorsOf(e)
              /\ row'[e] = row[e] /\ count'[e] = count[e] /\ chunks'[e] = chunks[e]
              /\ uploads'[e] = uploads[e] /\ (e \in small') = (e \in small)
            BY <2>2 DEF OtherDocs
        <3>5. \A n : Whole(e, n)' <=> Whole(e, n)
            BY <3>4 DEF Whole, Upload
        <3>6. AtRest(e) => AtRest(e)'
            BY <3>4, <3>5 DEF AtRest
        <3>7. ASSUME NEW q \in Procs, doc'[q] = e PROVE Underway(q, e)'
            <4>1. q # p /\ Underway(q, e)
                BY <3>1, <3>2, <3>3, <3>7 DEF DocFits
            <4>2. at'[q] = at[q] /\ seen'[q] = seen[q] /\ held'[q] = held[q]
                BY <4>1 DEF Others
            <4> QED BY <3>4, <3>5, <4>1, <4>2 DEF Underway, Upload
        <3>8. Busy(e)' <=> Busy(e)
            BY <3>3 DEF Busy
        <3> QED BY <3>1, <3>3, <3>6, <3>7, <3>8 DEF DocFits
    <2> QED BY <2>1, <2>2
<1>4. ASSUME NEW e \in Docs PROVE DocFits(e)'
    BY <1>3 DEF DocFits
<1> QED BY <1>2, <1>4 DEF DocsInv

-----------------------------------------------------------------------------
(* What the pieces of a step do.                                           *)

\* Whoever is not idle works on a document, alone if nothing has hit it.
LEMMA WorksOnOne ==
    ASSUME DocsInv, NEW p \in Procs, at[p] # "idle"
    PROVE  /\ doc[p] \in Docs
           /\ doc[p] \notin disturbed =>
                 Underway(p, doc[p]) /\ \A q \in Procs \ {p} : doc[q] # doc[p]
<1>1. doc[p] \in Docs
    BY DEF DocsInv, DocsTypeOK, ProcFits
<1> QED BY <1>1 DEF DocsInv, DocFits

LEMMA ProceedEffect ==
    ASSUME DocsTypeOK, NEW p \in Procs, NEW step \in Steps, Proceed(p, step)
    PROVE  /\ at' \in [Procs -> Steps] /\ at'[p] = step
           /\ \A q \in Procs \ {p} : at'[q] = at[q]
BY DEF DocsTypeOK, Proceed

LEMMA FinishEffect ==
    ASSUME DocsTypeOK, NEW p \in Procs, Finish(p)
    PROVE  /\ at' \in [Procs -> Steps] /\ doc' \in [Procs -> Docs \cup {NoDoc}]
           /\ seen' \in [Procs -> 0 .. MaxChunks] /\ held' \in [Procs -> SUBSET Vectors]
           /\ doc'[p] = NoDoc /\ Others(p) /\ ProcFits(p)'
<1>1. "idle" \in Steps /\ 0 \in 0 .. MaxChunks
    BY SizesAssumption DEF Steps
<1>2. /\ at' \in [Procs -> Steps] /\ doc' \in [Procs -> Docs \cup {NoDoc}]
      /\ seen' \in [Procs -> 0 .. MaxChunks] /\ held' \in [Procs -> SUBSET Vectors]
    BY <1>1 DEF DocsTypeOK, Finish, Proceed
<1>3. at'[p] = "idle" /\ doc'[p] = NoDoc /\ held'[p] = {} /\ Others(p)
    BY DEF DocsTypeOK, Finish, Proceed, Others
<1> QED BY <1>2, <1>3 DEF ProcFits

LEMMA BeginEffect ==
    ASSUME DocsInv, NEW p \in Procs, at[p] = "idle", NEW d \in Docs, NEW n \in 0 .. MaxChunks,
           NEW k, NEW step \in Steps \ {"idle"}, Begin(p, d, n, k, step),
           step \in {"kick", "cleanup", "erase"} => p \in Handlers
    PROVE  /\ at' \in [Procs -> Steps] /\ doc' \in [Procs -> Docs \cup {NoDoc}]
           /\ seen' \in [Procs -> 0 .. MaxChunks] /\ held' = held /\ held[p] = {}
           /\ at'[p] = step /\ doc[p] = NoDoc /\ doc'[p] = d /\ seen'[p] = n
           /\ Others(p) /\ ProcFits(p)'
           /\ disturbed' \in SUBSET Docs /\ disturbed' \in {disturbed, disturbed \cup {d}}
           /\ d \notin disturbed' => d \notin disturbed /\ ~Busy(d) /\ AtRest(d)
<1>1. NoDoc \notin Docs
    BY ActorsAssumption
<1>2. doc[p] = NoDoc /\ held[p] = {}
    <2>1. doc[p] = NoDoc /\ held[p] \subseteq Vectors /\ \A v \in held[p] : v.doc = doc[p]
        BY DEF DocsInv, DocsTypeOK, ProcFits
    <2> QED BY <1>1, <2>1 DEF Vectors
<1>3. /\ at' \in [Procs -> Steps] /\ doc' \in [Procs -> Docs \cup {NoDoc}]
      /\ seen' \in [Procs -> 0 .. MaxChunks] /\ held' = held
    BY DEF DocsInv, DocsTypeOK, Begin, Proceed
<1>4. at'[p] = step /\ doc'[p] = d /\ seen'[p] = n /\ Others(p)
    BY DEF DocsInv, DocsTypeOK, Begin, Proceed, Others
<1>5. ProcFits(p)'
    BY <1>1, <1>2, <1>3, <1>4 DEF ProcFits
<1>6. disturbed' \in SUBSET Docs /\ disturbed' \in {disturbed, disturbed \cup {d}}
    BY DEF DocsInv, DocsTypeOK, Begin
<1>7. d \notin disturbed' => d \notin disturbed /\ ~Busy(d) /\ AtRest(d)
    BY DEF DocsInv, DocFits, Begin
<1> QED BY <1>2, <1>3, <1>4, <1>5, <1>6, <1>7

LEMMA FaultEffect ==
    ASSUME DocsTypeOK, NEW kind, NEW p, doc[p] \in Docs, NEW harm, Fault(kind, p, harm)
    PROVE  /\ disturbed' \in SUBSET Docs /\ disturbed' \in {disturbed, disturbed \cup {doc[p]}}
           /\ harm => doc[p] \in disturbed'
BY DEF DocsTypeOK, Fault

LEMMA OtherVectors ==
    ASSUME NEW d, \A v : v.doc # d => (v \in vectors' <=> v \in vectors)
    PROVE  \A e \in Docs \ {d} : VectorsOf(e)' = VectorsOf(e)
BY DEF VectorsOf

\* A step that leaves the rows alone.
LEMMA UntouchedRowsStay ==
    ASSUME NEW d \in Docs, UNCHANGED docVars,
           \A v : v.doc # d => (v \in vectors' <=> v \in vectors),
           \A e \in Docs \ {d} : uploads'[e] = uploads[e],
           disturbed' \in {disturbed, disturbed \cup {d}}
    PROVE  OtherDocs(d)
<1>1. \A e \in Docs \ {d} : VectorsOf(e)' = VectorsOf(e)
    BY OtherVectors
<1> QED BY <1>1 DEF OtherDocs, docVars

\* A step that leaves the rows and the store alone.
LEMMA StoreStays ==
    ASSUME NEW d \in Docs, UNCHANGED <<docVars, vectors, uploads>>,
           disturbed' \in {disturbed, disturbed \cup {d}}
    PROVE  /\ OtherDocs(d) /\ VectorsOf(d)' = VectorsOf(d)
           /\ \A n : Whole(d, n)' <=> Whole(d, n)
           /\ \A n : Upload(d, n, uploads[d])' = Upload(d, n, uploads[d])
<1>1. OtherDocs(d)
    BY UntouchedRowsStay
<1>2. VectorsOf(d)' = VectorsOf(d)
    BY DEF VectorsOf
<1> QED BY <1>1, <1>2 DEF Whole, Upload

-----------------------------------------------------------------------------
(* Requests.                                                               *)

LEMMA CreateRowInv ==
    ASSUME DocsInv, NEW r \in Handlers, NEW d \in Docs, NEW n \in 0 .. MaxChunks,
           NEW inline \in BOOLEAN, CreateRow(r, d, n, inline)
    PROVE  DocsInv'
<1> DEFINE step == IF inline THEN "embed" ELSE "kick"
<1>1. r \in Procs /\ 0 \in 0 .. MaxChunks /\ step \in Steps \ {"idle"} /\ NoDoc # d
    BY SizesAssumption, ActorsAssumption DEF Procs, Steps
<1>2. at[r] = "idle" /\ Begin(r, d, 0, 0, step)
    BY DEF CreateRow
<1>3. /\ at' \in [Procs -> Steps] /\ doc' \in [Procs -> Docs \cup {NoDoc}]
      /\ seen' \in [Procs -> 0 .. MaxChunks] /\ held' = held
      /\ at'[r] = step /\ doc[r] = NoDoc /\ doc'[r] = d /\ seen'[r] = 0
      /\ Others(r) /\ ProcFits(r)'
      /\ disturbed' \in SUBSET Docs /\ disturbed' \in {disturbed, disturbed \cup {d}}
      /\ d \notin disturbed' => d \notin disturbed /\ ~Busy(d) /\ AtRest(d)
    <2> HIDE DEF step
    <2> QED BY <1>1, <1>2, BeginEffect
<1>4. /\ DocsTypeOK' /\ uploads' = uploads /\ vectors' = vectors
    BY <1>3 DEF CreateRow, DocsInv, DocsTypeOK
<1>5. /\ row[d] = "unused" /\ row'[d] = "stored" /\ count'[d] = count[d] /\ chunks'[d] = n
      /\ (d \in small') = (inline \/ d \in small)
      /\ \A e \in Docs \ {d} : /\ row'[e] = row[e] /\ count'[e] = count[e] /\ chunks'[e] = chunks[e]
                              /\ (e \in small') = (e \in small)
    BY DEF CreateRow, DocsInv, DocsTypeOK
<1>6. OtherDocs(d)
    <2>1. \A e \in Docs \ {d} : VectorsOf(e)' = VectorsOf(e)
        BY <1>4 DEF VectorsOf
    <2>2. \A e \in Docs \ {d} : (e \in disturbed') = (e \in disturbed)
        BY <1>3
    <2> QED BY <1>4, <1>5, <2>1, <2>2 DEF OtherDocs
<1>7. ASSUME d \notin disturbed' PROVE Underway(r, d)'
    <2>1. count[d] = 0 /\ Whole(d, 0) /\ d \notin small
        BY <1>3, <1>5, <1>7 DEF AtRest, DocsInv, DocsTypeOK
    <2>2. VectorsOf(d)' = {}
        BY <1>4, <2>1 DEF Whole, Upload, VectorsOf
    <2>3. r \notin Workers
        BY ActorsAssumption
    <2> QED BY <1>3, <1>5, <2>1, <2>2, <2>3 DEF Underway
<1>8. uploads'[d] >= uploads[d]
    BY <1>4 DEF DocsInv, DocsTypeOK
<1>9. d \notin disturbed' => \A q \in Procs \ {r} : doc[q] # d
    BY <1>3 DEF Busy
<1> QED BY <1>1, <1>3, <1>4, <1>6, <1>7, <1>8, <1>9, StepOfOne

\* An operation that has read the row begins with the purge, if the row has
\* chunks, and with what follows the purge if it has none.
LEMMA BeginsOnStored ==
    ASSUME DocsInv, NEW p \in Procs, NEW d \in Docs, NEW k, NEW step \in {"embed", "erase"},
           step = (IF p \in Workers THEN "embed" ELSE "erase"),
           at[p] = "idle", row[d] = "stored", Begin(p, d, count[d], k, PurgeOr(count[d], step)),
           UNCHANGED <<docVars, vectors, uploads>>
    PROVE  DocsInv'
<1> DEFINE first == PurgeOr(count[d], step)
<1>1. count[d] \in 0 .. MaxChunks /\ NoDoc # d /\ first \in Steps \ {"idle"}
    BY ActorsAssumption DEF DocsInv, DocsTypeOK, PurgeOr, Steps
<1>2. first \in {"kick", "cleanup", "erase"} => p \in Handlers
    BY DEF PurgeOr, Procs
<1>3. /\ at' \in [Procs -> Steps] /\ doc' \in [Procs -> Docs \cup {NoDoc}]
      /\ seen' \in [Procs -> 0 .. MaxChunks] /\ held' = held
      /\ at'[p] = first /\ doc[p] = NoDoc /\ doc'[p] = d /\ seen'[p] = count[d]
      /\ Others(p) /\ ProcFits(p)'
      /\ disturbed' \in SUBSET Docs /\ disturbed' \in {disturbed, disturbed \cup {d}}
      /\ d \notin disturbed' => d \notin disturbed /\ ~Busy(d) /\ AtRest(d)
    <2>1. Begin(p, d, count[d], k, first)
        OBVIOUS
    <2> HIDE DEF first
    <2> QED BY <1>1, <1>2, <2>1, BeginEffect
<1>4. DocsTypeOK' /\ uploads'[d] >= uploads[d]
    BY <1>3 DEF DocsInv, DocsTypeOK, docVars
<1>5. /\ OtherDocs(d) /\ VectorsOf(d)' = VectorsOf(d)
      /\ \A n : Whole(d, n)' <=> Whole(d, n)
    BY <1>3, StoreStays
<1>6. ASSUME d \notin disturbed' PROVE Underway(p, d)'
    <2>1. Whole(d, count[d]) /\ (d \in small => count[d] = chunks[d])
        BY <1>3, <1>6 DEF AtRest
    <2>2. row'[d] = row[d] /\ count'[d] = count[d] /\ chunks'[d] = chunks[d] /\ small' = small
        BY DEF docVars
    <2>3. CASE count[d] <= 0
        <3>1. count[d] = 0 /\ first = step
            BY <1>1, <2>3 DEF PurgeOr
        <3>2. VectorsOf(d)' = {}
            BY <1>5, <2>1, <3>1 DEF Whole, Upload
        <3> QED BY <1>3, <2>1, <2>2, <3>1, <3>2 DEF Underway
    <2>4. CASE ~(count[d] <= 0)
        <3>1. count[d] > 0 /\ first = "find"
            BY <1>1, <2>4 DEF PurgeOr
        <3> QED BY <1>3, <1>5, <2>1, <2>2, <3>1 DEF Underway
    <2> QED BY <2>3, <2>4
<1>7. d \notin disturbed' => \A q \in Procs \ {p} : doc[q] # d
    BY <1>3 DEF Busy
<1> QED BY <1>1, <1>3, <1>4, <1>5, <1>6, <1>7, StepOfOne

LEMMA DeleteSelectInv ==
    ASSUME DocsInv, NEW r \in Handlers, NEW d \in Docs, DeleteSelect(r, d)
    PROVE  DocsInv'
<1>1. r \in Procs /\ r \notin Workers
    BY ActorsAssumption DEF Procs
<1> QED BY <1>1, BeginsOnStored DEF DeleteSelect

-----------------------------------------------------------------------------
(* An operation goes on.                                                   *)

LEMMA KickInv ==
    ASSUME DocsInv, NEW p \in Procs, NEW d, d = doc[p], Kick(p)
    PROVE  DocsInv'
<1>1. /\ d \in Docs /\ d # NoDoc
      /\ d \notin disturbed => Underway(p, d) /\ \A q \in Procs \ {p} : doc[q] # d
    BY WorksOnOne, ActorsAssumption DEF Kick
<1>2. /\ at' \in [Procs -> Steps] /\ doc' \in [Procs -> Docs \cup {NoDoc}]
      /\ seen' \in [Procs -> 0 .. MaxChunks] /\ held' \in [Procs -> SUBSET Vectors]
      /\ doc'[p] = NoDoc /\ Others(p) /\ ProcFits(p)'
    BY FinishEffect DEF Kick, DocsInv
<1>3. DocsTypeOK' /\ uploads'[d] >= uploads[d]
    BY <1>1, <1>2 DEF Kick, DocsInv, DocsTypeOK, docVars, histVars
<1>4. disturbed' = disturbed /\ UNCHANGED docVars
    BY DEF Kick, histVars
<1>5. OtherDocs(d) /\ VectorsOf(d)' = VectorsOf(d) /\ \A n : Whole(d, n)' <=> Whole(d, n)
    BY <1>1, <1>4, StoreStays DEF Kick
<1>6. ASSUME d \notin disturbed' PROVE AtRest(d)'
    <2>1. /\ row[d] = "stored" /\ count[d] = 0 /\ d \notin small /\ VectorsOf(d) = {}
        BY <1>1, <1>4, <1>6 DEF Kick, Underway
    <2>2. Whole(d, 0)
        BY <2>1 DEF Whole, Upload
    <2> QED BY <1>4, <1>5, <2>1, <2>2 DEF AtRest, docVars
<1> QED BY <1>1, <1>2, <1>3, <1>4, <1>5, <1>6, StepOfOne

LEMMA EmbedInv ==
    ASSUME DocsInv, NEW p \in Procs, NEW d, d = doc[p], Embed(p)
    PROVE  DocsInv'
<1> DEFINE u == uploads[d] + 1
           step == IF chunks[d] = 0 THEN "save" ELSE "put"
<1>1. /\ d \in Docs /\ d # NoDoc
      /\ d \notin disturbed => Underway(p, d) /\ \A q \in Procs \ {p} : doc[q] # d
    BY WorksOnOne, ActorsAssumption DEF Embed
<1>2. chunks[d] \in 0 .. MaxChunks /\ uploads[d] \in Nat
    BY <1>1 DEF DocsInv, DocsTypeOK
<1>3. Upload(d, chunks[d], u) \subseteq Vectors
    BY <1>1, <1>2, SizesAssumption DEF Upload, Vectors
<1>4. /\ uploads' \in [Docs -> Nat] /\ uploads'[d] = u
      /\ \A e \in Docs \ {d} : uploads'[e] = uploads[e]
    BY <1>1, <1>2 DEF Embed, DocsInv, DocsTypeOK
<1>5. /\ held' \in [Procs -> SUBSET Vectors] /\ held'[p] = Upload(d, chunks[d], u)
      /\ \A q \in Procs \ {p} : held'[q] = held[q]
    <2>1. held' = [held EXCEPT ![p] = Upload(d, chunks[d], u)]
        BY DEF Embed, Upload
    <2> QED BY <1>3, <2>1 DEF DocsInv, DocsTypeOK
<1>6. /\ at' \in [Procs -> Steps] /\ at'[p] = step
      /\ \A q \in Procs \ {p} : at'[q] = at[q]
    BY ProceedEffect DEF Embed, DocsInv, Steps
<1>7. /\ UNCHANGED <<docVars, vectors, doc, seen, disturbed>>
    BY DEF Embed, histVars
<1>8. Others(p) /\ doc'[p] = d
    BY <1>5, <1>6, <1>7 DEF Others
<1>9. DocsTypeOK'
    <2>1. \A v \in vectors' : v.upload <= uploads'[v.doc]
        <3>1. ASSUME NEW v \in vectors PROVE v.upload <= uploads'[v.doc]
            <4>1. v.doc \in Docs /\ v.upload \in Nat /\ v.upload <= uploads[v.doc]
                BY DEF DocsInv, DocsTypeOK, Vectors
            <4>2. uploads[v.doc] \in Nat /\ uploads'[v.doc] \in Nat /\ uploads'[v.doc] >= uploads[v.doc]
                BY <1>2, <1>4, <4>1 DEF DocsInv, DocsTypeOK
            <4> QED BY <4>1, <4>2
        <3> QED BY <1>7, <3>1
    <2> QED BY <1>4, <1>5, <1>6, <1>7, <2>1 DEF DocsInv, DocsTypeOK, docVars
<1>10. ProcFits(p)'
    <2>1. \A v \in held'[p] : v.doc = d /\ v.upload = u
        BY <1>5 DEF Upload
    <2>2. \A v \in held'[p] : v.upload <= uploads'[v.doc]
        BY <1>2, <1>4, <2>1
    <2> QED BY <1>1, <1>6, <1>8, <2>1, <2>2 DEF ProcFits
<1>11. OtherDocs(d)
    BY <1>1, <1>4, <1>7, UntouchedRowsStay
<1>12. ASSUME d \notin disturbed' PROVE Underway(p, d)'
    <2>1. Underway(p, d) /\ VectorsOf(d) = {} /\ VectorsOf(d)' = {}
        BY <1>1, <1>7, <1>12 DEF Embed, Underway, VectorsOf
    <2>2. /\ row'[d] = row[d] /\ count'[d] = count[d] /\ chunks'[d] = chunks[d] /\ small' = small
          /\ seen'[p] = seen[p]
        BY <1>7 DEF docVars
    <2>3. Upload(d, chunks[d], uploads[d])' = Upload(d, chunks[d], u)
        BY <1>4, <2>2 DEF Upload
    <2>4. CASE chunks[d] = 0
        <3>1. Upload(d, chunks[d], u) = {}
            BY <2>4 DEF Upload
        <3> QED BY <1>6, <2>1, <2>2, <2>3, <2>4, <3>1 DEF Underway
    <2>5. CASE chunks[d] # 0
        <3>1. Upload(d, chunks[d], u) # {}
            <4>1. [doc |-> d, index |-> 1, upload |-> u] \in Upload(d, chunks[d], u)
                BY <1>2, <2>5 DEF Upload
            <4> QED BY <4>1
        <3> QED BY <1>5, <1>6, <2>1, <2>2, <2>3, <2>5, <3>1 DEF Underway
    <2> QED BY <2>4, <2>5
<1>13. uploads'[d] >= uploads[d]
    BY <1>2, <1>4
<1> QED BY <1>1, <1>7, <1>8, <1>9, <1>10, <1>11, <1>12, <1>13, StepOfOne

LEMMA PutInv ==
    ASSUME DocsInv, NEW p \in Procs, NEW d, d = doc[p], Put(p)
    PROVE  DocsInv'
<1> DEFINE B == Batch(p)
           step == IF held'[p] = {} THEN "save" ELSE "put"
<1>1. /\ d \in Docs /\ d # NoDoc
      /\ d \notin disturbed => Underway(p, d) /\ \A q \in Procs \ {p} : doc[q] # d
    BY WorksOnOne, ActorsAssumption DEF Put
<1>2. B \subseteq held[p] /\ held[p] \subseteq Vectors
    BY DEF Batch, DocsInv, DocsTypeOK
<1>3. \A v \in held[p] : v.doc = d /\ v.upload <= uploads[v.doc]
    BY DEF DocsInv, ProcFits
<1>4. vectors' = vectors \cup B /\ UNCHANGED <<docVars, uploads, doc, seen, disturbed>>
    BY DEF Put, histVars
<1>5. /\ held' \in [Procs -> SUBSET Vectors] /\ held'[p] = held[p] \ B
      /\ \A q \in Procs \ {p} : held'[q] = held[q]
    <2>1. held' = [held EXCEPT ![p] = held[p] \ B]
        BY DEF Put
    <2> HIDE DEF B
    <2> QED BY <1>2, <2>1 DEF DocsInv, DocsTypeOK
<1>6. /\ at' \in [Procs -> Steps] /\ at'[p] = step
      /\ \A q \in Procs \ {p} : at'[q] = at[q]
    BY ProceedEffect DEF Put, DocsInv, Steps
<1>7. Others(p) /\ doc'[p] = d
    BY <1>4, <1>5, <1>6 DEF Others
<1> HIDE DEF B
<1>8. DocsTypeOK'
    <2>1. vectors' \subseteq Vectors
        BY <1>2, <1>4 DEF DocsInv, DocsTypeOK
    <2>2. \A v \in vectors' : v.upload <= uploads'[v.doc]
        BY <1>2, <1>3, <1>4 DEF DocsInv, DocsTypeOK
    <2> QED BY <1>4, <1>5, <1>6, <2>1, <2>2 DEF DocsInv, DocsTypeOK, docVars
<1>9. ProcFits(p)'
    BY <1>1, <1>2, <1>3, <1>4, <1>5, <1>6, <1>7 DEF ProcFits
<1>10. OtherDocs(d)
    <2>1. \A v : v.doc # d => (v \in vectors' <=> v \in vectors)
        BY <1>2, <1>3, <1>4
    <2> QED BY <1>1, <1>4, <2>1, UntouchedRowsStay
<1>11. ASSUME d \notin disturbed' PROVE Underway(p, d)'
    <2> DEFINE U == Upload(d, chunks[d], uploads[d])
    <2>1. Underway(p, d) /\ held[p] \subseteq U /\ VectorsOf(d) = U \ held[p]
        BY <1>1, <1>4, <1>11 DEF Put, Underway
    <2>2. /\ row'[d] = row[d] /\ count'[d] = count[d] /\ chunks'[d] = chunks[d] /\ small' = small
          /\ seen'[p] = seen[p]
        BY <1>4 DEF docVars
    <2>3. Upload(d, chunks[d], uploads[d])' = U
        BY <1>4, <2>2 DEF Upload
    <2>4. VectorsOf(d)' = VectorsOf(d) \cup B
        BY <1>2, <1>3, <1>4 DEF VectorsOf
    <2>5. VectorsOf(d)' = U \ held'[p] /\ held'[p] \subseteq U
        BY <1>2, <1>5, <2>1, <2>4
    <2> HIDE DEF U
    <2> QED BY <1>6, <2>1, <2>2, <2>3, <2>5 DEF Underway
<1>12. uploads'[d] >= uploads[d]
    BY <1>1, <1>4 DEF DocsInv, DocsTypeOK
<1> QED BY <1>1, <1>4, <1>7, <1>8, <1>9, <1>10, <1>11, <1>12, StepOfOne

LEMMA SaveInv ==
    ASSUME DocsInv, NEW p \in Procs, NEW d, d = doc[p], Save(p)
    PROVE  DocsInv'
<1>1. /\ d \in Docs /\ d # NoDoc
      /\ d \notin disturbed => Underway(p, d) /\ \A q \in Procs \ {p} : doc[q] # d
    BY WorksOnOne, ActorsAssumption DEF Save
<1>2. /\ at' \in [Procs -> Steps] /\ doc' \in [Procs -> Docs \cup {NoDoc}]
      /\ seen' \in [Procs -> 0 .. MaxChunks] /\ held' \in [Procs -> SUBSET Vectors]
      /\ doc'[p] = NoDoc /\ Others(p) /\ ProcFits(p)'
    BY FinishEffect DEF Save, Settle, DocsInv
<1>3. UNCHANGED <<row, chunks, small, vectors, uploads, disturbed>>
    BY DEF Save, histVars
<1>4. /\ count' \in [Docs -> 0 .. MaxChunks] /\ \A e \in Docs \ {d} : count'[e] = count[e]
      /\ row[d] = "stored" /\ count[d] = seen[p] => count'[d] = chunks[d]
    BY <1>1 DEF Save, DocsInv, DocsTypeOK
<1>5. DocsTypeOK' /\ uploads'[d] >= uploads[d]
    BY <1>1, <1>2, <1>3, <1>4 DEF DocsInv, DocsTypeOK
<1>6. VectorsOf(d)' = VectorsOf(d) /\ \A e \in Docs : VectorsOf(e)' = VectorsOf(e)
    BY <1>3 DEF VectorsOf
<1>7. OtherDocs(d)
    BY <1>3, <1>4, <1>6 DEF OtherDocs
<1>8. ASSUME d \notin disturbed' PROVE AtRest(d)'
    <2>1. /\ row[d] = "stored" /\ count[d] = seen[p]
          /\ VectorsOf(d) = Upload(d, chunks[d], uploads[d])
        BY <1>1, <1>3, <1>8 DEF Save, Underway
    <2>2. uploads[d] \in Nat
        BY <1>1 DEF DocsInv, DocsTypeOK
    <2>3. VectorsOf(d)' = Upload(d, count'[d], uploads[d])
        BY <1>4, <1>6, <1>1, <2>1
    <2>4. Whole(d, count[d])'
        BY <2>2, <2>3 DEF Whole, Upload
    <2> QED BY <1>3, <1>4, <2>1, <2>4 DEF AtRest
<1> QED BY <1>1, <1>2, <1>3, <1>5, <1>7, <1>8, StepOfOne

\* The row goes; whoever removes it has found the store empty.
LEMMA RemovesRow ==
    ASSUME DocsInv, NEW p \in Procs, NEW d, d = doc[p], at[p] \in {"cleanup", "erase"},
           DeleteRow(p), Settle(p), UNCHANGED <<chunks, small, vectors, uploads, backend, histVars>>
    PROVE  DocsInv'
<1>1. /\ d \in Docs /\ d # NoDoc
      /\ d \notin disturbed => Underway(p, d) /\ \A q \in Procs \ {p} : doc[q] # d
    BY WorksOnOne, ActorsAssumption DEF Settle
<1>2. /\ at' \in [Procs -> Steps] /\ doc' \in [Procs -> Docs \cup {NoDoc}]
      /\ seen' \in [Procs -> 0 .. MaxChunks] /\ held' \in [Procs -> SUBSET Vectors]
      /\ doc'[p] = NoDoc /\ Others(p) /\ ProcFits(p)'
    BY FinishEffect DEF Settle, DocsInv
<1>3. UNCHANGED <<chunks, small, vectors, uploads, disturbed>>
    BY DEF histVars
<1>4. /\ row' \in [Docs -> {"unused", "stored", "deleted"}] /\ row'[d] = "deleted"
      /\ count' \in [Docs -> 0 .. MaxChunks] /\ count'[d] = 0
      /\ \A e \in Docs \ {d} : row'[e] = row[e] /\ count'[e] = count[e]
    BY <1>1, SizesAssumption DEF DeleteRow, DocsInv, DocsTypeOK
<1>5. DocsTypeOK' /\ uploads'[d] >= uploads[d]
    <2>1. small' \subseteq {e \in Docs : row'[e] # "unused"}
        BY <1>3, <1>4 DEF DocsInv, DocsTypeOK
    <2> QED BY <1>1, <1>2, <1>3, <1>4, <2>1 DEF DocsInv, DocsTypeOK
<1>6. \A e \in Docs : VectorsOf(e)' = VectorsOf(e)
    BY <1>3 DEF VectorsOf
<1>7. OtherDocs(d)
    BY <1>3, <1>4, <1>6 DEF OtherDocs
<1>8. ASSUME d \notin disturbed' PROVE AtRest(d)'
    <2>1. VectorsOf(d)' = {}
        BY <1>1, <1>3, <1>6, <1>8 DEF Underway
    <2>2. Upload(d, count[d], 0)' = {}
        BY <1>4 DEF Upload
    <2>3. Whole(d, count[d])'
        BY <2>1, <2>2 DEF Whole, Upload
    <2> QED BY <1>4, <2>3 DEF AtRest
<1> QED BY <1>1, <1>2, <1>3, <1>5, <1>7, <1>8, StepOfOne

-----------------------------------------------------------------------------
(* The purge.                                                              *)

\* A search for at least as many vectors as a whole document has finds them
\* all, and the keys looked up for them are theirs.
LEMMA PurgeFindsAll ==
    ASSUME DocsInv, NEW p \in Procs, NEW d, NEW s \in Results(d, TopK(p)),
           Whole(d, seen[p])
    PROVE  /\ s = VectorsOf(d) /\ {KeyOf(v) : v \in s} = s
           /\ seen[p] > 0 => s # {}
<1>1. seen[p] \in Nat /\ MinTopK \in Nat
    BY SizesAssumption DEF DocsInv, DocsTypeOK
<1>2. PICK u \in Nat : VectorsOf(d) = Upload(d, seen[p], u)
    BY DEF Whole
<1>3. IsFiniteSet(VectorsOf(d)) /\ Cardinality(VectorsOf(d)) = seen[p]
    <2>1. IsFiniteSet(Upload(d, seen[p], u)) /\ Cardinality(Upload(d, seen[p], u)) = seen[p]
        BY <1>1, UploadSize
    <2> QED BY <1>2, <2>1
<1>4. s \in SUBSET VectorsOf(d) /\ (s # VectorsOf(d) => Cardinality(s) = TopK(p))
    BY DEF Results
<1>5. TopK(p) >= seen[p] /\ TopK(p) \in Nat
    BY <1>1 DEF TopK
<1>6. s = VectorsOf(d)
    BY <1>1, <1>3, <1>4, <1>5, FS_Subset
<1>7. ASSUME NEW v \in s PROVE KeyOf(v) = v
    <2>1. v \in vectors /\ v \in VectorsOf(d)
        BY <1>6, <1>7 DEF VectorsOf
    <2>2. KeyOf(v) \in vectors /\ KeyOf(v).doc = v.doc /\ KeyOf(v).index = v.index
        BY <2>1, KeyOfChunk DEF DocsInv
    <2>3. KeyOf(v) \in VectorsOf(d)
        BY <2>1, <2>2 DEF VectorsOf
    <2>4. \A x, y \in Upload(d, seen[p], u) : x.index = y.index => x = y
        BY DEF Upload
    <2> QED BY <1>2, <2>1, <2>2, <2>3, <2>4
<1>8. seen[p] > 0 => s # {}
    BY <1>1, <1>3, <1>6, FS_EmptySet
<1> QED BY <1>6, <1>7, <1>8

LEMMA FindInv ==
    ASSUME DocsInv, NEW p \in Procs, NEW d, d = doc[p], Find(p)
    PROVE  DocsInv'
<1>1. /\ d \in Docs /\ d # NoDoc
      /\ d \notin disturbed => Underway(p, d) /\ \A q \in Procs \ {p} : doc[q] # d
    BY WorksOnOne, ActorsAssumption DEF Find
<1>2. PICK s \in Results(d, TopK(p)) :
        /\ held' = [held EXCEPT ![p] = {KeyOf(v) : v \in s}]
        /\ Proceed(p, IF s = {} THEN AfterPurge(p) ELSE "drop")
    BY DEF Find
<1> DEFINE H == {KeyOf(v) : v \in s}
           step == IF s = {} THEN AfterPurge(p) ELSE "drop"
<1>3. UNCHANGED <<docVars, vectors, uploads, doc, seen, disturbed>>
    BY DEF Find, histVars
<1>4. \A v \in H : v \in Vectors /\ v.doc = d /\ v.upload <= uploads[v.doc]
    <2>1. ASSUME NEW v \in s PROVE KeyOf(v) \in vectors /\ KeyOf(v).doc = d
        <3>1. v \in vectors /\ v.doc = d
            BY <2>1 DEF Results, VectorsOf
        <3> QED BY <3>1, KeyOfChunk DEF DocsInv
    <2> QED BY <2>1 DEF DocsInv, DocsTypeOK
<1>5. /\ held' \in [Procs -> SUBSET Vectors] /\ held'[p] = H
      /\ \A q \in Procs \ {p} : held'[q] = held[q]
    <2>1. H \in SUBSET Vectors /\ held' = [held EXCEPT ![p] = H]
        BY <1>2, <1>4
    <2> HIDE DEF H
    <2> QED BY <2>1 DEF DocsInv, DocsTypeOK
<1>6. /\ at' \in [Procs -> Steps] /\ at'[p] = step
      /\ \A q \in Procs \ {p} : at'[q] = at[q]
    <2>1. step \in Steps
        BY DEF AfterPurge, Steps
    <2> HIDE DEF step
    <2>2. Proceed(p, step)
        BY <1>2 DEF step
    <2> QED BY <2>1, <2>2, ProceedEffect DEF DocsInv
<1>7. Others(p) /\ doc'[p] = d
    BY <1>3, <1>5, <1>6 DEF Others
<1>8. DocsTypeOK' /\ uploads'[d] >= uploads[d]
    BY <1>1, <1>3, <1>5, <1>6 DEF DocsInv, DocsTypeOK, docVars
<1>9. ProcFits(p)'
    BY <1>1, <1>3, <1>4, <1>5, <1>6, <1>7 DEF ProcFits, AfterPurge, Procs
<1>10. OtherDocs(d) /\ VectorsOf(d)' = VectorsOf(d)
    BY <1>1, <1>3, StoreStays
<1>11. ASSUME d \notin disturbed' PROVE Underway(p, d)'
    <2>1. Underway(p, d) /\ seen[p] > 0 /\ Whole(d, seen[p])
        BY <1>1, <1>3, <1>11 DEF Find, Underway
    <2>2. /\ row'[d] = row[d] /\ count'[d] = count[d] /\ chunks'[d] = chunks[d] /\ small' = small
          /\ seen'[p] = seen[p]
        BY <1>3 DEF docVars
    <2>3. s = VectorsOf(d) /\ H = s /\ s # {}
        BY <2>1, PurgeFindsAll
    <2>4. at'[p] = "drop" /\ held'[p] = VectorsOf(d)'
        BY <1>5, <1>6, <1>10, <2>3
    <2> QED BY <2>1, <2>2, <2>4 DEF Underway
<1> QED BY <1>1, <1>3, <1>7, <1>8, <1>9, <1>10, <1>11, StepOfOne

LEMMA DropInv ==
    ASSUME DocsInv, NEW p \in Procs, NEW d, d = doc[p], Drop(p)
    PROVE  DocsInv'
<1>1. /\ d \in Docs /\ d # NoDoc
      /\ d \notin disturbed => Underway(p, d) /\ \A q \in Procs \ {p} : doc[q] # d
    BY WorksOnOne, ActorsAssumption DEF Drop
<1>2. vectors' = vectors \ held[p] /\ UNCHANGED <<docVars, uploads, doc, seen, disturbed>>
    BY DEF Drop, histVars
<1>3. \A v \in held[p] : v.doc = d
    BY DEF DocsInv, ProcFits
<1>4. /\ held' \in [Procs -> SUBSET Vectors] /\ held'[p] = {}
      /\ \A q \in Procs \ {p} : held'[q] = held[q]
    BY DEF Drop, DocsInv, DocsTypeOK
<1>5. /\ at' \in [Procs -> Steps] /\ at'[p] = AfterPurge(p)
      /\ \A q \in Procs \ {p} : at'[q] = at[q]
    <2>1. AfterPurge(p) \in Steps
        BY DEF AfterPurge, Steps
    <2> QED BY <2>1, ProceedEffect DEF Drop, DocsInv
<1>6. Others(p) /\ doc'[p] = d
    BY <1>2, <1>4, <1>5 DEF Others
<1>7. DocsTypeOK' /\ uploads'[d] >= uploads[d]
    BY <1>1, <1>2, <1>4, <1>5 DEF DocsInv, DocsTypeOK, docVars
<1>8. ProcFits(p)'
    BY <1>1, <1>4, <1>5, <1>6 DEF ProcFits, AfterPurge, Procs
<1>9. OtherDocs(d)
    BY <1>1, <1>2, <1>3, UntouchedRowsStay
<1>10. ASSUME d \notin disturbed' PROVE Underway(p, d)'
    <2>1. Underway(p, d) /\ held[p] = VectorsOf(d)
        BY <1>1, <1>2, <1>10 DEF Drop, Underway
    <2>2. /\ row'[d] = row[d] /\ count'[d] = count[d] /\ chunks'[d] = chunks[d] /\ small' = small
          /\ seen'[p] = seen[p]
        BY <1>2 DEF docVars
    <2>3. VectorsOf(d)' = {}
        BY <1>2, <2>1 DEF VectorsOf
    <2> QED BY <1>5, <2>1, <2>2, <2>3 DEF Underway, AfterPurge
<1> QED BY <1>1, <1>2, <1>6, <1>7, <1>8, <1>9, <1>10, StepOfOne

-----------------------------------------------------------------------------
(* Nothing of this moves.                                                  *)

LEMMA SameTables ==
    ASSUME DocsInv, UNCHANGED <<docVars, vectors, uploads, procVars, histVars>>
    PROVE  DocsInv'
<1> USE DEF docVars, procVars, histVars
<1>1. DocsTypeOK' /\ \A p \in Procs : ProcFits(p)'
    BY DEF DocsInv, DocsTypeOK, ProcFits
<1>2. ASSUME NEW d \in Docs PROVE DocFits(d)'
    <2>1. VectorsOf(d)' = VectorsOf(d) /\ (\A n : Whole(d, n)' <=> Whole(d, n)) /\ Busy(d)' = Busy(d)
        BY DEF VectorsOf, Whole, Busy
    <2>2. AtRest(d) => AtRest(d)'
        BY <2>1 DEF AtRest
    <2>3. \A p \in Procs : Underway(p, d) => Underway(p, d)'
        BY <2>1 DEF Underway, Upload
    <2> QED BY <2>1, <2>2, <2>3 DEF DocsInv, DocFits
<1> QED BY <1>1, <1>2 DEF DocsInv

-----------------------------------------------------------------------------
(* Tasks and failures.                                                     *)

LEMMA TaskSelectInv ==
    ASSUME DocsInv, NEW w \in Workers, NEW m \in Messages, TaskSelect(w, m)
    PROVE  DocsInv'
<1>1. m.doc \in Docs /\ w \in Procs
    BY DEF Messages, Procs
<1>2. CASE row[m.doc] = "stored"
    BY <1>1, <1>2, BeginsOnStored DEF TaskSelect
<1>3. CASE row[m.doc] # "stored"
    <2>1. UNCHANGED <<docVars, vectors, uploads, procVars, histVars>>
        BY <1>3 DEF TaskSelect
    <2> QED BY <2>1, SameTables
<1> QED BY <1>2, <1>3

\* An operation that joins another on the same document disturbs it.
LEMMA RedeliverInv ==
    ASSUME DocsInv, NEW p \in Workers, NEW m \in Messages, NEW d, d = m.doc, Redeliver(p, m)
    PROVE  DocsInv'
<1>1. d \in Docs /\ d # NoDoc /\ p \in Procs /\ count[d] \in 0 .. MaxChunks
    BY ActorsAssumption DEF Messages, Procs, DocsInv, DocsTypeOK
<1>2. doc[p] = NoDoc /\ held[p] \subseteq Vectors /\ \A v \in held[p] : v.doc = doc[p]
    BY <1>1 DEF Redeliver, DocsInv, DocsTypeOK, ProcFits
<1>3. held[p] = {}
    BY <1>2, ActorsAssumption DEF Vectors
<1>4. UNCHANGED <<docVars, vectors, uploads, held>> /\ disturbed' = disturbed \cup {d}
    BY DEF Redeliver
<1>5. /\ at' \in [Procs -> Steps] /\ at'[p] \in {"find", "embed"}
      /\ \A q \in Procs \ {p} : at'[q] = at[q]
    <2>1. PurgeOr(count[d], "embed") \in {"find", "embed"} /\ {"find", "embed"} \subseteq Steps
        BY DEF PurgeOr, Steps
    <2> QED BY <1>1, <2>1, ProceedEffect DEF Redeliver, DocsInv
<1>6. /\ doc' \in [Procs -> Docs \cup {NoDoc}] /\ seen' \in [Procs -> 0 .. MaxChunks]
      /\ doc'[p] = d /\ \A q \in Procs \ {p} : doc'[q] = doc[q] /\ seen'[q] = seen[q]
    BY <1>1 DEF Redeliver, DocsInv, DocsTypeOK
<1>7. DocsTypeOK' /\ uploads'[d] >= uploads[d]
    BY <1>1, <1>4, <1>5, <1>6 DEF DocsInv, DocsTypeOK, docVars
<1>8. ProcFits(p)' /\ Others(p)
    BY <1>1, <1>3, <1>4, <1>5, <1>6 DEF ProcFits, Others
<1>9. OtherDocs(d)
    BY <1>1, <1>4, StoreStays
<1> QED BY <1>1, <1>2, <1>4, <1>6, <1>7, <1>8, <1>9, StepOfOne

\* A fault that breaks the bookkeeping takes its document out of the account.
LEMMA EndsDisturbed ==
    ASSUME DocsInv, NEW p \in Procs, NEW d, d = doc[p], at[p] # "idle", NEW kind,
           Fault(kind, p, TRUE), Finish(p), UNCHANGED <<docVars, vectors, uploads>>
    PROVE  DocsInv'
<1>1. /\ d \in Docs /\ d # NoDoc
      /\ d \notin disturbed => Underway(p, d) /\ \A q \in Procs \ {p} : doc[q] # d
    BY WorksOnOne, ActorsAssumption DEF Fault
<1>2. /\ at' \in [Procs -> Steps] /\ doc' \in [Procs -> Docs \cup {NoDoc}]
      /\ seen' \in [Procs -> 0 .. MaxChunks] /\ held' \in [Procs -> SUBSET Vectors]
      /\ doc'[p] = NoDoc /\ Others(p) /\ ProcFits(p)'
    BY FinishEffect DEF DocsInv
<1>3. /\ disturbed' \in SUBSET Docs /\ disturbed' \in {disturbed, disturbed \cup {d}}
      /\ d \in disturbed'
    BY <1>1, FaultEffect DEF DocsInv
<1>4. DocsTypeOK' /\ uploads'[d] >= uploads[d]
    BY <1>1, <1>2, <1>3 DEF DocsInv, DocsTypeOK, docVars
<1>5. OtherDocs(d)
    BY <1>1, <1>3, StoreStays
<1> QED BY <1>1, <1>2, <1>3, <1>4, <1>5, StepOfOne

LEMMA DbFailsInv ==
    ASSUME DocsInv, NEW p \in Procs, NEW d, d = doc[p], DbFails(p)
    PROVE  DocsInv'
BY EndsDisturbed DEF DbFails, Settle

LEMMA CrashInv ==
    ASSUME DocsInv, NEW p \in Procs, NEW d, d = doc[p], Crash(p)
    PROVE  DocsInv'
BY EndsDisturbed DEF Crash

LEMMA PurgeFailsInv ==
    ASSUME DocsInv, NEW p \in Procs, NEW d, d = doc[p], PurgeFails(p)
    PROVE  DocsInv'
<1>1. /\ d \in Docs /\ d # NoDoc
      /\ d \notin disturbed => Underway(p, d) /\ \A q \in Procs \ {p} : doc[q] # d
    BY WorksOnOne, ActorsAssumption DEF PurgeFails
<1>2. PICK s \in SUBSET held[p] : vectors' = vectors \ s
    BY DEF PurgeFails
<1>3. \A v \in held[p] : v.doc = d
    BY DEF DocsInv, ProcFits
<1>4. /\ held' \in [Procs -> SUBSET Vectors] /\ held'[p] = {}
      /\ \A q \in Procs \ {p} : held'[q] = held[q]
    BY DEF PurgeFails, DocsInv, DocsTypeOK
<1>5. /\ at' \in [Procs -> Steps] /\ at'[p] = AfterPurge(p)
      /\ \A q \in Procs \ {p} : at'[q] = at[q]
    <2>1. AfterPurge(p) \in Steps
        BY DEF AfterPurge, Steps
    <2> QED BY <2>1, ProceedEffect DEF PurgeFails, DocsInv
<1>6. /\ disturbed' \in SUBSET Docs /\ disturbed' \in {disturbed, disturbed \cup {d}}
      /\ d \in disturbed'
    BY <1>1, FaultEffect DEF PurgeFails, DocsInv
<1>7. UNCHANGED <<docVars, uploads, doc, seen>>
    BY DEF PurgeFails
<1>8. Others(p) /\ doc'[p] = d
    BY <1>4, <1>5, <1>7 DEF Others
<1>9. DocsTypeOK' /\ uploads'[d] >= uploads[d]
    BY <1>1, <1>2, <1>4, <1>5, <1>6, <1>7 DEF DocsInv, DocsTypeOK, docVars
<1>10. ProcFits(p)'
    BY <1>1, <1>4, <1>5, <1>8 DEF ProcFits, AfterPurge, Procs
<1>11. OtherDocs(d)
    BY <1>1, <1>2, <1>3, <1>6, <1>7, UntouchedRowsStay
<1> QED BY <1>1, <1>6, <1>7, <1>8, <1>9, <1>10, <1>11, StepOfOne

\* An ingestion that raised has left nothing in the store, unless its
\* document was disturbed by it.
LEMMA RaisedInv ==
    ASSUME DocsInv, NEW p \in Procs, NEW d, d = doc[p], at[p] # "idle",
           NEW permanent, Raised(p, permanent), NEW kind, NEW harm, Fault(kind, p, harm),
           UNCHANGED <<docVars, vectors, uploads>>,
           d \notin disturbed' => VectorsOf(d) = {} /\ seen[p] = 0 /\ chunks[d] # 0
    PROVE  DocsInv'
<1>1. /\ d \in Docs /\ d # NoDoc
      /\ d \notin disturbed => Underway(p, d) /\ \A q \in Procs \ {p} : doc[q] # d
    BY WorksOnOne, ActorsAssumption DEF Fault
<1>2. disturbed' \in SUBSET Docs /\ disturbed' \in {disturbed, disturbed \cup {d}}
    BY <1>1, FaultEffect DEF DocsInv
<1>3. OtherDocs(d) /\ VectorsOf(d)' = VectorsOf(d)
    BY <1>1, <1>2, StoreStays
<1>4. /\ row'[d] = row[d] /\ count'[d] = count[d] /\ chunks'[d] = chunks[d] /\ small' = small
      /\ uploads'[d] >= uploads[d]
    BY <1>1 DEF docVars, DocsInv, DocsTypeOK
<1>5. CASE p \in Handlers
    <2>1. Proceed(p, "cleanup") /\ held' = [held EXCEPT ![p] = {}] /\ UNCHANGED <<doc, seen>>
        BY <1>5 DEF Raised
    <2>2. /\ at' \in [Procs -> Steps] /\ at'[p] = "cleanup"
          /\ \A q \in Procs \ {p} : at'[q] = at[q]
        BY <2>1, ProceedEffect DEF DocsInv, Steps
    <2>3. /\ held' \in [Procs -> SUBSET Vectors] /\ held'[p] = {}
          /\ \A q \in Procs \ {p} : held'[q] = held[q]
        BY <2>1 DEF DocsInv, DocsTypeOK
    <2>4. Others(p) /\ doc'[p] = d
        BY <2>1, <2>2, <2>3 DEF Others
    <2>5. DocsTypeOK' /\ ProcFits(p)'
        BY <1>1, <1>2, <1>5, <2>1, <2>2, <2>3 DEF DocsInv, DocsTypeOK, ProcFits, docVars
    <2>6. ASSUME d \notin disturbed' PROVE Underway(p, d)'
        <3>1. Underway(p, d) /\ VectorsOf(d)' = {} /\ p \notin Workers
            BY <1>1, <1>2, <1>3, <1>5, <2>6, ActorsAssumption
        <3> QED BY <1>4, <2>1, <2>2, <3>1 DEF Underway
    <2> QED BY <1>1, <1>2, <1>3, <1>4, <2>4, <2>5, <2>6, StepOfOne
<1>6. CASE p \notin Handlers
    <2>1. Finish(p) /\ p \in Workers
        BY <1>6 DEF Raised, Procs
    <2>2. /\ at' \in [Procs -> Steps] /\ doc' \in [Procs -> Docs \cup {NoDoc}]
          /\ seen' \in [Procs -> 0 .. MaxChunks] /\ held' \in [Procs -> SUBSET Vectors]
          /\ doc'[p] = NoDoc /\ Others(p) /\ ProcFits(p)'
        BY <2>1, FinishEffect DEF DocsInv
    <2>3. DocsTypeOK'
        BY <1>2, <2>2 DEF DocsInv, DocsTypeOK, docVars
    <2>4. ASSUME d \notin disturbed' PROVE AtRest(d)'
        <3>1. /\ row[d] = "stored" /\ count[d] = 0 /\ d \notin small /\ VectorsOf(d)' = {}
            BY <1>1, <1>2, <1>3, <2>1, <2>4 DEF Underway
        <3>2. Upload(d, count[d], 0)' = {}
            BY <1>4, <3>1 DEF Upload
        <3>3. Whole(d, count[d])'
            BY <3>1, <3>2 DEF Whole, Upload
        <3> QED BY <1>4, <3>1, <3>3 DEF AtRest
    <2> QED BY <1>1, <1>2, <1>3, <1>4, <2>2, <2>3, <2>4, StepOfOne
<1> QED BY <1>5, <1>6

LEMMA EmbedFailsInv ==
    ASSUME DocsInv, NEW p \in Procs, NEW d, d = doc[p], EmbedFails(p)
    PROVE  DocsInv'
<1>1. /\ d \in Docs /\ d # NoDoc
      /\ d \notin disturbed => Underway(p, d) /\ \A q \in Procs \ {p} : doc[q] # d
    BY WorksOnOne, ActorsAssumption DEF EmbedFails
<1>2. ASSUME d \notin disturbed' PROVE VectorsOf(d) = {} /\ seen[p] = 0 /\ chunks[d] # 0
    <2>1. d \notin disturbed /\ ~(seen[p] > 0) /\ chunks[d] > 0
        BY <1>1, <1>2, FaultEffect DEF EmbedFails, DocsInv
    <2>2. seen[p] \in Nat /\ chunks[d] \in Nat
        BY <1>1 DEF DocsInv, DocsTypeOK
    <2> QED BY <1>1, <2>1, <2>2 DEF EmbedFails, Underway
<1> QED BY <1>2, RaisedInv DEF EmbedFails

LEMMA PutFailsInv ==
    ASSUME DocsInv, NEW p \in Procs, NEW d, d = doc[p], NEW kind, PutFails(p, kind)
    PROVE  DocsInv'
<1>1. /\ d \in Docs /\ d # NoDoc
      /\ d \notin disturbed => Underway(p, d) /\ \A q \in Procs \ {p} : doc[q] # d
    BY WorksOnOne, ActorsAssumption DEF PutFails
<1>2. ASSUME d \notin disturbed' PROVE VectorsOf(d) = {} /\ seen[p] = 0 /\ chunks[d] # 0
    <2> DEFINE U == Upload(d, chunks[d], uploads[d])
    <2>1. d \notin disturbed /\ ~(seen[p] > 0) /\ ~(Cardinality(held[p]) < chunks[d])
        BY <1>1, <1>2, FaultEffect DEF PutFails, DocsInv
    <2>2. seen[p] \in Nat /\ chunks[d] \in Nat
        BY <1>1 DEF DocsInv, DocsTypeOK
    <2>3. held[p] \in SUBSET U /\ held[p] # {} /\ VectorsOf(d) = U \ held[p]
        BY <1>1, <2>1 DEF PutFails, Underway
    <2>4. IsFiniteSet(U) /\ Cardinality(U) = chunks[d]
        BY <2>2, UploadSize
    <2> HIDE DEF U
    <2>5. /\ IsFiniteSet(held[p]) /\ Cardinality(held[p]) <= chunks[d]
          /\ Cardinality(held[p]) = chunks[d] => held[p] = U
        BY <2>3, <2>4, FS_Subset
    <2>6. Cardinality(held[p]) \in Nat
        BY <2>5, FS_CardinalityType
    <2>7. held[p] = U /\ chunks[d] # 0
        BY <2>1, <2>2, <2>3, <2>5, <2>6, FS_EmptySet
    <2> QED BY <2>1, <2>2, <2>3, <2>7
<1> QED BY <1>2, RaisedInv DEF PutFails

-----------------------------------------------------------------------------
(* The theorems.                                                           *)

LEMMA DocsStart == ASSUME DocsInit PROVE DocsInv
<1>1. /\ 0 \in 0 .. MaxChunks /\ \A d \in Docs : NoDoc # d
    BY SizesAssumption, ActorsAssumption
<1>2. DocsTypeOK /\ \A p \in Procs : ProcFits(p)
    BY <1>1 DEF DocsInit, DocsTypeOK, ProcFits, Steps
<1>3. ASSUME NEW d \in Docs PROVE DocFits(d)
    <2>1. ~Busy(d) /\ \A p \in Procs : doc[p] # d
        BY <1>1 DEF DocsInit, Busy
    <2>2. VectorsOf(d) = {} /\ count[d] = 0 /\ d \notin small
        BY DEF DocsInit, VectorsOf
    <2>3. Upload(d, 0, 0) = {}
        BY DEF Upload
    <2>4. AtRest(d)
        BY <2>2, <2>3 DEF AtRest, Whole
    <2> QED BY <2>1, <2>4 DEF DocFits
<1> QED BY <1>2, <1>3 DEF DocsInv

LEMMA DocsStep == ASSUME DocsInv, [DocsNext]_docsState PROVE DocsInv'
<1>1. ASSUME NEW r \in Handlers, Request(r) PROVE DocsInv'
    BY <1>1, CreateRowInv, DeleteSelectInv DEF Request
<1>2. ASSUME NEW w \in Workers, NEW m \in Messages, TaskSelect(w, m) PROVE DocsInv'
    BY <1>2, TaskSelectInv
<1>3. ASSUME NEW w \in Workers, NEW m \in Messages, Redeliver(w, m) PROVE DocsInv'
    BY <1>3, RedeliverInv
<1>4. ASSUME NEW p \in Procs, Continue(p) PROVE DocsInv'
    <2> DEFINE Here(d) == d = doc[p]
    <2>1. PICK d : Here(d)
        OBVIOUS
    <2>2. CASE Embed(p)
        BY <2>1, <2>2, EmbedInv
    <2>3. CASE Put(p)
        BY <2>1, <2>3, PutInv
    <2>4. CASE Save(p)
        BY <2>1, <2>4, SaveInv
    <2>5. CASE Find(p)
        BY <2>1, <2>5, FindInv
    <2>6. CASE Drop(p)
        BY <2>1, <2>6, DropInv
    <2>7. CASE Kick(p)
        BY <2>1, <2>7, KickInv
    <2>8. CASE Cleanup(p)
        BY <2>1, <2>8, RemovesRow DEF Cleanup
    <2>9. CASE Erase(p)
        BY <2>1, <2>9, RemovesRow DEF Erase
    <2> QED BY <1>4, <2>2, <2>3, <2>4, <2>5, <2>6, <2>7, <2>8, <2>9 DEF Continue
<1>5. ASSUME NEW p \in Procs, Failure(p) PROVE DocsInv'
    <2> DEFINE Here(d) == d = doc[p]
    <2>1. PICK d : Here(d)
        OBVIOUS
    <2>2. CASE EmbedFails(p)
        BY <2>1, <2>2, EmbedFailsInv
    <2>3. CASE PurgeFails(p)
        BY <2>1, <2>3, PurgeFailsInv
    <2>4. CASE DbFails(p)
        BY <2>1, <2>4, DbFailsInv
    <2>5. CASE Crash(p)
        BY <2>1, <2>5, CrashInv
    <2>6. CASE \E kind \in {"put", "link"} : PutFails(p, kind)
        BY <2>1, <2>6, PutFailsInv
    <2> QED BY <1>5, <2>2, <2>3, <2>4, <2>5, <2>6 DEF Failure
<1>6. CASE UNCHANGED docsState
    BY <1>6, SameTables DEF docsState
<1> QED BY <1>1, <1>2, <1>3, <1>4, <1>5, <1>6 DEF DocsNext

\* The rows, the vectors and what the requests and workers hold keep to
\* their types.
THEOREM DocsTypes == DocsSpec => []DocsTypeOK
<1>1. DocsInv => DocsTypeOK
    BY DEF DocsInv
<1> QED BY <1>1, DocsStart, DocsStep, PTL DEF DocsSpec

\* Whatever the requests, tasks and faults do to other documents: a document
\* that no fault and no overlap has hit has chunk_count vectors between
\* operations, each chunk once, and none when its row is gone; a small one is
\* there whole or not at all.
THEOREM StoresAgreeHolds == DocsSpec => []StoresAgree
<1>1. ASSUME DocsInv PROVE StoresAgree
    <2>1. ASSUME NEW d \in Docs, d \notin disturbed, ~Busy(d)
          PROVE  /\ Cardinality(VectorsOf(d)) = count[d]
                 /\ {v.index : v \in VectorsOf(d)} = 1 .. count[d]
                 /\ d \in small /\ row[d] = "stored" => count[d] = chunks[d]
        <3>1. AtRest(d) /\ count[d] \in Nat
            BY <1>1, <2>1 DEF DocsInv, DocFits, DocsTypeOK
        <3>2. PICK u \in Nat : VectorsOf(d) = Upload(d, count[d], u)
            BY <3>1 DEF AtRest, Whole
        <3>3. /\ Cardinality(Upload(d, count[d], u)) = count[d]
              /\ {v.index : v \in Upload(d, count[d], u)} = 1 .. count[d]
            BY <3>1, UploadSize
        <3> QED BY <3>1, <3>2, <3>3 DEF AtRest
    <2> QED BY <2>1 DEF StoresAgree
<1> QED BY <1>1, DocsStart, DocsStep, PTL DEF DocsSpec

-----------------------------------------------------------------------------
(***************************************************************************)
(* The cloud stores and their migrators.                                   *)
(***************************************************************************)

-----------------------------------------------------------------------------
(* The inductive invariant.                                                *)

CallFields == {"pc", "op", "keys", "todo", "chunk", "pending", "attempt", "landed", "results",
               "answer", "left", "query", "cursor"}
IsCall(r) ==
    /\ DOMAIN r = CallFields
    /\ r.pc \in {"idle", "batch", "query", "done"}
    /\ r.pc = "batch" => r.op \in {"batch_put", "batch_get"}
    /\ r.pc = "query" => r.op = "query"
    /\ r.todo \in Seq(Places) /\ r.results \in Seq(Places)
    /\ r.keys \subseteq Places /\ r.chunk \subseteq Places /\ r.landed \subseteq Places
    /\ r.pending \subseteq r.chunk
    /\ r.cursor \in Places \union {Absent}

\* Of a batch every key is done with, waits for the service, or for its chunk.
Split(r, done) ==
    /\ IsInjective(r.todo) /\ r.chunk \intersect ToSet(r.todo) = {}
    /\ done \intersect (r.pending \union ToSet(r.todo)) = {}
    /\ r.chunk \ done = r.pending

PutFits(r) ==
    /\ r.pc = "batch" => /\ Split(r, r.landed)
                         /\ r.keys = r.landed \union r.pending \union ToSet(r.todo)
    /\ r.pc = "done" =>
          /\ r.answer = 200 => r.keys = r.landed
          /\ r.answer = 503 => /\ r.left = Cardinality(r.chunk \ r.landed) /\ r.left > 0
                               /\ ToSet(r.todo) \intersect r.landed = {}

\* What stayed and was asked for has been read or is still to be read.
GetFits(r, stayed) ==
    /\ IsInjective(r.results)
    /\ r.pc = "batch" =>
          /\ IsInjective(r.todo) /\ r.chunk \intersect ToSet(r.todo) = {}
          /\ ToSet(r.results) \intersect (r.pending \union ToSet(r.todo)) = {}
          /\ stayed \intersect r.keys \subseteq ToSet(r.results) \union r.pending \union ToSet(r.todo)
    /\ r.pc = "done" /\ r.answer = 200 => stayed \intersect r.keys \subseteq ToSet(r.results)

\* A walk has read what lies before its cursor.
WalkFits(r, stayed) ==
    /\ IsInjective(r.results)
    /\ r.pc = "query" =>
          /\ \A k \in ToSet(r.results) : r.cursor # Absent /\ ~Beyond(r.query, r.cursor, k)
          /\ \A k \in stayed : k \in Selected(r.query) /\ Passes(r.query, k) =>
                k \in ToSet(r.results) \/ Beyond(r.query, r.cursor, k)
    /\ r.pc = "done" /\ r.answer = 200 =>
          \A k \in stayed : k \in Selected(r.query) /\ Passes(r.query, k) => k \in ToSet(r.results)

CallFits(c) ==
    /\ IsCall(calls[c]) /\ steady[c] \subseteq Stored
    /\ calls[c].op = "batch_put" => PutFits(calls[c])
    /\ calls[c].op = "batch_get" => GetFits(calls[c], steady[c])
    /\ calls[c].op = "query" => WalkFits(calls[c], steady[c])

RepoInv == /\ DOMAIN items = Places /\ DOMAIN calls = Callers /\ DOMAIN steady = Callers
           /\ \A c \in Callers : CallFits(c)

-----------------------------------------------------------------------------
(* Sequences without repetitions.                                          *)

LEMMA SetListed ==
    ASSUME NEW S, IsFiniteSet(S)
    PROVE  SetToSeq(S) \in Seq(S) /\ IsInjective(SetToSeq(S)) /\ ToSet(SetToSeq(S)) = S
<1>1. Cardinality(S) \in Nat /\ ExistsBijection(1 .. Cardinality(S), S)
    BY FS_CardinalityType
<1>2. PICK g \in [1 .. Cardinality(S) -> S] : IsInjective(g)
    BY <1>1 DEF ExistsBijection, Bijection, Injection
<1> DEFINE s == SetToSeq(S)
<1>3. s \in [1 .. Cardinality(S) -> S] /\ IsInjective(s)
    BY <1>2 DEF SetToSeq
<1>4. s \in Injection(1 .. Cardinality(S), S)
    BY <1>3 DEF Injection
<1>5. IsFiniteSet(1 .. Cardinality(S)) /\ Cardinality(1 .. Cardinality(S)) = Cardinality(S)
    BY <1>1, FS_Interval
<1>6. s \in Surjection(1 .. Cardinality(S), S)
    BY <1>4, <1>5, FS_Injection
<1>7. ToSet(s) = S
    BY <1>3, <1>6 DEF ToSet, Surjection
<1> QED
    BY <1>1, <1>3, <1>7

LEMMA SeqsJoined ==
    ASSUME NEW V, NEW s \in Seq(V), NEW t \in Seq(V), IsInjective(s), IsInjective(t),
           ToSet(s) \intersect ToSet(t) = {}
    PROVE  s \o t \in Seq(V) /\ IsInjective(s \o t) /\ ToSet(s \o t) = ToSet(s) \union ToSet(t)
<1>1. /\ s \o t \in Seq(V) /\ Len(s \o t) = Len(s) + Len(t)
      /\ \A i \in 1 .. Len(s) + Len(t) :
            (s \o t)[i] = IF i <= Len(s) THEN s[i] ELSE t[i - Len(s)]
    BY ConcatProperties
<1>2. DOMAIN s = 1 .. Len(s) /\ DOMAIN t = 1 .. Len(t) /\ DOMAIN (s \o t) = 1 .. Len(s) + Len(t)
    BY <1>1
<1>3. \A i \in DOMAIN (s \o t) : \/ i \in DOMAIN s /\ (s \o t)[i] = s[i]
                                 \/ i - Len(s) \in DOMAIN t /\ (s \o t)[i] = t[i - Len(s)]
    BY <1>1, <1>2
<1>4. \A i \in DOMAIN s : i \in DOMAIN (s \o t) /\ (s \o t)[i] = s[i]
    BY <1>1, <1>2
<1>5. \A i \in DOMAIN t : i + Len(s) \in DOMAIN (s \o t) /\ (s \o t)[i + Len(s)] = t[i]
    BY <1>1, <1>2
<1>6. ToSet(s \o t) = ToSet(s) \union ToSet(t)
    <2>1. ASSUME NEW x \in ToSet(s \o t)  PROVE x \in ToSet(s) \union ToSet(t)
        <3>1. PICK i \in DOMAIN (s \o t) : x = (s \o t)[i]
            BY <2>1 DEF ToSet
        <3> QED
            BY <1>3, <3>1, Zenon DEF ToSet
    <2>2. ASSUME NEW x \in ToSet(s)  PROVE x \in ToSet(s \o t)
        BY <1>4, <2>2, Zenon DEF ToSet
    <2>3. ASSUME NEW x \in ToSet(t)  PROVE x \in ToSet(s \o t)
        BY <1>5, <2>3, Zenon DEF ToSet
    <2> QED
        BY <2>1, <2>2, <2>3
<1>7. ASSUME NEW i \in DOMAIN (s \o t), NEW j \in DOMAIN (s \o t), (s \o t)[i] = (s \o t)[j]
      PROVE  i = j
    <2>1. \A k \in DOMAIN s, l \in DOMAIN t : s[k] # t[l]
        BY DEF ToSet
    <2>2. CASE i \in DOMAIN s /\ (s \o t)[i] = s[i] /\ j \in DOMAIN s /\ (s \o t)[j] = s[j]
        BY <1>7, <2>2 DEF IsInjective
    <2>3. CASE /\ i - Len(s) \in DOMAIN t /\ (s \o t)[i] = t[i - Len(s)]
               /\ j - Len(s) \in DOMAIN t /\ (s \o t)[j] = t[j - Len(s)]
        <3>1. i - Len(s) = j - Len(s)
            BY <1>7, <2>3 DEF IsInjective
        <3> QED
            BY <3>1, <1>2
    <2> QED
        BY <1>3, <1>7, <2>1, <2>2, <2>3
<1> QED
    BY <1>1, <1>6, <1>7 DEF IsInjective

\* The next chunk and the rest are two parts of what was to do.
LEMMA ChunkCut ==
    ASSUME NEW s \in Seq(Places), IsInjective(s)
    PROVE  /\ Rest(s) \in Seq(Places) /\ IsInjective(Rest(s)) /\ Chunk(s) \subseteq Places
           /\ Chunk(s) \intersect ToSet(Rest(s)) = {}
           /\ Chunk(s) \union ToSet(Rest(s)) = ToSet(s)
<1> DEFINE n == IF Len(s) < ChunkSize THEN Len(s) ELSE ChunkSize
           head == SubSeq(s, 1, n)
           tail == SubSeq(s, ChunkSize + 1, Len(s))
<1>1. ChunkSize \in Nat /\ ChunkSize > 0 /\ Len(s) \in Nat /\ n \in 0 .. Len(s)
    BY ChunkAssumption
<1>2. \A i \in 1 .. Len(s) : s[i] \in Places
    OBVIOUS
<1>3. head = [i \in 1 .. n |-> s[i]]
    BY <1>1 DEF head
<1>4. tail = [i \in 1 .. Len(s) - ChunkSize |-> s[ChunkSize + i]]
    BY <1>1
<1>5. tail \in Seq(Places)
    BY <1>1, SubSeqProperties
<1> HIDE DEF n, head, tail
<1>6. DOMAIN head = 1 .. n /\ DOMAIN tail = 1 .. Len(s) - ChunkSize /\ DOMAIN s = 1 .. Len(s)
    <2>1. DOMAIN head = 1 .. n
        BY <1>3
    <2>2. DOMAIN tail = 1 .. Len(s) - ChunkSize
        BY <1>4
    <2> QED
        BY <2>1, <2>2
<1>7. \A i \in DOMAIN head : i \in DOMAIN s /\ head[i] = s[i]
    BY <1>1, <1>3, <1>6
<1>8. \A i \in DOMAIN tail : ChunkSize + i \in DOMAIN s /\ tail[i] = s[ChunkSize + i]
    BY <1>1, <1>4, <1>6
<1>9. IsInjective(tail)
    <2> SUFFICES ASSUME NEW i \in DOMAIN tail, NEW j \in DOMAIN tail, tail[i] = tail[j]
                 PROVE  i = j
        BY DEF IsInjective
    <2>1. ChunkSize + i = ChunkSize + j
        BY <1>8 DEF IsInjective
    <2> QED
        BY <2>1, <1>1, <1>6
<1>10. ToSet(head) \intersect ToSet(tail) = {}
    <2> SUFFICES ASSUME NEW i \in DOMAIN head, NEW j \in DOMAIN tail, head[i] = tail[j]
                 PROVE  FALSE
        BY DEF ToSet
    <2>1. i = ChunkSize + j
        BY <1>7, <1>8 DEF IsInjective
    <2> QED
        BY <2>1, <1>1, <1>6 DEF n
<1>11. \A i \in DOMAIN s : i \in DOMAIN head \/ \E j \in DOMAIN tail : i = ChunkSize + j
    <2> SUFFICES ASSUME NEW i \in 1 .. Len(s), i \notin 1 .. n
                 PROVE  \E j \in 1 .. Len(s) - ChunkSize : i = ChunkSize + j
        BY <1>6
    <2>1. i - ChunkSize \in 1 .. Len(s) - ChunkSize /\ i = ChunkSize + (i - ChunkSize)
        BY <1>1 DEF n
    <2> QED
        BY <2>1
<1>12. ToSet(head) \union ToSet(tail) = ToSet(s)
    <2>1. ASSUME NEW x \in ToSet(s)  PROVE x \in ToSet(head) \union ToSet(tail)
        <3>1. PICK i \in DOMAIN s : x = s[i]
            BY <2>1 DEF ToSet
        <3> QED
            BY <1>7, <1>8, <1>11, <3>1, Zenon DEF ToSet
    <2>2. ASSUME NEW x \in ToSet(head)  PROVE x \in ToSet(s)
        BY <1>7, <2>2, Zenon DEF ToSet
    <2>3. ASSUME NEW x \in ToSet(tail)  PROVE x \in ToSet(s)
        BY <1>8, <2>3, Zenon DEF ToSet
    <2> QED
        BY <2>1, <2>2, <2>3
<1>13. ToSet(s) \subseteq Places
    BY <1>2, <1>6 DEF ToSet
<1>14. Chunk(s) = ToSet(head) /\ Rest(s) = tail
    BY DEF Chunk, Rest, n, head, tail
<1> QED
    BY <1>5, <1>9, <1>10, <1>12, <1>13, <1>14

-----------------------------------------------------------------------------
(* Calls.                                                                  *)

\* A call that has a chunk, or is done with them.
LEMMA NextChunkFits ==
    ASSUME NEW r, IsCall(r), IsInjective(r.todo), r.op \in {"batch_put", "batch_get"},
           NEW n, n = NextChunk(r)
    PROVE  /\ IsCall(n) /\ n.op = r.op /\ n.keys = r.keys /\ n.landed = r.landed
           /\ n.results = r.results
           /\ n.pc = "done" => ToSet(r.todo) = {} /\ n.answer = 200
           /\ n.pc = "batch" => /\ n.chunk = n.pending /\ IsInjective(n.todo)
                                /\ n.chunk \intersect ToSet(n.todo) = {}
                                /\ n.chunk \union ToSet(n.todo) = ToSet(r.todo)
           /\ n.pc \in {"done", "batch"}
<1>1. CASE r.todo = <<>>
    <2>1. n = [r EXCEPT !.pc = "done", !.answer = 200] /\ ToSet(r.todo) = {}
        BY <1>1 DEF NextChunk, ToSet
    <2> QED
        BY <2>1 DEF IsCall, CallFields
<1>2. CASE r.todo # <<>>
    <2>1. n = [r EXCEPT !.pc = "batch", !.chunk = Chunk(r.todo), !.pending = Chunk(r.todo),
                        !.todo = Rest(r.todo), !.attempt = 1]
        BY <1>2 DEF NextChunk
    <2>2. /\ Rest(r.todo) \in Seq(Places) /\ IsInjective(Rest(r.todo)) /\ Chunk(r.todo) \subseteq Places
          /\ Chunk(r.todo) \intersect ToSet(Rest(r.todo)) = {}
          /\ Chunk(r.todo) \union ToSet(Rest(r.todo)) = ToSet(r.todo)
        BY ChunkCut DEF IsCall
    <2> QED
        BY <2>1, <2>2 DEF IsCall, CallFields
<1> QED
    BY <1>1, <1>2

\* A write of which left has not been accepted, whatever the loop makes of it.
LEMMA AfterPut ==
    ASSUME NEW r, IsCall(r), r.pc = "batch", r.op = "batch_put", IsInjective(r.todo),
           r.chunk \intersect ToSet(r.todo) = {}, r.landed \intersect ToSet(r.todo) = {},
           NEW left, left \subseteq r.chunk, r.chunk \ r.landed = left,
           r.keys = r.landed \union left \union ToSet(r.todo),
           NEW n, n = AfterAttempt(r, left)
    PROVE  IsCall(n) /\ n.op = "batch_put" /\ PutFits(n)
<1>1. DOMAIN r = CallFields /\ r.chunk \subseteq Places
    BY DEF IsCall
<1>2. CASE left = {}
    <2>1. n = NextChunk(r)
        BY <1>2 DEF AfterAttempt
    <2>2. /\ IsCall(n) /\ n.op = "batch_put" /\ n.keys = r.keys /\ n.landed = r.landed
          /\ n.pc = "done" => ToSet(r.todo) = {} /\ n.answer = 200
          /\ n.pc = "batch" => /\ n.chunk = n.pending /\ IsInjective(n.todo)
                               /\ n.chunk \intersect ToSet(n.todo) = {}
                               /\ n.chunk \union ToSet(n.todo) = ToSet(r.todo)
        BY <2>1, NextChunkFits
    <2>3. r.keys = r.landed \union ToSet(r.todo)
        BY <1>2
    <2>4. n.pc = "batch" =>
            /\ Split(n, n.landed)
            /\ n.keys = n.landed \union n.pending \union ToSet(n.todo)
        BY <2>2, <2>3 DEF Split
    <2>5. n.pc = "done" => n.keys = n.landed /\ n.answer # 503
        BY <2>2, <2>3
    <2> QED
        BY <2>2, <2>4, <2>5 DEF PutFits
<1>3. CASE left # {} /\ r.attempt < MaxRetries
    <2>1. n = [r EXCEPT !.pending = left, !.attempt = @ + 1]
        BY <1>3 DEF AfterAttempt
    <2>2. /\ DOMAIN n = CallFields /\ n.pc = "batch" /\ n.op = "batch_put" /\ n.pending = left
          /\ n.keys = r.keys /\ n.todo = r.todo /\ n.chunk = r.chunk /\ n.landed = r.landed
          /\ n.results = r.results /\ n.cursor = r.cursor
        BY <1>1, <2>1 DEF CallFields
    <2>3. IsCall(n)
        BY <2>2 DEF IsCall
    <2>4. Split(n, n.landed)
        BY <2>2 DEF Split
    <2> QED
        BY <2>2, <2>3, <2>4 DEF PutFits
<1>4. CASE left # {} /\ ~(r.attempt < MaxRetries)
    <2>1. n = [r EXCEPT !.pc = "done", !.answer = 503, !.left = Cardinality(left)]
        BY <1>4 DEF AfterAttempt
    <2>2. /\ DOMAIN n = CallFields /\ n.pc = "done" /\ n.op = "batch_put" /\ n.pending = r.pending
          /\ n.keys = r.keys /\ n.todo = r.todo /\ n.chunk = r.chunk /\ n.landed = r.landed
          /\ n.results = r.results /\ n.cursor = r.cursor
          /\ n.answer = 503 /\ n.left = Cardinality(left)
        BY <1>1, <2>1 DEF CallFields
    <2>3. IsCall(n)
        BY <2>2 DEF IsCall
    <2>4. n.chunk \ n.landed = left /\ ToSet(n.todo) \intersect n.landed = {}
        BY <2>2
    <2>5. IsFiniteSet(left)
        BY <1>1, PlacesAssumption, FS_Subset
    <2>6. Cardinality(left) > 0
        BY <1>4, <2>5, FS_EmptySet, FS_CardinalityType
    <2>7. n.left = Cardinality(n.chunk \ n.landed) /\ n.left > 0 /\ n.answer # 200
        BY <2>2, <2>4, <2>6
    <2> QED
        BY <2>2, <2>3, <2>4, <2>7 DEF PutFits
<1> QED
    BY <1>2, <1>3, <1>4

\* The same of a read, of which an attempt has found nothing twice.
LEMMA AfterGet ==
    ASSUME NEW r, IsCall(r), r.pc = "batch", r.op = "batch_get", IsInjective(r.todo),
           r.chunk \intersect ToSet(r.todo) = {}, IsInjective(r.results),
           NEW left, left \subseteq r.chunk,
           ToSet(r.results) \intersect (left \union ToSet(r.todo)) = {},
           NEW stayed, stayed \intersect r.keys \subseteq ToSet(r.results) \union left \union ToSet(r.todo),
           NEW n, n = AfterAttempt(r, left)
    PROVE  IsCall(n) /\ n.op = "batch_get" /\ GetFits(n, stayed)
<1>1. DOMAIN r = CallFields
    BY DEF IsCall
<1>2. CASE left = {}
    <2>1. n = NextChunk(r)
        BY <1>2 DEF AfterAttempt
    <2>2. /\ IsCall(n) /\ n.op = "batch_get" /\ n.keys = r.keys /\ n.results = r.results
          /\ n.pc = "done" => ToSet(r.todo) = {}
          /\ n.pc = "batch" => /\ n.chunk = n.pending /\ IsInjective(n.todo)
                               /\ n.chunk \intersect ToSet(n.todo) = {}
                               /\ n.chunk \union ToSet(n.todo) = ToSet(r.todo)
        BY <2>1, NextChunkFits
    <2> QED
        BY <1>2, <2>2 DEF GetFits
<1>3. CASE left # {} /\ r.attempt < MaxRetries
    <2>1. n = [r EXCEPT !.pending = left, !.attempt = @ + 1]
        BY <1>3 DEF AfterAttempt
    <2>2. /\ DOMAIN n = CallFields /\ n.pc = "batch" /\ n.op = "batch_get" /\ n.pending = left
          /\ n.keys = r.keys /\ n.todo = r.todo /\ n.chunk = r.chunk /\ n.landed = r.landed
          /\ n.results = r.results /\ n.cursor = r.cursor
        BY <1>1, <2>1 DEF CallFields
    <2>3. IsCall(n)
        BY <2>2 DEF IsCall
    <2> QED
        BY <2>2, <2>3 DEF GetFits
<1>4. CASE left # {} /\ ~(r.attempt < MaxRetries)
    <2>1. n = [r EXCEPT !.pc = "done", !.answer = 503, !.left = Cardinality(left)]
        BY <1>4 DEF AfterAttempt
    <2>2. /\ DOMAIN n = CallFields /\ n.pc = "done" /\ n.op = "batch_get" /\ n.pending = r.pending
          /\ n.keys = r.keys /\ n.todo = r.todo /\ n.chunk = r.chunk /\ n.landed = r.landed
          /\ n.results = r.results /\ n.cursor = r.cursor /\ n.answer = 503
        BY <1>1, <2>1 DEF CallFields
    <2>3. IsCall(n)
        BY <2>2 DEF IsCall
    <2> QED
        BY <2>2, <2>3 DEF GetFits
<1> QED
    BY <1>2, <1>3, <1>4

-----------------------------------------------------------------------------
(* The steps.                                                              *)

LEMMA RepoInit == RepositoryInit => RepoInv
<1> SUFFICES ASSUME RepositoryInit  PROVE RepoInv
    OBVIOUS
<1>1. DOMAIN items = Places
    BY ContentsAssumption DEF RepositoryInit
<1>2. ASSUME NEW c \in Callers  PROVE CallFits(c)
    <2>1. calls[c] = NoCall /\ steady[c] = {}
        BY DEF RepositoryInit
    <2>2. IsCall(NoCall) /\ NoCall.op = Absent
        BY EmptySeq DEF IsCall, NoCall, CallFields
    <2>3. PutFits(NoCall) /\ GetFits(NoCall, {}) /\ WalkFits(NoCall, {})
        BY DEF PutFits, GetFits, WalkFits, NoCall, IsInjective
    <2> QED
        BY <2>1, <2>2, <2>3 DEF CallFits
<1> QED
    BY <1>1, <1>2 DEF RepoInv, RepositoryInit

\* A call that does not move loses at most some of what stayed.
LEMMA CallWaits ==
    ASSUME NEW c \in Callers, CallFits(c), calls'[c] = calls[c], steady'[c] \subseteq steady[c],
           \A k \in steady'[c] : items'[k] = items[k]
    PROVE  CallFits(c)'
<1>1. steady'[c] \subseteq Stored'
    BY DEF CallFits, Stored
<1>2. \A q : \A k \in steady'[c] : k \in Selected(q)' /\ Passes(q, k)' => k \in Selected(q) /\ Passes(q, k)
    BY DEF Selected, Passes, Stored, Sorted
<1>3. calls[c].op = "batch_get" => GetFits(calls[c], steady'[c])
    BY DEF CallFits, GetFits
<1>4. calls[c].op = "query" => WalkFits(calls[c], steady[c])'
    <2> SUFFICES ASSUME WalkFits(calls[c], steady[c])  PROVE WalkFits(calls[c], steady[c])'
        BY DEF CallFits
    <2> DEFINE r == calls[c]
    <2>1. IsInjective(r.results) /\ (r.pc = "query" => \A k \in ToSet(r.results) :
                                        r.cursor # Absent /\ ~Beyond(r.query, r.cursor, k))
        BY DEF WalkFits
    <2>2. r.pc = "query" => \A k \in steady'[c] : k \in Selected(r.query)' /\ Passes(r.query, k)' =>
                k \in ToSet(r.results) \/ Beyond(r.query, r.cursor, k)
        BY <1>2 DEF WalkFits
    <2>3. r.pc = "done" /\ r.answer = 200 =>
          \A k \in steady'[c] : k \in Selected(r.query)' /\ Passes(r.query, k)' => k \in ToSet(r.results)
        BY <1>2 DEF WalkFits
    <2> QED
        BY <2>1, <2>2, <2>3 DEF WalkFits
<1> QED
    BY <1>1, <1>3, <1>4 DEF CallFits

\* What stays, stays: a step of one caller leaves the others their due.
Stays(d) == steady'[d] \subseteq steady[d] /\ \A k \in steady'[d] : items'[k] = items[k]

LEMMA CallerMoves ==
    ASSUME RepoInv, NEW c \in Callers, NEW r, Set(c, r), DOMAIN items' = Places,
           DOMAIN steady' = Callers, \A d \in Callers \ {c} : Stays(d),
           calls'[c] = r => CallFits(c)'
    PROVE  RepoInv'
<1>1. DOMAIN calls' = Callers /\ calls'[c] = r /\ \A d \in Callers \ {c} : calls'[d] = calls[d]
    BY DEF Set, RepoInv
<1>2. ASSUME NEW d \in Callers \ {c}  PROVE CallFits(d)'
    BY <1>1, <1>2, CallWaits DEF Stays, RepoInv
<1> QED
    BY <1>1, <1>2 DEF RepoInv

LEMMA WriteStays ==
    ASSUME RepoInv, NEW new, DOMAIN new = Places, Write(new)
    PROVE  /\ items' = new /\ DOMAIN steady' = Callers /\ \A d \in Callers : Stays(d)
           /\ \A d \in Callers : steady'[d] \subseteq Stored'
<1>1. items' = new /\ \A d \in Callers : steady'[d] = {k \in steady[d] : new[k] = items[k]}
    BY DEF Write
<1>2. \A d \in Callers : steady[d] \subseteq Stored
    BY DEF RepoInv, CallFits
<1> QED
    BY <1>1, <1>2 DEF Write, Stays, Stored

LEMMA ReadStays ==
    ASSUME RepoInv, Read
    PROVE  /\ DOMAIN items' = Places /\ DOMAIN steady' = Callers /\ \A d \in Callers : Stays(d)
           /\ \A d \in Callers : steady'[d] = steady[d] /\ steady'[d] \subseteq Stored'
    BY DEF RepoInv, CallFits, Read, Stays, Stored

LEMMA OneKeepsRepo == ASSUME RepoInv, NEW c \in Callers, One(c)  PROVE RepoInv'
<1> DEFINE Plain(r) == IsCall(r) /\ r.op \notin {"batch_put", "batch_get", "query"}
<1>1. ASSUME NEW op \in {"put", "get", "update", "delete"}, NEW a, NEW r,
             r = [[NoCall EXCEPT !.op = op] EXCEPT !.pc = "done", !.answer = a]
      PROVE  Plain(r)
    BY <1>1, EmptySeq DEF IsCall, NoCall, CallFields
<1>2. ASSUME NEW op \in {"put", "get", "update", "delete"}, NEW a,
             Answer(c, [NoCall EXCEPT !.op = op], a),
             DOMAIN items' = Places, DOMAIN steady' = Callers, \A d \in Callers : Stays(d),
             steady'[c] \subseteq Stored'
      PROVE  RepoInv'
    <2> DEFINE r == [[NoCall EXCEPT !.op = op] EXCEPT !.pc = "done", !.answer = a]
    <2>1. Set(c, r)
        BY <1>2 DEF Answer
    <2>2. Plain(r)
        BY <1>1, <1>2
    <2> HIDE DEF r
    <2>3. calls'[c] = r => CallFits(c)'
        BY <1>2, <2>2 DEF CallFits
    <2> QED
        BY <1>2, <2>1, <2>3, CallerMoves
<1>3. CASE table = Absent
    <2>1. Read /\ Answer(c, [NoCall EXCEPT !.op = "put"], ServiceError("error"))
        BY <1>3 DEF One
    <2> QED
        BY <2>1, <1>2, ReadStays
<1>4. CASE table # Absent
    <2>1. PICK k \in Places : \/ \E v \in Values : PutItem(c, k, v) \/ UpdateItem(c, k, v)
                              \/ GetItem(c, k) \/ DeleteItem(c, k)
        BY <1>4 DEF One
    <2> DEFINE Now(v) == [items EXCEPT ![k] = v]
    <2>2. \A v : DOMAIN Now(v) = Places
        BY DEF RepoInv
    <2>3. \A v : Write(Now(v)) => /\ DOMAIN items' = Places /\ DOMAIN steady' = Callers
                                  /\ \A d \in Callers : Stays(d)
                                  /\ \A d \in Callers : steady'[d] \subseteq Stored'
        <3> SUFFICES ASSUME NEW v, Write(Now(v))
                     PROVE  /\ DOMAIN items' = Places /\ DOMAIN steady' = Callers
                            /\ \A d \in Callers : Stays(d)
                            /\ \A d \in Callers : steady'[d] \subseteq Stored'
            OBVIOUS
        <3> DEFINE new == Now(v)
        <3>1. DOMAIN new = Places /\ Write(new)
            BY <2>2
        <3> HIDE DEF new
        <3> QED
            BY <3>1, WriteStays
    <2>4. ASSUME NEW v \in Values, PutItem(c, k, v)  PROVE RepoInv'
        <3>1. Write(Now(Item(v))) /\ Answer(c, [NoCall EXCEPT !.op = "put"], 200)
            BY <2>4 DEF PutItem
        <3> HIDE DEF Now
        <3> QED
            BY <3>1, <2>3, <1>2
    <2>5. ASSUME NEW v \in Values, UpdateItem(c, k, v)  PROVE RepoInv'
        <3>1. /\ Write(Now([v |-> v, g |-> IF items[k] = Absent THEN Absent ELSE items[k].g]))
              /\ Answer(c, [NoCall EXCEPT !.op = "update"], 200)
            BY <2>5 DEF UpdateItem
        <3> HIDE DEF Now
        <3> QED
            BY <3>1, <2>3, <1>2
    <2>6. ASSUME GetItem(c, k)  PROVE RepoInv'
        <3>1. Read /\ \E a : Answer(c, [NoCall EXCEPT !.op = "get"], a)
            BY <2>6 DEF GetItem
        <3> QED
            BY <3>1, <1>2, ReadStays
    <2>7. ASSUME DeleteItem(c, k)  PROVE RepoInv'
        <3>1. Write(Now(Absent)) /\ Answer(c, [NoCall EXCEPT !.op = "delete"], 200)
            BY <2>7 DEF DeleteItem
        <3> HIDE DEF Now
        <3> QED
            BY <3>1, <2>3, <1>2
    <2> QED
        BY <2>1, <2>4, <2>5, <2>6, <2>7
<1> QED
    BY <1>3, <1>4

LEMMA BatchWriteKeepsRepo == ASSUME RepoInv, NEW c \in Callers, BatchWrite(c)  PROVE RepoInv'
<1>1. PICK r : r = calls[c]
    OBVIOUS
<1>2. PICK left \in SUBSET r.pending :
          /\ Write([k \in Places |-> IF k \in r.pending \ left THEN Item("a") ELSE items[k]])
          /\ Set(c, AfterAttempt([r EXCEPT !.landed = @ \union (r.pending \ left)], left))
    BY <1>1 DEF BatchWrite
<1>3. r.pc = "batch" /\ r.op = "batch_put" /\ IsCall(r) /\ PutFits(r)
    BY <1>1 DEF BatchWrite, RepoInv, CallFits
<1>4. /\ IsInjective(r.todo) /\ r.chunk \intersect ToSet(r.todo) = {}
      /\ r.landed \intersect (r.pending \union ToSet(r.todo)) = {}
      /\ r.chunk \ r.landed = r.pending
      /\ r.keys = r.landed \union r.pending \union ToSet(r.todo)
    BY <1>3 DEF PutFits, Split
<1>5. r.pending \subseteq r.chunk /\ r.chunk \subseteq Places /\ DOMAIN r = CallFields
    BY <1>3 DEF IsCall
<1>6. PICK s : s = [r EXCEPT !.landed = @ \union (r.pending \ left)]
    OBVIOUS
<1>7. /\ DOMAIN s = CallFields /\ s.pc = "batch" /\ s.op = "batch_put" /\ s.keys = r.keys
      /\ s.todo = r.todo /\ s.chunk = r.chunk /\ s.pending = r.pending /\ s.results = r.results
      /\ s.cursor = r.cursor /\ s.landed = r.landed \union (r.pending \ left)
    BY <1>3, <1>5, <1>6 DEF CallFields
<1>8. IsCall(s)
    BY <1>3, <1>5, <1>7 DEF IsCall
<1>9. PICK n : n = AfterAttempt(s, left)
    OBVIOUS
<1>10. /\ IsInjective(s.todo) /\ s.chunk \intersect ToSet(s.todo) = {}
       /\ s.landed \intersect ToSet(s.todo) = {} /\ left \subseteq s.chunk /\ s.chunk \ s.landed = left
       /\ s.keys = s.landed \union left \union ToSet(s.todo)
    BY <1>4, <1>5, <1>7
<1>11. IsCall(n) /\ n.op = "batch_put" /\ PutFits(n)
    BY <1>7, <1>8, <1>9, <1>10, AfterPut
<1>12. PICK new : new = [k \in Places |-> IF k \in r.pending \ left THEN Item("a") ELSE items[k]]
    OBVIOUS
<1>13. DOMAIN new = Places
    BY <1>12
<1>14. /\ items' = new /\ DOMAIN steady' = Callers /\ \A d \in Callers : Stays(d)
       /\ \A d \in Callers : steady'[d] \subseteq Stored'
    BY <1>2, <1>12, <1>13, WriteStays
<1>15. calls'[c] = n => CallFits(c)'
    BY <1>11, <1>14 DEF CallFits
<1>16. Set(c, n)
    BY <1>2, <1>6, <1>9
<1> QED
    BY <1>13, <1>14, <1>15, <1>16, CallerMoves

LEMMA BatchGetKeepsRepo == ASSUME RepoInv, NEW c \in Callers, BatchGet(c)  PROVE RepoInv'
<1>1. PICK r : r = calls[c]
    OBVIOUS
<1>2. PICK left \in SUBSET r.pending :
          Set(c, AfterAttempt([r EXCEPT !.results = @ \o SetToSeq((r.pending \ left) \intersect Stored)], left))
    BY <1>1 DEF BatchGet
<1>3. /\ r.pc = "batch" /\ r.op = "batch_get" /\ IsCall(r) /\ GetFits(r, steady[c])
      /\ steady[c] \subseteq Stored
    BY <1>1 DEF BatchGet, RepoInv, CallFits
<1>4. /\ IsInjective(r.todo) /\ r.chunk \intersect ToSet(r.todo) = {} /\ IsInjective(r.results)
      /\ ToSet(r.results) \intersect (r.pending \union ToSet(r.todo)) = {}
      /\ steady[c] \intersect r.keys \subseteq ToSet(r.results) \union r.pending \union ToSet(r.todo)
    BY <1>3 DEF GetFits
<1>5. /\ r.pending \subseteq r.chunk /\ r.chunk \subseteq Places /\ DOMAIN r = CallFields
      /\ r.results \in Seq(Places)
    BY <1>3 DEF IsCall
<1>6. PICK found : found = (r.pending \ left) \intersect Stored
    OBVIOUS
<1>7. found \subseteq Places /\ IsFiniteSet(found)
    BY <1>5, <1>6, PlacesAssumption, FS_Subset
<1>8. PICK t : t = SetToSeq(found)
    OBVIOUS
<1>9. t \in Seq(Places) /\ IsInjective(t) /\ ToSet(t) = found
    BY <1>7, <1>8, SetListed, SeqMonotonic
<1>10. ToSet(r.results) \intersect ToSet(t) = {}
    BY <1>4, <1>6, <1>9
<1>11. PICK results : results = r.results \o t
    OBVIOUS
<1>12. results \in Seq(Places) /\ IsInjective(results) /\ ToSet(results) = ToSet(r.results) \union found
    BY <1>4, <1>5, <1>9, <1>10, <1>11, SeqsJoined
<1>13. PICK s : s = [r EXCEPT !.results = results]
    OBVIOUS
<1>14. /\ DOMAIN s = CallFields /\ s.pc = "batch" /\ s.op = "batch_get" /\ s.keys = r.keys
       /\ s.todo = r.todo /\ s.chunk = r.chunk /\ s.pending = r.pending /\ s.results = results
       /\ s.cursor = r.cursor /\ s.landed = r.landed
    BY <1>3, <1>5, <1>13 DEF CallFields
<1>15. IsCall(s)
    BY <1>3, <1>12, <1>14 DEF IsCall
<1>16. PICK n : n = AfterAttempt(s, left)
    OBVIOUS
<1>17. PICK stayed : stayed = steady[c]
    OBVIOUS
<1>18. /\ IsInjective(s.todo) /\ s.chunk \intersect ToSet(s.todo) = {} /\ IsInjective(s.results)
       /\ left \subseteq s.chunk
       /\ ToSet(s.results) \intersect (left \union ToSet(s.todo)) = {}
       /\ stayed \intersect s.keys \subseteq ToSet(s.results) \union left \union ToSet(s.todo)
    BY <1>3, <1>4, <1>5, <1>6, <1>12, <1>14, <1>17
<1>19. IsCall(n) /\ n.op = "batch_get" /\ GetFits(n, stayed)
    BY <1>14, <1>15, <1>16, <1>18, AfterGet
<1>20. /\ DOMAIN items' = Places /\ DOMAIN steady' = Callers /\ \A d \in Callers : Stays(d)
       /\ \A d \in Callers : steady'[d] = steady[d] /\ steady'[d] \subseteq Stored'
    BY ReadStays DEF BatchGet
<1>21. calls'[c] = n => CallFits(c)'
    BY <1>17, <1>19, <1>20 DEF CallFits
<1>22. Set(c, n)
    BY <1>2, <1>6, <1>8, <1>11, <1>13, <1>16
<1> QED
    BY <1>20, <1>21, <1>22, CallerMoves

\* A refusal, of whichever call, asks nothing of what was read or written.
LEMMA RefusedKeepsRepo ==
    ASSUME RepoInv, NEW c \in Callers, calls[c].pc \in {"batch", "query"}, Read,
           NEW r, IsCall(r), r.op = calls[c].op, r.results = calls[c].results,
           NEW a, a # 200, a # 503, Answer(c, r, a)
    PROVE  RepoInv'
<1>1. PICK n : n = [r EXCEPT !.pc = "done", !.answer = a]
    OBVIOUS
<1>2. Set(c, n)
    BY <1>1 DEF Answer
<1>3. CallFits(c) /\ IsCall(calls[c])
    BY DEF RepoInv, CallFits
<1>4. r.op \in {"batch_get", "query"} => IsInjective(r.results)
    BY <1>3 DEF CallFits, GetFits, WalkFits
<1>5. /\ DOMAIN items' = Places /\ DOMAIN steady' = Callers /\ \A d \in Callers : Stays(d)
      /\ \A d \in Callers : steady'[d] = steady[d] /\ steady'[d] \subseteq Stored'
    BY ReadStays
<1>6. /\ IsCall(n) /\ n.op = r.op /\ PutFits(n) /\ n.pc = "done" /\ n.answer = a
      /\ n.results = r.results
    <2>1. DOMAIN r = CallFields
        BY DEF IsCall
    <2>2. /\ DOMAIN n = CallFields /\ n.pc = "done" /\ n.op = r.op /\ n.pending = r.pending
          /\ n.keys = r.keys /\ n.todo = r.todo /\ n.chunk = r.chunk /\ n.landed = r.landed
          /\ n.results = r.results /\ n.cursor = r.cursor /\ n.answer = a
        BY <1>1, <2>1 DEF CallFields
    <2>3. IsCall(n)
        BY <2>2 DEF IsCall
    <2> QED
        BY <2>2, <2>3 DEF PutFits
<1>8. ASSUME calls'[c] = n, n.op = "query"  PROVE WalkFits(calls[c], steady[c])'
    <2>1. IsInjective(calls'[c].results) /\ calls'[c].pc # "query" /\ calls'[c].answer # 200
        BY <1>4, <1>6, <1>8
    <2> QED
        BY <2>1 DEF WalkFits
<1>9. n.op = "batch_get" => \A stayed : GetFits(n, stayed)
    <2> SUFFICES ASSUME n.op = "batch_get", NEW stayed  PROVE GetFits(n, stayed)
        OBVIOUS
    <2>1. IsInjective(n.results) /\ n.pc # "batch" /\ n.answer # 200
        BY <1>4, <1>6
    <2> QED
        BY <2>1 DEF GetFits
<1>10. ASSUME calls'[c] = n  PROVE CallFits(c)'
    <2>1. IsCall(calls'[c]) /\ PutFits(calls'[c]) /\ calls'[c].op = n.op
        BY <1>6, <1>10
    <2>2. n.op = "batch_get" => GetFits(calls'[c], steady'[c])
        BY <1>9, <1>10
    <2>3. n.op = "query" => WalkFits(calls[c], steady[c])'
        BY <1>8, <1>10
    <2>4. steady'[c] \subseteq Stored'
        BY <1>5
    <2>5. /\ calls'[c].op = "batch_get" => GetFits(calls'[c], steady'[c])
          /\ calls'[c].op = "query" => WalkFits(calls[c], steady[c])'
        BY <2>1, <2>2, <2>3
    <2> QED
        BY <2>1, <2>4, <2>5 DEF CallFits
<1> QED
    BY <1>2, <1>5, <1>10, CallerMoves

LEMMA BatchRefusedKeepsRepo == ASSUME RepoInv, NEW c \in Callers, BatchRefused(c)  PROVE RepoInv'
<1>1. PICK r : r = calls[c]
    OBVIOUS
<1>2. PICK code \in Refusals : Answer(c, r, ServiceError(code))
    BY <1>1 DEF BatchRefused
<1>3. IsCall(r) /\ ServiceError(code) # 200 /\ ServiceError(code) # 503 /\ calls[c].pc \in {"batch", "query"} /\ Read
    BY <1>1 DEF BatchRefused, RepoInv, CallFits, ServiceError
<1> QED
    BY <1>1, <1>2, <1>3, RefusedKeepsRepo

LEMMA StartBatchKeepsRepo ==
    ASSUME RepoInv, NEW c \in Callers, NEW op \in {"batch_put", "batch_get"}, NEW keys \in Batches,
           StartBatch(c, op, keys)
    PROVE  RepoInv'
<1>1. PICK r : r = [NoCall EXCEPT !.op = op, !.keys = ToSet(keys), !.todo = keys]
    OBVIOUS
<1>2. keys \in Seq(Places) /\ IsInjective(keys) /\ ToSet(keys) \subseteq Places
    BY BatchesAssumption DEF ToSet
<1>3. /\ DOMAIN r = CallFields /\ r.pc = "idle" /\ r.op = op /\ r.keys = ToSet(keys) /\ r.todo = keys
      /\ r.results = <<>> /\ r.chunk = {} /\ r.landed = {} /\ r.pending = {} /\ r.cursor = Absent
    BY <1>1 DEF NoCall, CallFields
<1>4. IsCall(r)
    BY <1>2, <1>3, EmptySeq DEF IsCall
<1>5. PICK n : n = NextChunk(r)
    OBVIOUS
<1>6. IsInjective(r.todo) /\ r.op \in {"batch_put", "batch_get"}
    BY <1>2, <1>3
<1>7. /\ IsCall(n) /\ n.op = op /\ n.keys = ToSet(keys) /\ n.landed = {} /\ n.results = <<>>
      /\ n.pc = "done" => ToSet(keys) = {} /\ n.answer = 200
      /\ n.pc = "batch" => /\ n.chunk = n.pending /\ IsInjective(n.todo)
                           /\ n.chunk \intersect ToSet(n.todo) = {}
                           /\ n.chunk \union ToSet(n.todo) = ToSet(keys)
    BY <1>3, <1>4, <1>5, <1>6, NextChunkFits
<1>8. PutFits(n)
    BY <1>7 DEF PutFits, Split
<1>9. \A stayed : GetFits(n, stayed)
    <2>1. IsInjective(n.results) /\ ToSet(n.results) = {}
        BY <1>7 DEF IsInjective, ToSet
    <2> QED
        BY <1>7, <2>1 DEF GetFits
<1>10. /\ DOMAIN items' = Places /\ DOMAIN steady' = Callers /\ steady'[c] = Stored'
       /\ \A d \in Callers \ {c} : Stays(d)
    BY DEF StartBatch, RepoInv, Stays, Stored
<1>11. Set(c, n)
    BY <1>1, <1>5 DEF StartBatch
<1>12. calls'[c] = n => CallFits(c)'
    BY <1>7, <1>8, <1>9, <1>10 DEF CallFits
<1> QED
    BY <1>10, <1>11, <1>12, CallerMoves

LEMMA StartQueryKeepsRepo == ASSUME RepoInv, NEW c \in Callers, StartQuery(c)  PROVE RepoInv'
<1>1. PICK q : Set(c, [NoCall EXCEPT !.pc = "query", !.op = "query", !.query = q])
    BY DEF StartQuery
<1>2. PICK r : r = [NoCall EXCEPT !.pc = "query", !.op = "query", !.query = q]
    OBVIOUS
<1>3. /\ DOMAIN r = CallFields /\ r.pc = "query" /\ r.op = "query" /\ r.query = q /\ r.keys = {}
      /\ r.todo = <<>> /\ r.results = <<>> /\ r.chunk = {} /\ r.landed = {} /\ r.pending = {}
      /\ r.cursor = Absent
    BY <1>2 DEF NoCall, CallFields
<1>4. IsCall(r)
    BY <1>3, EmptySeq DEF IsCall
<1>5. IsInjective(r.results) /\ ToSet(r.results) = {}
    BY <1>3 DEF IsInjective, ToSet
<1>6. calls'[c] = r => WalkFits(calls[c], steady[c])'
    BY <1>3, <1>5 DEF WalkFits, Beyond
<1>7. /\ DOMAIN items' = Places /\ DOMAIN steady' = Callers /\ steady'[c] = Stored'
      /\ \A d \in Callers \ {c} : Stays(d)
    BY DEF StartQuery, RepoInv, Stays, Stored
<1>8. calls'[c] = r => CallFits(c)'
    BY <1>3, <1>4, <1>6, <1>7 DEF CallFits
<1> QED
    BY <1>1, <1>2, <1>7, <1>8, CallerMoves

\* The page that was read follows what was read before it, and nothing that is
\* asked for lies between.
LEMMA PageKeepsRepo ==
    ASSUME RepoInv, NEW c \in Callers, NEW r, r = calls[c], r.pc = "query", Read,
           NEW read, NEW last \in Places \union {Absent},
           read \subseteq Ahead(r.query, r.cursor),
           \A k \in Ahead(r.query, r.cursor) \ read : last # Absent /\ Beyond(r.query, last, k),
           \A k \in read : last # Absent => ~Beyond(r.query, last, k),
           last # Absent => Beyond(r.query, r.cursor, last),
           Set(c, Page(r, read, last))
    PROVE  RepoInv'
<1>1. r.op = "query" /\ IsCall(r) /\ WalkFits(r, steady[c])
    BY DEF RepoInv, CallFits, IsCall
<1>2. /\ IsInjective(r.results)
      /\ \A k \in ToSet(r.results) : r.cursor # Absent /\ ~Beyond(r.query, r.cursor, k)
      /\ \A k \in steady[c] : k \in Selected(r.query) /\ Passes(r.query, k) =>
            k \in ToSet(r.results) \/ Beyond(r.query, r.cursor, k)
    BY <1>1 DEF WalkFits
<1>3. DOMAIN r = CallFields /\ r.results \in Seq(Places) /\ r.cursor \in Places \union {Absent}
    BY <1>1 DEF IsCall
<1>4. ToSet(r.results) \subseteq Places /\ Places \subseteq Nat /\ Absent \notin Places
    BY <1>3, PlacesAssumption DEF ToSet
<1>5. /\ read \subseteq Places
      /\ \A k : k \in Ahead(r.query, r.cursor) <=> k \in Selected(r.query) /\ Beyond(r.query, r.cursor, k)
    BY DEF Ahead, Selected, Stored
<1>6. PICK page : page = {k \in read : Passes(r.query, k)}
    OBVIOUS
<1>7. page \subseteq read /\ page \subseteq Places /\ IsFiniteSet(page)
    BY <1>5, <1>6, PlacesAssumption, FS_Subset
<1>8. PICK t : t = SetToSeq(page)
    OBVIOUS
<1>9. t \in Seq(Places) /\ IsInjective(t) /\ ToSet(t) = page
    BY <1>7, <1>8, SetListed, SeqMonotonic
<1>10. ToSet(r.results) \intersect ToSet(t) = {}
    BY <1>2, <1>5, <1>7, <1>9
<1>11. PICK results : results = r.results \o t
    OBVIOUS
<1>12. results \in Seq(Places) /\ IsInjective(results) /\ ToSet(results) = ToSet(r.results) \union page
    BY <1>2, <1>3, <1>9, <1>10, <1>11, SeqsJoined
<1>13. PICK n : n = [r EXCEPT !.results = results, !.cursor = last,
                              !.pc = IF last = Absent THEN "done" ELSE "query",
                              !.answer = IF last = Absent THEN 200 ELSE Absent]
    OBVIOUS
<1>14. Set(c, n)
    BY <1>6, <1>8, <1>11, <1>13 DEF Page, NextCursor
<1>15. /\ DOMAIN n = CallFields /\ n.op = "query" /\ n.query = r.query /\ n.keys = r.keys
       /\ n.todo = r.todo /\ n.chunk = r.chunk /\ n.pending = r.pending /\ n.landed = r.landed
       /\ n.results = results /\ n.cursor = last
       /\ n.pc = IF last = Absent THEN "done" ELSE "query"
    BY <1>1, <1>3, <1>13 DEF CallFields
<1>16. IsCall(n)
    BY <1>1, <1>12, <1>15 DEF IsCall
<1>17. \A k \in ToSet(results) : last # Absent => ~Beyond(r.query, last, k)
    <2> SUFFICES ASSUME NEW k \in ToSet(r.results), last # Absent  PROVE ~Beyond(r.query, last, k)
        BY <1>7, <1>12
    <2>1. r.cursor # Absent /\ ~Beyond(r.query, r.cursor, k) /\ Beyond(r.query, r.cursor, last)
        BY <1>2
    <2>2. k \in Nat /\ r.cursor \in Nat /\ last \in Nat
        BY <1>3, <1>4, <2>1
    <2> QED
        BY <2>1, <2>2 DEF Beyond
<1>18. \A k \in steady[c] : k \in Selected(r.query) /\ Passes(r.query, k) =>
            k \in ToSet(results) \/ (last # Absent /\ Beyond(r.query, last, k))
    <2> SUFFICES ASSUME NEW k \in steady[c], k \in Selected(r.query), Passes(r.query, k),
                        k \notin ToSet(r.results), k \notin page
                 PROVE  last # Absent /\ Beyond(r.query, last, k)
        BY <1>12
    <2>1. k \in Ahead(r.query, r.cursor)
        BY <1>2, <1>5
    <2>2. k \notin read
        BY <1>6
    <2> QED
        BY <2>1, <2>2
<1>19. /\ DOMAIN items' = Places /\ DOMAIN steady' = Callers /\ \A d \in Callers : Stays(d)
       /\ \A d \in Callers : steady'[d] = steady[d] /\ steady'[d] \subseteq Stored'
    BY ReadStays
<1>20. \A q, k : (k \in Selected(q)' <=> k \in Selected(q)) /\ (Passes(q, k)' <=> Passes(q, k))
    BY DEF Read, Selected, Stored, Passes, Sorted
<1>21. ASSUME calls'[c] = n  PROVE WalkFits(calls[c], steady[c])'
    <2>1. /\ IsInjective(calls'[c].results)
          /\ calls'[c].query = r.query /\ calls'[c].cursor = last
          /\ ToSet(calls'[c].results) = ToSet(results) /\ steady'[c] = steady[c]
        BY <1>12, <1>15, <1>19, <1>21
    <2>2. calls'[c].pc = "query" =>
            \A k \in ToSet(calls'[c].results) :
                calls'[c].cursor # Absent /\ ~Beyond(calls'[c].query, calls'[c].cursor, k)
        BY <1>15, <1>17, <1>21, <2>1
    <2>3. calls'[c].pc = "query" =>
            \A k \in steady'[c] : k \in Selected(r.query)' /\ Passes(r.query, k)' =>
                k \in ToSet(calls'[c].results) \/ Beyond(r.query, calls'[c].cursor, k)
        BY <1>15, <1>18, <1>20, <1>21, <2>1
    <2>4. calls'[c].pc = "done" =>
            \A k \in steady'[c] : k \in Selected(r.query)' /\ Passes(r.query, k)' =>
                k \in ToSet(calls'[c].results)
        BY <1>15, <1>18, <1>20, <1>21, <2>1
    <2> QED
        BY <2>1, <2>2, <2>3, <2>4 DEF WalkFits
<1>22. ASSUME calls'[c] = n  PROVE CallFits(c)'
    <2>1. IsCall(calls'[c]) /\ calls'[c].op = "query" /\ steady'[c] \subseteq Stored'
        BY <1>15, <1>16, <1>19, <1>22
    <2> QED
        BY <1>21, <1>22, <2>1 DEF CallFits
<1> QED
    BY <1>14, <1>19, <1>22, CallerMoves

LEMMA QueryItemsKeepsRepo == ASSUME RepoInv, NEW c \in Callers, QueryItems(c)  PROVE RepoInv'
<1>1. PICK r : r = calls[c]
    OBVIOUS
<1>2. PICK q : q = r.query
    OBVIOUS
<1>3. r.pc = "query" /\ IsCall(r) /\ Read
    BY <1>1 DEF QueryItems, RepoInv, CallFits
<1>4. ASSUME NEW a, a # 200, a # 503, Answer(c, r, a)  PROVE RepoInv'
    BY <1>1, <1>3, <1>4, RefusedKeepsRepo
<1>5. ASSUME NEW shape, Answer(c, [r EXCEPT !.cursor = Absent], DecodeCursor(shape))  PROVE RepoInv'
    <2>1. PICK s : s = [r EXCEPT !.cursor = Absent]
        OBVIOUS
    <2>2. DOMAIN r = CallFields
        BY <1>3 DEF IsCall
    <2>3. /\ DOMAIN s = CallFields /\ s.pc = "query" /\ s.op = r.op /\ s.query = r.query /\ s.keys = r.keys
          /\ s.todo = r.todo /\ s.chunk = r.chunk /\ s.pending = r.pending /\ s.landed = r.landed
          /\ s.results = r.results /\ s.cursor = Absent
        BY <1>3, <2>1, <2>2 DEF CallFields
    <2>4. IsCall(s)
        BY <1>3, <2>3 DEF IsCall
    <2>5. DecodeCursor(shape) # 200 /\ DecodeCursor(shape) # 503
        BY DEF DecodeCursor, ServiceError
    <2>6. PICK a : a = DecodeCursor(shape)
        OBVIOUS
    <2>7. /\ calls[c].pc \in {"batch", "query"} /\ s.op = calls[c].op
          /\ s.results = calls[c].results /\ a # 200 /\ a # 503
        BY <1>1, <1>3, <2>3, <2>5, <2>6
    <2>8. Answer(c, s, a)
        BY <1>5, <2>1, <2>6
    <2> QED
        BY <1>3, <2>4, <2>7, <2>8, RefusedKeepsRepo
<1>6. ASSUME NEW last \in Ahead(q, r.cursor),
             Set(c, Page(r, {k \in Ahead(q, r.cursor) : ~Beyond(q, last, k)}, last))
      PROVE  RepoInv'
    <2>1. PICK read : read = {k \in Ahead(q, r.cursor) : ~Beyond(q, last, k)}
        OBVIOUS
    <2>2. last \in Places /\ Beyond(q, r.cursor, last)
        BY DEF Ahead, Selected, Stored
    <2>3. /\ read \subseteq Ahead(q, r.cursor) /\ last # Absent
          /\ \A k \in Ahead(q, r.cursor) \ read : Beyond(q, last, k)
          /\ \A k \in read : ~Beyond(q, last, k)
        BY <2>1, <2>2, PlacesAssumption
    <2> QED
        BY <1>1, <1>2, <1>3, <1>6, <2>1, <2>2, <2>3, PageKeepsRepo
<1>7. ASSUME Set(c, Page(r, Ahead(q, r.cursor), Absent))  PROVE RepoInv'
    <2>1. PICK read : read = Ahead(q, r.cursor)
        OBVIOUS
    <2> QED
        BY <1>1, <1>2, <1>3, <1>7, <2>1, PageKeepsRepo
<1>8. \/ Answer(c, r, 400)
      \/ \E shape \in Tampered : Answer(c, [r EXCEPT !.cursor = Absent], DecodeCursor(shape))
      \/ \E code \in Refusals : Answer(c, r, ServiceError(code))
      \/ \E last \in Ahead(q, r.cursor) :
            Set(c, Page(r, {k \in Ahead(q, r.cursor) : ~Beyond(q, last, k)}, last))
      \/ Set(c, Page(r, Ahead(q, r.cursor), Absent))
    BY <1>1, <1>2 DEF QueryItems
<1>9. \A code : ServiceError(code) # 200 /\ ServiceError(code) # 503
    BY DEF ServiceError
<1>10. ASSUME NEW code \in Refusals, Answer(c, r, ServiceError(code))  PROVE RepoInv'
    BY <1>4, <1>9, <1>10
<1>11. Answer(c, r, 400) => RepoInv'
    BY <1>4
<1> QED
    BY <1>5, <1>6, <1>7, <1>8, <1>10, <1>11

LEMMA MigrateKeepsRepo == ASSUME RepoInv, Migrate  PROVE RepoInv'
<1>1. /\ items' = items /\ calls' = calls /\ DOMAIN steady' = Callers
      /\ \A c \in Callers : steady'[c] \subseteq steady[c]
    BY DEF Migrate
<1>2. ASSUME NEW c \in Callers  PROVE CallFits(c)'
    BY <1>1, CallWaits DEF RepoInv
<1> QED
    BY <1>1, <1>2 DEF RepoInv

LEMMA RepoStep == RepoInv /\ [RepositoryNext]_dynamoState => RepoInv'
<1> SUFFICES ASSUME RepoInv, [RepositoryNext]_dynamoState  PROVE RepoInv'
    OBVIOUS
<1>1. CASE Migrate
    BY <1>1, MigrateKeepsRepo
<1>2. ASSUME NEW c \in Callers, One(c)  PROVE RepoInv'
    BY <1>2, OneKeepsRepo
<1>3. ASSUME NEW c \in Callers, BatchWrite(c)  PROVE RepoInv'
    BY <1>3, BatchWriteKeepsRepo
<1>4. ASSUME NEW c \in Callers, BatchGet(c)  PROVE RepoInv'
    BY <1>4, BatchGetKeepsRepo
<1>5. ASSUME NEW c \in Callers, BatchRefused(c)  PROVE RepoInv'
    BY <1>5, BatchRefusedKeepsRepo
<1>6. ASSUME NEW c \in Callers, StartQuery(c)  PROVE RepoInv'
    BY <1>6, StartQueryKeepsRepo
<1>7. ASSUME NEW c \in Callers, QueryItems(c)  PROVE RepoInv'
    BY <1>7, QueryItemsKeepsRepo
<1>8. ASSUME NEW c \in Callers, NEW op \in {"batch_put", "batch_get"}, NEW keys \in Batches,
             StartBatch(c, op, keys)
      PROVE  RepoInv'
    BY <1>8, StartBatchKeepsRepo
<1>9. CASE UNCHANGED dynamoState
    <2>1. items' = items /\ calls' = calls /\ steady' = steady
        BY <1>9 DEF dynamoState, repository
    <2>2. ASSUME NEW c \in Callers  PROVE CallFits(c)'
        BY <2>1, CallWaits DEF RepoInv
    <2> QED
        BY <2>1, <2>2 DEF RepoInv
<1> QED
    BY <1>1, <1>2, <1>3, <1>4, <1>5, <1>6, <1>7, <1>8, <1>9 DEF RepositoryNext

LEMMA RepoHolds == RepositorySpec => []RepoInv
    BY RepoInit, RepoStep, PTL DEF RepositorySpec

\* Of every batch write that ended, the answer says what became of its items,
\* whatever the service accepted of each attempt (batch_put_items).
THEOREM BatchTellsWhatLandedHolds == RepositorySpec => []BatchTellsWhatLanded
<1>1. RepoInv => BatchTellsWhatLanded
    BY DEF RepoInv, CallFits, PutFits, BatchTellsWhatLanded
<1> QED
    BY <1>1, RepoHolds, PTL

\* Every batch read and every walk through the pages of a query that ended well
\* shows all it asked for that nobody touched, and shows it once, whatever the
\* others, the migrators and the service did meanwhile (batch_get_items,
\* query_items).
THEOREM ReadsSeeWhatStaysHolds == RepositorySpec => []ReadsSeeWhatStays
<1>1. RepoInv => ReadsSeeWhatStays
    BY DEF RepoInv, CallFits, GetFits, WalkFits, ReadsSeeWhatStays, Asked
<1> QED
    BY <1>1, RepoHolds, PTL

-----------------------------------------------------------------------------
(* The migrators: the inductive invariant.                                 *)

RunFields == {"pc", "model", "del", "add", "cleanup", "alone", "settled", "fresh", "warned"}
TableSteps == {"describe", "create", "wait_created", "gsi", "delete", "add", "wait", "ttl"}
VectorSteps == {"get_index", "delete_index", "create_index", "cleanup", "orphans"}
IsRun(r) == /\ DOMAIN r = RunFields /\ r.pc \in Ended \union TableSteps \union VectorSteps
            /\ r.pc \notin Ended => r.model \in Models

IsVector(v) == v = [name |-> v.name, shape |-> v.shape, nonfilter |-> v.nonfilter]
VectorsNamed == \A n \in DOMAIN vectorIndexes : IsVector(vectorIndexes[n]) /\ vectorIndexes[n].name = n

IsTable(t) == /\ DOMAIN t = {"active", "ttl", "gsi"}
              /\ \A n \in DOMAIN t.gsi : DOMAIN t.gsi[n] = {"def", "state"}
TableTyped == table = Absent \/ IsTable(table)

\* What the run has not yet to delete stands as its model says, and what is
\* missing is what it has yet to add.
Converges(r) ==
    LET stay == Standing(table.gsi) \ r.del IN
    /\ IsTable(table)
    /\ r.del \subseteq Standing(table.gsi)
    /\ stay \intersect r.add = {} /\ stay \union r.add = DOMAIN r.model.gsi
    /\ \A n \in stay : /\ table.gsi[n].def.keys = r.model.gsi[n].keys
                       /\ table.gsi[n].def.projection = r.model.gsi[n].projection

TableFits(r) ==
    /\ r.pc = "describe" => Settled
    /\ r.pc \in {"describe", "create"} => r.del = {} /\ r.add = {}
    /\ r.pc \in TableSteps \ {"describe", "create"} => Converges(r)
    /\ r.pc = "delete" => r.del # {}
    /\ r.pc = "add" => r.del = {} /\ r.add # {}
    /\ r.pc \in {"ttl", "wait_created"} => r.del = {} /\ r.add = {}
    /\ r.pc = "wait_created" => r.fresh

VectorFits(r) ==
    LET v == r.model.vector IN
    /\ r.pc \in {"cleanup", "orphans"} => v.name \in DOMAIN vectorIndexes /\ vectorIndexes[v.name] = v
    /\ r.pc = "orphans" =>
          /\ r.del \intersect r.model.defined = {}
          /\ ~r.warned => DOMAIN vectorIndexes \subseteq r.del \union r.model.defined

OnTable(r) == r.pc \in TableSteps \ {"describe", "create"} => IsTable(table)
Alone(m) == Running(m) /\ run[m].alone
AloneFits(m) ==
    Alone(m) => /\ \A q \in Migrators \ {m} : ~Running(q)
                /\ run[m].settled => TableFits(run[m])
                /\ VectorFits(run[m])

MigrationsInv == /\ DOMAIN run = Migrators /\ TableTyped /\ VectorsNamed
                 /\ \A m \in Migrators : IsRun(run[m]) /\ OnTable(run[m]) /\ AloneFits(m)

-----------------------------------------------------------------------------
(* The migrators: their steps.                                             *)

LEMMA RunMoves ==
    ASSUME MigrationsInv, NEW m \in Migrators, Running(m), NEW n, run' = [run EXCEPT ![m] = n],
           IsRun(n), VectorsNamed', TableTyped', IsTable(table) => IsTable(table'), OnTable(n)',
           n.pc \notin Ended => n.alone = run[m].alone /\ n.settled = run[m].settled,
           Alone(m) /\ n.pc \notin Ended => (n.settled => TableFits(n)') /\ VectorFits(n)'
    PROVE  MigrationsInv'
<1>1. DOMAIN run' = Migrators /\ run'[m] = n /\ \A q \in Migrators \ {m} : run'[q] = run[q]
    BY DEF MigrationsInv
<1>2. ASSUME NEW q \in Migrators \ {m}  PROVE IsRun(run'[q]) /\ OnTable(run[q])' /\ AloneFits(q)'
    <2>1. ~Alone(q)
        BY DEF MigrationsInv, AloneFits
    <2>2. ~Alone(q)'
        BY <1>1, <1>2, <2>1 DEF Alone, Running
    <2>3. IsRun(run'[q])
        BY <1>1, <1>2 DEF MigrationsInv
    <2>4. OnTable(run[q])'
        BY <1>1, <1>2 DEF MigrationsInv, OnTable
    <2> QED
        BY <2>2, <2>3, <2>4 DEF AloneFits
<1>3. AloneFits(m)'
    <2> SUFFICES ASSUME Alone(m)'
                 PROVE  /\ \A q \in Migrators \ {m} : ~Running(q)'
                        /\ n.settled => TableFits(n)'
                        /\ VectorFits(n)'
        BY <1>1 DEF AloneFits, TableFits, VectorFits, Converges
    <2>1. n.pc \notin Ended /\ n.alone
        BY <1>1 DEF Alone, Running
    <2>2. Alone(m)
        BY <2>1 DEF Alone
    <2>3. \A q \in Migrators \ {m} : ~Running(q)
        BY <2>2 DEF MigrationsInv, AloneFits
    <2>4. \A q \in Migrators \ {m} : ~Running(q)'
        BY <1>1, <2>3 DEF Running
    <2> QED
        BY <2>1, <2>2, <2>4
<1>4. OnTable(run[m])'
    BY <1>1 DEF OnTable
<1> QED
    BY <1>1, <1>2, <1>3, <1>4 DEF MigrationsInv

LEMMA TableRunMoves ==
    ASSUME MigrationsInv, NEW m \in Migrators, Running(m), NEW n, run' = [run EXCEPT ![m] = n],
           IsRun(n), n.pc \in Ended \union TableSteps, vectorIndexes' = vectorIndexes, TableTyped',
           IsTable(table) => IsTable(table'), OnTable(n)',
           n.pc \notin Ended => n.alone = run[m].alone /\ n.settled = run[m].settled,
           TableFits(run[m]) /\ n.pc \notin Ended => TableFits(n)'
    PROVE  MigrationsInv'
<1>1. VectorsNamed'
    BY DEF MigrationsInv, VectorsNamed
<1>2. n.pc \notin {"cleanup", "orphans"}
    BY DEF Ended, TableSteps
<1>3. VectorFits(n)'
    BY <1>2 DEF VectorFits
<1>4. Alone(m) /\ n.pc \notin Ended => (n.settled => TableFits(n)')
    BY DEF MigrationsInv, AloneFits
<1> QED
    BY <1>1, <1>3, <1>4, RunMoves

LEMMA VectorRunMoves ==
    ASSUME MigrationsInv, NEW m \in Migrators, Running(m), NEW n, run' = [run EXCEPT ![m] = n],
           IsRun(n), n.pc \in Ended \union VectorSteps, table' = table, VectorsNamed',
           n.pc \notin Ended => n.alone = run[m].alone /\ n.settled = run[m].settled,
           VectorFits(run[m]) /\ n.pc \notin Ended => VectorFits(n)'
    PROVE  MigrationsInv'
<1>1. TableTyped'
    BY DEF MigrationsInv, TableTyped
<1>2. n.pc \notin TableSteps
    BY DEF Ended, VectorSteps, TableSteps
<1>3. TableFits(n)'
    BY <1>2 DEF TableFits, TableSteps
<1>4. Alone(m) /\ n.pc \notin Ended => VectorFits(n)'
    BY DEF MigrationsInv, AloneFits
<1>5. OnTable(n)'
    BY <1>2 DEF OnTable
<1> QED
    BY <1>1, <1>3, <1>4, <1>5, RunMoves

\* A run that goes on keeps what it knows, one that ends forgets it.
LEMMA MovedRun ==
    ASSUME NEW r, IsRun(r), r.pc \notin Ended, NEW to, to \in Ended \union TableSteps \union VectorSteps,
           NEW n, n = Moved(r, to)
    PROVE  /\ IsRun(n) /\ n.pc = to
           /\ to \notin Ended => /\ n.model = r.model /\ n.del = r.del /\ n.add = r.add
                                 /\ n.cleanup = r.cleanup /\ n.alone = r.alone
                                 /\ n.settled = r.settled /\ n.fresh = r.fresh /\ n.warned = r.warned
<1>1. DOMAIN r = RunFields
    BY DEF IsRun
<1>2. CASE to \in Ended
    <2>1. n = [NoRun EXCEPT !.pc = to]
        BY <1>2 DEF Moved
    <2>2. DOMAIN n = RunFields /\ n.pc = to
        BY <2>1 DEF NoRun, RunFields
    <2> QED
        BY <1>2, <2>2 DEF IsRun
<1>3. CASE to \notin Ended
    <2>1. n = [r EXCEPT !.pc = to]
        BY <1>3 DEF Moved
    <2>2. /\ DOMAIN n = RunFields /\ n.pc = to /\ n.model = r.model /\ n.del = r.del /\ n.add = r.add
          /\ n.cleanup = r.cleanup /\ n.alone = r.alone
          /\ n.settled = r.settled /\ n.fresh = r.fresh /\ n.warned = r.warned
        BY <1>1, <2>1 DEF RunFields
    <2> QED
        BY <2>2 DEF IsRun
<1> QED
    BY <1>2, <1>3

\* Runs that end, whatever they have done.
LEMMA RunEnds ==
    ASSUME MigrationsInv, NEW m \in Migrators, Running(m), NEW n, run' = [run EXCEPT ![m] = n],
           DOMAIN n = RunFields, n.pc \in Ended, VectorsNamed', TableTyped',
           IsTable(table) => IsTable(table')
    PROVE  MigrationsInv'
<1>1. IsRun(n) /\ OnTable(n)'
    BY DEF IsRun, OnTable, Ended, TableSteps
<1> QED
    BY <1>1, RunMoves

LEMMA RunStops ==
    ASSUME MigrationsInv, NEW m \in Migrators, Running(m), NEW to \in Ended, MoveTo(m, to), UNCHANGED stores
    PROVE  MigrationsInv'
<1>1. PICK n : n = [NoRun EXCEPT !.pc = to]
    OBVIOUS
<1>2. DOMAIN n = RunFields /\ n.pc \in Ended
    BY <1>1 DEF NoRun, RunFields
<1>3. run' = [run EXCEPT ![m] = n]
    BY <1>1 DEF MoveTo, Moved, MigrationsInv
<1>4. VectorsNamed' /\ TableTyped' /\ table' = table
    BY DEF MigrationsInv, VectorsNamed, TableTyped, stores
<1> QED
    BY <1>2, <1>3, <1>4, RunEnds

LEMMA StartKeepsMigrations ==
    ASSUME MigrationsInv, NEW m \in Migrators, NEW model \in Models,
           NEW first \in {"describe", "get_index"}, NEW cleanup, StartRun(m, model, first, cleanup)
    PROVE  MigrationsInv'
<1>1. PICK alone : alone = \A q \in Migrators : ~Running(q)
    OBVIOUS
<1>2. PICK settled : settled = Settled
    OBVIOUS
<1>3. PICK n : n = [NoRun EXCEPT !.pc = first, !.model = model, !.cleanup = cleanup,
                                 !.alone = alone, !.settled = settled]
    OBVIOUS
<1>4. /\ DOMAIN n = RunFields /\ n.pc = first /\ n.model = model /\ n.del = {} /\ n.add = {}
      /\ n.alone = alone /\ n.settled = settled
    BY <1>3 DEF NoRun, RunFields
<1>5. run' = [q \in Migrators |-> IF q = m THEN n ELSE [run[q] EXCEPT !.alone = @ /\ ~Running(q)]]
    BY <1>1, <1>2, <1>3 DEF StartRun
<1>6. UNCHANGED stores /\ TableTyped' /\ VectorsNamed'
    BY DEF StartRun, MigrationsInv, VectorsNamed, TableTyped, stores
<1>7. ASSUME NEW q \in Migrators \ {m}
      PROVE  IsRun(run'[q]) /\ run'[q].pc = run[q].pc /\ ~Alone(q)' /\ OnTable(run[q])'
    <2>1. IsRun(run[q])
        BY DEF MigrationsInv
    <2>2. PICK r : r = run[q]
        OBVIOUS
    <2>3. PICK b : b = (r.alone /\ ~Running(q))
        OBVIOUS
    <2>4. run'[q] = [r EXCEPT !.alone = b]
        BY <1>5, <1>7, <2>2, <2>3
    <2>5. DOMAIN r = RunFields
        BY <2>1, <2>2 DEF IsRun
    <2>6. /\ DOMAIN run'[q] = RunFields /\ run'[q].pc = r.pc /\ run'[q].model = r.model
          /\ run'[q].alone = b
        BY <2>4, <2>5 DEF RunFields
    <2>7. IsRun(run'[q])
        BY <2>1, <2>2, <2>6 DEF IsRun
    <2>8. ~Alone(q)'
        BY <2>2, <2>3, <2>6 DEF Alone, Running
    <2>9. OnTable(run[q])'
        BY <1>6, <2>2, <2>6 DEF OnTable, MigrationsInv, stores
    <2> QED
        BY <2>2, <2>6, <2>7, <2>8, <2>9
<1>8. IsRun(n)
    BY <1>4 DEF IsRun, TableSteps, VectorSteps
<1>9. n.settled => TableFits(n)'
    <2> SUFFICES ASSUME Settled  PROVE TableFits(n)'
        BY <1>2, <1>4
    <2>1. Settled'
        BY <1>6 DEF Settled, stores
    <2> QED
        BY <1>4, <2>1 DEF TableFits, TableSteps
<1>10. VectorFits(n)'
    BY <1>4 DEF VectorFits
<1>11. AloneFits(m)'
    <2> SUFFICES ASSUME Alone(m)'
                 PROVE  /\ \A q \in Migrators \ {m} : ~Running(q)'
                        /\ n.settled => TableFits(n)'
                        /\ VectorFits(n)'
        BY <1>5 DEF AloneFits, TableFits, VectorFits, Converges
    <2>1. alone
        BY <1>4, <1>5 DEF Alone
    <2>2. \A q \in Migrators : ~Running(q)
        BY <1>1, <2>1
    <2>3. \A q \in Migrators \ {m} : ~Running(q)'
        BY <1>7, <2>2 DEF Running
    <2> QED
        BY <1>9, <1>10, <2>3
<1>12. run'[m] = n /\ DOMAIN run' = Migrators
    BY <1>5
<1>13. OnTable(run[m])'
    BY <1>4, <1>12 DEF OnTable, TableSteps
<1>14. \A q \in Migrators : IsRun(run'[q]) /\ OnTable(run[q])' /\ AloneFits(q)'
    <2>1. ASSUME NEW q \in Migrators \ {m}  PROVE IsRun(run'[q]) /\ OnTable(run[q])' /\ AloneFits(q)'
        BY <1>7, <2>1 DEF AloneFits
    <2>2. IsRun(run'[m])
        BY <1>8, <1>12
    <2> QED
        BY <1>11, <1>13, <2>1, <2>2
<1> QED
    BY <1>6, <1>12, <1>14 DEF MigrationsInv

LEMMA KillKeepsMigrations == ASSUME MigrationsInv, NEW m \in Migrators, Kill(m)  PROVE MigrationsInv'
<1>1. Running(m) /\ MoveTo(m, "dead") /\ UNCHANGED stores
    BY DEF Kill
<1> QED
    BY <1>1, RunStops DEF Ended

LEMMA DescribeKeepsMigrations ==
    ASSUME MigrationsInv, NEW m \in Migrators, DescribeTable(m)  PROVE MigrationsInv'
<1>1. PICK r : r = run[m]
    OBVIOUS
<1>2. r.pc = "describe" /\ UNCHANGED stores /\ IsRun(r) /\ Running(m) /\ TableTyped' /\ VectorsNamed'
    <2>1. UNCHANGED stores
        BY DEF DescribeTable, NotFound
    <2> QED
        BY <1>1, <2>1 DEF DescribeTable, MigrationsInv, Running, Ended, TableTyped, VectorsNamed, stores
<1>3. DOMAIN r = RunFields /\ r.pc \notin Ended /\ r.model \in Models
    BY <1>2 DEF IsRun, Ended
<1>4. CASE table = Absent
    <2>1. PICK n : n = Moved(r, "create")
        OBVIOUS
    <2>2. run' = [run EXCEPT ![m] = n]
        BY <1>1, <1>4, <2>1 DEF DescribeTable, NotFound, MoveTo
    <2>3. /\ IsRun(n) /\ n.pc = "create" /\ n.model = r.model /\ n.del = r.del /\ n.add = r.add
          /\ n.alone = r.alone /\ n.settled = r.settled
        BY <1>2, <1>3, <2>1, MovedRun DEF TableSteps, Ended
    <2>4. TableFits(r) => TableFits(n)'
        BY <1>2, <2>3 DEF TableFits, TableSteps
    <2>5. OnTable(n)'
        BY <2>3 DEF OnTable
    <2> QED
        BY <1>1, <1>2, <2>2, <2>3, <2>4, <2>5, TableRunMoves DEF TableSteps, stores
<1>5. CASE table # Absent
    <2>1. PICK del : del = ToDelete(table.gsi, r.model)
        OBVIOUS
    <2>2. PICK add : add = ToAdd(table.gsi, r.model)
        OBVIOUS
    <2>3. PICK n : n = [r EXCEPT !.pc = "gsi", !.del = del, !.add = add]
        OBVIOUS
    <2>4. run' = [run EXCEPT ![m] = n]
        <3>1. run' = [run EXCEPT ![m].pc = "gsi", ![m].del = ToDelete(table.gsi, run[m].model),
                                 ![m].add = ToAdd(table.gsi, run[m].model)]
            BY <1>5 DEF DescribeTable
        <3> QED
            BY <1>1, <2>1, <2>2, <2>3, <3>1 DEF MigrationsInv
    <2>5. /\ DOMAIN n = RunFields /\ n.pc = "gsi" /\ n.model = r.model /\ n.del = del /\ n.add = add
          /\ n.alone = r.alone /\ n.settled = r.settled
        BY <1>3, <2>3 DEF RunFields
    <2>6. IsRun(n)
        BY <1>3, <2>5 DEF IsRun, TableSteps
    <2>7. TableFits(r) => TableFits(n)'
        <3> SUFFICES ASSUME Settled  PROVE Converges(n)'
            BY <1>2, <2>5 DEF TableFits, TableSteps
        <3>1. PICK gsi : gsi = table.gsi
            OBVIOUS
        <3>2. PICK want : want = r.model.gsi
            OBVIOUS
        <3>3. PICK changed : changed = Changed(gsi, r.model)
            OBVIOUS
        <3>4. Standing(gsi) = DOMAIN gsi
            BY <1>5, <3>1 DEF Settled, Standing
        <3>5. del = (DOMAIN gsi \ DOMAIN want) \union changed /\ add = (DOMAIN want \ DOMAIN gsi) \union changed
            BY <2>1, <2>2, <3>1, <3>2, <3>3 DEF ToDelete, ToAdd
        <3>6. changed \subseteq DOMAIN gsi \intersect DOMAIN want
            BY <3>2, <3>3 DEF Changed
        <3>7. \A k \in (DOMAIN gsi \intersect DOMAIN want) \ changed :
                 gsi[k].def.keys = want[k].keys /\ gsi[k].def.projection = want[k].projection
            BY <3>2, <3>3 DEF Changed, GsiChanged
        <3>8. DOMAIN gsi \ del = (DOMAIN gsi \intersect DOMAIN want) \ changed
            BY <3>5, <3>6
        <3>9. table' = table /\ table'.gsi = gsi
            BY <1>2, <3>1 DEF stores
        <3>10. /\ del \subseteq Standing(gsi)
               /\ (Standing(gsi) \ del) \intersect add = {} /\ (Standing(gsi) \ del) \union add = DOMAIN want
            BY <3>4, <3>5, <3>6, <3>8
        <3>11. \A k \in Standing(gsi) \ del :
                 gsi[k].def.keys = want[k].keys /\ gsi[k].def.projection = want[k].projection
            BY <3>4, <3>7, <3>8
        <3>12. /\ Standing(table'.gsi) = Standing(gsi) /\ n.model.gsi = want
            BY <2>5, <3>2, <3>9
        <3> QED
            BY <1>5, <2>5, <3>9, <3>10, <3>11, <3>12 DEF Converges, MigrationsInv, TableTyped
    <2>8. OnTable(n)'
        BY <1>2, <1>5 DEF OnTable, MigrationsInv, TableTyped, stores
    <2> QED
        BY <1>1, <1>2, <2>4, <2>5, <2>6, <2>7, <2>8, TableRunMoves DEF TableSteps, stores
<1> QED
    BY <1>4, <1>5

LEMMA UpdateGsiKeepsMigrations ==
    ASSUME MigrationsInv, NEW m \in Migrators, UpdateGsi(m)  PROVE MigrationsInv'
<1>1. PICK r : r = run[m]
    OBVIOUS
<1>2. r.pc = "gsi" /\ UNCHANGED stores /\ IsRun(r) /\ Running(m) /\ TableTyped' /\ r.pc \notin Ended
    BY <1>1 DEF UpdateGsi, MigrationsInv, Running, Ended, TableTyped, stores
<1>3. ASSUME NEW to \in {"delete", "add", "ttl"}, MoveTo(m, to), to = "delete" => r.del # {},
             to = "add" => r.del = {} /\ r.add # {}, to = "ttl" => r.del = {} /\ r.add = {}
      PROVE  MigrationsInv'
    <2>1. PICK n : n = Moved(r, to)
        OBVIOUS
    <2>2. run' = [run EXCEPT ![m] = n]
        BY <1>1, <1>3, <2>1 DEF MoveTo
    <2>3. to \in TableSteps /\ to \notin Ended
        BY DEF TableSteps, Ended
    <2>4. /\ IsRun(n) /\ n.pc = to /\ n.model = r.model /\ n.del = r.del /\ n.add = r.add
          /\ n.alone = r.alone /\ n.settled = r.settled
        BY <1>2, <2>1, <2>3, MovedRun
    <2>5. Converges(r) => Converges(n)'
        BY <1>2, <2>4 DEF Converges, stores
    <2>6. TableFits(r) => TableFits(n)'
        BY <1>2, <1>3, <2>4, <2>5 DEF TableFits, TableSteps
    <2>7. OnTable(n)'
        BY <1>1, <1>2 DEF OnTable, MigrationsInv, TableSteps, stores
    <2> QED
        BY <1>1, <1>2, <2>2, <2>3, <2>4, <2>6, <2>7, TableRunMoves DEF stores
<1>4. \/ r.del # {} /\ MoveTo(m, "delete")
      \/ r.del = {} /\ r.add # {} /\ MoveTo(m, "add")
      \/ r.del = {} /\ r.add = {} /\ MoveTo(m, "ttl")
    BY <1>1 DEF UpdateGsi
<1> QED
    BY <1>3, <1>4

LEMMA CreateTableKeepsMigrations ==
    ASSUME MigrationsInv, NEW m \in Migrators, CreateTable(m)  PROVE MigrationsInv'
<1>1. PICK r : r = run[m]
    OBVIOUS
<1>2. r.pc = "create" /\ IsRun(r) /\ Running(m) /\ r.pc \notin Ended
    BY <1>1 DEF CreateTable, MigrationsInv, Running, Ended
<1>3. CASE table # Absent
    BY <1>2, <1>3, RunStops DEF CreateTable, Refuse, Ended
<1>4. CASE table = Absent
    <2>1. PICK gsi : gsi = [k \in DOMAIN r.model.gsi |-> [def |-> r.model.gsi[k], state |-> "creating"]]
        OBVIOUS
    <2>2. table' = [active |-> FALSE, ttl |-> Absent, gsi |-> gsi] /\ vectorIndexes' = vectorIndexes
        BY <1>1, <1>4, <2>1 DEF CreateTable
    <2>3. PICK n : n = [r EXCEPT !.pc = "wait_created", !.fresh = TRUE]
        OBVIOUS
    <2>4. run' = [run EXCEPT ![m] = n]
        <3>1. run' = [run EXCEPT ![m].pc = "wait_created", ![m].fresh = TRUE]
            BY <1>4 DEF CreateTable
        <3> QED
            BY <1>1, <2>3, <3>1 DEF MigrationsInv
    <2>5. DOMAIN r = RunFields
        BY <1>2 DEF IsRun
    <2>6. /\ DOMAIN n = RunFields /\ n.pc = "wait_created" /\ n.model = r.model /\ n.del = r.del
          /\ n.add = r.add /\ n.alone = r.alone /\ n.settled = r.settled /\ n.fresh
        BY <2>3, <2>5 DEF RunFields
    <2>7. IsRun(n)
        BY <1>2, <2>6 DEF IsRun, TableSteps
    <2>8. /\ DOMAIN gsi = DOMAIN r.model.gsi
          /\ \A k \in DOMAIN gsi : /\ DOMAIN gsi[k] = {"def", "state"} /\ gsi[k].state = "creating"
                                   /\ gsi[k].def = r.model.gsi[k]
        BY <2>1
    <2>9. Standing(gsi) = DOMAIN r.model.gsi
        BY <2>8 DEF Standing
    <2>10. table'.gsi = gsi /\ IsTable(table')
        BY <2>2, <2>8 DEF IsTable
    <2>11. TableTyped'
        BY <2>10 DEF TableTyped
    <2>12. TableFits(r) => TableFits(n)'
        <3> SUFFICES ASSUME r.del = {}, r.add = {}  PROVE Converges(n)'
            BY <1>2, <2>6 DEF TableFits, TableSteps
        <3>1. \A k \in Standing(gsi) : gsi[k].def.keys = r.model.gsi[k].keys
                                       /\ gsi[k].def.projection = r.model.gsi[k].projection
            BY <2>8, <2>9
        <3>2. Standing(gsi) \ n.del = Standing(gsi) /\ n.del = {} /\ n.add = {}
            BY <2>6
        <3> QED
            BY <2>6, <2>9, <2>10, <3>1, <3>2 DEF Converges
    <2>13. OnTable(n)'
        BY <2>10 DEF OnTable
    <2> QED
        BY <1>1, <1>2, <2>2, <2>4, <2>6, <2>7, <2>10, <2>11, <2>12, <2>13, TableRunMoves DEF TableSteps
<1> QED
    BY <1>3, <1>4

LEMMA NextNameIn == ASSUME NEW names, names # {}  PROVE NextName(names) \in names
    BY DEF NextName

LEMMA DeleteGsiKeepsMigrations ==
    ASSUME MigrationsInv, NEW m \in Migrators, DeleteGsi(m)  PROVE MigrationsInv'
<1>1. PICK r : r = run[m]
    OBVIOUS
<1>2. r.pc = "delete" /\ IsRun(r) /\ Running(m) /\ r.pc \notin Ended /\ DOMAIN r = RunFields
    BY <1>1 DEF DeleteGsi, MigrationsInv, Running, Ended, IsRun
<1>3. PICK k : k = NextName(r.del)
    OBVIOUS
<1>4. PICK gsi : gsi = table.gsi
    OBVIOUS
<1>5. CASE k \notin DOMAIN gsi
    <2>1. NotFound(m)
        BY <1>1, <1>3, <1>4, <1>5 DEF DeleteGsi
    <2>2. PICK n : n = Moved(r, "create")
        OBVIOUS
    <2>3. run' = [run EXCEPT ![m] = n] /\ table' = table /\ vectorIndexes' = vectorIndexes
        BY <1>1, <2>1, <2>2 DEF NotFound, MoveTo, stores
    <2>4. /\ IsRun(n) /\ n.pc = "create" /\ n.model = r.model /\ n.del = r.del /\ n.add = r.add
          /\ n.alone = r.alone /\ n.settled = r.settled
        BY <1>2, <2>2, MovedRun DEF TableSteps, Ended
    <2>5. ~TableFits(r)
        <3> SUFFICES ASSUME TableFits(r)  PROVE FALSE
            OBVIOUS
        <3>1. r.del # {} /\ r.del \subseteq Standing(table.gsi)
            BY <1>2 DEF TableFits, TableSteps, Converges
        <3>2. k \in Standing(gsi)
            BY <1>3, <1>4, <3>1, NextNameIn
        <3> QED
            BY <1>5, <3>2 DEF Standing
    <2>6. TableTyped'
        BY <2>3 DEF MigrationsInv, TableTyped
    <2>7. OnTable(n)'
        BY <2>4 DEF OnTable
    <2> QED
        BY <1>1, <1>2, <2>3, <2>4, <2>5, <2>6, <2>7, TableRunMoves DEF TableSteps
<1>6. CASE k \in DOMAIN gsi /\ Refuse(m)
    BY <1>2, <1>6, RunStops DEF Refuse, Ended
<1>7. CASE /\ k \in DOMAIN gsi
           /\ table' = [table EXCEPT !.active = FALSE, !.gsi[k].state = "deleting"]
           /\ run' = [run EXCEPT ![m].pc = "wait", ![m].del = @ \ {k}]
           /\ vectorIndexes' = vectorIndexes
    <2>1. PICK n : n = [r EXCEPT !.pc = "wait", !.del = @ \ {k}]
        OBVIOUS
    <2>2. run' = [run EXCEPT ![m] = n]
        BY <1>1, <1>7, <2>1 DEF MigrationsInv
    <2>3. /\ DOMAIN n = RunFields /\ n.pc = "wait" /\ n.model = r.model /\ n.del = r.del \ {k}
          /\ n.add = r.add /\ n.alone = r.alone /\ n.settled = r.settled
        BY <1>2, <2>1 DEF RunFields
    <2>4. IsRun(n)
        BY <1>2, <2>3 DEF IsRun, TableSteps
    <2>5. IsTable(table) => /\ IsTable(table')
                            /\ Standing(table'.gsi) = Standing(gsi) \ {k}
                            /\ \A x \in Standing(table'.gsi) : table'.gsi[x] = gsi[x]
        <3> SUFFICES ASSUME IsTable(table)
                     PROVE  /\ IsTable(table')
                            /\ Standing(table'.gsi) = Standing(gsi) \ {k}
                            /\ \A x \in Standing(table'.gsi) : table'.gsi[x] = gsi[x]
            OBVIOUS
        <3>1. DOMAIN table = {"active", "ttl", "gsi"} /\ \A x \in DOMAIN gsi : DOMAIN gsi[x] = {"def", "state"}
            BY <1>4 DEF IsTable
        <3>2. PICK new : new = [gsi EXCEPT ![k].state = "deleting"]
            OBVIOUS
        <3>3. DOMAIN table' = {"active", "ttl", "gsi"} /\ table'.gsi = new
            BY <1>4, <1>7, <3>1, <3>2
        <3>4. /\ DOMAIN new = DOMAIN gsi /\ DOMAIN new[k] = {"def", "state"} /\ new[k].state = "deleting"
              /\ \A x \in DOMAIN gsi \ {k} : new[x] = gsi[x]
            BY <1>7, <3>1, <3>2
        <3>5. IsTable(table')
            BY <3>1, <3>3, <3>4 DEF IsTable
        <3>6. Standing(new) = Standing(gsi) \ {k}
            BY <3>4 DEF Standing
        <3> QED
            BY <3>3, <3>4, <3>5, <3>6 DEF Standing
    <2>6. TableTyped'
        <3>1. IsTable(table)
            BY <1>1, <1>2 DEF MigrationsInv, OnTable, TableSteps
        <3> QED
            BY <2>5, <3>1 DEF TableTyped
    <2>8. IsTable(table') /\ OnTable(n)'
        BY <1>1, <1>2, <2>5 DEF MigrationsInv, OnTable, TableSteps
    <2>7. TableFits(r) => TableFits(n)'
        <3> SUFFICES ASSUME Converges(r), r.del # {}  PROVE Converges(n)'
            BY <1>2, <2>3 DEF TableFits, TableSteps
        <3>1. k \in r.del
            BY <1>3, NextNameIn
        <3>2. /\ r.del \subseteq Standing(gsi)
              /\ (Standing(gsi) \ r.del) \intersect r.add = {}
              /\ (Standing(gsi) \ r.del) \union r.add = DOMAIN r.model.gsi
              /\ \A x \in Standing(gsi) \ r.del : /\ gsi[x].def.keys = r.model.gsi[x].keys
                                                 /\ gsi[x].def.projection = r.model.gsi[x].projection
            BY <1>4 DEF Converges
        <3>3. IsTable(table)
            BY DEF Converges
        <3>4. /\ IsTable(table') /\ Standing(table'.gsi) = Standing(gsi) \ {k}
              /\ \A x \in Standing(table'.gsi) : table'.gsi[x] = gsi[x]
            BY <2>5, <3>3
        <3>5. Standing(table'.gsi) \ n.del = Standing(gsi) \ r.del
            BY <2>3, <3>1, <3>4
        <3>6. n.del \subseteq Standing(table'.gsi)
            BY <2>3, <3>2, <3>4
        <3>7. \A x \in Standing(table'.gsi) \ n.del :
                 /\ table'.gsi[x].def.keys = n.model.gsi[x].keys
                 /\ table'.gsi[x].def.projection = n.model.gsi[x].projection
            BY <2>3, <3>2, <3>4, <3>5
        <3> QED
            BY <2>3, <3>2, <3>4, <3>5, <3>6, <3>7 DEF Converges
    <2> QED
        BY <1>1, <1>2, <1>7, <2>2, <2>3, <2>4, <2>6, <2>7, <2>8, TableRunMoves DEF TableSteps
<1> QED
    BY <1>1, <1>3, <1>4, <1>5, <1>6, <1>7 DEF DeleteGsi

LEMMA AddGsiKeepsMigrations ==
    ASSUME MigrationsInv, NEW m \in Migrators, AddGsi(m)  PROVE MigrationsInv'
<1>1. PICK r : r = run[m]
    OBVIOUS
<1>2. /\ r.pc = "add" /\ IsRun(r) /\ Running(m) /\ r.pc \notin Ended /\ DOMAIN r = RunFields
      /\ IsTable(table)
    BY <1>1 DEF AddGsi, MigrationsInv, Running, Ended, IsRun, OnTable, TableSteps
<1>3. PICK k : k = NextName(r.add)
    OBVIOUS
<1>4. PICK gsi : gsi = table.gsi
    OBVIOUS
<1>5. CASE Refuse(m)
    BY <1>2, <1>5, RunStops DEF Refuse, Ended
<1>6. CASE /\ k \notin DOMAIN gsi
           /\ table' = [table EXCEPT !.active = FALSE,
                  !.gsi = [x \in DOMAIN @ \union {k} |->
                             IF x = k THEN [def |-> run[m].model.gsi[k], state |-> "creating"] ELSE @[x]]]
           /\ run' = [run EXCEPT ![m].pc = "wait", ![m].add = @ \ {k}]
           /\ vectorIndexes' = vectorIndexes
    <2>1. PICK n : n = [r EXCEPT !.pc = "wait", !.add = @ \ {k}]
        OBVIOUS
    <2>2. run' = [run EXCEPT ![m] = n]
        BY <1>1, <1>6, <2>1 DEF MigrationsInv
    <2>3. /\ DOMAIN n = RunFields /\ n.pc = "wait" /\ n.model = r.model /\ n.del = r.del
          /\ n.add = r.add \ {k} /\ n.alone = r.alone /\ n.settled = r.settled
        BY <1>2, <2>1 DEF RunFields
    <2>4. IsRun(n)
        BY <1>2, <2>3 DEF IsRun, TableSteps
    <2>5. DOMAIN table = {"active", "ttl", "gsi"} /\ \A x \in DOMAIN gsi : DOMAIN gsi[x] = {"def", "state"}
        BY <1>2, <1>4 DEF IsTable
    <2>6. PICK fresh : fresh = [def |-> r.model.gsi[k], state |-> "creating"]
        OBVIOUS
    <2>7. PICK new : new = [x \in DOMAIN gsi \union {k} |-> IF x = k THEN fresh ELSE gsi[x]]
        OBVIOUS
    <2>8. DOMAIN table' = {"active", "ttl", "gsi"} /\ table'.gsi = new
        BY <1>1, <1>4, <1>6, <2>5, <2>6, <2>7
    <2>9. /\ DOMAIN new = DOMAIN gsi \union {k} /\ new[k] = fresh
          /\ \A x \in DOMAIN gsi : new[x] = gsi[x]
        BY <1>6, <2>7
    <2>10. DOMAIN fresh = {"def", "state"} /\ fresh.state = "creating" /\ fresh.def = r.model.gsi[k]
        BY <2>6
    <2>11. IsTable(table')
        BY <2>5, <2>8, <2>9, <2>10 DEF IsTable
    <2>12. Standing(new) = Standing(gsi) \union {k}
        BY <2>9, <2>10 DEF Standing
    <2>13. TableTyped' /\ OnTable(n)'
        BY <2>11 DEF TableTyped, OnTable
    <2>14. TableFits(r) => TableFits(n)'
        <3> SUFFICES ASSUME Converges(r), r.add # {}, r.del = {}  PROVE Converges(n)'
            BY <1>2, <2>3 DEF TableFits, TableSteps
        <3>1. k \in r.add
            BY <1>3, NextNameIn
        <3>2. /\ Standing(gsi) \intersect r.add = {} /\ Standing(gsi) \union r.add = DOMAIN r.model.gsi
              /\ \A x \in Standing(gsi) : /\ gsi[x].def.keys = r.model.gsi[x].keys
                                         /\ gsi[x].def.projection = r.model.gsi[x].projection
            <4>1. Standing(gsi) \ r.del = Standing(gsi)
                OBVIOUS
            <4> QED
                BY <1>4, <4>1 DEF Converges
        <3>3. /\ Standing(new) \intersect n.add = {} /\ Standing(new) \union n.add = DOMAIN r.model.gsi
              /\ n.del = {} /\ Standing(new) \ n.del = Standing(new)
            BY <2>3, <2>12, <3>1, <3>2
        <3>4. Standing(gsi) \subseteq DOMAIN gsi
            BY DEF Standing
        <3>5. \A x \in Standing(new) : /\ new[x].def.keys = n.model.gsi[x].keys
                                      /\ new[x].def.projection = n.model.gsi[x].projection
            BY <2>3, <2>9, <2>10, <2>12, <3>2, <3>4
        <3> QED
            BY <2>3, <2>8, <2>11, <3>3, <3>5 DEF Converges
    <2> QED
        BY <1>1, <1>2, <1>6, <2>2, <2>3, <2>4, <2>11, <2>13, <2>14, TableRunMoves DEF TableSteps
<1> QED
    BY <1>1, <1>3, <1>4, <1>5, <1>6 DEF AddGsi

LEMMA WaitKeepsMigrations ==
    ASSUME MigrationsInv, NEW m \in Migrators, WaitForTable(m)  PROVE MigrationsInv'
<1>1. PICK r : r = run[m]
    OBVIOUS
<1>2. /\ r.pc \in {"wait", "wait_created"} /\ UNCHANGED stores /\ IsRun(r) /\ Running(m)
      /\ r.pc \notin Ended
    BY <1>1 DEF WaitForTable, MigrationsInv, Running, Ended
<1>3. CASE r.pc = "wait_created"
    <2>1. MoveTo(m, "done")
        BY <1>1, <1>3 DEF WaitForTable
    <2> QED
        BY <1>2, <2>1, RunStops DEF Ended
<1>4. CASE r.pc = "wait"
    <2>1. PICK n : n = Moved(r, "gsi")
        OBVIOUS
    <2>2. run' = [run EXCEPT ![m] = n] /\ table' = table /\ vectorIndexes' = vectorIndexes
        BY <1>1, <1>2, <1>4, <2>1 DEF WaitForTable, MoveTo, stores
    <2>3. /\ IsRun(n) /\ n.pc = "gsi" /\ n.model = r.model /\ n.del = r.del /\ n.add = r.add
          /\ n.alone = r.alone /\ n.settled = r.settled
        BY <1>2, <2>1, MovedRun DEF TableSteps, Ended
    <2>4. Converges(r) => Converges(n)'
        BY <2>2, <2>3 DEF Converges
    <2>5. TableFits(r) => TableFits(n)'
        BY <1>4, <2>3, <2>4 DEF TableFits, TableSteps
    <2>6. TableTyped' /\ OnTable(n)'
        BY <1>1, <1>4, <2>2 DEF MigrationsInv, TableTyped, OnTable, TableSteps
    <2> QED
        BY <1>1, <1>2, <2>2, <2>3, <2>5, <2>6, TableRunMoves DEF TableSteps
<1> QED
    BY <1>2, <1>3, <1>4

LEMMA TtlKeepsMigrations ==
    ASSUME MigrationsInv, NEW m \in Migrators, UpdateTtl(m)  PROVE MigrationsInv'
<1>1. PICK r : r = run[m]
    OBVIOUS
<1>2. r.pc = "ttl" /\ IsRun(r) /\ Running(m) /\ r.pc \notin Ended /\ IsTable(table)
    BY <1>1 DEF UpdateTtl, MigrationsInv, Running, Ended, OnTable, TableSteps
<1>3. CASE MoveTo(m, "done") /\ UNCHANGED stores
    BY <1>2, <1>3, RunStops DEF Ended
<1>4. CASE table' = [table EXCEPT !.ttl = r.model.ttl] /\ MoveTo(m, "done") /\ UNCHANGED vectorIndexes
    <2>1. PICK n : n = [NoRun EXCEPT !.pc = "done"]
        OBVIOUS
    <2>2. DOMAIN n = RunFields /\ n.pc \in Ended
        BY <2>1 DEF NoRun, RunFields, Ended
    <2>3. run' = [run EXCEPT ![m] = n]
        BY <1>4, <2>1 DEF MoveTo, Moved, MigrationsInv, Ended
    <2>4. IsTable(table')
        BY <1>2, <1>4 DEF IsTable
    <2>5. VectorsNamed' /\ TableTyped'
        BY <1>4, <2>4 DEF MigrationsInv, VectorsNamed, TableTyped
    <2> QED
        BY <1>2, <2>2, <2>3, <2>4, <2>5, RunEnds
<1>5. CASE run' = [run EXCEPT ![m] = [NoRun EXCEPT !.pc = "done", !.warned = TRUE]] /\ UNCHANGED stores
    <2>1. PICK n : n = [NoRun EXCEPT !.pc = "done", !.warned = TRUE]
        OBVIOUS
    <2>2. DOMAIN n = RunFields /\ n.pc \in Ended
        BY <2>1 DEF NoRun, RunFields, Ended
    <2>3. VectorsNamed' /\ TableTyped' /\ table' = table
        BY <1>5 DEF MigrationsInv, VectorsNamed, TableTyped, stores
    <2> QED
        BY <1>2, <1>5, <2>1, <2>2, <2>3, RunEnds
<1> QED
    BY <1>1, <1>3, <1>4, <1>5 DEF UpdateTtl

\* The service finishes an index, or takes one away that no longer counts.
LEMMA ProgressKeepsMigrations == ASSUME MigrationsInv, Progress  PROVE MigrationsInv'
<1>1. IsTable(table) /\ run' = run /\ vectorIndexes' = vectorIndexes
    BY DEF Progress, MigrationsInv, TableTyped
<1>2. PICK gsi : gsi = table.gsi
    OBVIOUS
<1>3. DOMAIN table = {"active", "ttl", "gsi"} /\ \A x \in DOMAIN gsi : DOMAIN gsi[x] = {"def", "state"}
    BY <1>1, <1>2 DEF IsTable
<1>4. /\ IsTable(table') /\ Standing(table'.gsi) = Standing(gsi)
      /\ \A x \in Standing(gsi) : table'.gsi[x].def = gsi[x].def
    <2>1. CASE table' = [table EXCEPT !.active = TRUE]
        <3>1. DOMAIN table' = {"active", "ttl", "gsi"} /\ table'.gsi = gsi
            BY <1>2, <1>3, <2>1
        <3> QED
            BY <1>3, <3>1 DEF IsTable
    <2>2. ASSUME NEW k \in DOMAIN gsi, gsi[k].state = "creating",
                 table' = [table EXCEPT !.gsi[k].state = "active"]
          PROVE  /\ IsTable(table') /\ Standing(table'.gsi) = Standing(gsi)
                 /\ \A x \in Standing(gsi) : table'.gsi[x].def = gsi[x].def
        <3>1. PICK new : new = [gsi EXCEPT ![k].state = "active"]
            OBVIOUS
        <3>2. DOMAIN table' = {"active", "ttl", "gsi"} /\ table'.gsi = new
            BY <1>2, <1>3, <2>2, <3>1
        <3>3. /\ DOMAIN new = DOMAIN gsi /\ DOMAIN new[k] = {"def", "state"} /\ new[k].state = "active"
              /\ new[k].def = gsi[k].def /\ \A x \in DOMAIN gsi \ {k} : new[x] = gsi[x]
            BY <1>3, <2>2, <3>1
        <3>4. Standing(new) = Standing(gsi)
            BY <2>2, <3>3 DEF Standing
        <3>5. IsTable(table')
            BY <1>3, <3>2, <3>3 DEF IsTable
        <3> QED
            BY <3>2, <3>3, <3>4, <3>5 DEF Standing
    <2>3. ASSUME NEW k \in DOMAIN gsi, gsi[k].state = "deleting",
                 table' = [table EXCEPT !.gsi = [x \in DOMAIN @ \ {k} |-> @[x]]]
          PROVE  /\ IsTable(table') /\ Standing(table'.gsi) = Standing(gsi)
                 /\ \A x \in Standing(gsi) : table'.gsi[x].def = gsi[x].def
        <3>1. PICK new : new = [x \in DOMAIN gsi \ {k} |-> gsi[x]]
            OBVIOUS
        <3>2. DOMAIN table' = {"active", "ttl", "gsi"} /\ table'.gsi = new
            BY <1>2, <1>3, <2>3, <3>1
        <3>3. DOMAIN new = DOMAIN gsi \ {k} /\ \A x \in DOMAIN new : new[x] = gsi[x]
            BY <3>1
        <3>4. Standing(new) = Standing(gsi) /\ Standing(gsi) \subseteq DOMAIN new
            BY <2>3, <3>3 DEF Standing
        <3>5. IsTable(table')
            BY <1>3, <3>2, <3>3 DEF IsTable
        <3> QED
            BY <3>2, <3>3, <3>4, <3>5
    <2> QED
        BY <1>2, <2>1, <2>2, <2>3 DEF Progress
<1>5. \A r : Converges(r) => Converges(r)'
    BY <1>2, <1>4 DEF Converges
<1>6. ~Settled
    BY DEF Progress, Settled
<1>7. \A r : TableFits(r) => TableFits(r)'
    BY <1>5, <1>6 DEF TableFits
<1>8. \A r : VectorFits(r) => VectorFits(r)'
    BY <1>1 DEF VectorFits
<1>9. ASSUME NEW q \in Migrators  PROVE IsRun(run'[q]) /\ OnTable(run[q])' /\ AloneFits(q)'
    <2>1. PICK r : r = run[q]
        OBVIOUS
    <2>2. IsRun(r) /\ AloneFits(q) /\ run'[q] = r
        BY <1>1, <2>1 DEF MigrationsInv
    <2>3. Alone(q)' => /\ \A p \in Migrators \ {q} : ~Running(p)'
                       /\ r.settled => TableFits(r)
                       /\ VectorFits(r)
        BY <1>1, <2>1, <2>2 DEF AloneFits, Alone, Running
    <2>4. AloneFits(q)' <=> (Alone(q)' => /\ \A p \in Migrators \ {q} : ~Running(p)'
                                          /\ r.settled => TableFits(r)'
                                          /\ VectorFits(r)')
        BY <2>2 DEF AloneFits, TableFits, VectorFits, Converges
    <2>5. OnTable(run[q])'
        BY <1>4 DEF OnTable
    <2> QED
        BY <1>7, <1>8, <2>2, <2>3, <2>4, <2>5
<1>10. VectorsNamed' /\ TableTyped' /\ DOMAIN run' = Migrators
    BY <1>1, <1>4 DEF MigrationsInv, VectorsNamed, TableTyped
<1> QED
    BY <1>9, <1>10 DEF MigrationsInv

\* An index that needs no update is the model's.
LEMMA SameVector ==
    ASSUME MigrationsInv, NEW model \in Models, NEW v, v = model.vector, v.name \in DOMAIN vectorIndexes,
           ~IndexNeedsUpdate(vectorIndexes[v.name], v)
    PROVE  vectorIndexes[v.name] = v
<1>1. PICK w : w = vectorIndexes[v.name]
    OBVIOUS
<1>2. w = [name |-> w.name, shape |-> w.shape, nonfilter |-> w.nonfilter] /\ w.name = v.name
    BY <1>1 DEF MigrationsInv, VectorsNamed, IsVector
<1>3. v = [name |-> v.name, shape |-> v.shape, nonfilter |-> v.nonfilter]
    BY ModelsAssumption
<1>4. w.shape = v.shape /\ w.nonfilter = v.nonfilter
    BY <1>1 DEF IndexNeedsUpdate
<1> QED
    BY <1>1, <1>2, <1>3, <1>4

\* A run over the vector indexes that goes on without having touched them.
LEMMA VectorRunGoesOn ==
    ASSUME MigrationsInv, NEW m \in Migrators, NEW r, r = run[m], r.pc \in VectorSteps,
           NEW to \in {"cleanup", "delete_index", "create_index"}, MoveTo(m, to), table' = table,
           VectorsNamed',
           to = "cleanup" => LET v == r.model.vector IN
                             v.name \in DOMAIN vectorIndexes' /\ vectorIndexes'[v.name] = v
    PROVE  MigrationsInv'
<1>1. IsRun(r) /\ Running(m) /\ r.pc \notin Ended
    BY DEF MigrationsInv, Running, Ended, VectorSteps
<1>2. PICK n : n = Moved(r, to)
    OBVIOUS
<1>3. run' = [run EXCEPT ![m] = n]
    BY <1>2 DEF MoveTo
<1>4. to \in VectorSteps /\ to \notin Ended
    BY DEF VectorSteps, Ended
<1>5. IsRun(n) /\ n.pc = to /\ n.model = r.model /\ n.alone = r.alone /\ n.settled = r.settled
    BY <1>1, <1>2, <1>4, MovedRun
<1>6. VectorFits(n)'
    BY <1>5 DEF VectorFits
<1> QED
    BY <1>1, <1>3, <1>4, <1>5, <1>6, VectorRunMoves

LEMMA GetIndexKeepsMigrations ==
    ASSUME MigrationsInv, NEW m \in Migrators, GetIndex(m)  PROVE MigrationsInv'
<1>1. PICK r : r = run[m]
    OBVIOUS
<1>2. r.pc = "get_index" /\ IsRun(r) /\ Running(m) /\ UNCHANGED stores /\ r.model \in Models
    BY <1>1 DEF GetIndex, MigrationsInv, Running, Ended, IsRun
<1>3. VectorsNamed' /\ table' = table /\ vectorIndexes' = vectorIndexes
    BY <1>2 DEF MigrationsInv, VectorsNamed, stores
<1>4. PICK v : v = r.model.vector
    OBVIOUS
<1>5. \/ MoveTo(m, "create_index")
      \/ MoveTo(m, "delete_index")
      \/ /\ v.name \in DOMAIN vectorIndexes /\ ~IndexNeedsUpdate(vectorIndexes[v.name], v)
         /\ MoveTo(m, "cleanup")
      \/ MoveTo(m, "done")
    BY <1>1, <1>4 DEF GetIndex, Model
<1>6. ASSUME v.name \in DOMAIN vectorIndexes, ~IndexNeedsUpdate(vectorIndexes[v.name], v)
      PROVE  vectorIndexes[v.name] = v
    BY <1>2, <1>4, <1>6, SameVector
<1>7. CASE MoveTo(m, "done")
    BY <1>2, <1>7, RunStops DEF Ended
<1>8. r.pc \in VectorSteps
    BY <1>2 DEF VectorSteps
<1> QED
    BY <1>1, <1>3, <1>4, <1>5, <1>6, <1>7, <1>8, VectorRunGoesOn

LEMMA DeleteIndexKeepsMigrations ==
    ASSUME MigrationsInv, NEW m \in Migrators, DeleteIndex(m)  PROVE MigrationsInv'
<1>1. PICK r : r = run[m]
    OBVIOUS
<1>2. r.pc \in VectorSteps /\ MoveTo(m, "create_index") /\ table' = table
    BY <1>1 DEF DeleteIndex, VectorSteps
<1>3. VectorsNamed'
    BY DEF DeleteIndex, MigrationsInv, VectorsNamed
<1> QED
    BY <1>1, <1>2, <1>3, VectorRunGoesOn

LEMMA CreateIndexKeepsMigrations ==
    ASSUME MigrationsInv, NEW m \in Migrators, CreateIndex(m)  PROVE MigrationsInv'
<1>1. PICK r : r = run[m]
    OBVIOUS
<1>2. r.pc = "create_index" /\ IsRun(r) /\ Running(m) /\ table' = table /\ r.model \in Models
    BY <1>1 DEF CreateIndex, MigrationsInv, Running, Ended, IsRun
<1>3. PICK v : v = r.model.vector
    OBVIOUS
<1>4. IsVector(v)
    BY <1>2, <1>3, ModelsAssumption DEF IsVector
<1>5. CASE MoveTo(m, "failed") /\ UNCHANGED vectorIndexes
    BY <1>2, <1>5, RunStops DEF Ended, stores
<1>6. CASE /\ MoveTo(m, IF r.cleanup THEN "cleanup" ELSE "done")
           /\ vectorIndexes' = [n \in DOMAIN vectorIndexes \union {v.name} |->
                                  IF n = v.name THEN v ELSE vectorIndexes[n]]
    <2>1. v.name \in DOMAIN vectorIndexes' /\ vectorIndexes'[v.name] = v
        BY <1>6
    <2>2. VectorsNamed'
        BY <1>4, <1>6 DEF MigrationsInv, VectorsNamed
    <2>3. CASE MoveTo(m, "cleanup")
        <3>1. r.pc \in VectorSteps
            BY <1>2 DEF VectorSteps
        <3> QED
            BY <1>1, <1>2, <1>3, <2>1, <2>2, <2>3, <3>1, VectorRunGoesOn
    <2>4. CASE MoveTo(m, "done")
        <3>1. PICK n : n = [NoRun EXCEPT !.pc = "done"]
            OBVIOUS
        <3>2. DOMAIN n = RunFields /\ n.pc \in Ended
            BY <3>1 DEF NoRun, RunFields, Ended
        <3>3. run' = [run EXCEPT ![m] = n]
            BY <2>4, <3>1 DEF MoveTo, Moved, MigrationsInv, Ended
        <3>4. TableTyped'
            BY <1>2 DEF MigrationsInv, TableTyped
        <3> QED
            BY <1>2, <2>2, <3>2, <3>3, <3>4, RunEnds
    <2> QED
        BY <1>6, <2>3, <2>4
<1> QED
    BY <1>1, <1>3, <1>5, <1>6 DEF CreateIndex, Model

LEMMA ListOrphansKeepsMigrations ==
    ASSUME MigrationsInv, NEW m \in Migrators, ListOrphans(m)  PROVE MigrationsInv'
<1>1. PICK r : r = run[m]
    OBVIOUS
<1>2. /\ r.pc = "cleanup" /\ IsRun(r) /\ Running(m) /\ DOMAIN r = RunFields /\ r.model \in Models
      /\ table' = table /\ vectorIndexes' = vectorIndexes
    BY <1>1 DEF ListOrphans, MigrationsInv, Running, Ended, IsRun, stores
<1>3. PICK del : del = DOMAIN vectorIndexes \ r.model.defined
    OBVIOUS
<1>4. PICK n : n = [r EXCEPT !.pc = "orphans", !.del = del]
    OBVIOUS
<1>5. run' = [run EXCEPT ![m] = n]
    <2>1. run' = [run EXCEPT ![m].pc = "orphans", ![m].del = DOMAIN vectorIndexes \ run[m].model.defined]
        BY DEF ListOrphans
    <2> QED
        BY <1>1, <1>3, <1>4, <2>1 DEF MigrationsInv
<1>6. /\ DOMAIN n = RunFields /\ n.pc = "orphans" /\ n.model = r.model /\ n.del = del
      /\ n.alone = r.alone /\ n.settled = r.settled
    BY <1>2, <1>4 DEF RunFields
<1>7. IsRun(n)
    BY <1>2, <1>6 DEF IsRun, VectorSteps
<1>8. VectorFits(r) => VectorFits(n)'
    <2> SUFFICES ASSUME VectorFits(r)  PROVE VectorFits(n)'
        OBVIOUS
    <2>1. r.model.vector.name \in DOMAIN vectorIndexes /\ vectorIndexes[r.model.vector.name] = r.model.vector
        BY <1>2 DEF VectorFits
    <2>2. n.del \intersect n.model.defined = {} /\ DOMAIN vectorIndexes' \subseteq n.del \union n.model.defined
        BY <1>2, <1>3, <1>6
    <2> QED
        BY <1>2, <1>6, <2>1, <2>2 DEF VectorFits
<1>9. VectorsNamed'
    BY <1>2 DEF MigrationsInv, VectorsNamed
<1> QED
    BY <1>1, <1>2, <1>5, <1>6, <1>7, <1>8, <1>9, VectorRunMoves DEF VectorSteps

LEMMA DeleteOrphanKeepsMigrations ==
    ASSUME MigrationsInv, NEW m \in Migrators, DeleteOrphan(m)  PROVE MigrationsInv'
<1>1. PICK r : r = run[m]
    OBVIOUS
<1>2. /\ r.pc = "orphans" /\ IsRun(r) /\ Running(m) /\ DOMAIN r = RunFields /\ r.model \in Models
      /\ table' = table
    BY <1>1 DEF DeleteOrphan, MigrationsInv, Running, Ended, IsRun
<1>3. PICK k : k = NextName(r.del)
    OBVIOUS
<1>4. CASE r.del = {}
    <2>1. PICK n : n = [NoRun EXCEPT !.pc = "done", !.warned = r.warned]
        OBVIOUS
    <2>2. DOMAIN n = RunFields /\ n.pc \in Ended
        BY <2>1 DEF NoRun, RunFields, Ended
    <2>3. run' = [run EXCEPT ![m] = n] /\ vectorIndexes' = vectorIndexes
        BY <1>1, <1>4, <2>1 DEF DeleteOrphan, Conclude
    <2>4. VectorsNamed' /\ TableTyped'
        BY <1>2, <2>3 DEF MigrationsInv, VectorsNamed, TableTyped
    <2> QED
        BY <1>2, <2>2, <2>3, <2>4, RunEnds
<1>5. CASE r.del # {}
    <2>1. k \in r.del
        BY <1>3, <1>5, NextNameIn
    <2>2. ASSUME NEW w, NEW n, n = [r EXCEPT !.del = @ \ {k}, !.warned = w],
                 run' = [run EXCEPT ![m] = n], VectorsNamed',
                 ~w => ~r.warned /\ DOMAIN vectorIndexes' \subseteq DOMAIN vectorIndexes \ {k},
                 \A x \in DOMAIN vectorIndexes \ {k} : x \in DOMAIN vectorIndexes' /\ vectorIndexes'[x] = vectorIndexes[x]
          PROVE  MigrationsInv'
        <3>1. /\ DOMAIN n = RunFields /\ n.pc = "orphans" /\ n.model = r.model /\ n.del = r.del \ {k}
              /\ n.alone = r.alone /\ n.settled = r.settled /\ n.warned = w
            BY <1>2, <2>2 DEF RunFields
        <3>2. IsRun(n)
            BY <1>2, <3>1 DEF IsRun, VectorSteps
        <3>3. VectorFits(r) => VectorFits(n)'
            <4> SUFFICES ASSUME VectorFits(r)  PROVE VectorFits(n)'
                OBVIOUS
            <4>1. PICK v : v = r.model.vector
                OBVIOUS
            <4>2. /\ v.name \in DOMAIN vectorIndexes /\ vectorIndexes[v.name] = v
                  /\ r.del \intersect r.model.defined = {}
                  /\ ~r.warned => DOMAIN vectorIndexes \subseteq r.del \union r.model.defined
                BY <1>2, <4>1 DEF VectorFits
            <4>3. v.name \in r.model.defined
                BY <1>2, <4>1, ModelsAssumption
            <4>4. v.name \in DOMAIN vectorIndexes' /\ vectorIndexes'[v.name] = v
                BY <2>1, <2>2, <4>2, <4>3
            <4>5. /\ n.del \intersect n.model.defined = {}
                  /\ ~n.warned => DOMAIN vectorIndexes' \subseteq n.del \union n.model.defined
                BY <2>2, <3>1, <4>2
            <4> QED
                BY <3>1, <4>1, <4>4, <4>5 DEF VectorFits
        <3> QED
            BY <1>1, <1>2, <2>2, <3>1, <3>2, <3>3, VectorRunMoves DEF VectorSteps
    <2>3. CASE /\ vectorIndexes' = [x \in DOMAIN vectorIndexes \ {k} |-> vectorIndexes[x]]
               /\ run' = [run EXCEPT ![m].del = @ \ {k}]
        <3>1. PICK n : n = [r EXCEPT !.del = @ \ {k}, !.warned = r.warned]
            OBVIOUS
        <3>2. n = [r EXCEPT !.del = @ \ {k}]
            BY <1>2, <3>1 DEF RunFields
        <3>3. run' = [run EXCEPT ![m] = n]
            BY <1>1, <2>3, <3>2 DEF MigrationsInv
        <3>4. VectorsNamed'
            BY <2>3 DEF MigrationsInv, VectorsNamed
        <3> QED
            BY <2>2, <2>3, <3>1, <3>3, <3>4
    <2>4. CASE run' = [run EXCEPT ![m].del = @ \ {k}, ![m].warned = TRUE] /\ vectorIndexes' = vectorIndexes
        <3>1. PICK n : n = [r EXCEPT !.del = @ \ {k}, !.warned = TRUE]
            OBVIOUS
        <3>2. run' = [run EXCEPT ![m] = n]
            BY <1>1, <2>4, <3>1 DEF MigrationsInv
        <3>3. VectorsNamed'
            BY <2>4 DEF MigrationsInv, VectorsNamed
        <3> QED
            BY <2>2, <2>4, <3>1, <3>2, <3>3
    <2> QED
        BY <1>1, <1>3, <1>5, <2>3, <2>4 DEF DeleteOrphan
<1> QED
    BY <1>4, <1>5

LEMMA QuietKeepsMigrations ==
    ASSUME MigrationsInv, UNCHANGED <<table, vectorIndexes, run>>  PROVE MigrationsInv'
<1>1. VectorsNamed' /\ TableTyped' /\ DOMAIN run' = Migrators
    BY DEF MigrationsInv, VectorsNamed, TableTyped
<1>2. ASSUME NEW q \in Migrators  PROVE IsRun(run'[q]) /\ OnTable(run[q])' /\ AloneFits(q)'
    <2>1. IsRun(run[q]) /\ OnTable(run[q]) /\ AloneFits(q)
        BY DEF MigrationsInv
    <2>2. OnTable(run[q])'
        BY <2>1 DEF OnTable
    <2>3. AloneFits(q)'
        BY <2>1 DEF AloneFits, Alone, Running, TableFits, VectorFits, Converges, Settled
    <2> QED
        BY <2>1, <2>2, <2>3
<1> QED
    BY <1>1, <1>2 DEF MigrationsInv

LEMMA MigrationsInitFits == MigrationsInit => MigrationsInv
<1> SUFFICES ASSUME MigrationsInit  PROVE MigrationsInv
    OBVIOUS
<1>1. DOMAIN NoRun = RunFields /\ NoRun.pc = "idle"
    BY DEF NoRun, RunFields
<1>2. DOMAIN run = Migrators /\ \A m \in Migrators : run[m] = NoRun
    BY DEF MigrationsInit
<1>3. ASSUME NEW m \in Migrators  PROVE IsRun(run[m]) /\ OnTable(run[m]) /\ AloneFits(m)
    BY <1>1, <1>2 DEF IsRun, OnTable, AloneFits, Alone, Running, Ended, TableSteps
<1>4. CASE table = Absent /\ vectorIndexes = <<>>
    BY <1>2, <1>3, <1>4 DEF MigrationsInv, TableTyped, VectorsNamed
<1>5. ASSUME NEW model \in Models, NEW made \in SUBSET DOMAIN model.gsi, table = MadeTable(model, made),
             vectorIndexes = [n \in model.defined |-> [model.vector EXCEPT !.name = n]]
      PROVE  MigrationsInv
    <2>1. PICK gsi : gsi = [n \in made |-> [def |-> model.gsi[n], state |-> "active"]]
        OBVIOUS
    <2>2. DOMAIN table = {"active", "ttl", "gsi"} /\ table.gsi = gsi
        BY <1>5, <2>1 DEF MadeTable
    <2>3. \A n \in DOMAIN gsi : DOMAIN gsi[n] = {"def", "state"}
        BY <2>1
    <2>4. TableTyped
        BY <2>2, <2>3 DEF TableTyped, IsTable
    <2>5. PICK v : v = model.vector
        OBVIOUS
    <2>6. v = [name |-> v.name, shape |-> v.shape, nonfilter |-> v.nonfilter]
        BY <2>5, ModelsAssumption
    <2>7. \A n : [v EXCEPT !.name = n] = [name |-> n, shape |-> v.shape, nonfilter |-> v.nonfilter]
        BY <2>6
    <2>8. \A n \in DOMAIN vectorIndexes :
             vectorIndexes[n] = [name |-> n, shape |-> v.shape, nonfilter |-> v.nonfilter]
        BY <1>5, <2>5, <2>7
    <2>9. VectorsNamed
        BY <2>8 DEF VectorsNamed, IsVector
    <2> QED
        BY <1>2, <1>3, <2>4, <2>9 DEF MigrationsInv
<1> QED
    BY <1>4, <1>5 DEF MigrationsInit

LEMMA MigrationsStep == MigrationsInv /\ [MigrationsNext]_migrations => MigrationsInv'
<1> SUFFICES ASSUME MigrationsInv, [MigrationsNext]_migrations  PROVE MigrationsInv'
    OBVIOUS
<1>1. ASSUME NEW m \in Migrators, NEW model \in Models, StartRun(m, model, "describe", FALSE)
      PROVE  MigrationsInv'
    BY <1>1, StartKeepsMigrations
<1>2. ASSUME NEW m \in Migrators, NEW model \in Models, NEW c \in BOOLEAN,
             StartRun(m, model, "get_index", c)
      PROVE  MigrationsInv'
    BY <1>2, StartKeepsMigrations
<1>3. ASSUME NEW m \in Migrators, Kill(m)  PROVE MigrationsInv'
    BY <1>3, KillKeepsMigrations
<1>4. ASSUME NEW m \in Migrators, DescribeTable(m)  PROVE MigrationsInv'
    BY <1>4, DescribeKeepsMigrations
<1>5. ASSUME NEW m \in Migrators, CreateTable(m)  PROVE MigrationsInv'
    BY <1>5, CreateTableKeepsMigrations
<1>6. ASSUME NEW m \in Migrators, UpdateGsi(m)  PROVE MigrationsInv'
    BY <1>6, UpdateGsiKeepsMigrations
<1>7. ASSUME NEW m \in Migrators, DeleteGsi(m)  PROVE MigrationsInv'
    BY <1>7, DeleteGsiKeepsMigrations
<1>8. ASSUME NEW m \in Migrators, AddGsi(m)  PROVE MigrationsInv'
    BY <1>8, AddGsiKeepsMigrations
<1>9. ASSUME NEW m \in Migrators, WaitForTable(m)  PROVE MigrationsInv'
    BY <1>9, WaitKeepsMigrations
<1>10. ASSUME NEW m \in Migrators, UpdateTtl(m)  PROVE MigrationsInv'
    BY <1>10, TtlKeepsMigrations
<1>11. ASSUME NEW m \in Migrators, GetIndex(m)  PROVE MigrationsInv'
    BY <1>11, GetIndexKeepsMigrations
<1>12. ASSUME NEW m \in Migrators, DeleteIndex(m)  PROVE MigrationsInv'
    BY <1>12, DeleteIndexKeepsMigrations
<1>13. ASSUME NEW m \in Migrators, CreateIndex(m)  PROVE MigrationsInv'
    BY <1>13, CreateIndexKeepsMigrations
<1>14. ASSUME NEW m \in Migrators, ListOrphans(m)  PROVE MigrationsInv'
    BY <1>14, ListOrphansKeepsMigrations
<1>15. ASSUME NEW m \in Migrators, DeleteOrphan(m)  PROVE MigrationsInv'
    BY <1>15, DeleteOrphanKeepsMigrations
<1>16. CASE Progress
    BY <1>16, ProgressKeepsMigrations
<1>17. CASE UNCHANGED migrations
    BY <1>17, QuietKeepsMigrations DEF migrations
<1> QED
    BY <1>1, <1>2, <1>3, <1>4, <1>5, <1>6, <1>7, <1>8, <1>9, <1>10, <1>11, <1>12, <1>13, <1>14,
       <1>15, <1>16, <1>17 DEF MigrationsNext

\* What a caller does leaves the table, the indexes and the runs as they are.
LEMMA RepositoryStepsMigrate ==
    [RepositoryNext]_dynamoState => [MigrationsNext]_migrations \/ UNCHANGED <<table, vectorIndexes, run>>
<1> SUFFICES ASSUME [RepositoryNext]_dynamoState
             PROVE  [MigrationsNext]_migrations \/ UNCHANGED <<table, vectorIndexes, run>>
    OBVIOUS
<1>1. Migrate => MigrationsNext
    BY DEF Migrate
<1>2. \A c \in Callers : One(c) => UNCHANGED <<table, vectorIndexes, run>>
    BY DEF One, stores
<1>3. \A c \in Callers : BatchWrite(c) \/ BatchGet(c) \/ BatchRefused(c) => UNCHANGED <<table, vectorIndexes, run>>
    BY DEF BatchWrite, BatchGet, BatchRefused, migrations
<1>4. \A c \in Callers : StartQuery(c) => UNCHANGED <<table, vectorIndexes, run>>
    BY DEF StartQuery, stores
<1>5. \A c \in Callers : QueryItems(c) => UNCHANGED <<table, vectorIndexes, run>>
    BY DEF QueryItems, migrations
<1>6. \A c \in Callers, op \in {"batch_put", "batch_get"}, keys \in Batches :
         StartBatch(c, op, keys) => UNCHANGED <<table, vectorIndexes, run>>
    BY DEF StartBatch, stores
<1>7. UNCHANGED dynamoState => UNCHANGED <<table, vectorIndexes, run>>
    BY DEF dynamoState, migrations
<1> QED
    BY <1>1, <1>2, <1>3, <1>4, <1>5, <1>6, <1>7 DEF RepositoryNext

LEMMA MigrationsHold == RepositorySpec => []MigrationsInv
<1>1. RepositoryInit => MigrationsInv
    BY MigrationsInitFits DEF RepositoryInit
<1>2. MigrationsInv /\ [RepositoryNext]_dynamoState => MigrationsInv'
    BY RepositoryStepsMigrate, MigrationsStep, QuietKeepsMigrations
<1> QED
    BY <1>1, <1>2, PTL DEF RepositorySpec

Repaired(m) ==
    IF OfTable(m)
    THEN run[m].settled =>
           /\ TableAgrees(table'.gsi, run[m].model)
           /\ run[m].model.ttl # Absent /\ ~run[m].fresh /\ ~run'[m].warned =>
                table'.ttl = run[m].model.ttl
    ELSE VectorsAgree(m)

\* What a run has converged to, with nothing left to do, is its model.
LEMMA NothingLeft ==
    ASSUME NEW r, Converges(r), r.del = {}, r.add = {}
    PROVE  TableAgrees(table.gsi, r.model)
<1>1. Standing(table.gsi) \ r.del = Standing(table.gsi)
    OBVIOUS
<1> QED
    BY <1>1 DEF Converges, TableAgrees

LEMMA TableRunRepairs ==
    ASSUME MigrationsInv, NEW m \in Migrators, Alone(m), run'[m].pc = "done",
           WaitForTable(m) \/ UpdateTtl(m)
    PROVE  Repaired(m)
<1>1. PICK r : r = run[m]
    OBVIOUS
<1>2. r.settled => TableFits(r)
    BY <1>1 DEF MigrationsInv, AloneFits
<1>3. DOMAIN run = Migrators /\ IsRun(r)
    BY <1>1 DEF MigrationsInv
<1>4. CASE WaitForTable(m)
    <2>1. r.pc = "wait_created" /\ table' = table
        <3>1. r.pc = "wait" => run'[m] = Moved(r, "gsi")
            BY <1>1, <1>3, <1>4 DEF WaitForTable, MoveTo
        <3>2. DOMAIN r = RunFields
            BY <1>3 DEF IsRun
        <3>3. Moved(r, "gsi").pc # "done"
            BY <3>2 DEF Moved, Ended, RunFields
        <3> QED
            BY <1>1, <1>4, <3>1, <3>3 DEF WaitForTable, stores
    <2>2. r.settled => Converges(r) /\ r.del = {} /\ r.add = {} /\ r.fresh
        BY <1>2, <2>1 DEF TableFits, TableSteps
    <2>3. r.settled => TableAgrees(table'.gsi, r.model) /\ r.fresh
        BY <2>1, <2>2, NothingLeft
    <2> QED
        BY <1>1, <2>1, <2>3 DEF Repaired, OfTable
<1>5. CASE UpdateTtl(m)
    <2>1. r.pc = "ttl" /\ IsTable(table)
        BY <1>1, <1>5 DEF UpdateTtl, MigrationsInv, OnTable, TableSteps
    <2>2. r.settled => Converges(r) /\ r.del = {} /\ r.add = {}
        BY <1>2, <2>1 DEF TableFits, TableSteps
    <2>3. r.settled => TableAgrees(table.gsi, r.model)
        BY <2>2, NothingLeft
    <2>4. table' = table \/ table' = [table EXCEPT !.ttl = r.model.ttl]
        BY <1>1, <1>5 DEF UpdateTtl, stores
    <2>5. table'.gsi = table.gsi
        BY <2>1, <2>4 DEF IsTable
    <2>6. r.model.ttl # Absent /\ ~run'[m].warned => table'.ttl = r.model.ttl
        <3> SUFFICES ASSUME r.model.ttl # Absent, ~run'[m].warned  PROVE table'.ttl = r.model.ttl
            OBVIOUS
        <3>1. CASE table.ttl = r.model.ttl /\ UNCHANGED stores
            BY <3>1 DEF stores
        <3>2. CASE table' = [table EXCEPT !.ttl = r.model.ttl]
            BY <2>1, <3>2 DEF IsTable
        <3>3. run' # [run EXCEPT ![m] = [NoRun EXCEPT !.pc = "done", !.warned = TRUE]]
            BY <1>3 DEF NoRun
        <3> QED
            BY <1>1, <1>5, <3>1, <3>2, <3>3 DEF UpdateTtl
    <2> QED
        BY <1>1, <2>1, <2>3, <2>5, <2>6 DEF Repaired, OfTable
<1> QED
    BY <1>4, <1>5

LEMMA VectorRunRepairs ==
    ASSUME MigrationsInv, NEW m \in Migrators, Alone(m), run'[m].pc = "done",
           GetIndex(m) \/ CreateIndex(m) \/ DeleteOrphan(m)
    PROVE  Repaired(m)
<1>1. PICK r : r = run[m]
    OBVIOUS
<1>2. VectorFits(r)
    BY <1>1 DEF MigrationsInv, AloneFits
<1>3. DOMAIN run = Migrators /\ IsRun(r) /\ Running(m)
    BY <1>1 DEF MigrationsInv, Alone
<1>4. DOMAIN r = RunFields /\ r.model \in Models /\ r.pc \notin Ended
    BY <1>1, <1>3 DEF IsRun, Running
<1>5. PICK v : v = r.model.vector
    OBVIOUS
<1>6. \A to \in Ended \union TableSteps \union VectorSteps : MoveTo(m, to) => to = "done"
    <2> SUFFICES ASSUME NEW to \in Ended \union TableSteps \union VectorSteps, MoveTo(m, to)  PROVE to = "done"
        OBVIOUS
    <2>1. run'[m] = Moved(r, to)
        BY <1>1, <1>3 DEF MoveTo
    <2>2. PICK n : n = Moved(r, to)
        OBVIOUS
    <2>3. n.pc = to
        BY <1>3, <1>4, <2>2, MovedRun
    <2> QED
        BY <2>1, <2>2, <2>3
<1>7. {"create_index", "delete_index", "cleanup", "failed", "orphans"} \subseteq Ended \union VectorSteps
    BY DEF Ended, VectorSteps
<1>8. CASE GetIndex(m)
    <2>1. r.pc = "get_index" /\ UNCHANGED stores
        BY <1>1, <1>8 DEF GetIndex
    <2>2. v.name \in DOMAIN vectorIndexes /\ ~IndexNeedsUpdate(vectorIndexes[v.name], v) /\ ~r.cleanup
        BY <1>1, <1>5, <1>6, <1>7, <1>8 DEF GetIndex, Model
    <2>3. vectorIndexes[v.name] = v
        BY <1>4, <1>5, <2>2, SameVector
    <2> QED
        BY <1>1, <1>5, <2>1, <2>2, <2>3 DEF Repaired, OfTable, VectorsAgree, Model, stores
<1>9. CASE CreateIndex(m)
    <2>1. r.pc = "create_index"
        BY <1>1, <1>9 DEF CreateIndex
    <2>2. /\ ~r.cleanup
          /\ vectorIndexes' = [n \in DOMAIN vectorIndexes \union {v.name} |->
                                 IF n = v.name THEN v ELSE vectorIndexes[n]]
        BY <1>1, <1>5, <1>6, <1>7, <1>9 DEF CreateIndex, Model
    <2>3. v.name \in DOMAIN vectorIndexes' /\ vectorIndexes'[v.name] = v
        BY <2>2
    <2> QED
        BY <1>1, <1>5, <2>1, <2>2, <2>3 DEF Repaired, OfTable, VectorsAgree, Model
<1>10. CASE DeleteOrphan(m)
    <2>1. r.pc = "orphans"
        BY <1>1, <1>10 DEF DeleteOrphan
    <2>2. r.del = {} /\ Conclude(m) /\ vectorIndexes' = vectorIndexes
        <3>1. \A s : run' # [run EXCEPT ![m].del = s] /\ run' # [run EXCEPT ![m].del = s, ![m].warned = TRUE]
            <4> SUFFICES ASSUME NEW s, \/ run' = [run EXCEPT ![m].del = s]
                                       \/ run' = [run EXCEPT ![m].del = s, ![m].warned = TRUE]
                         PROVE  FALSE
                OBVIOUS
            <4>1. run'[m] = [r EXCEPT !.del = s] \/ run'[m] = [r EXCEPT !.del = s, !.warned = TRUE]
                BY <1>1, <1>3
            <4>2. run'[m].pc = r.pc
                BY <1>4, <4>1 DEF RunFields
            <4> QED
                BY <2>1, <4>2
        <3> QED
            BY <1>1, <1>10, <3>1 DEF DeleteOrphan
    <2>3. run'[m].warned = r.warned
        BY <1>1, <1>3, <2>2 DEF Conclude, NoRun
    <2>4. /\ v.name \in DOMAIN vectorIndexes /\ vectorIndexes[v.name] = v
          /\ ~r.warned => DOMAIN vectorIndexes \subseteq r.del \union r.model.defined
        BY <1>2, <1>5, <2>1 DEF VectorFits
    <2> QED
        BY <1>1, <1>5, <2>1, <2>2, <2>3, <2>4 DEF Repaired, OfTable, VectorsAgree, Model
<1> QED
    BY <1>8, <1>9, <1>10

\* A run ends by one of these steps of its own.
LEMMA EndsByItself ==
    ASSUME MigrationsInv, MigrationsNext, NEW m \in Migrators, Ends(m)
    PROVE  \/ WaitForTable(m) \/ UpdateTtl(m)
           \/ GetIndex(m) \/ CreateIndex(m) \/ DeleteOrphan(m)
<1>1. DOMAIN run = Migrators /\ Running(m) /\ run[m].pc # "done" /\ run'[m].pc = "done"
    BY DEF MigrationsInv, Ends, Running, Ended
<1>2. IsRun(run[m]) /\ DOMAIN run[m] = RunFields /\ run[m].pc \notin Ended
    BY <1>1 DEF MigrationsInv, IsRun, Running
<1>3. \A to \in Ended \union TableSteps \union VectorSteps : MoveTo(m, to) => to = "done"
    <2> SUFFICES ASSUME NEW to \in Ended \union TableSteps \union VectorSteps, MoveTo(m, to)  PROVE to = "done"
        OBVIOUS
    <2>1. PICK r : r = run[m]
        OBVIOUS
    <2>2. run'[m] = Moved(r, to)
        BY <1>1, <2>1 DEF MoveTo
    <2>3. PICK n : n = Moved(r, to)
        OBVIOUS
    <2>4. n.pc = to
        BY <1>2, <2>1, <2>3, MovedRun
    <2> QED
        BY <1>1, <2>2, <2>3, <2>4
<1>4. ~MoveTo(m, "dead") /\ ~MoveTo(m, "create") /\ ~MoveTo(m, "failed") /\ ~MoveTo(m, "delete")
      /\ ~MoveTo(m, "add") /\ ~MoveTo(m, "ttl") /\ ~MoveTo(m, "create_index")
    BY <1>3 DEF Ended, TableSteps, VectorSteps
<1>5. ~NotFound(m) /\ ~Refuse(m)
    BY <1>4 DEF NotFound, Refuse
<1>6. ~DescribeTable(m)
    <2>1. run' = [run EXCEPT ![m].pc = "gsi", ![m].del = ToDelete(table.gsi, run[m].model),
                             ![m].add = ToAdd(table.gsi, run[m].model)] => run'[m].pc = "gsi"
        BY <1>1, <1>2 DEF RunFields
    <2> QED
        BY <1>1, <1>5, <2>1 DEF DescribeTable
<1>7. ~CreateTable(m)
    <2>1. run' = [run EXCEPT ![m].pc = "wait_created", ![m].fresh = TRUE] => run'[m].pc = "wait_created"
        BY <1>1, <1>2 DEF RunFields
    <2> QED
        BY <1>1, <1>5, <2>1 DEF CreateTable
<1>8. ~DeleteGsi(m)
    <2>1. \A n : run' = [run EXCEPT ![m].pc = "wait", ![m].del = @ \ {n}] => run'[m].pc = "wait"
        BY <1>1, <1>2 DEF RunFields
    <2> QED
        BY <1>1, <1>5, <2>1 DEF DeleteGsi
<1>9. ~AddGsi(m)
    <2>1. \A n : run' = [run EXCEPT ![m].pc = "wait", ![m].add = @ \ {n}] => run'[m].pc = "wait"
        BY <1>1, <1>2 DEF RunFields
    <2> QED
        BY <1>1, <1>5, <2>1 DEF AddGsi
<1>10. ~ListOrphans(m)
    <2>1. run' = [run EXCEPT ![m].pc = "orphans", ![m].del = DOMAIN vectorIndexes \ run[m].model.defined] =>
            run'[m].pc = "orphans"
        BY <1>1, <1>2 DEF RunFields
    <2> QED
        BY <1>1, <2>1 DEF ListOrphans
<1>11. ~Kill(m) /\ ~UpdateGsi(m) /\ ~DeleteIndex(m)
    BY <1>4 DEF Kill, UpdateGsi, DeleteIndex
<1>12. ~Progress
    BY <1>1 DEF Progress
<1>13. ASSUME NEW q \in Migrators, NEW model, NEW first, NEW c, StartRun(q, model, first, c)  PROVE FALSE
    <2>1. q # m
        BY <1>1, <1>13 DEF StartRun
    <2>2. run'[m] = [run[m] EXCEPT !.alone = @ /\ ~Running(m)]
        BY <1>13, <2>1 DEF StartRun
    <2>3. run'[m].pc = run[m].pc
        BY <1>2, <2>2 DEF RunFields
    <2> QED
        BY <1>1, <2>3
<1>14. ASSUME NEW q \in Migrators \ {m}, NEW n, run' = [run EXCEPT ![q] = n]  PROVE FALSE
    BY <1>1, <1>14
<1>15. ASSUME NEW q \in Migrators \ {m},
              \/ Kill(q) \/ DescribeTable(q) \/ CreateTable(q) \/ UpdateGsi(q) \/ DeleteGsi(q)
              \/ AddGsi(q) \/ WaitForTable(q) \/ UpdateTtl(q) \/ GetIndex(q) \/ DeleteIndex(q)
              \/ CreateIndex(q) \/ ListOrphans(q) \/ DeleteOrphan(q)
       PROVE  FALSE
    <2>1. \A to : ~MoveTo(q, to)
        BY <1>14, <1>15 DEF MoveTo
    <2>2. ~NotFound(q) /\ ~Refuse(q)
        BY <2>1 DEF NotFound, Refuse
    <2>3. ~Conclude(q)
        BY <1>14, <1>15 DEF Conclude
    <2>4. run'[m] # run[m]
        BY <1>1
    <2>5. ~Kill(q) /\ ~UpdateGsi(q) /\ ~WaitForTable(q) /\ ~GetIndex(q) /\ ~DeleteIndex(q) /\ ~CreateIndex(q)
        BY <2>1 DEF Kill, UpdateGsi, WaitForTable, GetIndex, DeleteIndex, CreateIndex
    <2>6. ~DescribeTable(q) /\ ~CreateTable(q)
        BY <1>1, <2>2, <2>4 DEF DescribeTable, CreateTable
    <2>7. ~DeleteGsi(q) /\ ~AddGsi(q)
        BY <1>1, <2>2, <2>4 DEF DeleteGsi, AddGsi
    <2>8. ~UpdateTtl(q)
        BY <1>1, <2>1, <2>4 DEF UpdateTtl
    <2>9. ~ListOrphans(q) /\ ~DeleteOrphan(q)
        BY <1>1, <2>3, <2>4 DEF ListOrphans, DeleteOrphan
    <2> QED
        BY <1>15, <2>5, <2>6, <2>7, <2>8, <2>9
<1> QED
    BY <1>6, <1>7, <1>8, <1>9, <1>10, <1>11, <1>12, <1>13, <1>15 DEF MigrationsNext

\* A migrator that ran alone over settled stores, and ended well, leaves them as
\* its models say, whatever was killed or refused before it and from whichever
\* release (DynamoDBMigrator, S3VectorMigrator).
THEOREM RerunRepairsHolds == RepositorySpec => RerunRepairs
<1>1. MigrationsInv /\ [RepositoryNext]_dynamoState =>
        [\A m \in Migrators : Ends(m) /\ run[m].alone => Repaired(m)]_migrations
    <2> SUFFICES ASSUME MigrationsInv, [RepositoryNext]_dynamoState, NEW m \in Migrators, Ends(m), run[m].alone
                 PROVE  Repaired(m) \/ UNCHANGED migrations
        OBVIOUS
    <2>1. Alone(m) /\ run'[m].pc = "done" /\ run'[m] # run[m]
        BY DEF Ends, Alone, Running, Ended
    <2>2. MigrationsNext \/ UNCHANGED migrations
        BY <2>1, RepositoryStepsMigrate
    <2>3. CASE MigrationsNext
        BY <2>1, <2>3, EndsByItself, TableRunRepairs, VectorRunRepairs
    <2> QED
        BY <2>2, <2>3
<1> QED
    BY <1>1, MigrationsHold, PTL DEF RepositorySpec, RerunRepairs, Repaired
=============================================================================
