------------------------------ MODULE UserCrud ------------------------------
(***************************************************************************)
(* The generic CRUD stack as the user domain uses it: BaseService          *)
(* validates, BaseRepository opens one database session per query or       *)
(* write, the unique constraints of the table have the last word, and      *)
(* UserRepository turns their refusal into a conflict it looks up again.   *)
(* A step is one statement of a session, under READ COMMITTED: an insert   *)
(* waits for a rival that is not committed yet, and the database breaks    *)
(* the circles this may close.  Readers page through the table meanwhile.  *)
(***************************************************************************)
EXTENDS Naturals, Sequences, FiniteSets, Functions, SequencesExt

CONSTANTS Names, Mails,   \* the values of the two unique columns
          MaxId,          \* bound on the ids the sequence hands out
          Targets,        \* the ids that updates and deletions name
          Writers,        \* requests that write, each sent once
          Readers,        \* clients that walk through the pages of a list
          PageSize,
          Searches,       \* what a list may be asked for, None for no search
          None

ASSUME TargetsAssumption == Targets \subseteq 1 .. MaxId
ASSUME BoundsAssumption == MaxId \in Nat \ {0} /\ PageSize \in Nat \ {0}
ASSUME SearchesAssumption ==
    Searches \subseteq {None} \union
        [term : Names \union Mails, fields : SUBSET {"id", "username", "email"}]
ASSUME NoneAssumption == None \notin Names \union Mails
ASSUME ColumnsAssumption == Names # {} /\ Mails # {}
ASSUME ActorsAssumption == Writers \intersect Readers = {}

Fields == {"username", "email"}
FieldOrder == <<"username", "email">>
Ids == 1 .. MaxId
UserRows == [id : Ids, username : Names, email : Mails]
CreateUserRequest == [username : Names, email : Mails]
UpdateUserRequest == [username : Names \union {None}, email : Mails \union {None}]
VARIABLES table,      \* the committed rows
          nextId,     \* the sequence of the primary key
          pc, op,     \* where a request is and what it does
          req,        \* for a writer: what it works with, see NoReq
          out,        \* the answer
          list,       \* for a reader: what it asked for and got so far
          rivals,     \* history: rows that refused a write and have not changed since
          moved,      \* history: kinds of commits since a walk began
          wrote       \* history: the requests that committed something

histVars == <<rivals, moved, wrote>>
vars == <<table, nextId, pc, op, req, out, list, histVars>>

Procs == Writers \union Readers
NoRow == [id |-> 0]
NoReq == [ents |-> <<>>,   \* the entities of the request
          tgt |-> 0,       \* the id it works on
          at |-> 0,        \* lookups or inserts done
          errs |-> {},     \* fields found in conflict
          held |-> {},     \* rows its open transaction has inserted
          seen |-> NoRow]  \* the row its session has loaded
NoList == [page |-> 0, sort |-> "none", search |-> None, batch |-> <<>>,
           items |-> <<>>, from |-> {}]
Ops == {"create", "batch", "update", "delete", "list"}
Answers == {"none", "ok", "400", "404", "409", "422", "500", "commit_lost", "bad_search"}

Row(i) == CHOOSE row \in table : row.id = i
Stored(i) == \E row \in table : row.id = i

\* The unique constraints of the table, one for each of the two columns.
Clash(a, b) == a.username = b.username \/ a.email = b.email

Init ==
    /\ table \in {{}, {CHOOSE row \in UserRows : row.id = 1}}
    /\ nextId = Cardinality(table) + 1
    /\ pc = [p \in Procs |-> "idle"]
    /\ op = [p \in Procs |-> "none"]
    /\ req = [w \in Writers |-> NoReq]
    /\ out = [p \in Procs |-> "none"]
    /\ list = [l \in Readers |-> NoList]
    /\ rivals = [w \in Writers |-> {}]
    /\ moved = [l \in Readers |-> {}]
    /\ wrote = {}

-----------------------------------------------------------------------------
(* Steps.                                                                   *)

Goto(p, label) == pc' = [pc EXCEPT ![p] = label] /\ UNCHANGED out
End(p, a) == pc' = [pc EXCEPT ![p] = "end"] /\ out' = [out EXCEPT ![p] = a]

\* mutant: the session of a failed request is left open
AnswerInSession(w, a) ==
    End(w, a) /\ req' = [req EXCEPT ![w] = [NoReq EXCEPT !.held = req[w].held]]

\* Database.session rolls back and closes, whatever ended the block.
Answer(w, a) == End(w, a) /\ req' = [req EXCEPT ![w] = NoReq]

\* A commit changes the table; the walks that are under way notice.
Store(w, rows, kind) ==
    /\ table' = rows
    /\ wrote' = wrote \union {w}
    /\ moved' = [l \in Readers |-> IF pc[l] = "idle" THEN {} ELSE moved[l] \union {kind}]
    /\ rivals' = [q \in Writers |-> rivals[q] \intersect rows]

-----------------------------------------------------------------------------
(* BaseService: validation comes first, in sessions of its own.             *)

Accept(w, o, es, i, label) ==
    /\ pc[w] = "idle"
    /\ op' = [op EXCEPT ![w] = o]
    /\ req' = [req EXCEPT ![w].ents = es, ![w].tgt = i]
    /\ Goto(w, label)
    /\ UNCHANGED <<table, nextId, list, histVars>>

CreateData(w) ==
    \E e \in CreateUserRequest : Accept(w, "create", <<e>>, 0, "validate")

\* collect_duplicate_field_errors: a payload that repeats a value is refused.
Duplicated(es) == \E i, k \in DOMAIN es : i < k /\ Clash(es[i], es[k])

CreateDatas(w) ==
    \E es \in CreateUserRequest \X CreateUserRequest :
        \/ ~Duplicated(es) /\ Accept(w, "batch", es, 0, "validate")
        \/ /\ Duplicated(es) /\ pc[w] = "idle"
           /\ op' = [op EXCEPT ![w] = "batch"]
           /\ Answer(w, "422")
           /\ UNCHANGED <<table, nextId, list, histVars>>

UpdateDataByDataId(w) ==
    \E e \in UpdateUserRequest, i \in Targets : Accept(w, "update", <<e>>, i, "validate")

DeleteDataByDataId(w) == \E i \in Targets : Accept(w, "delete", <<>>, i, "select")

\* exists_by_fields and existing_values_by_field, without the row exclude_id.
Taken(f, es, exclude) ==
    \E row \in table : row.id # exclude /\ \E e \in ToSet(es) : row[f] = e[f]

Found(w, f, es) == IF Taken(f, es, req[w].tgt) THEN req[w].errs \union {f} ELSE req[w].errs

\* One field of collect_unique_field_errors or its variant for a batch.
Validate(w) ==
    /\ pc[w] = "validate"
    /\ LET found == Found(w, FieldOrder[req[w].at + 1], req[w].ents) IN
       CASE req[w].at + 1 < Len(FieldOrder) ->
               /\ req' = [req EXCEPT ![w].errs = found, ![w].at = @ + 1]
               /\ UNCHANGED <<pc, out>>
         [] OTHER ->
               IF found # {} THEN Answer(w, "409")
               ELSE /\ Goto(w, IF op[w] = "update" THEN "select" ELSE "insert")
                    /\ req' = [req EXCEPT ![w].errs = {}, ![w].at = 0]
    /\ UNCHANGED <<table, nextId, op, list, histVars>>

-----------------------------------------------------------------------------
(* BaseRepository: the writes.                                              *)

\* The columns an UPDATE names: those whose value differs from the loaded one.
Dirty(w) == {f \in Fields : req[w].ents[1][f] \notin {None, req[w].seen[f]}}

\* A statement touches values that an open transaction has inserted.
WaitsFor(w, q) ==
    /\ q # w
    /\ \/ /\ pc[w] = "insert"
          /\ \E h \in req[q].held : Clash(h, req[w].ents[req[w].at + 1])
       \/ /\ pc[w] = "update" /\ Stored(req[w].tgt)
          /\ \E h \in req[q].held, f \in Dirty(w) : h[f] = req[w].ents[1][f]
Waits(w) == \E q \in Writers : WaitsFor(w, q)

\* IntegrityError: Database.session rolls back and raises DB_INTEGRITY_ERROR.
Refused(w, rows) ==
    /\ rows # {}
    /\ Goto(w, "recheck")
    /\ req' = [req EXCEPT ![w].held = {}, ![w].at = 0, ![w].seen = NoRow]
    /\ rivals' = [rivals EXCEPT ![w] = rows]
    /\ UNCHANGED <<table, nextId, op, list, moved, wrote>>

\* The flush of insert_data or insert_datas reaches the next entity.
InsertRow(w) ==
    /\ pc[w] = "insert" /\ ~Waits(w)
    /\ LET e == req[w].ents[req[w].at + 1]
           new == [id |-> nextId, username |-> e.username, email |-> e.email]
           last == req[w].at + 1 = Len(req[w].ents)
       IN \/ Refused(w, {row \in table : Clash(row, e)})
          \/ /\ \A row \in table : ~Clash(row, e)
             /\ nextId <= MaxId
             /\ nextId' = nextId + 1
             /\ req' = [req EXCEPT ![w].held = @ \union {new},
                                   ![w].tgt = IF op[w] = "create" THEN new.id ELSE @,
                                   ![w].at = IF last THEN 0 ELSE @ + 1]
             /\ Goto(w, IF ~last THEN "insert"
                        ELSE IF op[w] = "batch" THEN "populate" ELSE "commit")
             /\ UNCHANGED <<table, op, list, histVars>>

\* _populate_defaults reads a batch back inside its transaction.
PopulateDefaults(w) ==
    /\ pc[w] = "populate"
    /\ Goto(w, "commit")
    /\ UNCHANGED <<table, nextId, op, req, list, histVars>>

\* What a write of one row goes on with: the refresh of the row it committed.
ThenRefresh(w) ==
    /\ Goto(w, "refresh")
    /\ req' = [req EXCEPT ![w] = [NoReq EXCEPT !.tgt = req[w].tgt]]

CommitEach(w) ==  \* mutant: a batch commits first and is read back afterwards
    /\ pc[w] = "commit"
    /\ Store(w, table \union req[w].held, "insert")
    /\ ThenRefresh(w)
    /\ UNCHANGED <<nextId, op, list>>

Commit(w) ==
    /\ pc[w] = "commit"
    /\ Store(w, table \union req[w].held, "insert")
    /\ IF op[w] = "batch" THEN Answer(w, "ok") ELSE ThenRefresh(w)
    /\ UNCHANGED <<nextId, op, list>>

\* The connection drops on COMMIT, which the server may have executed.
CommitLost(w) ==
    /\ pc[w] = "commit"
    /\ \/ Store(w, table \union req[w].held, "insert")
       \/ UNCHANGED <<table, histVars>>
    /\ Answer(w, "commit_lost")
    /\ UNCHANGED <<nextId, op, list>>

\* session.refresh after the commit raises when the row is gone again.
Refresh(w) ==
    /\ pc[w] = "refresh"
    /\ Answer(w, IF op[w] = "batch" \/ Stored(req[w].tgt) THEN "ok" ELSE "500")
    /\ UNCHANGED <<table, nextId, op, list, histVars>>

SelectRow(w) ==
    /\ pc[w] = "select"
    /\ \/ /\ Stored(req[w].tgt)
          /\ Goto(w, op[w])
          /\ req' = [req EXCEPT ![w].seen = Row(req[w].tgt)]
       \/ ~Stored(req[w].tgt) /\ Answer(w, "404")
    /\ UNCHANGED <<table, nextId, op, list, histVars>>

UpdatedWhole(w, row) ==  \* mutant: the UPDATE writes every column it loaded
    [f \in DOMAIN row |-> IF f \in Dirty(w) THEN req[w].ents[1][f] ELSE req[w].seen[f]]

Updated(w, row) ==
    [f \in DOMAIN row |-> IF f \in Dirty(w) THEN req[w].ents[1][f] ELSE row[f]]

\* The UPDATE and its COMMIT: without a changed column there is no statement,
\* and one that finds no row any more is a StaleDataError.
UpdateRow(w) ==
    /\ pc[w] = "update" /\ ~Waits(w)
    /\ LET clashing == {row \in table : row.id # req[w].tgt /\
                            \E f \in Dirty(w) : row[f] = req[w].ents[1][f]}
       IN \/ /\ Dirty(w) = {}
             /\ ThenRefresh(w)
             /\ UNCHANGED <<table, nextId, op, list, histVars>>
          \/ /\ Dirty(w) # {} /\ ~Stored(req[w].tgt)
             /\ Answer(w, "500")
             /\ UNCHANGED <<table, nextId, op, list, histVars>>
          \/ Dirty(w) # {} /\ Stored(req[w].tgt) /\ Refused(w, clashing)
          \/ /\ Dirty(w) # {} /\ Stored(req[w].tgt) /\ clashing = {}
             /\ Store(w, {IF row.id = req[w].tgt THEN Updated(w, row) ELSE row : row \in table},
                      "update")
             /\ ThenRefresh(w)
             /\ UNCHANGED <<nextId, op, list>>

\* A row that is gone by now costs a warning only.
DeleteRow(w) ==
    /\ pc[w] = "delete"
    /\ Store(w, {row \in table : row.id # req[w].tgt}, "delete")
    /\ Answer(w, "ok")
    /\ UNCHANGED <<nextId, op, list>>

RecheckFirst(w) ==  \* mutant: only the first entity of a batch is looked up
    /\ pc[w] = "recheck"
    /\ LET found == Found(w, FieldOrder[req[w].at + 1], <<req[w].ents[1]>>)
       IN IF req[w].at + 1 < Len(FieldOrder)
          THEN req' = [req EXCEPT ![w].errs = found, ![w].at = @ + 1] /\ UNCHANGED <<pc, out>>
          ELSE Answer(w, IF found # {} THEN "409" ELSE "400")
    /\ UNCHANGED <<table, nextId, op, list, histVars>>

\* _raise_user_unique_conflict_if_present: entity by entity, field by field.
Recheck(w) ==
    /\ pc[w] = "recheck"
    /\ LET n == Len(FieldOrder)
           entity == (req[w].at \div n) + 1
           field == (req[w].at % n) + 1
           found == Found(w, FieldOrder[field], <<req[w].ents[entity]>>)
       IN CASE field = n /\ found # {} -> Answer(w, "409")
            [] field = n /\ found = {} /\ entity = Len(req[w].ents) -> Answer(w, "400")
            [] OTHER -> /\ req' = [req EXCEPT ![w].errs = found, ![w].at = @ + 1]
                        /\ UNCHANGED <<pc, out>>
    /\ UNCHANGED <<table, nextId, op, list, histVars>>

\* The database fails, or the client goes away, between two statements.
Fail(w) ==
    /\ pc[w] \notin {"idle", "end"}
    /\ Answer(w, "500")
    /\ UNCHANGED <<table, nextId, op, list, histVars>>

\* The database breaks a circle of waiting transactions: one of them fails,
\* with an error that is no IntegrityError.
Circle(s) == s # {} /\ \A w \in s : \E q \in s : WaitsFor(w, q)
BreakDeadlock(w) ==
    /\ \E s \in SUBSET Writers : w \in s /\ Circle(s) /\ \A t \in SUBSET s : Circle(t) => t = s
    /\ Fail(w)

-----------------------------------------------------------------------------
(* The lists: a page and the count are two statements of one session.       *)

Searchable == {"username", "email"}

\* The fields a search may use; "bad_search" when none of them can be.
SearchConditions(search) == search.fields \intersect Searchable
FailsClosed(search) == search # None /\ search.fields # {} /\ SearchConditions(search) = {}

Matching(search) ==
    IF search = None \/ search.fields = {} THEN table
    ELSE IF SearchConditions(search) = {} THEN table
    ELSE {row \in table : \E f \in SearchConditions(search) : row[f] = search.term}

AnyOrder(s) == TRUE  \* mutant: no tiebreaker

\* The orders an engine may return: by the primary key, descending, also to
\* break the ties of a column all rows agree on.
StableOrder(s) == \A i, k \in DOMAIN s : i < k => s[i].id > s[k].id
Listings(rows, sort) ==
    {s \in SetToSeqs(rows) :
        IF sort = "id_asc" THEN StableOrder(Reverse(s)) ELSE StableOrder(s)}

GetDatas(l) ==
    \E sort \in {"id_asc", "other"}, search \in Searches :
        /\ pc[l] = "idle"
        /\ op' = [op EXCEPT ![l] = "list"]
        /\ IF FailsClosed(search) THEN End(l, "bad_search") ELSE Goto(l, "page")
        /\ list' = [list EXCEPT ![l] = [NoList EXCEPT !.page = 1, !.sort = sort,
                       !.search = search, !.from = {row.id : row \in Matching(search)}]]
        /\ UNCHANGED <<table, nextId, req, histVars>>

SelectPage(l) ==
    /\ pc[l] = "page"
    /\ \E s \in Listings(Matching(list[l].search), list[l].sort) :
           LET first == (list[l].page - 1) * PageSize + 1
               last == list[l].page * PageSize
           IN list' = [list EXCEPT ![l].batch = SubSeq(s, first, IF last > Len(s) THEN Len(s) ELSE last)]
    /\ Goto(l, "count")
    /\ UNCHANGED <<table, nextId, op, req, histVars>>

\* make_pagination: the number of pages, rounded up.
TotalPages(total) == (total + PageSize - 1) \div PageSize

\* The count, and the client that follows next_page while has_next.
CountDatas(l) ==
    /\ pc[l] = "count"
    /\ list' = [list EXCEPT ![l].page = @ + 1, ![l].batch = <<>>,
                            ![l].items = @ \o list[l].batch]
    /\ IF list[l].page < TotalPages(Cardinality(Matching(list[l].search)))
       THEN Goto(l, "page") ELSE End(l, "ok")
    /\ UNCHANGED <<table, nextId, op, req, histVars>>

-----------------------------------------------------------------------------
Continue(w) ==
    \/ Validate(w) \/ InsertRow(w) \/ PopulateDefaults(w) \/ Commit(w)
    \/ Refresh(w) \/ SelectRow(w) \/ UpdateRow(w) \/ DeleteRow(w) \/ Recheck(w)

Receive(w) == CreateData(w) \/ CreateDatas(w) \/ UpdateDataByDataId(w) \/ DeleteDataByDataId(w)

Read(l) == SelectPage(l) \/ CountDatas(l)

Next ==
    \/ \E w \in Writers :
           Receive(w) \/ Continue(w) \/ CommitLost(w) \/ Fail(w) \/ BreakDeadlock(w)
    \/ \E l \in Readers : GetDatas(l) \/ Read(l)

Spec == Init /\ [][Next]_vars

\* The event loop resumes a request whose statement returned, and the
\* database finds deadlocks; nothing needs to fail otherwise.
FairSpec ==
    /\ Spec
    /\ \A w \in Writers : WF_vars(Continue(w)) /\ WF_vars(BreakDeadlock(w))
    /\ \A l \in Readers : WF_vars(Read(l))

-----------------------------------------------------------------------------
\* Type invariant.  Rows stay uncommitted only while their transaction runs.
CrudTypeOK ==
    /\ table \subseteq UserRows
    /\ nextId \in 1 .. MaxId + 1
    /\ pc \in [Procs -> {"idle", "validate", "insert", "populate", "commit", "refresh",
                         "select", "update", "delete", "recheck", "page", "count", "end"}]
    /\ op \in [Procs -> Ops \union {"none"}]
    /\ \A w \in Writers : /\ ToSet(req[w].ents) \subseteq UpdateUserRequest
                          /\ req[w].tgt \in Ids \union {0}
                          /\ req[w].at \in 0 .. 4
                          /\ req[w].errs \subseteq Fields
                          /\ req[w].held \subseteq UserRows
                          /\ req[w].held # {} => pc[w] \in {"insert", "populate", "commit"}
                          /\ req[w].seen \in UserRows \union {NoRow}
                          /\ rivals[w] \subseteq table
    /\ out \in [Procs -> Answers]
    /\ \A l \in Readers : /\ list[l].page \in 0 .. MaxId + 1
                          /\ ToSet(list[l].items) \subseteq UserRows
                          /\ list[l].from \subseteq Ids
                          /\ moved[l] \subseteq {"insert", "update", "delete"}
    /\ wrote \subseteq Writers

\* A writer that loses such a race is told which field is taken (409).  It
\* gets the bare integrity error only when every row that refused its write
\* had been removed or changed before it was looked up again.
RawRefusalOnlyIfRivalGone == \A w \in Writers : out[w] = "400" => rivals[w] = {}

\* An error means that nothing was written.  Excepted are the answer of COMMIT
\* itself when it is lost, and the read after the commit of a single row; a
\* batch is read before it commits, so that it "returns a 500 for rows
\* already written" never (insert_datas).
ErrorsWriteNothing ==
    \A w \in wrote : \/ out[w] \in {"none", "ok", "commit_lost"}
                     \/ out[w] = "500" /\ op[w] \in {"create", "update"}

\* Updates of different columns of one user do not undo each other: a column
\* only takes a value that some update of this user asks for.
NoLostUpdate ==
    [][\A a \in table, b \in table' : a.id = b.id => \A f \in Fields :
           b[f] # a[f] => \E w \in Writers :
               pc[w] = "update" /\ req[w].tgt = a.id /\ req[w].ents[1][f] = b[f]]_vars

\* A client that follows next_page to the end sees every row that stayed,
\* unless a row was removed or changed meanwhile, and sees none twice, unless
\* one was added or changed: offsets shift, but ties never reorder pages.
WalkVisitsEach ==
    \A l \in Readers : out[l] = "ok" =>
        /\ moved[l] \subseteq {"insert"} =>
               list[l].from \subseteq {row.id : row \in ToSet(list[l].items)}
        /\ moved[l] \subseteq {"delete"} => IsInjective(list[l].items)

\* Every request ends, also when two batches insert the same users in
\* opposite orders and wait for each other.
EveryRequestEnds == \A p \in Procs : pc[p] # "idle" ~> pc[p] = "end"
=============================================================================
