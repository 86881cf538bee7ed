--------------------------- MODULE UserCrudProofs ---------------------------
(***************************************************************************)
(* Theorems about UserCrud, for every set of names, mail addresses,        *)
(* writers and readers and every size of a page: what a refused writer is  *)
(* told, what an error has written, what an update may change, and what a  *)
(* walk through the pages of a list sees.                                  *)
(***************************************************************************)
EXTENDS UserCrud, FiniteSetTheorems, SequenceTheorems, TLAPS

-----------------------------------------------------------------------------
(* The inductive invariant.                                                *)

Shape ==
    /\ DOMAIN pc = Procs /\ DOMAIN op = Procs /\ DOMAIN out = Procs
    /\ DOMAIN req = Writers /\ DOMAIN rivals = Writers
    /\ DOMAIN list = Readers /\ DOMAIN moved = Readers
    /\ wrote \subseteq Writers

\* The primary key: an id is handed out once, to a committed row or to one
\* that an open transaction holds.
KeysAreUnique ==
    /\ table \subseteq UserRows /\ IsFiniteSet(table)
    /\ nextId \in 1 .. MaxId + 1
    /\ \A a \in table : a.id < nextId
    /\ \A a, b \in table : a.id = b.id => a = b
    /\ \A w \in Writers :
         /\ req[w].held \subseteq UserRows /\ IsFiniteSet(req[w].held)
         /\ \A h \in req[w].held : h.id < nextId /\ \A a \in table : a.id # h.id
         /\ \A h, g \in req[w].held : h.id = g.id => h = g
         /\ \A q \in Writers \ {w} : \A h \in req[w].held, g \in req[q].held : h.id # g.id

IsReq(r) == r = [f \in {"ents", "tgt", "at", "errs", "held", "seen"} |-> r[f]]

\* Where a writer is says what it works with.
ReqFits(w) ==
    /\ IsReq(req[w])
    /\ req[w].ents \in Seq(UpdateUserRequest) /\ Len(req[w].ents) \in 0 .. 2
    /\ req[w].tgt \in Ids \union {0} /\ req[w].at \in 0 .. 3 /\ req[w].errs \subseteq Fields
    /\ req[w].seen \in UserRows \union {NoRow}
    /\ pc[w] = "idle" => req[w] = NoReq
    /\ pc[w] \in {"validate", "insert", "update", "recheck"} => Len(req[w].ents) >= 1
    /\ pc[w] \in {"validate", "select"} /\ op[w] = "update" => Len(req[w].ents) = 1
    /\ pc[w] \in {"validate", "insert"} /\ op[w] = "create" => Len(req[w].ents) = 1
    /\ pc[w] \in {"validate", "insert"} /\ op[w] # "update" =>
         req[w].ents \in Seq(CreateUserRequest) /\ req[w].tgt = 0
    /\ pc[w] = "validate" => req[w].at <= 1
    /\ pc[w] = "insert" => req[w].at < Len(req[w].ents)
    /\ pc[w] = "recheck" => req[w].at < 2 * Len(req[w].ents)
    /\ pc[w] = "update" => req[w].seen \in UserRows
    /\ req[w].held # {} => pc[w] \in {"insert", "populate", "commit"}

WriterSteps == {"idle", "validate", "insert", "populate", "commit", "refresh", "select",
                "update", "delete", "recheck", "end"}

OpFits(w) ==
    /\ pc[w] \in WriterSteps
    /\ op[w] \in Ops \union {"none"} /\ out[w] \in Answers
    /\ pc[w] # "end" => out[w] = "none"
    /\ pc[w] = "validate" => op[w] \in {"create", "batch", "update"}
    /\ pc[w] \in {"insert", "commit"} => op[w] \in {"create", "batch"}
    /\ pc[w] = "populate" => op[w] = "batch"
    /\ pc[w] = "refresh" => op[w] \in {"create", "update"}
    /\ pc[w] = "select" => op[w] \in {"update", "delete"}
    /\ pc[w] \in {"update", "delete"} => op[w] = pc[w]

\* The lookup has not come to the value that the row shares with an entity
\* of the request, or has found some field taken already.
Unseen(w, row) ==
    \E k \in 1 .. Len(req[w].ents), j \in 1 .. 2 :
        /\ row[FieldOrder[j]] = req[w].ents[k][FieldOrder[j]]
        /\ 2 * (k - 1) + j - 1 >= req[w].at \/ req[w].errs # {}

RivalsFit(w) ==
    /\ rivals[w] \subseteq table
    /\ pc[w] = "recheck" => \A row \in rivals[w] : row.id # req[w].tgt /\ Unseen(w, row)
    /\ out[w] = "400" => rivals[w] = {}

\* Whoever has committed reads its row back, or has answered.
WroteFits(w) ==
    w \in wrote => \/ pc[w] = "refresh"
                   \/ pc[w] = "end" /\ out[w] \in {"ok", "commit_lost"}
                   \/ pc[w] = "end" /\ out[w] = "500" /\ op[w] \in {"create", "update"}

WriterFits(w) == ReqFits(w) /\ OpFits(w) /\ RivalsFit(w) /\ WroteFits(w)

IsList(r) == r = [f \in {"page", "sort", "search", "batch", "items", "from"} |-> r[f]]

\* The rows before a row in the order of a walk.
Before(sort, a, b) == IF sort = "id_asc" THEN a.id < b.id ELSE a.id > b.id
Rank(rows, sort, row) == Cardinality({a \in rows : Before(sort, a, row)})
RankOf(l, row) == Rank(Matching(list[l].search), list[l].sort, row)

\* What a walk has seen, and how many rows its next page will pass over.
Got(l) == list[l].items \o list[l].batch
Offset(l) == IF pc[l] = "page" THEN (list[l].page - 1) * PageSize ELSE list[l].page * PageSize

\* While rows are only added, one that was there and has not been seen is not
\* passed over; while rows are only removed, one that was seen is.
NothingSkipped(l) ==
    moved[l] \subseteq {"insert"} => \A i \in list[l].from :
        \/ \E row \in ToSet(Got(l)) : row.id = i
        \/ \E row \in Matching(list[l].search) : row.id = i /\ RankOf(l, row) >= Offset(l)
NothingTwice(l) ==
    moved[l] \subseteq {"delete"} =>
        /\ IsInjective(Got(l))
        /\ \A row \in ToSet(Got(l)) \intersect Matching(list[l].search) : RankOf(l, row) < Offset(l)

VisitedEach(l) ==
    /\ moved[l] \subseteq {"insert"} =>
           list[l].from \subseteq {row.id : row \in ToSet(list[l].items)}
    /\ moved[l] \subseteq {"delete"} => IsInjective(list[l].items)

ReaderFits(l) ==
    /\ IsList(list[l])
    /\ pc[l] \in {"idle", "page", "count", "end"} /\ op[l] \in Ops \union {"none"}
    /\ out[l] \in {"none", "ok", "bad_search"} /\ (pc[l] # "end" => out[l] = "none")
    /\ list[l].page \in 0 .. MaxId + 1 /\ list[l].from \subseteq Ids
    /\ list[l].items \in Seq(UserRows) /\ list[l].batch \in Seq(UserRows)
    /\ moved[l] \subseteq {"insert", "update", "delete"}
    /\ pc[l] = "idle" => moved[l] = {}
    /\ pc[l] \in {"page", "count"} =>
         /\ list[l].page \in 1 .. MaxId
         /\ list[l].search \in Searches
         /\ NothingSkipped(l) /\ NothingTwice(l)
    /\ pc[l] = "page" => list[l].batch = <<>>
    /\ out[l] = "ok" => VisitedEach(l)

CrudInv == /\ Shape /\ KeysAreUnique
           /\ \A w \in Writers : WriterFits(w)
           /\ \A l \in Readers : ReaderFits(l)

-----------------------------------------------------------------------------
(* Steps, and what they leave alone.                                       *)

LEMMA NoReqFits ==
    /\ IsReq(NoReq) /\ NoReq.ents = <<>> /\ NoReq.tgt = 0 /\ NoReq.at = 0
    /\ NoReq.errs = {} /\ NoReq.held = {} /\ NoReq.seen = NoRow
BY DEF IsReq, NoReq

LEMMA GotoEffect ==
    ASSUME Shape, NEW p \in Procs, NEW step, Goto(p, step)
    PROVE  /\ DOMAIN pc' = Procs /\ out' = out
           /\ pc'[p] = step /\ \A q \in Procs \ {p} : pc'[q] = pc[q]
BY DEF Shape, Goto

LEMMA EndEffect ==
    ASSUME Shape, NEW p \in Procs, NEW a, End(p, a)
    PROVE  /\ DOMAIN pc' = Procs /\ DOMAIN out' = Procs
           /\ pc'[p] = "end" /\ out'[p] = a
           /\ \A q \in Procs \ {p} : pc'[q] = pc[q] /\ out'[q] = out[q]
BY DEF Shape, End

LEMMA AnswerEffect ==
    ASSUME Shape, NEW w \in Writers, NEW a, Answer(w, a)
    PROVE  /\ End(w, a) /\ DOMAIN req' = Writers
           /\ req'[w] = NoReq /\ \A q \in Writers \ {w} : req'[q] = req[q]
BY DEF Shape, Answer

\* Every other request stays where it is.
OthersStay(p) ==
    \A q \in Procs \ {p} :
        /\ pc'[q] = pc[q] /\ op'[q] = op[q] /\ out'[q] = out[q]
        /\ q \in Writers => req'[q] = req[q]
        /\ q \in Readers => list'[q] = list[q]
        /\ q \in Writers => (q \in wrote' => q \in wrote) /\ rivals'[q] \subseteq rivals[q] \intersect table'

LEMMA OtherWriters ==
    ASSUME CrudInv, NEW p \in Procs, OthersStay(p), NEW q \in Writers \ {p}
    PROVE  WriterFits(q)'
<1>1. q \in Procs /\ WriterFits(q)
    BY DEF CrudInv, Procs
<1>2. /\ pc'[q] = pc[q] /\ op'[q] = op[q] /\ out'[q] = out[q] /\ req'[q] = req[q]
      /\ q \in wrote' => q \in wrote
      /\ rivals'[q] \subseteq rivals[q] /\ rivals'[q] \subseteq table'
    BY <1>1 DEF OthersStay
<1>3. ReqFits(q)'
    BY <1>1, <1>2 DEF WriterFits, ReqFits
<1>4. OpFits(q)'
    BY <1>1, <1>2 DEF WriterFits, OpFits
<1>5. \A row : Unseen(q, row)' = Unseen(q, row)
    BY <1>2 DEF Unseen
<1>6. RivalsFit(q)'
    <2>1. pc[q] = "recheck" => \A row \in rivals'[q] : row.id # req'[q].tgt /\ Unseen(q, row)'
        BY <1>1, <1>2, <1>5 DEF WriterFits, RivalsFit
    <2>2. out[q] = "400" => rivals'[q] = {}
        BY <1>1, <1>2 DEF WriterFits, RivalsFit
    <2> QED BY <1>2, <2>1, <2>2 DEF RivalsFit
<1>7. WroteFits(q)'
    BY <1>1, <1>2 DEF WriterFits, WroteFits
<1> QED BY <1>3, <1>4, <1>6, <1>7 DEF WriterFits

\* The table is the same for a reader that is not moved.
LEMMA RankStays ==
    ASSUME NEW l \in Readers, table' = table, list'[l] = list[l]
    PROVE  /\ Matching(list[l].search)' = Matching(list[l].search)
           /\ \A row : RankOf(l, row)' = RankOf(l, row)
<1>1. Matching(list[l].search)' = Matching(list[l].search)
    BY DEF Matching
<1> QED BY <1>1 DEF RankOf

LEMMA ReaderStays ==
    ASSUME NEW l \in Readers, ReaderFits(l), table' = table, list'[l] = list[l], moved'[l] = moved[l],
           pc'[l] = pc[l], op'[l] = op[l], out'[l] = out[l]
    PROVE  ReaderFits(l)'
<1>1. /\ Matching(list[l].search)' = Matching(list[l].search)
      /\ \A row : RankOf(l, row)' = RankOf(l, row)
    BY RankStays
<1>2. Got(l)' = Got(l) /\ Offset(l)' = Offset(l)
    BY DEF Got, Offset
<1>3. NothingSkipped(l)' = NothingSkipped(l)
    BY <1>1, <1>2 DEF NothingSkipped
<1>4. NothingTwice(l)' = NothingTwice(l)
    BY <1>1, <1>2 DEF NothingTwice
<1>5. VisitedEach(l)' = VisitedEach(l)
    BY DEF VisitedEach
<1> QED BY <1>3, <1>4, <1>5 DEF ReaderFits

\* No row moves: the keys stay unique where no transaction holds more.
LEMMA KeysStay ==
    ASSUME KeysAreUnique, UNCHANGED <<table, nextId>>,
           \A w \in Writers : req'[w].held \subseteq req[w].held
    PROVE  KeysAreUnique'
<1>1. \A w \in Writers : IsFiniteSet(req'[w].held)
    BY FS_Subset DEF KeysAreUnique
<1>2. \A w \in Writers :
         /\ req'[w].held \subseteq UserRows
         /\ \A h \in req'[w].held : h.id < nextId /\ \A a \in table : a.id # h.id
         /\ \A h, g \in req'[w].held : h.id = g.id => h = g
         /\ \A q \in Writers \ {w} : \A h \in req'[w].held, g \in req'[q].held : h.id # g.id
    BY DEF KeysAreUnique
<1> QED BY <1>1, <1>2 DEF KeysAreUnique

\* A step of one request that touches no row.
LEMMA QuietStep ==
    ASSUME CrudInv, NEW p \in Procs, OthersStay(p), UNCHANGED <<table, nextId, moved>>, Shape',
           p \in Writers => WriterFits(p)' /\ req'[p].held \subseteq req[p].held,
           p \in Readers => ReaderFits(p)'
    PROVE  CrudInv'
<1>1. \A w \in Writers : req'[w].held \subseteq req[w].held
    BY DEF OthersStay, Procs
<1>2. KeysAreUnique'
    BY <1>1, KeysStay DEF CrudInv
<1>3. ASSUME NEW w \in Writers PROVE WriterFits(w)'
    BY <1>3, OtherWriters
<1>4. ASSUME NEW l \in Readers PROVE ReaderFits(l)'
    <2>1. CASE l # p
        <3>1. /\ pc'[l] = pc[l] /\ op'[l] = op[l] /\ out'[l] = out[l] /\ list'[l] = list[l]
              /\ moved'[l] = moved[l]
            BY <2>1 DEF OthersStay, Procs
        <3> QED BY <3>1, ReaderStays DEF CrudInv
    <2> QED BY <2>1
<1> QED BY <1>2, <1>3, <1>4 DEF CrudInv

LEMMA QuietFrame ==
    ASSUME CrudInv, NEW p \in Procs, UNCHANGED <<table, rivals, wrote>>,
           \A q \in Procs \ {p} : /\ pc'[q] = pc[q] /\ op'[q] = op[q] /\ out'[q] = out[q]
                                  /\ q \in Writers => req'[q] = req[q]
                                  /\ q \in Readers => list'[q] = list[q]
    PROVE  OthersStay(p)
<1>1. \A q \in Writers : rivals[q] \subseteq table
    BY DEF CrudInv, WriterFits, RivalsFit
<1> QED BY <1>1 DEF OthersStay

\* A writer that has answered keeps nothing.
LEMMA WriterEnded ==
    ASSUME NEW w \in Writers, pc'[w] = "end", req'[w] = NoReq,
           out'[w] \in Answers, op'[w] \in Ops \union {"none"},
           rivals'[w] \subseteq table', out'[w] = "400" => rivals'[w] = {},
           w \in wrote' => \/ out'[w] \in {"ok", "commit_lost"}
                           \/ out'[w] = "500" /\ op'[w] \in {"create", "update"}
    PROVE  WriterFits(w)'
<1>1. ReqFits(w)'
    BY NoReqFits, EmptySeq DEF ReqFits
<1>2. OpFits(w)' /\ RivalsFit(w)' /\ WroteFits(w)'
    BY DEF OpFits, WriterSteps, RivalsFit, WroteFits
<1> QED BY <1>1, <1>2 DEF WriterFits

\* An answer that follows no commit.
LEMMA QuietAnswer ==
    ASSUME CrudInv, NEW w \in Writers, NEW a \in Answers, Answer(w, a),
           UNCHANGED <<table, nextId, list, histVars>>,
           DOMAIN op' = Procs, op'[w] \in Ops \union {"none"}, \A q \in Procs \ {w} : op'[q] = op[q],
           a = "400" => rivals[w] = {},
           w \in wrote => a = "ok" \/ (a = "500" /\ op'[w] \in {"create", "update"})
    PROVE  CrudInv'
<1>1. w \in Procs /\ Shape /\ WriterFits(w)
    BY DEF CrudInv, Procs
<1>2. /\ DOMAIN pc' = Procs /\ DOMAIN out' = Procs
      /\ pc'[w] = "end" /\ out'[w] = a
      /\ \A q \in Procs \ {w} : pc'[q] = pc[q] /\ out'[q] = out[q]
      /\ DOMAIN req' = Writers /\ req'[w] = NoReq /\ \A q \in Writers \ {w} : req'[q] = req[q]
    BY <1>1, AnswerEffect, EndEffect
<1>3. UNCHANGED <<rivals, moved, wrote>>
    BY DEF histVars
<1>4. OthersStay(w)
    BY <1>1, <1>2, <1>3, QuietFrame
<1>5. rivals'[w] \subseteq table'
    BY <1>1, <1>3 DEF WriterFits, RivalsFit
<1>6. WriterFits(w)'
    BY <1>2, <1>3, <1>5, WriterEnded
<1>7. req'[w].held \subseteq req[w].held
    BY <1>2, NoReqFits
<1>8. w \notin Readers
    BY ActorsAssumption
<1>9. Shape'
    BY <1>1, <1>2, <1>3 DEF Shape
<1> QED BY <1>1, <1>3, <1>4, <1>6, <1>7, <1>8, <1>9, QuietStep

\* A writer goes on without touching a row.
LEMMA QuietOnward ==
    ASSUME CrudInv, NEW w \in Writers, (\E step : Goto(w, step)) \/ UNCHANGED <<pc, out>>,
           (\E r : req' = [req EXCEPT ![w] = r]) \/ req' = req,
           req'[w].held \subseteq req[w].held, UNCHANGED <<table, nextId, list, histVars>>,
           DOMAIN op' = Procs, \A q \in Procs \ {w} : op'[q] = op[q],
           WriterFits(w)'
    PROVE  CrudInv'
<1>1. w \in Procs /\ Shape
    BY DEF CrudInv, Procs
<1>2. /\ DOMAIN pc' = Procs /\ out' = out
      /\ \A q \in Procs \ {w} : pc'[q] = pc[q]
    BY <1>1, GotoEffect DEF Shape
<1>3. DOMAIN req' = Writers /\ \A q \in Writers \ {w} : req'[q] = req[q]
    BY <1>1 DEF Shape
<1>4. UNCHANGED <<rivals, moved, wrote>>
    BY DEF histVars
<1>5. OthersStay(w)
    BY <1>1, <1>2, <1>3, <1>4, QuietFrame
<1>6. Shape'
    BY <1>1, <1>2, <1>3, <1>4 DEF Shape
<1>7. w \notin Readers
    BY ActorsAssumption
<1> QED BY <1>1, <1>3, <1>4, <1>5, <1>6, <1>7, QuietStep

-----------------------------------------------------------------------------
(* Requests arrive.                                                        *)

\* What a route hands over: a payload that its schema has accepted.
Acceptable(o, es, i, label) ==
    /\ es \in Seq(UpdateUserRequest) /\ i \in Ids \union {0}
    /\ \/ /\ label = "validate" /\ o \in {"create", "batch"} /\ i = 0
          /\ Len(es) \in {1, 2} /\ es \in Seq(CreateUserRequest)
          /\ o = "create" => Len(es) = 1
       \/ label = "validate" /\ o = "update" /\ Len(es) = 1
       \/ label = "select" /\ o = "delete" /\ Len(es) = 0

LEMMA AcceptStep ==
    ASSUME CrudInv, NEW w \in Writers, NEW o, NEW es, NEW i, NEW label,
           Accept(w, o, es, i, label), Acceptable(o, es, i, label)
    PROVE  CrudInv'
<1>1. w \in Procs /\ Shape /\ WriterFits(w) /\ pc[w] = "idle"
    BY DEF CrudInv, Procs, Accept
<1> DEFINE r == [req[w] EXCEPT !.ents = es, !.tgt = i]
<1>2. req' = [req EXCEPT ![w] = r] /\ Goto(w, label) /\ op' = [op EXCEPT ![w] = o]
      /\ UNCHANGED <<table, nextId, list, histVars>>
    BY DEF Accept
<1>3. req[w] = NoReq /\ out[w] = "none"
    BY <1>1 DEF WriterFits, ReqFits, OpFits
<1>4. /\ IsReq(r) /\ r.ents = es /\ r.tgt = i /\ r.at = 0 /\ r.errs = {} /\ r.held = {}
      /\ r.seen = NoRow
    BY <1>3, NoReqFits DEF IsReq
<1>5. pc'[w] = label /\ req'[w] = r /\ out'[w] = "none" /\ op'[w] = o
    BY <1>1, <1>2, <1>3, GotoEffect DEF Shape
<1>6. rivals' = rivals /\ wrote' = wrote
    BY <1>2 DEF histVars
<1> HIDE DEF r
<1>7. ReqFits(w)'
    <2>1. /\ IsReq(req'[w]) /\ req'[w].ents = es /\ req'[w].tgt = i /\ req'[w].at = 0
          /\ req'[w].errs = {} /\ req'[w].held = {} /\ req'[w].seen = NoRow
        BY <1>4, <1>5
    <2>2. /\ es \in Seq(UpdateUserRequest) /\ Len(es) \in 0 .. 2 /\ i \in Ids \union {0}
          /\ label \in {"validate", "select"}
          /\ label = "validate" => Len(es) >= 1
          /\ o \in {"create", "update"} => Len(es) = 1
          /\ label = "validate" /\ o # "update" => es \in Seq(CreateUserRequest) /\ i = 0
        <3>1. CASE /\ label = "validate" /\ o \in {"create", "batch"} /\ i = 0
                   /\ Len(es) \in {1, 2} /\ es \in Seq(CreateUserRequest)
          /\ o = "create" => Len(es) = 1
            BY <3>1 DEF Acceptable
        <3>2. CASE label = "validate" /\ o = "update" /\ Len(es) = 1
            BY <3>2 DEF Acceptable
        <3>3. CASE label = "select" /\ o = "delete" /\ Len(es) = 0
            BY <3>3 DEF Acceptable
        <3> QED BY <3>1, <3>2, <3>3 DEF Acceptable
    <2> QED BY <1>5, <2>1, <2>2 DEF ReqFits
<1>8. OpFits(w)'
    BY <1>5 DEF OpFits, WriterSteps, Ops, Answers, Acceptable
<1>9. RivalsFit(w)' /\ WroteFits(w)'
    BY <1>1, <1>2, <1>3, <1>5, <1>6 DEF WriterFits, RivalsFit, WroteFits, Acceptable
<1>10. WriterFits(w)'
    BY <1>7, <1>8, <1>9 DEF WriterFits
<1>11. req'[w].held \subseteq req[w].held
    BY <1>3, <1>4, <1>5, NoReqFits
<1>12. DOMAIN op' = Procs /\ \A q \in Procs \ {w} : op'[q] = op[q]
    BY <1>1, <1>2 DEF Shape
<1> QED BY <1>2, <1>10, <1>11, <1>12, QuietOnward

LEMMA CreateIsUpdate == CreateUserRequest \subseteq UpdateUserRequest
BY DEF CreateUserRequest, UpdateUserRequest

LEMMA ReceiveStep == ASSUME CrudInv, NEW w \in Writers, Receive(w) PROVE CrudInv'
<1>1. CASE CreateData(w)
    <2>1. PICK e \in CreateUserRequest : Accept(w, "create", <<e>>, 0, "validate")
        BY <1>1 DEF CreateData
    <2>2. Acceptable("create", <<e>>, 0, "validate")
        BY CreateIsUpdate DEF Acceptable
    <2> QED BY <2>1, <2>2, AcceptStep
<1>2. CASE CreateDatas(w)
    <2>1. PICK es \in CreateUserRequest \X CreateUserRequest :
            \/ ~Duplicated(es) /\ Accept(w, "batch", es, 0, "validate")
            \/ /\ Duplicated(es) /\ pc[w] = "idle"
               /\ op' = [op EXCEPT ![w] = "batch"]
               /\ Answer(w, "422")
               /\ UNCHANGED <<table, nextId, list, histVars>>
        BY <1>2 DEF CreateDatas
    <2>2. Acceptable("batch", es, 0, "validate")
        <3>1. PICK a \in CreateUserRequest, b \in CreateUserRequest : es = <<a, b>>
            OBVIOUS
        <3>2. <<a, b>> \in Seq(CreateUserRequest) /\ <<a, b>> \in Seq(UpdateUserRequest)
            BY CreateIsUpdate
        <3>3. Len(<<a, b>>) = 2
            OBVIOUS
        <3> QED BY <3>1, <3>2, <3>3 DEF Acceptable
    <2>3. CASE Accept(w, "batch", es, 0, "validate")
        BY <2>2, <2>3, AcceptStep
    <2>4. CASE /\ pc[w] = "idle" /\ op' = [op EXCEPT ![w] = "batch"] /\ Answer(w, "422")
               /\ UNCHANGED <<table, nextId, list, histVars>>
        <3>1. w \in Procs /\ Shape /\ WriterFits(w)
            BY DEF CrudInv, Procs
        <3>2. DOMAIN op' = Procs /\ op'[w] = "batch" /\ \A q \in Procs \ {w} : op'[q] = op[q]
            BY <2>4, <3>1 DEF Shape
        <3>3. w \notin wrote
            BY <2>4, <3>1 DEF WriterFits, WroteFits
        <3> QED BY <2>4, <3>2, <3>3, QuietAnswer DEF Answers, Ops
    <2> QED BY <2>1, <2>3, <2>4
<1>3. CASE UpdateDataByDataId(w)
    <2>1. PICK e \in UpdateUserRequest, i \in Targets : Accept(w, "update", <<e>>, i, "validate")
        BY <1>3 DEF UpdateDataByDataId
    <2>2. Acceptable("update", <<e>>, i, "validate")
        BY TargetsAssumption DEF Acceptable, Ids
    <2> QED BY <2>1, <2>2, AcceptStep
<1>4. CASE DeleteDataByDataId(w)
    <2>1. PICK i \in Targets : Accept(w, "delete", <<>>, i, "select")
        BY <1>4 DEF DeleteDataByDataId
    <2>2. Acceptable("delete", <<>>, i, "select")
        BY TargetsAssumption, EmptySeq DEF Acceptable, Ids
    <2> QED BY <2>1, <2>2, AcceptStep
<1> QED BY <1>1, <1>2, <1>3, <1>4 DEF Receive

-----------------------------------------------------------------------------
(* Lookups and reads of a writer.                                          *)

LEMMA OrderFacts ==
    /\ Len(FieldOrder) = 2 /\ FieldOrder[1] = "username" /\ FieldOrder[2] = "email"
    /\ \A j \in 1 .. 2 : FieldOrder[j] \in Fields
BY DEF FieldOrder, Fields

LEMMA FoundFits ==
    ASSUME NEW w \in Writers, ReqFits(w), NEW f \in Fields, NEW es
    PROVE  Found(w, f, es) \subseteq Fields
BY DEF Found, ReqFits

LEMMA ValidateStep == ASSUME CrudInv, NEW w \in Writers, Validate(w) PROVE CrudInv'
<1>1. w \in Procs /\ Shape /\ WriterFits(w) /\ ReqFits(w) /\ OpFits(w)
    BY DEF CrudInv, Procs, WriterFits
<1>2. pc[w] = "validate" /\ UNCHANGED <<table, nextId, op, list, histVars>>
    BY DEF Validate
<1>3. UNCHANGED <<table, rivals, moved, wrote>>
    BY <1>2 DEF histVars
<1>4. op[w] \in {"create", "batch", "update"} /\ out[w] = "none" /\ w \notin wrote
    BY <1>1, <1>2 DEF OpFits, WriterFits, WroteFits
<1>5. req[w].at \in 0 .. 1 /\ IsReq(req[w])
    BY <1>1, <1>2 DEF ReqFits
<1>6. DOMAIN op' = Procs /\ op' = op
    BY <1>1, <1>2 DEF Shape
<1> DEFINE found == Found(w, FieldOrder[req[w].at + 1], req[w].ents)
<1>7. found \subseteq Fields
    BY <1>1, <1>5, OrderFacts, FoundFits
<1>11. IF req[w].at = 0
       THEN /\ req' = [req EXCEPT ![w].errs = found, ![w].at = @ + 1] /\ UNCHANGED <<pc, out>>
       ELSE IF found # {} THEN Answer(w, "409")
            ELSE /\ Goto(w, IF op[w] = "update" THEN "select" ELSE "insert")
                 /\ req' = [req EXCEPT ![w].errs = {}, ![w].at = 0]
    <2> DEFINE next == /\ req' = [req EXCEPT ![w].errs = found, ![w].at = @ + 1] /\ UNCHANGED <<pc, out>>
               last == IF found # {} THEN Answer(w, "409")
                       ELSE /\ Goto(w, IF op[w] = "update" THEN "select" ELSE "insert")
                            /\ req' = [req EXCEPT ![w].errs = {}, ![w].at = 0]
    <2>1. (CASE req[w].at + 1 < Len(FieldOrder) -> next [] OTHER -> last)
        BY Zenon DEF Validate
    <2> HIDE DEF next, last
    <2>2. IF req[w].at = 0 THEN next ELSE last
        BY <1>5, <2>1, OrderFacts
    <2> QED BY <2>2 DEF next, last
<1> HIDE DEF found
<1>8. CASE req[w].at = 0
    <2> DEFINE r == [req[w] EXCEPT !.errs = found, !.at = @ + 1]
    <2>1. req' = [req EXCEPT ![w] = r] /\ UNCHANGED <<pc, out>>
        <3>1. req' = [req EXCEPT ![w].errs = found, ![w].at = @ + 1] /\ UNCHANGED <<pc, out>>
            BY <1>8, <1>11
        <3> QED BY <1>1, <3>1 DEF Shape
    <2>2. /\ IsReq(r) /\ r.errs = found /\ r.at = 1
          /\ r.ents = req[w].ents /\ r.tgt = req[w].tgt /\ r.held = req[w].held /\ r.seen = req[w].seen
        <3>1. r.at = req[w].at + 1
            BY <1>5 DEF IsReq
        <3>2. /\ IsReq(r) /\ r.errs = found
              /\ r.ents = req[w].ents /\ r.tgt = req[w].tgt /\ r.held = req[w].held
              /\ r.seen = req[w].seen
            BY <1>5 DEF IsReq
        <3> QED BY <1>8, <3>1, <3>2
    <2>3. req'[w] = r
        BY <1>1, <2>1 DEF Shape
    <2> HIDE DEF r
    <2>4. ReqFits(w)'
        BY <1>1, <1>2, <1>6, <1>7, <2>1, <2>2, <2>3 DEF ReqFits
    <2>5. OpFits(w)' /\ RivalsFit(w)' /\ WroteFits(w)'
        BY <1>1, <1>2, <1>3, <1>6, <2>1 DEF OpFits, RivalsFit, WroteFits, WriterFits
    <2> QED BY <1>2, <1>6, <2>1, <2>2, <2>3, <2>4, <2>5, QuietOnward DEF WriterFits
<1>9. CASE req[w].at = 1 /\ found # {}
    <2>1. Answer(w, "409")
        BY <1>9, <1>11
    <2> QED BY <1>2, <1>4, <1>6, <2>1, QuietAnswer DEF Answers, Ops
<1>10. CASE req[w].at = 1 /\ found = {}
    <2> DEFINE r == [req[w] EXCEPT !.errs = {}, !.at = 0]
               step == IF op[w] = "update" THEN "select" ELSE "insert"
    <2>1. req' = [req EXCEPT ![w] = r] /\ Goto(w, step)
        <3>1. Goto(w, step) /\ req' = [req EXCEPT ![w].errs = {}, ![w].at = 0]
            BY <1>10, <1>11
        <3> QED BY <1>1, <3>1 DEF Shape
    <2>2. /\ IsReq(r) /\ r.errs = {} /\ r.at = 0
          /\ r.ents = req[w].ents /\ r.tgt = req[w].tgt /\ r.held = req[w].held /\ r.seen = req[w].seen
        BY <1>5 DEF IsReq
    <2>3. req'[w] = r /\ pc'[w] = step /\ out' = out
        BY <1>1, <2>1, GotoEffect DEF Shape
    <2>4. step \in {"select", "insert"} /\ (step = "select" <=> op[w] = "update")
        OBVIOUS
    <2> HIDE DEF r, step
    <2>5. ReqFits(w)'
        BY <1>1, <1>2, <1>6, <2>2, <2>3, <2>4 DEF ReqFits
    <2>6. OpFits(w)' /\ RivalsFit(w)' /\ WroteFits(w)'
        BY <1>1, <1>2, <1>3, <1>4, <1>6, <2>3, <2>4 DEF OpFits, RivalsFit, WroteFits, WriterFits, WriterSteps
    <2> QED BY <1>2, <1>6, <2>1, <2>2, <2>3, <2>5, <2>6, QuietOnward DEF WriterFits
<1> QED BY <1>5, <1>8, <1>9, <1>10

LEMMA PopulateStep == ASSUME CrudInv, NEW w \in Writers, PopulateDefaults(w) PROVE CrudInv'
<1>1. w \in Procs /\ Shape /\ WriterFits(w)
    BY DEF CrudInv, Procs
<1>2. /\ pc[w] = "populate" /\ Goto(w, "commit") /\ req' = req
      /\ UNCHANGED <<table, nextId, op, list, histVars>> /\ UNCHANGED <<table, op, rivals, wrote>>
    BY DEF PopulateDefaults, histVars
<1>3. pc'[w] = "commit" /\ out' = out
    BY <1>1, <1>2, GotoEffect
<1>4. ReqFits(w)'
    BY <1>1, <1>2, <1>3 DEF WriterFits, ReqFits
<1>5. OpFits(w)' /\ RivalsFit(w)' /\ WroteFits(w)'
    BY <1>1, <1>2, <1>3 DEF WriterFits, OpFits, RivalsFit, WroteFits, WriterSteps
<1>6. DOMAIN op' = Procs /\ \A q \in Procs \ {w} : op'[q] = op[q]
    BY <1>1, <1>2 DEF Shape
<1> QED BY <1>2, <1>4, <1>5, <1>6, QuietOnward DEF WriterFits

LEMMA RefreshStep == ASSUME CrudInv, NEW w \in Writers, Refresh(w) PROVE CrudInv'
<1>1. w \in Procs /\ Shape /\ WriterFits(w)
    BY DEF CrudInv, Procs
<1>2. PICK a \in {"ok", "500"} : Answer(w, a)
    BY DEF Refresh
<1>3. pc[w] = "refresh" /\ UNCHANGED <<table, nextId, op, list, histVars>>
    BY DEF Refresh
<1>4. op[w] \in {"create", "update"}
    BY <1>1, <1>3 DEF WriterFits, OpFits
<1>5. DOMAIN op' = Procs /\ op' = op
    BY <1>1, <1>3 DEF Shape
<1> QED BY <1>2, <1>3, <1>4, <1>5, QuietAnswer DEF Answers, Ops

LEMMA FailStep == ASSUME CrudInv, NEW w \in Writers, Fail(w) PROVE CrudInv'
<1>1. w \in Procs /\ Shape /\ WriterFits(w)
    BY DEF CrudInv, Procs
<1>2. /\ pc[w] \notin {"idle", "end"} /\ Answer(w, "500")
      /\ UNCHANGED <<table, nextId, op, list, histVars>>
    BY DEF Fail
<1>3. op[w] \in Ops \union {"none"}
    BY <1>1 DEF WriterFits, OpFits
<1>4. w \in wrote => op[w] \in {"create", "update"}
    BY <1>1, <1>2 DEF WriterFits, OpFits, WroteFits
<1>5. DOMAIN op' = Procs /\ op' = op
    BY <1>1, <1>2 DEF Shape
<1> QED BY <1>2, <1>3, <1>4, <1>5, QuietAnswer DEF Answers

\* The row that a writer loads is one of the table.
LEMMA RowIsStored ==
    ASSUME NEW i, Stored(i)
    PROVE  Row(i) \in table /\ Row(i).id = i
BY DEF Stored, Row

LEMMA SelectRowStep == ASSUME CrudInv, NEW w \in Writers, SelectRow(w) PROVE CrudInv'
<1>1. w \in Procs /\ Shape /\ WriterFits(w) /\ ReqFits(w) /\ OpFits(w) /\ table \subseteq UserRows
    BY DEF CrudInv, Procs, WriterFits, KeysAreUnique
<1>2. /\ pc[w] = "select" /\ UNCHANGED <<table, nextId, op, list, histVars>>
      /\ UNCHANGED <<table, op, rivals, wrote>>
    BY DEF SelectRow, histVars
<1>3. op[w] \in {"update", "delete"} /\ out[w] = "none" /\ w \notin wrote
    BY <1>1, <1>2 DEF OpFits, WriterFits, WroteFits
<1>4. DOMAIN op' = Procs /\ op' = op
    BY <1>1, <1>2 DEF Shape
<1>5. CASE Answer(w, "404")
    BY <1>2, <1>3, <1>4, <1>5, QuietAnswer DEF Answers, Ops
<1>6. CASE /\ Stored(req[w].tgt) /\ Goto(w, op[w])
           /\ req' = [req EXCEPT ![w].seen = Row(req[w].tgt)]
    <2> DEFINE r == [req[w] EXCEPT !.seen = Row(req[w].tgt)]
    <2>1. req' = [req EXCEPT ![w] = r] /\ req'[w] = r
        BY <1>1, <1>6 DEF Shape
    <2>2. Row(req[w].tgt) \in UserRows
        BY <1>1, <1>6, RowIsStored
    <2>3. IsReq(req[w])
        BY <1>1 DEF ReqFits
    <2>4. /\ IsReq(r) /\ r.seen = Row(req[w].tgt)
          /\ r.ents = req[w].ents /\ r.tgt = req[w].tgt /\ r.held = req[w].held
          /\ r.at = req[w].at /\ r.errs = req[w].errs
        BY <2>3 DEF IsReq
    <2>5. pc'[w] = op[w] /\ out' = out
        BY <1>1, <1>6, GotoEffect
    <2> HIDE DEF r
    <2>6. ReqFits(w)'
        <3>1. /\ req[w].held = {} /\ (op[w] = "update" => Len(req[w].ents) = 1)
              /\ req[w].ents \in Seq(UpdateUserRequest) /\ Len(req[w].ents) \in 0 .. 2
              /\ req[w].tgt \in Ids \union {0} /\ req[w].at \in 0 .. 3 /\ req[w].errs \subseteq Fields
            BY <1>1, <1>2 DEF ReqFits
        <3>2. pc'[w] \in {"update", "delete"} /\ (pc'[w] = "update" => op[w] = "update")
            BY <1>3, <2>5
        <3>3. /\ IsReq(req'[w]) /\ req'[w].seen \in UserRows
              /\ req'[w].ents = req[w].ents /\ req'[w].tgt = req[w].tgt /\ req'[w].held = {}
              /\ req'[w].at = req[w].at /\ req'[w].errs = req[w].errs
            BY <2>1, <2>2, <2>4, <3>1
        <3>4. pc'[w] = "update" => Len(req'[w].ents) >= 1
            BY <3>1, <3>2, <3>3
        <3> QED BY <3>1, <3>2, <3>3, <3>4 DEF ReqFits
    <2>7. OpFits(w)' /\ RivalsFit(w)' /\ WroteFits(w)'
        BY <1>1, <1>2, <1>3, <2>5 DEF OpFits, RivalsFit, WroteFits, WriterFits, WriterSteps
    <2> QED BY <1>2, <1>4, <1>6, <2>1, <2>4, <2>6, <2>7, QuietOnward DEF WriterFits
<1> QED BY <1>5, <1>6 DEF SelectRow

\* Positions of the lookup after a refusal: entity by entity, field by field.
LEMMA PositionFacts ==
    ASSUME NEW at \in 0 .. 3
    PROVE  /\ (at \div 2) + 1 \in 1 .. 2 /\ (at % 2) + 1 \in 1 .. 2
           /\ at = 2 * (((at \div 2) + 1) - 1) + ((at % 2) + 1) - 1
BY DEF FieldOrder

\* A row that refused the write is found by now, or its value is still to come.
LEMMA RivalIsMet ==
    ASSUME CrudInv, NEW w \in Writers, pc[w] = "recheck", NEW row \in rivals[w],
           NEW entity \in 1 .. Len(req[w].ents), NEW field \in 1 .. 2,
           req[w].at = 2 * (entity - 1) + field - 1,
           Found(w, FieldOrder[field], <<req[w].ents[entity]>>) = {}
    PROVE  \E k \in 1 .. Len(req[w].ents), j \in 1 .. 2 :
               /\ row[FieldOrder[j]] = req[w].ents[k][FieldOrder[j]]
               /\ 2 * (k - 1) + j - 1 >= req[w].at + 1
<1>1. WriterFits(w) /\ RivalsFit(w) /\ row \in table
    BY DEF CrudInv, WriterFits, RivalsFit
<1>2. row.id # req[w].tgt /\ Unseen(w, row)
    BY <1>1 DEF RivalsFit
<1>3. PICK k \in 1 .. Len(req[w].ents), j \in 1 .. 2 :
        /\ row[FieldOrder[j]] = req[w].ents[k][FieldOrder[j]]
        /\ 2 * (k - 1) + j - 1 >= req[w].at \/ req[w].errs # {}
    BY <1>2 DEF Unseen
<1>4. req[w].errs = {} /\ ~Taken(FieldOrder[field], <<req[w].ents[entity]>>, req[w].tgt)
    BY DEF Found
<1>5. Len(req[w].ents) \in 0 .. 2
    BY <1>1 DEF WriterFits, ReqFits
<1>6. ~(k = entity /\ j = field)
    <2> SUFFICES ASSUME k = entity, j = field PROVE FALSE
        OBVIOUS
    <2>1. req[w].ents[entity] \in ToSet(<<req[w].ents[entity]>>)
        BY DEF ToSet
    <2> QED BY <1>1, <1>2, <1>3, <1>4, <2>1 DEF Taken
<1>7. 2 * (k - 1) + j - 1 >= req[w].at + 1
    BY <1>3, <1>4, <1>5, <1>6
<1> QED BY <1>3, <1>7

LEMMA RecheckStep == ASSUME CrudInv, NEW w \in Writers, Recheck(w) PROVE CrudInv'
<1>1. w \in Procs /\ Shape /\ WriterFits(w) /\ ReqFits(w) /\ OpFits(w)
    BY DEF CrudInv, Procs, WriterFits
<1>2. /\ pc[w] = "recheck" /\ UNCHANGED <<table, nextId, op, list, histVars>>
      /\ UNCHANGED <<table, op, rivals, wrote>>
    BY DEF Recheck, histVars
<1>3. op[w] \in Ops \union {"none"} /\ out[w] = "none" /\ w \notin wrote
    BY <1>1, <1>2 DEF OpFits, WriterFits, WroteFits
<1>4. DOMAIN op' = Procs /\ op' = op
    BY <1>1, <1>2 DEF Shape
<1>5. /\ IsReq(req[w]) /\ req[w].at \in 0 .. 3 /\ req[w].at < 2 * Len(req[w].ents)
      /\ Len(req[w].ents) \in 1 .. 2
    BY <1>1, <1>2 DEF ReqFits
<1> DEFINE entity == (req[w].at \div 2) + 1
           field == (req[w].at % 2) + 1
           found == Found(w, FieldOrder[field], <<req[w].ents[entity]>>)
           onward == req' = [req EXCEPT ![w].errs = found, ![w].at = @ + 1] /\ UNCHANGED <<pc, out>>
<1>6. /\ field = 2 /\ found # {} => Answer(w, "409")
      /\ field = 2 /\ found = {} /\ entity = Len(req[w].ents) => Answer(w, "400")
      /\ ~(field = 2 /\ (found # {} \/ entity = Len(req[w].ents))) => onward
    <2> DEFINE a == Answer(w, "409")
               b == Answer(w, "400")
    <2>1. (CASE field = 2 /\ found # {} -> a
            [] field = 2 /\ found = {} /\ entity = Len(req[w].ents) -> b
            [] OTHER -> onward)
        BY OrderFacts DEF Recheck
    <2> HIDE DEF a, b, onward, found, field, entity
    <2>2. /\ field = 2 /\ found # {} => a
          /\ field = 2 /\ found = {} /\ entity = Len(req[w].ents) => b
          /\ ~(field = 2 /\ (found # {} \/ entity = Len(req[w].ents))) => onward
        BY <2>1
    <2> QED BY <2>2 DEF a, b
<1>7. /\ entity \in 1 .. 2 /\ field \in 1 .. 2 /\ req[w].at = 2 * (entity - 1) + field - 1
    BY <1>5, PositionFacts
<1> HIDE DEF entity, field
<1>8. entity \in 1 .. Len(req[w].ents)
    BY <1>5, <1>7
<1>9. found \subseteq Fields
    BY <1>1, <1>7, OrderFacts, FoundFits
<1>10. found = {} => \A row \in rivals[w] : \E k \in 1 .. Len(req[w].ents), j \in 1 .. 2 :
               /\ row[FieldOrder[j]] = req[w].ents[k][FieldOrder[j]]
               /\ 2 * (k - 1) + j - 1 >= req[w].at + 1
    BY <1>2, <1>7, <1>8, RivalIsMet
<1> HIDE DEF found
<1>11. CASE field = 2 /\ found # {}
    BY <1>2, <1>3, <1>4, <1>6, <1>11, QuietAnswer DEF Answers
<1>12. CASE field = 2 /\ found = {} /\ entity = Len(req[w].ents)
    <2>1. rivals[w] = {}
        BY <1>5, <1>7, <1>10, <1>12
    <2> QED BY <1>2, <1>3, <1>4, <1>6, <1>12, <2>1, QuietAnswer DEF Answers
<1>13. CASE ~(field = 2 /\ (found # {} \/ entity = Len(req[w].ents)))
    <2> DEFINE r == [req[w] EXCEPT !.errs = found, !.at = @ + 1]
    <2>1. req' = [req EXCEPT ![w] = r] /\ req'[w] = r /\ UNCHANGED <<pc, out>>
        <3>1. onward
            BY <1>6, <1>13
        <3> QED BY <1>1, <3>1 DEF Shape
    <2>2. r.at = req[w].at + 1
        BY <1>5 DEF IsReq
    <2>3. /\ IsReq(r) /\ r.errs = found
          /\ r.ents = req[w].ents /\ r.tgt = req[w].tgt /\ r.held = req[w].held
          /\ r.seen = req[w].seen
        BY <1>5 DEF IsReq
    <2>4. req[w].at + 1 \in 0 .. 3 /\ req[w].at + 1 < 2 * Len(req[w].ents)
        <3> DEFINE n == Len(req[w].ents)
        <3>1. n \in 1 .. 2 /\ entity \in 1 .. n /\ req[w].at = 2 * (entity - 1) + field - 1
            BY <1>5, <1>7, <1>8
        <3>2. field = 1 \/ (field = 2 /\ entity # n)
            BY <1>7, <1>13
        <3> HIDE DEF n
        <3>3. req[w].at + 1 \in 0 .. 3 /\ req[w].at + 1 < 2 * n
            BY <3>1, <3>2
        <3> QED BY <3>3 DEF n
    <2> HIDE DEF r
    <2>5. ReqFits(w)'
        BY <1>1, <1>2, <1>9, <2>1, <2>2, <2>3, <2>4 DEF ReqFits
    <2>6. OpFits(w)' /\ WroteFits(w)'
        BY <1>1, <1>2, <2>1 DEF OpFits, WroteFits, WriterFits
    <2>7. ASSUME NEW row \in rivals[w] PROVE row.id # req'[w].tgt /\ Unseen(w, row)'
        <3>1. row.id # req[w].tgt /\ Unseen(w, row)
            BY <1>1, <1>2 DEF WriterFits, RivalsFit
        <3>2. CASE found = {}
            BY <1>10, <2>1, <2>2, <2>3, <3>1, <3>2 DEF Unseen
        <3>3. CASE found # {}
            BY <2>1, <2>3, <3>1, <3>3 DEF Unseen
        <3> QED BY <3>2, <3>3
    <2>8. RivalsFit(w)'
        BY <1>1, <1>2, <1>3, <2>1, <2>7 DEF RivalsFit, WriterFits
    <2> QED BY <1>2, <1>4, <2>1, <2>3, <2>5, <2>6, <2>8, QuietOnward DEF WriterFits
<1> QED BY <1>11, <1>12, <1>13

-----------------------------------------------------------------------------
(* Writes.                                                                 *)

\* A step of one writer that leaves the table alone.
LEMMA WriterStep ==
    ASSUME CrudInv, NEW w \in Writers, OthersStay(w), UNCHANGED <<table, moved>>,
           Shape', KeysAreUnique', WriterFits(w)'
    PROVE  CrudInv'
<1>1. w \in Procs /\ w \notin Readers
    BY ActorsAssumption DEF Procs
<1>2. ASSUME NEW q \in Writers PROVE WriterFits(q)'
    BY <1>1, OtherWriters
<1>3. ASSUME NEW l \in Readers PROVE ReaderFits(l)'
    <2>1. l \in Procs \ {w}
        BY <1>1 DEF Procs
    <2>2. /\ pc'[l] = pc[l] /\ op'[l] = op[l] /\ out'[l] = out[l] /\ list'[l] = list[l]
          /\ moved'[l] = moved[l]
        BY <2>1 DEF OthersStay
    <2> QED BY <2>2, ReaderStays DEF CrudInv
<1> QED BY <1>2, <1>3 DEF CrudInv

\* The database refuses a statement because of rows that share a value with
\* the request.
LEMMA RefusedStep ==
    ASSUME CrudInv, NEW w \in Writers, NEW rows \in SUBSET table, Refused(w, rows),
           pc[w] \in {"insert", "update"},
           \A row \in rows : /\ row.id # req[w].tgt
                             /\ \E k \in 1 .. Len(req[w].ents), j \in 1 .. 2 :
                                    row[FieldOrder[j]] = req[w].ents[k][FieldOrder[j]]
    PROVE  CrudInv'
<1>1. w \in Procs /\ Shape /\ WriterFits(w) /\ ReqFits(w) /\ OpFits(w)
    BY DEF CrudInv, Procs, WriterFits
<1> DEFINE r == [req[w] EXCEPT !.held = {}, !.at = 0, !.seen = NoRow]
<1>2. /\ Goto(w, "recheck") /\ rivals' = [rivals EXCEPT ![w] = rows]
      /\ UNCHANGED <<table, nextId, op, list, moved, wrote>>
    BY DEF Refused
<1>3. req' = [req EXCEPT ![w] = r] /\ req'[w] = r
    BY <1>1 DEF Refused, Shape
<1>4. /\ IsReq(r) /\ r.held = {} /\ r.at = 0 /\ r.seen = NoRow
      /\ r.ents = req[w].ents /\ r.tgt = req[w].tgt /\ r.errs = req[w].errs
    BY <1>1 DEF ReqFits, IsReq
<1> HIDE DEF r
<1>5. /\ DOMAIN pc' = Procs /\ out' = out /\ pc'[w] = "recheck"
      /\ \A q \in Procs \ {w} : pc'[q] = pc[q]
    BY <1>1, <1>2, GotoEffect
<1>6. /\ rivals'[w] = rows /\ DOMAIN rivals' = Writers /\ DOMAIN req' = Writers
      /\ \A q \in Writers \ {w} : rivals'[q] = rivals[q] /\ req'[q] = req[q]
    BY <1>1, <1>2, <1>3 DEF Shape
<1>7. op[w] \in Ops /\ out[w] = "none" /\ w \notin wrote
    BY <1>1 DEF OpFits, WriterFits, WroteFits, Ops
<1>8. ReqFits(w)'
    BY <1>1, <1>2, <1>3, <1>4, <1>5 DEF ReqFits
<1>9. OpFits(w)' /\ WroteFits(w)'
    BY <1>2, <1>5, <1>7 DEF OpFits, WroteFits, WriterSteps, Answers
<1>10. RivalsFit(w)'
    <2>1. ASSUME NEW row \in rows PROVE row.id # req'[w].tgt /\ Unseen(w, row)'
        <3>1. PICK k \in 1 .. Len(req[w].ents), j \in 1 .. 2 :
                row[FieldOrder[j]] = req[w].ents[k][FieldOrder[j]]
            OBVIOUS
        <3>2. Len(req[w].ents) \in 0 .. 2
            BY <1>1 DEF ReqFits
        <3>3. req'[w].at = 0
            BY <1>3, <1>4
        <3>4. 2 * (k - 1) + j - 1 >= 0
            BY <3>1, <3>2
        <3> QED BY <1>3, <1>4, <3>1, <3>3, <3>4 DEF Unseen
    <2> QED BY <1>2, <1>5, <1>6, <1>7, <2>1 DEF RivalsFit
<1>11. OthersStay(w)
    <2>1. \A q \in Writers : rivals[q] \subseteq table
        BY DEF CrudInv, WriterFits, RivalsFit
    <2> QED BY <1>2, <1>5, <1>6, <2>1 DEF OthersStay
<1>12. Shape'
    BY <1>1, <1>2, <1>5, <1>6 DEF Shape
<1>13. \A q \in Writers : req'[q].held \subseteq req[q].held
    BY <1>3, <1>4, <1>6
<1>14. KeysAreUnique'
    BY <1>2, <1>13, KeysStay DEF CrudInv
<1> QED BY <1>2, <1>8, <1>9, <1>10, <1>11, <1>12, <1>14, WriterStep DEF WriterFits

\* A row that a transaction inserts has the next id of the sequence.
LEMMA InsertedIsNew ==
    ASSUME Shape, KeysAreUnique, NEW w \in Writers, NEW new \in UserRows, new.id = nextId, nextId <= MaxId,
           table' = table, nextId' = nextId + 1,
           req'[w].held = req[w].held \union {new},
           \A q \in Writers \ {w} : req'[q] = req[q]
    PROVE  KeysAreUnique'
<1>1. nextId \in 1 .. MaxId + 1 /\ nextId' \in 1 .. MaxId + 1 /\ nextId < nextId'
    BY BoundsAssumption DEF KeysAreUnique
<1>2. \A a \in UserRows : a.id \in Nat
    BY BoundsAssumption DEF UserRows, Ids
<1>3. \A a \in table : a.id < nextId /\ a \in UserRows
    BY DEF KeysAreUnique
<1>4. \A q \in Writers : \A h \in req[q].held : h.id < nextId /\ h \in UserRows
    BY DEF KeysAreUnique
<1>5. \A q \in Writers : \A h \in req'[q].held :
          \/ h \in req[q].held
          \/ q = w /\ h = new
    OBVIOUS
<1>6. \A q \in Writers : IsFiniteSet(req'[q].held)
    BY FS_AddElement DEF KeysAreUnique
<1>7. \A a \in table : a.id < nextId'
    BY <1>1, <1>2, <1>3
<1>8. ASSUME NEW q \in Writers
      PROVE  /\ req'[q].held \subseteq UserRows
             /\ \A h \in req'[q].held : h.id < nextId' /\ \A a \in table : a.id # h.id
             /\ \A h, g \in req'[q].held : h.id = g.id => h = g
             /\ \A p \in Writers \ {q} : \A h \in req'[q].held, g \in req'[p].held : h.id # g.id
    <2>1. \A h \in req'[q].held : h \in UserRows /\ h.id < nextId'
        BY <1>1, <1>2, <1>4, <1>5
    <2>2. \A h \in req'[q].held : \A a \in table : a.id # h.id
        BY <1>1, <1>2, <1>3, <1>5 DEF KeysAreUnique
    <2>3. \A h, g \in req'[q].held : h.id = g.id => h = g
        BY <1>1, <1>2, <1>4, <1>5 DEF KeysAreUnique
    <2>4. \A p \in Writers \ {q} : \A h \in req'[q].held, g \in req'[p].held : h.id # g.id
        BY <1>1, <1>2, <1>4, <1>5 DEF KeysAreUnique
    <2> QED BY <2>1, <2>2, <2>3, <2>4
<1> QED BY <1>1, <1>6, <1>7, <1>8 DEF KeysAreUnique

LEMMA InsertRowStep == ASSUME CrudInv, NEW w \in Writers, InsertRow(w) PROVE CrudInv'
<1>1. w \in Procs /\ Shape /\ KeysAreUnique /\ WriterFits(w) /\ ReqFits(w) /\ OpFits(w) /\ pc[w] = "insert"
    BY DEF CrudInv, Procs, WriterFits, InsertRow
<1> DEFINE e == req[w].ents[req[w].at + 1]
           new == [id |-> nextId, username |-> e.username, email |-> e.email]
           last == req[w].at + 1 = Len(req[w].ents)
           single == op[w] = "create"
           clashing == {row \in table : Clash(row, e)}
           step == IF ~last THEN "insert" ELSE IF op[w] = "batch" THEN "populate" ELSE "commit"
<1>2. /\ op[w] \in {"create", "batch"} /\ out[w] = "none" /\ w \notin wrote
      /\ req[w].ents \in Seq(CreateUserRequest) /\ req[w].tgt = 0
      /\ Len(req[w].ents) \in 1 .. 2 /\ req[w].at \in 0 .. 1 /\ req[w].at < Len(req[w].ents)
    <2>1. op[w] \in {"create", "batch"} /\ out[w] = "none"
        BY <1>1 DEF OpFits
    <2>2. w \notin wrote
        BY <1>1 DEF WriterFits, WroteFits
    <2>3. /\ req[w].ents \in Seq(CreateUserRequest) /\ req[w].tgt = 0
          /\ Len(req[w].ents) \in 1 .. 2 /\ req[w].at \in 0 .. 3 /\ req[w].at < Len(req[w].ents)
        BY <1>1, <2>1 DEF ReqFits
    <2>4. \A n, m : n \in 1 .. 2 /\ m \in 0 .. 3 /\ m < n => m \in 0 .. 1
        OBVIOUS
    <2> QED BY <2>1, <2>2, <2>3, <2>4
<1>3. e \in CreateUserRequest
    <2>1. req[w].at + 1 \in 1 .. Len(req[w].ents)
        BY <1>2
    <2> QED BY <1>2, <2>1, ElementOfSeq
<1>4. CASE Refused(w, clashing)
    <2>1. clashing \in SUBSET table
        OBVIOUS
    <2>2. ASSUME NEW row \in clashing
          PROVE  /\ row.id # req[w].tgt
                 /\ \E k \in 1 .. Len(req[w].ents), j \in 1 .. 2 :
                        row[FieldOrder[j]] = req[w].ents[k][FieldOrder[j]]
        <3>1. row \in UserRows
            BY <1>1 DEF KeysAreUnique
        <3>2. row.id # req[w].tgt
            BY <1>2, <3>1 DEF UserRows, Ids
        <3>3. PICK j \in 1 .. 2 : row[FieldOrder[j]] = e[FieldOrder[j]]
            <4>1. row.username = e.username \/ row.email = e.email
                BY <2>2 DEF Clash
            <4> QED BY <4>1, OrderFacts
        <3>4. req[w].at + 1 \in 1 .. Len(req[w].ents)
            BY <1>2
        <3> QED BY <3>2, <3>3, <3>4
    <2> HIDE DEF clashing
    <2> QED BY <1>1, <1>4, <2>1, <2>2, RefusedStep
<1>5. CASE /\ nextId <= MaxId /\ nextId' = nextId + 1
           /\ req' = [req EXCEPT ![w].held = @ \union {new},
                                 ![w].tgt = IF single THEN new.id ELSE @,
                                 ![w].at = IF last THEN 0 ELSE @ + 1]
           /\ Goto(w, step) /\ UNCHANGED <<table, op, list, histVars>>
    <2> DEFINE r == [req[w] EXCEPT !.held = @ \union {new},
                                   !.tgt = IF single THEN new.id ELSE @,
                                   !.at = IF last THEN 0 ELSE @ + 1]
    <2>1. req' = [req EXCEPT ![w] = r] /\ req'[w] = r
        BY <1>1, <1>5 DEF Shape
    <2>2. nextId \in Ids /\ new \in UserRows /\ new.id = nextId
        BY <1>1, <1>3, <1>5, BoundsAssumption DEF KeysAreUnique, Ids, UserRows, CreateUserRequest
    <2> HIDE DEF single, last, new
    <2>3. /\ IsReq(r) /\ r.held = req[w].held \union {new} /\ r.seen = req[w].seen
          /\ r.ents = req[w].ents /\ r.errs = req[w].errs
          /\ r.tgt = (IF single THEN new.id ELSE req[w].tgt)
          /\ r.at = (IF last THEN 0 ELSE req[w].at + 1)
        BY <1>1 DEF ReqFits, IsReq
    <2>4. /\ DOMAIN pc' = Procs /\ out' = out /\ pc'[w] = step
          /\ \A q \in Procs \ {w} : pc'[q] = pc[q]
        BY <1>1, <1>5, GotoEffect
    <2>5. /\ last => pc'[w] \in {"populate", "commit"}
          /\ pc'[w] = "populate" => op[w] = "batch"
          /\ ~last => pc'[w] = "insert"
        <3>1. pc'[w] = step
            BY <2>4
        <3>2. /\ last => step \in {"populate", "commit"}
              /\ step = "populate" => op[w] = "batch"
              /\ ~last => step = "insert"
            BY DEF last
        <3> QED BY <3>1, <3>2
    <2> HIDE DEF r, step
    <2>6. UNCHANGED <<table, op, list, rivals, moved, wrote>>
        BY <1>5 DEF histVars
    <2>7. ReqFits(w)'
        <3>1. /\ IsReq(req'[w]) /\ req'[w].ents = req[w].ents /\ req'[w].errs = req[w].errs
              /\ req'[w].seen = req[w].seen
              /\ req'[w].tgt \in Ids \union {0}
              /\ req'[w].at \in 0 .. 3
            BY <1>2, <2>1, <2>2, <2>3
        <3>2. /\ pc'[w] \in {"insert", "populate", "commit"}
              /\ pc'[w] = "insert" => ~last
            BY <2>5
        <3>3. pc'[w] = "insert" => req'[w].at < Len(req[w].ents)
            BY <1>2, <2>1, <2>3, <3>2 DEF last
        <3>4. pc'[w] = "insert" => req'[w].tgt = 0
            <4>1. op[w] = "create" => Len(req[w].ents) = 1
                BY <1>1 DEF ReqFits
            <4>3. \A n, m : n = 1 /\ m \in 0 .. 1 /\ m < n => m + 1 = n
                OBVIOUS
            <4>2. ~last => Len(req[w].ents) # 1
                BY <1>2, <4>3 DEF last
            <4> QED BY <1>2, <2>1, <2>3, <3>2, <4>1, <4>2 DEF single
        <3> QED BY <1>1, <1>2, <2>6, <3>1, <3>2, <3>3, <3>4 DEF ReqFits
    <2>8. OpFits(w)' /\ RivalsFit(w)' /\ WroteFits(w)'
        BY <1>1, <1>2, <2>4, <2>5, <2>6 DEF OpFits, RivalsFit, WroteFits, WriterFits, WriterSteps
    <2>9. DOMAIN req' = Writers /\ \A q \in Writers \ {w} : req'[q] = req[q]
        BY <1>1, <2>1 DEF Shape
    <2>10. OthersStay(w)
        BY <1>1, <2>4, <2>6, <2>9, QuietFrame
    <2>11. Shape'
        BY <1>1, <2>4, <2>6, <2>9 DEF Shape
    <2>12. KeysAreUnique'
        BY <1>1, <1>5, <2>1, <2>2, <2>3, <2>6, <2>9, InsertedIsNew
    <2> QED BY <2>6, <2>7, <2>8, <2>10, <2>11, <2>12, WriterStep DEF WriterFits
<1> QED BY <1>4, <1>5 DEF InsertRow

-----------------------------------------------------------------------------
(* Commits, and the walks that they cross.                                 *)

LEMMA RankGrows ==
    ASSUME NEW a, NEW b, a \subseteq b, IsFiniteSet(b), NEW sort, NEW row
    PROVE  Rank(a, sort, row) \in Nat /\ Rank(b, sort, row) \in Nat
           /\ Rank(a, sort, row) <= Rank(b, sort, row)
<1> DEFINE s == {x \in a : Before(sort, x, row)}
           t == {x \in b : Before(sort, x, row)}
<1>1. s \subseteq t /\ t \subseteq b
    OBVIOUS
<1>2. IsFiniteSet(t)
    BY <1>1, FS_Subset
<1>3. IsFiniteSet(s) /\ Cardinality(s) <= Cardinality(t)
    BY <1>1, <1>2, FS_Subset
<1>4. Cardinality(s) \in Nat /\ Cardinality(t) \in Nat
    BY <1>2, <1>3, FS_CardinalityType
<1> QED BY <1>3, <1>4 DEF Rank

\* What a list shows of a row depends on the row alone.
Hit(search, row) ==
    \/ search = None \/ search.fields = {} \/ SearchConditions(search) = {}
    \/ \E f \in SearchConditions(search) : row[f] = search.term

LEMMA MatchingIs ==
    ASSUME NEW l \in Readers, list'[l] = list[l]
    PROVE  /\ Matching(list[l].search) = {row \in table : Hit(list[l].search, row)}
           /\ Matching(list[l].search)' = {row \in table' : Hit(list[l].search, row)}
BY DEF Matching, Hit

LEMMA ReaderMoved ==
    ASSUME NEW l \in Readers, ReaderFits(l), IsFiniteSet(table), IsFiniteSet(table'),
           list'[l] = list[l], pc'[l] = pc[l], op'[l] = op[l], out'[l] = out[l],
           NEW kind \in {"insert", "update", "delete"},
           moved'[l] = IF pc[l] = "idle" THEN {} ELSE moved[l] \union {kind},
           kind = "insert" => table \subseteq table',
           kind = "delete" => table' \subseteq table
    PROVE  ReaderFits(l)'
<1> DEFINE rows == Matching(list[l].search)
           sort == list[l].sort
<1>1. /\ rows = {row \in table : Hit(list[l].search, row)}
      /\ rows' = {row \in table' : Hit(list[l].search, row)}
    BY MatchingIs
<1>2. rows \subseteq table /\ rows' \subseteq table'
    BY <1>1
<1>3. IsFiniteSet(rows) /\ IsFiniteSet(rows')
    BY <1>2, FS_Subset
<1>4. \A row : RankOf(l, row) = Rank(rows, sort, row) /\ RankOf(l, row)' = Rank(rows', sort, row)
    BY DEF RankOf
<1>5. Got(l)' = Got(l) /\ Offset(l)' = Offset(l)
    BY DEF Got, Offset
<1>6. kind = "insert" => rows \subseteq rows'
    BY <1>1
<1>7. kind = "delete" => rows' \subseteq rows
    BY <1>1
<1> HIDE DEF rows, sort
<1>8. CASE pc[l] = "idle"
    BY <1>8 DEF ReaderFits
<1>9. CASE pc[l] # "idle"
    <2>1. moved'[l] = moved[l] \union {kind}
        BY <1>9
    <2>2. VisitedEach(l) => VisitedEach(l)'
        <3>1. \A a : moved'[l] \subseteq a => moved[l] \subseteq a
            BY <2>1
        <3> QED BY <3>1 DEF VisitedEach
    <2>3. ASSUME pc[l] \in {"page", "count"} PROVE NothingSkipped(l)' /\ NothingTwice(l)'
        <3>1. NothingSkipped(l) /\ NothingTwice(l) /\ Offset(l) \in Int
            <4>1. list[l].page \in 1 .. MaxId /\ NothingSkipped(l) /\ NothingTwice(l)
                BY <2>3 DEF ReaderFits
            <4>2. Offset(l) \in Int
                BY <4>1, BoundsAssumption DEF Offset
            <4> QED BY <4>1, <4>2
        <3>2. NothingSkipped(l)'
            <4> SUFFICES ASSUME moved'[l] \subseteq {"insert"}, NEW i \in list[l].from
                         PROVE  \/ \E row \in ToSet(Got(l)) : row.id = i
                                \/ \E row \in rows' : row.id = i /\ RankOf(l, row)' >= Offset(l)
                BY <1>5 DEF NothingSkipped, rows
            <4>1. kind = "insert" /\ moved[l] \subseteq {"insert"}
                BY <2>1
            <4>2. CASE \E row \in rows : row.id = i /\ RankOf(l, row) >= Offset(l)
                <5>1. PICK row \in rows : row.id = i /\ RankOf(l, row) >= Offset(l)
                    BY <4>2
                <5>2. row \in rows'
                    BY <1>6, <4>1
                <5>3. /\ RankOf(l, row) \in Nat /\ RankOf(l, row)' \in Nat
                      /\ RankOf(l, row) <= RankOf(l, row)'
                    BY <1>3, <1>4, <1>6, <4>1, RankGrows
                <5>4. RankOf(l, row)' >= Offset(l)
                    BY <3>1, <5>1, <5>3
                <5> QED BY <5>1, <5>2, <5>4
            <4> QED BY <3>1, <4>1, <4>2 DEF NothingSkipped, rows
        <3>3. NothingTwice(l)'
            <4> SUFFICES ASSUME moved'[l] \subseteq {"delete"}
                         PROVE  /\ IsInjective(Got(l))
                                /\ \A row \in ToSet(Got(l)) \intersect rows' : RankOf(l, row)' < Offset(l)
                BY <1>5 DEF NothingTwice, rows
            <4>1. kind = "delete" /\ moved[l] \subseteq {"delete"}
                BY <2>1
            <4>2. IsInjective(Got(l)) /\ \A row \in ToSet(Got(l)) \intersect rows : RankOf(l, row) < Offset(l)
                BY <3>1, <4>1 DEF NothingTwice, rows
            <4>3. ASSUME NEW row \in ToSet(Got(l)) \intersect rows' PROVE RankOf(l, row)' < Offset(l)
                <5>1. RankOf(l, row) < Offset(l)
                    BY <1>7, <4>1, <4>2
                <5>2. /\ RankOf(l, row) \in Nat /\ RankOf(l, row)' \in Nat
                      /\ RankOf(l, row)' <= RankOf(l, row)
                    BY <1>3, <1>4, <1>7, <4>1, RankGrows
                <5> QED BY <3>1, <5>1, <5>2
            <4> QED BY <4>2, <4>3
        <3> QED BY <3>2, <3>3
    <2>4. moved'[l] \subseteq {"insert", "update", "delete"}
        BY <2>1 DEF ReaderFits
    <2> QED BY <1>9, <2>2, <2>3, <2>4 DEF ReaderFits
<1> QED BY <1>8, <1>9

\* The keys after a commit: those that were there, and those that its
\* transaction held.
LEMMA KeysAfterStore ==
    ASSUME KeysAreUnique, NEW w \in Writers, nextId' = nextId,
           table' \subseteq UserRows, IsFiniteSet(table'),
           req'[w].held = {}, \A q \in Writers \ {w} : req'[q] = req[q],
           \A a \in table' : \E b \in table \union req[w].held : a.id = b.id,
           \A a, b \in table' : a.id = b.id => a = b
    PROVE  KeysAreUnique'
<1>1. \A a \in table' : a.id < nextId'
    BY DEF KeysAreUnique
<1>2. IsFiniteSet({})
    BY FS_EmptySet
<1>3. ASSUME NEW q \in Writers
      PROVE  /\ req'[q].held \subseteq UserRows /\ IsFiniteSet(req'[q].held)
             /\ \A h \in req'[q].held : h.id < nextId' /\ \A a \in table' : a.id # h.id
             /\ \A h, g \in req'[q].held : h.id = g.id => h = g
             /\ \A p \in Writers \ {q} : \A h \in req'[q].held, g \in req'[p].held : h.id # g.id
    <2>1. CASE q = w
        BY <1>2, <2>1
    <2>2. CASE q # w
        <3>1. req'[q] = req[q]
            BY <2>2
        <3>2. /\ req[q].held \subseteq UserRows /\ IsFiniteSet(req[q].held)
              /\ \A h, g \in req[q].held : h.id = g.id => h = g
              /\ \A h \in req[q].held : h.id < nextId /\ \A a \in table : a.id # h.id
              /\ \A h \in req[q].held, g \in req[w].held : h.id # g.id
            BY <2>2 DEF KeysAreUnique
        <3>3. \A h \in req[q].held : \A a \in table' : a.id # h.id
            BY <3>2
        <3>4. \A p \in Writers \ {q} : \A h \in req'[q].held, g \in req'[p].held : h.id # g.id
            BY <3>1 DEF KeysAreUnique
        <3> QED BY <3>1, <3>2, <3>3, <3>4
    <2> QED BY <2>1, <2>2
<1> QED BY <1>1, <1>3 DEF KeysAreUnique

\* A commit of one writer.
LEMMA StoreStep ==
    ASSUME CrudInv, NEW w \in Writers, NEW rows, NEW kind \in {"insert", "update", "delete"},
           Store(w, rows, kind), IsFiniteSet(rows), Shape', KeysAreUnique', WriterFits(w)',
           kind = "insert" => table \subseteq rows, kind = "delete" => rows \subseteq table,
           op' = op, list' = list,
           \A q \in Procs \ {w} : /\ pc'[q] = pc[q] /\ out'[q] = out[q]
                                  /\ q \in Writers => req'[q] = req[q]
    PROVE  CrudInv'
<1>1. w \in Procs /\ w \notin Readers /\ Shape /\ IsFiniteSet(table)
    BY ActorsAssumption DEF CrudInv, KeysAreUnique, Procs
<1>2. /\ table' = rows /\ wrote' = wrote \union {w}
      /\ \A l \in Readers : moved'[l] = IF pc[l] = "idle" THEN {} ELSE moved[l] \union {kind}
      /\ \A q \in Writers : rivals'[q] = rivals[q] \intersect rows
    BY DEF Store
<1>3. OthersStay(w)
    BY <1>2 DEF OthersStay
<1>4. ASSUME NEW q \in Writers PROVE WriterFits(q)'
    BY <1>1, <1>3, OtherWriters
<1>5. ASSUME NEW l \in Readers PROVE ReaderFits(l)'
    <2>1. l \in Procs \ {w} /\ ReaderFits(l)
        BY <1>1 DEF CrudInv, Procs
    <2> QED BY <1>1, <1>2, <2>1, ReaderMoved
<1> QED BY <1>4, <1>5 DEF CrudInv

\* A writer that reads its row back.
LEMMA RefreshEffect ==
    ASSUME CrudInv, NEW w \in Writers, ThenRefresh(w), out[w] = "none", op' = op,
           op[w] \in {"create", "update"}, rivals'[w] \subseteq table'
    PROVE  /\ DOMAIN pc' = Procs /\ out' = out /\ DOMAIN req' = Writers /\ req'[w].held = {}
           /\ \A q \in Procs \ {w} : pc'[q] = pc[q]
           /\ \A q \in Writers \ {w} : req'[q] = req[q]
           /\ WriterFits(w)'
<1>1. w \in Procs /\ Shape /\ WriterFits(w) /\ ReqFits(w)
    BY DEF CrudInv, Procs, WriterFits
<1> DEFINE r == [NoReq EXCEPT !.tgt = req[w].tgt]
<1>2. Goto(w, "refresh") /\ req' = [req EXCEPT ![w] = r]
    BY DEF ThenRefresh
<1>3. /\ DOMAIN req' = Writers /\ req'[w] = r /\ \A q \in Writers \ {w} : req'[q] = req[q]
    BY <1>1, <1>2 DEF Shape
<1>4. /\ IsReq(r) /\ r.ents = <<>> /\ r.tgt = req[w].tgt /\ r.at = 0 /\ r.errs = {} /\ r.held = {}
      /\ r.seen = NoRow
    BY DEF NoReq, IsReq
<1> HIDE DEF r
<1>5. /\ DOMAIN pc' = Procs /\ out' = out /\ pc'[w] = "refresh"
      /\ \A q \in Procs \ {w} : pc'[q] = pc[q]
    BY <1>1, <1>2, GotoEffect
<1>6. ReqFits(w)'
    <2>1. req[w].tgt \in Ids \union {0}
        BY <1>1 DEF ReqFits
    <2> QED BY <1>3, <1>4, <1>5, <2>1, EmptySeq DEF ReqFits
<1>7. OpFits(w)' /\ RivalsFit(w)' /\ WroteFits(w)'
    BY <1>5 DEF OpFits, RivalsFit, WroteFits, WriterSteps, Answers, Ops
<1> QED BY <1>3, <1>4, <1>5, <1>6, <1>7 DEF WriterFits

\* What a transaction has inserted joins the table.
LEMMA CommittedRows ==
    ASSUME KeysAreUnique, NEW w \in Writers
    PROVE  LET rows == table \union req[w].held IN
           /\ table \subseteq rows /\ rows \subseteq UserRows /\ IsFiniteSet(rows)
           /\ \A a, b \in rows : a.id = b.id => a = b
<1> DEFINE rows == table \union req[w].held
<1>1. IsFiniteSet(rows)
    BY FS_Union DEF KeysAreUnique
<1>2. table \subseteq rows /\ rows \subseteq UserRows
    BY DEF KeysAreUnique
<1>3. \A a, b \in rows : a.id = b.id => a = b
    BY DEF KeysAreUnique
<1> QED BY <1>1, <1>2, <1>3

\* What every commit of the inserts of a request has in common.
LEMMA InsertCommitted ==
    ASSUME CrudInv, NEW w \in Writers, Store(w, table \union req[w].held, "insert"),
           UNCHANGED <<nextId, op, list>>,
           DOMAIN pc' = Procs, DOMAIN out' = Procs, DOMAIN req' = Writers, req'[w].held = {},
           \A q \in Procs \ {w} : pc'[q] = pc[q] /\ out'[q] = out[q],
           \A q \in Writers \ {w} : req'[q] = req[q], WriterFits(w)'
    PROVE  CrudInv'
<1>1. Shape /\ KeysAreUnique
    BY DEF CrudInv
<1> DEFINE rows == table \union req[w].held
<1>2. /\ table \subseteq rows /\ rows \subseteq UserRows /\ IsFiniteSet(rows)
      /\ \A a, b \in rows : a.id = b.id => a = b
    BY <1>1, CommittedRows
<1>3. Shape'
    BY <1>1 DEF Shape, Store
<1>4. table' = rows
    BY DEF Store
<1> HIDE DEF rows
<1>5. \A a \in table' : \E b \in table \union req[w].held : a.id = b.id
    BY <1>4 DEF rows
<1>6. KeysAreUnique'
    BY <1>1, <1>2, <1>4, <1>5, KeysAfterStore
<1>7. Store(w, rows, "insert")
    BY DEF rows
<1> QED BY <1>2, <1>3, <1>6, <1>7, StoreStep

LEMMA CommitStep == ASSUME CrudInv, NEW w \in Writers, Commit(w) PROVE CrudInv'
<1>1. w \in Procs /\ Shape /\ WriterFits(w) /\ OpFits(w) /\ pc[w] = "commit"
    BY DEF CrudInv, Procs, WriterFits, Commit
<1>2. Store(w, table \union req[w].held, "insert") /\ UNCHANGED <<nextId, op, list>>
    BY DEF Commit
<1>3. op[w] \in {"create", "batch"} /\ out[w] = "none"
    BY <1>1 DEF OpFits
<1>4. rivals'[w] \subseteq table'
    BY <1>2 DEF Store
<1>5. CASE op[w] = "batch" /\ Answer(w, "ok")
    <2>1. /\ DOMAIN pc' = Procs /\ DOMAIN out' = Procs /\ pc'[w] = "end" /\ out'[w] = "ok"
          /\ \A q \in Procs \ {w} : pc'[q] = pc[q] /\ out'[q] = out[q]
          /\ DOMAIN req' = Writers /\ req'[w] = NoReq /\ \A q \in Writers \ {w} : req'[q] = req[q]
        BY <1>1, <1>5, AnswerEffect, EndEffect
    <2>2. WriterFits(w)'
        BY <1>2, <1>4, <1>5, <2>1, WriterEnded DEF Answers, Ops
    <2> QED BY <1>2, <2>1, <2>2, NoReqFits, InsertCommitted
<1>6. CASE op[w] # "batch" /\ ThenRefresh(w)
    <2>1. /\ DOMAIN pc' = Procs /\ out' = out /\ DOMAIN req' = Writers /\ req'[w].held = {}
          /\ \A q \in Procs \ {w} : pc'[q] = pc[q]
          /\ \A q \in Writers \ {w} : req'[q] = req[q]
          /\ WriterFits(w)'
        BY <1>2, <1>3, <1>4, <1>6, RefreshEffect
    <2>2. DOMAIN out' = Procs
        BY <1>1, <2>1 DEF Shape
    <2> QED BY <1>2, <2>1, <2>2, InsertCommitted
<1> QED BY <1>5, <1>6 DEF Commit

LEMMA CommitLostStep == ASSUME CrudInv, NEW w \in Writers, CommitLost(w) PROVE CrudInv'
<1>1. w \in Procs /\ Shape /\ WriterFits(w) /\ OpFits(w) /\ pc[w] = "commit"
    BY DEF CrudInv, Procs, WriterFits, CommitLost
<1>2. Answer(w, "commit_lost") /\ UNCHANGED <<nextId, op, list>>
    BY DEF CommitLost
<1>3. op[w] \in {"create", "batch"} /\ w \notin wrote
    BY <1>1 DEF OpFits, WriterFits, WroteFits
<1>4. CASE Store(w, table \union req[w].held, "insert")
    <2>1. /\ DOMAIN pc' = Procs /\ DOMAIN out' = Procs /\ pc'[w] = "end" /\ out'[w] = "commit_lost"
          /\ \A q \in Procs \ {w} : pc'[q] = pc[q] /\ out'[q] = out[q]
          /\ DOMAIN req' = Writers /\ req'[w] = NoReq /\ \A q \in Writers \ {w} : req'[q] = req[q]
        BY <1>1, <1>2, AnswerEffect, EndEffect
    <2>2. rivals'[w] \subseteq table'
        BY <1>4 DEF Store
    <2>3. WriterFits(w)'
        BY <1>2, <1>3, <2>1, <2>2, WriterEnded DEF Answers, Ops
    <2> QED BY <1>2, <1>4, <2>1, <2>3, NoReqFits, InsertCommitted
<1>5. CASE UNCHANGED <<table, histVars>>
    <2>1. DOMAIN op' = Procs /\ op' = op
        BY <1>1, <1>2 DEF Shape
    <2> QED BY <1>2, <1>3, <1>5, <2>1, QuietAnswer DEF Answers, Ops
<1> QED BY <1>4, <1>5 DEF CommitLost

-----------------------------------------------------------------------------
(* Updates and deletions.                                                  *)

LEMMA UpdatedFits ==
    ASSUME NEW w \in Writers, ReqFits(w), pc[w] = "update", NEW row \in UserRows
    PROVE  Updated(w, row) \in UserRows /\ Updated(w, row).id = row.id
<1>1. Len(req[w].ents) \in 1 .. 2 /\ req[w].ents \in Seq(UpdateUserRequest)
    BY DEF ReqFits
<1>2. req[w].ents[1] \in UpdateUserRequest
    BY <1>1, ElementOfSeq
<1> DEFINE e == req[w].ents[1]
<1>3. e.username \in Names \union {None} /\ e.email \in Mails \union {None}
    BY <1>2 DEF UpdateUserRequest
<1>4. DOMAIN row = {"id", "username", "email"}
      /\ row.id \in Ids /\ row.username \in Names /\ row.email \in Mails
    BY DEF UserRows
<1>5. \A f \in Dirty(w) : f \in Fields /\ e[f] # None
    BY DEF Dirty
<1>6. "id" \notin Dirty(w)
    BY <1>5 DEF Fields
<1> HIDE DEF e
<1> DEFINE u == [f \in {"id", "username", "email"} |-> IF f \in Dirty(w) THEN e[f] ELSE row[f]]
<1>7. Updated(w, row) = u
    BY <1>4 DEF Updated, e
<1>8. u.id = row.id /\ u.username \in Names /\ u.email \in Mails
    <2>1. "username" \in Dirty(w) => e.username \in Names
        BY <1>3, <1>5
    <2>2. "email" \in Dirty(w) => e.email \in Mails
        BY <1>3, <1>5
    <2> QED BY <1>4, <1>6, <2>1, <2>2
<1>9. u = [id |-> u.id, username |-> u.username, email |-> u.email]
    OBVIOUS
<1> HIDE DEF u
<1> QED BY <1>4, <1>7, <1>8, <1>9 DEF UserRows

LEMMA UpdatedRows ==
    ASSUME KeysAreUnique, NEW w \in Writers, ReqFits(w), pc[w] = "update"
    PROVE  LET rows == {IF row.id = req[w].tgt THEN Updated(w, row) ELSE row : row \in table} IN
           /\ rows \subseteq UserRows /\ IsFiniteSet(rows)
           /\ \A a \in rows : \E b \in table : a.id = b.id
           /\ \A a, b \in rows : a.id = b.id => a = b
<1> DEFINE after(row) == IF row.id = req[w].tgt THEN Updated(w, row) ELSE row
           rows == {after(row) : row \in table}
           f == [row \in table |-> after(row)]
<1>1. \A row \in table : after(row) \in UserRows /\ after(row).id = row.id
    BY UpdatedFits DEF KeysAreUnique
<1> HIDE DEF after
<1>2. rows \subseteq UserRows /\ \A a \in rows : \E b \in table : a.id = b.id
    BY <1>1
<1>3. \A a, b \in rows : a.id = b.id => a = b
    <2> SUFFICES ASSUME NEW a \in rows, NEW b \in rows, a.id = b.id PROVE a = b
        OBVIOUS
    <2>1. PICK x \in table : a = after(x)
        OBVIOUS
    <2>2. PICK y \in table : b = after(y)
        OBVIOUS
    <2>3. x = y
        BY <1>1, <2>1, <2>2 DEF KeysAreUnique
    <2> QED BY <2>1, <2>2, <2>3
<1>4. IsFiniteSet(rows)
    <2>1. f \in Surjection(table, rows)
        BY DEF Surjection
    <2> QED BY <2>1, FS_Surjection DEF KeysAreUnique
<1>5. rows = {IF row.id = req[w].tgt THEN Updated(w, row) ELSE row : row \in table}
    BY DEF after
<1> HIDE DEF rows
<1> QED BY <1>2, <1>3, <1>4, <1>5

LEMMA UpdateRowStep == ASSUME CrudInv, NEW w \in Writers, UpdateRow(w) PROVE CrudInv'
<1>1. w \in Procs /\ Shape /\ KeysAreUnique /\ WriterFits(w) /\ ReqFits(w) /\ OpFits(w) /\ pc[w] = "update"
    BY DEF CrudInv, Procs, WriterFits, UpdateRow
<1>2. op[w] = "update" /\ out[w] = "none"
    BY <1>1 DEF OpFits
<1> DEFINE clashing == {row \in table : row.id # req[w].tgt /\
                            \E f \in Dirty(w) : row[f] = req[w].ents[1][f]}
           rows == {IF row.id = req[w].tgt THEN Updated(w, row) ELSE row : row \in table}
<1>3. CASE ThenRefresh(w) /\ UNCHANGED <<table, nextId, op, list, histVars>>
    <2>1. UNCHANGED <<table, nextId, op, list, rivals, moved, wrote>>
        BY <1>3 DEF histVars
    <2>2. rivals'[w] \subseteq table'
        BY <1>1, <2>1 DEF WriterFits, RivalsFit
    <2>3. /\ DOMAIN pc' = Procs /\ out' = out /\ DOMAIN req' = Writers /\ req'[w].held = {}
          /\ \A q \in Procs \ {w} : pc'[q] = pc[q]
          /\ \A q \in Writers \ {w} : req'[q] = req[q]
          /\ WriterFits(w)'
        BY <1>2, <1>3, <2>1, <2>2, RefreshEffect
    <2>4. Shape'
        BY <1>1, <2>1, <2>3 DEF Shape
    <2>5. OthersStay(w)
        BY <1>1, <2>1, <2>3, QuietFrame
    <2>6. \A q \in Writers : req'[q].held \subseteq req[q].held
        BY <2>3
    <2>7. KeysAreUnique'
        BY <1>1, <2>1, <2>6, KeysStay
    <2> QED BY <2>1, <2>3, <2>4, <2>5, <2>7, WriterStep
<1>4. CASE Answer(w, "500") /\ UNCHANGED <<table, nextId, op, list, histVars>>
    <2>1. DOMAIN op' = Procs /\ op' = op
        BY <1>1, <1>4 DEF Shape
    <2> QED BY <1>2, <1>4, <2>1, QuietAnswer DEF Answers, Ops
<1>5. CASE Refused(w, clashing)
    <2>1. clashing \in SUBSET table
        OBVIOUS
    <2>2. ASSUME NEW row \in clashing
          PROVE  /\ row.id # req[w].tgt
                 /\ \E k \in 1 .. Len(req[w].ents), j \in 1 .. 2 :
                        row[FieldOrder[j]] = req[w].ents[k][FieldOrder[j]]
        <3>1. PICK f \in Dirty(w) : row[f] = req[w].ents[1][f]
            OBVIOUS
        <3>2. PICK j \in 1 .. 2 : f = FieldOrder[j]
            BY OrderFacts DEF Dirty, Fields
        <3>3. 1 \in 1 .. Len(req[w].ents)
            BY <1>1 DEF ReqFits
        <3> QED BY <3>1, <3>2, <3>3
    <2> HIDE DEF clashing
    <2> QED BY <1>1, <1>5, <2>1, <2>2, RefusedStep
<1>6. CASE Store(w, rows, "update") /\ ThenRefresh(w) /\ UNCHANGED <<nextId, op, list>>
    <2>1. /\ rows \subseteq UserRows /\ IsFiniteSet(rows)
          /\ \A a \in rows : \E b \in table : a.id = b.id
          /\ \A a, b \in rows : a.id = b.id => a = b
        BY <1>1, UpdatedRows
    <2> HIDE DEF rows
    <2>2. table' = rows /\ rivals'[w] \subseteq table'
        BY <1>6 DEF Store
    <2>3. /\ DOMAIN pc' = Procs /\ out' = out /\ DOMAIN req' = Writers /\ req'[w].held = {}
          /\ \A q \in Procs \ {w} : pc'[q] = pc[q]
          /\ \A q \in Writers \ {w} : req'[q] = req[q]
          /\ WriterFits(w)'
        BY <1>2, <1>6, <2>2, RefreshEffect
    <2>4. Shape'
        BY <1>1, <1>6, <2>3 DEF Shape, Store
    <2>5. KeysAreUnique'
        BY <1>1, <1>6, <2>1, <2>2, <2>3, KeysAfterStore
    <2> QED BY <1>6, <2>1, <2>3, <2>4, <2>5, StoreStep
<1> QED BY <1>3, <1>4, <1>5, <1>6 DEF UpdateRow

LEMMA DeleteRowStep == ASSUME CrudInv, NEW w \in Writers, DeleteRow(w) PROVE CrudInv'
<1>1. w \in Procs /\ Shape /\ KeysAreUnique /\ WriterFits(w) /\ OpFits(w) /\ pc[w] = "delete"
    BY DEF CrudInv, Procs, WriterFits, DeleteRow
<1> DEFINE rows == {row \in table : row.id # req[w].tgt}
<1>2. Store(w, rows, "delete") /\ Answer(w, "ok") /\ UNCHANGED <<nextId, op, list>>
    BY DEF DeleteRow
<1>3. rows \subseteq table
    OBVIOUS
<1>4. IsFiniteSet(rows)
    BY <1>1, <1>3, FS_Subset DEF KeysAreUnique
<1> HIDE DEF rows
<1>5. table' = rows /\ rivals'[w] \subseteq table'
    BY <1>2 DEF Store
<1>6. /\ DOMAIN pc' = Procs /\ DOMAIN out' = Procs /\ pc'[w] = "end" /\ out'[w] = "ok"
      /\ \A q \in Procs \ {w} : pc'[q] = pc[q] /\ out'[q] = out[q]
      /\ DOMAIN req' = Writers /\ req'[w] = NoReq /\ \A q \in Writers \ {w} : req'[q] = req[q]
    BY <1>1, <1>2, AnswerEffect, EndEffect
<1>7. op[w] = "delete" /\ op' = op
    BY <1>1, <1>2 DEF OpFits
<1>8. WriterFits(w)'
    BY <1>5, <1>6, <1>7, WriterEnded DEF Answers, Ops
<1>9. Shape'
    BY <1>1, <1>2, <1>6 DEF Shape, Store
<1>10. KeysAreUnique'
    <2>1. table' \subseteq UserRows /\ \A a, b \in table' : a.id = b.id => a = b
        BY <1>1, <1>3, <1>5 DEF KeysAreUnique
    <2>2. \A a \in table' : \E b \in table \union req[w].held : a.id = b.id
        BY <1>3, <1>5
    <2> QED BY <1>1, <1>2, <1>4, <1>5, <1>6, <2>1, <2>2, NoReqFits, KeysAfterStore
<1> QED BY <1>2, <1>3, <1>4, <1>6, <1>7, <1>8, <1>9, <1>10, StoreStep

-----------------------------------------------------------------------------
(* Walks.                                                                  *)

\* A listing holds every row once, each behind those before it in the order.
LEMMA ListingOrder ==
    ASSUME NEW rows \in SUBSET UserRows, IsFiniteSet(rows), NEW sort, NEW s \in Listings(rows, sort)
    PROVE  /\ Cardinality(rows) \in Nat /\ s \in Seq(rows) /\ Len(s) = Cardinality(rows)
           /\ \A row \in rows : \E k \in 1 .. Len(s) : s[k] = row
           /\ \A i, k \in 1 .. Len(s) : i < k => Before(sort, s[i], s[k])
           /\ \A i, k \in 1 .. Len(s) : s[i] = s[k] => i = k
<1> DEFINE n == Cardinality(rows)
<1>1. n \in Nat
    BY FS_CardinalityType
<1>2. s \in [1 .. n -> rows] /\ \A i, k \in 1 .. n : i # k => s[i] # s[k]
    BY DEF Listings, SetToSeqs
<1> HIDE DEF n
<1>3. s \in Seq(rows) /\ Len(s) = n
    BY <1>1, <1>2
<1>4. \A row \in rows : \E k \in 1 .. n : s[k] = row
    <2>1. s \in Injection(1 .. n, rows)
        BY <1>2 DEF Injection, IsInjective
    <2>2. IsFiniteSet(1 .. n) /\ Cardinality(1 .. n) = n
        BY <1>1, FS_Interval
    <2>3. s \in Surjection(1 .. n, rows)
        BY <2>1, <2>2, FS_Injection DEF n
    <2> QED BY <2>3 DEF Surjection
<1>5. ASSUME NEW i \in 1 .. n, NEW k \in 1 .. n, i < k PROVE Before(sort, s[i], s[k])
    <2>1. CASE sort = "id_asc"
        <3> DEFINE t == Reverse(s)
                   a == n - k + 1
                   b == n - i + 1
        <3>1. StableOrder(t)
            BY <2>1 DEF Listings
        <3>2. a \in 1 .. n /\ b \in 1 .. n /\ a < b /\ n - a + 1 = k /\ n - b + 1 = i
            BY <1>1, <1>5
        <3>3. DOMAIN t = 1 .. n /\ t[a] = s[n - a + 1] /\ t[b] = s[n - b + 1]
            BY <1>3, <3>2 DEF Reverse
        <3> HIDE DEF t, a, b
        <3>4. t[a].id > t[b].id
            BY <3>1, <3>2, <3>3 DEF StableOrder
        <3>5. s[k].id > s[i].id
            BY <3>2, <3>3, <3>4
        <3>6. s[i].id \in Nat /\ s[k].id \in Nat
            BY <1>2, BoundsAssumption DEF UserRows, Ids
        <3> QED BY <2>1, <3>5, <3>6 DEF Before
    <2>2. CASE sort # "id_asc"
        <3>1. StableOrder(s)
            BY <2>2 DEF Listings
        <3>2. DOMAIN s = 1 .. n
            BY <1>2
        <3> QED BY <1>5, <2>2, <3>1, <3>2 DEF StableOrder, Before
    <2> QED BY <2>1, <2>2
<1>6. \A i, k \in 1 .. n : s[i] = s[k] => i = k
    BY <1>2
<1> QED BY <1>1, <1>3, <1>4, <1>5, <1>6 DEF n

\* The order is strict.
LEMMA BeforeIsStrict ==
    ASSUME NEW a \in UserRows, NEW b \in UserRows, NEW sort, Before(sort, a, b)
    PROVE  ~Before(sort, b, a)
<1>1. a.id \in Nat /\ b.id \in Nat
    BY BoundsAssumption DEF UserRows, Ids
<1> QED BY <1>1 DEF Before

\* The rank of a row is its position, counted from zero.
LEMMA ListingRank ==
    ASSUME NEW rows \in SUBSET UserRows, IsFiniteSet(rows), NEW sort, NEW s \in Listings(rows, sort),
           NEW k \in 1 .. Len(s)
    PROVE  s[k] \in rows /\ Rank(rows, sort, s[k]) = k - 1
<1>1. /\ s \in Seq(rows) /\ Len(s) \in Nat
      /\ \A row \in rows : \E i \in 1 .. Len(s) : s[i] = row
      /\ \A i, j \in 1 .. Len(s) : i < j => Before(sort, s[i], s[j])
      /\ \A i, j \in 1 .. Len(s) : s[i] = s[j] => i = j
    BY ListingOrder
<1>2. \A i \in 1 .. Len(s) : s[i] \in rows
    BY <1>1, ElementOfSeq
<1> DEFINE b == {a \in rows : Before(sort, a, s[k])}
           f == [i \in 1 .. k - 1 |-> s[i]]
<1>3. k - 1 \in Nat /\ \A i \in 1 .. k - 1 : i \in 1 .. Len(s) /\ i < k
    BY <1>1
<1>4. \A i \in 1 .. k - 1 : f[i] \in b
    BY <1>1, <1>2, <1>3
<1>5. ASSUME NEW a \in b PROVE \E i \in 1 .. k - 1 : f[i] = a
    <2>1. PICK i \in 1 .. Len(s) : s[i] = a
        BY <1>1
    <2>2. Before(sort, s[i], s[k]) /\ s[i] \in UserRows /\ s[k] \in UserRows
        BY <1>2, <2>1
    <2>3. ~Before(sort, s[k], s[i])
        BY <2>2, BeforeIsStrict
    <2>4. ~(k < i) /\ i # k
        BY <1>1, <2>2, <2>3
    <2>5. i \in 1 .. k - 1
        BY <1>1, <2>4
    <2> QED BY <2>1, <2>5
<1>6. f \in Bijection(1 .. k - 1, b)
    <2>1. f \in [1 .. k - 1 -> b]
        BY <1>4
    <2>2. IsInjective(f)
        BY <1>1, <1>3 DEF IsInjective
    <2> HIDE DEF f, b
    <2> QED BY <1>5, <2>1, <2>2 DEF Bijection, Injection, Surjection
<1>7. Cardinality(b) = k - 1
    <2> HIDE DEF f, b
    <2>1. ExistsBijection(1 .. k - 1, b)
        BY <1>6 DEF ExistsBijection
    <2> QED BY <1>3, <2>1, FS_CountingElements
<1> QED BY <1>2, <1>7 DEF Rank

\* No row comes behind all of them.
LEMMA RankIsBelow ==
    ASSUME NEW rows \in SUBSET UserRows, IsFiniteSet(rows), NEW sort, NEW row \in rows
    PROVE  /\ Rank(rows, sort, row) \in Nat /\ Cardinality(rows) \in Nat
           /\ Rank(rows, sort, row) < Cardinality(rows)
<1> DEFINE b == {a \in rows : Before(sort, a, row)}
<1>1. row \notin b
    BY BeforeIsStrict
<1>2. b \in SUBSET rows /\ b # rows
    BY <1>1
<1> HIDE DEF b
<1>3. /\ IsFiniteSet(b) /\ Cardinality(b) <= Cardinality(rows)
      /\ Cardinality(b) # Cardinality(rows)
    BY <1>2, FS_Subset
<1>4. Cardinality(b) \in Nat /\ Cardinality(rows) \in Nat
    BY <1>3, FS_CardinalityType
<1>5. Cardinality(b) < Cardinality(rows)
    BY <1>3, <1>4
<1> QED BY <1>4, <1>5 DEF Rank, b

LEMMA TableIsBounded ==
    ASSUME KeysAreUnique
    PROVE  Cardinality(table) \in Nat /\ Cardinality(table) <= MaxId
<1> DEFINE f == [row \in table |-> row.id]
<1>1. f \in Injection(table, 1 .. MaxId)
    BY DEF KeysAreUnique, Injection, IsInjective, UserRows, Ids
<1>2. IsFiniteSet(1 .. MaxId) /\ Cardinality(1 .. MaxId) = MaxId
    BY BoundsAssumption, FS_Interval
<1> HIDE DEF f
<1>3. Cardinality(table) <= MaxId
    BY <1>1, <1>2, FS_Injection
<1> QED BY <1>3, FS_CardinalityType DEF KeysAreUnique

LEMMA PageCount ==
    ASSUME NEW total \in Nat, NEW page \in Nat \ {0}
    PROVE  /\ TotalPages(total) \in Nat /\ TotalPages(total) <= total
           /\ page >= TotalPages(total) => total <= page * PageSize
<1> DEFINE p == PageSize
           q == (total + p - 1) \div p
<1>1. p \in Nat \ {0}
    BY BoundsAssumption
<1> HIDE DEF p
<1>2. q \in Int /\ q * p <= total + p - 1 /\ total + p - 1 < (q + 1) * p
    BY <1>1
<1> HIDE DEF q
<1>3. q >= 0
    <2> SUFFICES ASSUME q < 0 PROVE FALSE
        BY <1>2
    <2>1. (q + 1) * p <= 0
        BY <1>1, <1>2
    <2> QED BY <1>1, <1>2, <2>1
<1>4. q <= total
    <2> SUFFICES ASSUME q >= total + 1 PROVE FALSE
        BY <1>2
    <2>1. q * p >= (total + 1) * p
        BY <1>1, <1>2
    <2>2. (total + 1) * p = total * p + p /\ total * p >= total
        BY <1>1
    <2> QED BY <1>1, <1>2, <2>1, <2>2
<1>5. page >= q => total <= page * p
    <2> SUFFICES ASSUME page >= q PROVE total <= page * p
        OBVIOUS
    <2>1. (q + 1) * p = q * p + p /\ q * p <= page * p
        BY <1>1, <1>2
    <2>2. q * p \in Int /\ page * p \in Int
        BY <1>1, <1>2
    <2> QED BY <1>1, <1>2, <2>1, <2>2
<1> QED BY <1>2, <1>3, <1>4, <1>5 DEF TotalPages, p, q

\* A step of a reader touches its own walk only.
LEMMA ReaderStep ==
    ASSUME CrudInv, NEW l \in Readers, NEW r, UNCHANGED <<table, nextId, req, histVars>>,
           list' = [list EXCEPT ![l] = r], ReaderFits(l)',
           DOMAIN pc' = Procs, DOMAIN op' = Procs, DOMAIN out' = Procs,
           \A q \in Procs \ {l} : pc'[q] = pc[q] /\ op'[q] = op[q] /\ out'[q] = out[q]
    PROVE  CrudInv'
<1>1. l \in Procs /\ l \notin Writers /\ Shape
    BY ActorsAssumption DEF CrudInv, Procs
<1>2. UNCHANGED <<rivals, moved, wrote>>
    BY DEF histVars
<1>3. DOMAIN list' = Readers /\ \A q \in Readers \ {l} : list'[q] = list[q]
    BY <1>1 DEF Shape
<1>4. OthersStay(l)
    BY <1>1, <1>2, <1>3, QuietFrame
<1>5. Shape'
    BY <1>1, <1>2, <1>3 DEF Shape
<1> QED BY <1>1, <1>2, <1>4, <1>5, QuietStep

LEMMA GetDatasStep == ASSUME CrudInv, NEW l \in Readers, GetDatas(l) PROVE CrudInv'
<1>1. l \in Procs /\ Shape /\ ReaderFits(l) /\ KeysAreUnique
    BY DEF CrudInv, Procs
<1>2. PICK sort \in {"id_asc", "other"}, search \in Searches :
        /\ pc[l] = "idle"
        /\ op' = [op EXCEPT ![l] = "list"]
        /\ IF FailsClosed(search) THEN End(l, "bad_search") ELSE Goto(l, "page")
        /\ list' = [list EXCEPT ![l] = [NoList EXCEPT !.page = 1, !.sort = sort,
                       !.search = search, !.from = {row.id : row \in Matching(search)}]]
        /\ UNCHANGED <<table, nextId, req, histVars>>
    BY DEF GetDatas
<1> DEFINE from == {row.id : row \in Matching(search)}
           r == [NoList EXCEPT !.page = 1, !.sort = sort, !.search = search, !.from = from]
<1>3. list' = [list EXCEPT ![l] = r] /\ list'[l] = r
    BY <1>1, <1>2 DEF Shape
<1>4. /\ IsList(r) /\ r.page = 1 /\ r.sort = sort /\ r.search = search /\ r.from = from
      /\ r.items = <<>> /\ r.batch = <<>>
    BY DEF NoList, IsList
<1>5. Matching(search) \subseteq table /\ Matching(search) \subseteq UserRows /\ IsFiniteSet(Matching(search))
    <2>1. Matching(search) \subseteq table
        BY DEF Matching
    <2> QED BY <1>1, <2>1, FS_Subset DEF KeysAreUnique
<1>6. from \subseteq Ids
    BY <1>5 DEF UserRows
<1> HIDE DEF r
<1>7. moved'[l] = {} /\ out[l] = "none" /\ table' = table
    BY <1>1, <1>2 DEF ReaderFits, histVars
<1>11. /\ IsList(list'[l]) /\ list'[l].page \in 1 .. MaxId /\ list'[l].search \in Searches
       /\ list'[l].page = 1 /\ list'[l].search = search /\ list'[l].sort = sort
       /\ list'[l].from = from /\ list'[l].from \subseteq Ids
       /\ list'[l].items = <<>> /\ list'[l].batch = <<>>
       /\ list'[l].items \in Seq(UserRows) /\ list'[l].batch \in Seq(UserRows)
    <2>1. /\ IsList(list'[l])
          /\ list'[l].page = 1 /\ list'[l].search = search /\ list'[l].sort = sort
          /\ list'[l].from = from /\ list'[l].items = <<>> /\ list'[l].batch = <<>>
        BY <1>3, <1>4
    <2>2. 1 \in 1 .. MaxId /\ search \in Searches /\ from \subseteq Ids /\ <<>> \in Seq(UserRows)
        BY <1>6, EmptySeq, BoundsAssumption
    <2> HIDE DEF from
    <2> QED BY <2>1, <2>2
<1>8. DOMAIN op' = Procs /\ op'[l] = "list" /\ \A q \in Procs \ {l} : op'[q] = op[q]
    BY <1>1, <1>2 DEF Shape
<1>9. CASE FailsClosed(search) /\ End(l, "bad_search")
    <2>1. /\ DOMAIN pc' = Procs /\ DOMAIN out' = Procs /\ pc'[l] = "end" /\ out'[l] = "bad_search"
          /\ \A q \in Procs \ {l} : pc'[q] = pc[q] /\ out'[q] = out[q]
        BY <1>1, <1>9, EndEffect
    <2>2. ReaderFits(l)'
        BY <1>7, <1>8, <1>11, <2>1, BoundsAssumption DEF ReaderFits, Ops
    <2> QED BY <1>2, <1>3, <1>8, <2>1, <2>2, ReaderStep
<1>10. CASE ~FailsClosed(search) /\ Goto(l, "page")
    <2>1. /\ DOMAIN pc' = Procs /\ out' = out /\ pc'[l] = "page"
          /\ \A q \in Procs \ {l} : pc'[q] = pc[q]
        BY <1>1, <1>10, GotoEffect
    <2>2. Matching(list[l].search)' = Matching(search)
        <3> DEFINE asked == list[l].search
        <3>1. asked' = search
            BY <1>11
        <3> HIDE DEF asked
        <3>2. Matching(asked)' = Matching(search)
            BY <1>7, <3>1 DEF Matching
        <3> QED BY <3>2 DEF asked
    <2>3. Offset(l)' = 0
        <3>1. Offset(l)' = (1 - 1) * PageSize
            BY <1>3, <1>4, <2>1 DEF Offset
        <3> QED BY <3>1, BoundsAssumption
    <2>4. \A row : RankOf(l, row)' = Rank(Matching(search), sort, row)
        BY <1>3, <1>4, <2>2 DEF RankOf
    <2>5. NothingSkipped(l)'
        <3> SUFFICES ASSUME NEW i \in from
                     PROVE  \E row \in Matching(search) : row.id = i /\ RankOf(l, row)' >= 0
            BY <1>3, <1>4, <2>2, <2>3 DEF NothingSkipped
        <3>1. PICK row \in Matching(search) : row.id = i
            OBVIOUS
        <3>2. Rank(Matching(search), sort, row) \in Nat
            BY <1>5, RankIsBelow
        <3> QED BY <2>4, <3>1, <3>2
    <2>6. Got(l)' = <<>>
        BY <1>3, <1>4, EmptySeq, ConcatEmptySeq DEF Got
    <2>7. NothingTwice(l)'
        BY <2>6 DEF NothingTwice, IsInjective, ToSet
    <2>8. ReaderFits(l)'
        BY <1>7, <1>8, <1>11, <2>1, <2>5, <2>7, BoundsAssumption DEF ReaderFits, Ops
    <2> QED BY <1>1, <1>2, <1>3, <1>8, <2>1, <2>8, ReaderStep DEF Shape
<1> QED BY <1>2, <1>9, <1>10

\* What a page adds to a walk: the rows at its positions of the listing.
LEMMA PageRows ==
    ASSUME NEW rows \in SUBSET UserRows, IsFiniteSet(rows), NEW sort, NEW s \in Listings(rows, sort),
           NEW lo \in Nat, NEW hi \in Nat, lo <= hi
    PROVE  LET batch == SubSeq(s, lo + 1, IF hi > Len(s) THEN Len(s) ELSE hi) IN
           /\ batch \in Seq(UserRows) /\ IsInjective(batch)
           /\ \A row \in ToSet(batch) :
                  row \in rows /\ lo <= Rank(rows, sort, row) /\ Rank(rows, sort, row) < hi
           /\ \A row \in rows : lo <= Rank(rows, sort, row) /\ Rank(rows, sort, row) < hi => row \in ToSet(batch)
<1> DEFINE last == IF hi > Len(s) THEN Len(s) ELSE hi
           batch == SubSeq(s, lo + 1, last)
<1>1. /\ s \in Seq(rows) /\ Len(s) \in Nat
      /\ \A row \in rows : \E k \in 1 .. Len(s) : s[k] = row
      /\ \A i, k \in 1 .. Len(s) : s[i] = s[k] => i = k
    BY ListingOrder
<1>2. last \in Nat /\ last <= Len(s) /\ last <= hi
      /\ \A k \in 1 .. Len(s) : k <= hi => k <= last
    BY <1>1
<1> HIDE DEF last
<1>3. \A k \in 1 .. Len(s) : s[k] \in rows /\ Rank(rows, sort, s[k]) = k - 1
    BY ListingRank
<1>4. \A i \in lo + 1 .. last : i \in 1 .. Len(s)
    BY <1>1, <1>2
<1>5. /\ batch \in Seq(UserRows)
      /\ Len(batch) = IF lo + 1 <= last THEN last - (lo + 1) + 1 ELSE 0
      /\ \A i \in 1 .. last - (lo + 1) + 1 : batch[i] = s[(lo + 1) + i - 1]
    <2>1. \A i \in lo + 1 .. last : s[i] \in UserRows
        BY <1>3, <1>4
    <2>2. lo + 1 \in Int /\ last \in Int
        BY <1>2
    <2> QED BY <2>1, <2>2, SubSeqProperties
<1> HIDE DEF batch
<1>6. /\ Len(batch) \in Nat /\ DOMAIN batch = 1 .. Len(batch)
      /\ \A i \in 1 .. Len(batch) : /\ batch[i] = s[lo + i] /\ lo + i \in 1 .. Len(s)
                                    /\ lo + i <= last
    <2>1. Len(batch) \in Nat /\ DOMAIN batch = 1 .. Len(batch)
        BY <1>5, LenProperties
    <2>2. ASSUME NEW i \in 1 .. Len(batch)
          PROVE  batch[i] = s[lo + i] /\ lo + i \in 1 .. Len(s) /\ lo + i <= last
        <3>1. lo + 1 <= last /\ i \in 1 .. last - (lo + 1) + 1
            BY <1>2, <1>5, <2>1
        <3>2. (lo + 1) + i - 1 = lo + i
            BY <2>1
        <3>3. lo + i <= last
            BY <1>2, <3>1
        <3> QED BY <1>1, <1>2, <1>5, <3>1, <3>2, <3>3
    <2> QED BY <2>1, <2>2
<1>7. IsInjective(batch)
    <2> SUFFICES ASSUME NEW i \in 1 .. Len(batch), NEW k \in 1 .. Len(batch), batch[i] = batch[k]
                 PROVE  i = k
        BY <1>6 DEF IsInjective
    <2>1. lo + i = lo + k
        BY <1>1, <1>6
    <2> QED BY <1>6, <2>1
<1>8. ASSUME NEW row \in ToSet(batch)
      PROVE  row \in rows /\ lo <= Rank(rows, sort, row) /\ Rank(rows, sort, row) < hi
    <2>1. PICK i \in 1 .. Len(batch) : row = batch[i]
        BY <1>6 DEF ToSet
    <2>2. row = s[lo + i] /\ lo + i \in 1 .. Len(s) /\ lo + i <= last
        BY <1>6, <2>1
    <2>3. row \in rows /\ Rank(rows, sort, row) = lo + i - 1
        BY <1>3, <2>2
    <2> QED BY <1>2, <1>6, <2>2, <2>3
<1>9. ASSUME NEW row \in rows, lo <= Rank(rows, sort, row), Rank(rows, sort, row) < hi
      PROVE  row \in ToSet(batch)
    <2>1. PICK k \in 1 .. Len(s) : s[k] = row
        BY <1>1
    <2>2. Rank(rows, sort, row) = k - 1
        BY <1>3, <2>1
    <2>3. lo + 1 <= k /\ k <= last
        BY <1>1, <1>2, <1>9, <2>2
    <2>4. k - lo \in 1 .. last - (lo + 1) + 1 /\ lo + 1 <= last
        BY <1>2, <2>3
    <2>5. batch[k - lo] = s[(lo + 1) + (k - lo) - 1] /\ (lo + 1) + (k - lo) - 1 = k
        BY <1>5, <2>4
    <2>6. k - lo \in DOMAIN batch
        BY <1>5, <1>6, <2>4
    <2> QED BY <2>1, <2>5, <2>6 DEF ToSet
<1> QED BY <1>5, <1>7, <1>8, <1>9 DEF batch, last

LEMMA Joined ==
    ASSUME NEW a \in Seq(UserRows), NEW b \in Seq(UserRows)
    PROVE  /\ a \o b \in Seq(UserRows) /\ ToSet(a \o b) = ToSet(a) \union ToSet(b)
           /\ IsInjective(a) /\ IsInjective(b) /\ ToSet(a) \intersect ToSet(b) = {} => IsInjective(a \o b)
<1> DEFINE n == Len(a)
           m == Len(b)
           c == a \o b
<1>1. /\ c \in Seq(UserRows) /\ Len(c) = n + m /\ n \in Nat /\ m \in Nat
      /\ \A i \in 1 .. n + m : c[i] = IF i <= n THEN a[i] ELSE b[i - n]
    BY ConcatProperties, LenProperties
<1>2. DOMAIN a = 1 .. n /\ DOMAIN b = 1 .. m /\ DOMAIN c = 1 .. n + m
    BY <1>1, LenProperties
<1> HIDE DEF n, m, c
<1>3. \A i \in 1 .. n : i \in 1 .. n + m /\ c[i] = a[i]
    BY <1>1
<1>4. \A i \in 1 .. m : n + i \in 1 .. n + m /\ c[n + i] = b[i]
    <2> SUFFICES ASSUME NEW i \in 1 .. m PROVE n + i \in 1 .. n + m /\ c[n + i] = b[i]
        OBVIOUS
    <2>1. n + i \in 1 .. n + m /\ ~(n + i <= n) /\ (n + i) - n = i
        BY <1>1
    <2> QED BY <1>1, <2>1
<1>5. \A i \in 1 .. n + m : (i \in 1 .. n /\ c[i] = a[i]) \/ (i - n \in 1 .. m /\ c[i] = b[i - n] /\ i > n)
    BY <1>1
<1>6. ToSet(c) = ToSet(a) \union ToSet(b)
    BY <1>2, <1>3, <1>4, <1>5 DEF ToSet
<1>7. ASSUME IsInjective(a), IsInjective(b), ToSet(a) \intersect ToSet(b) = {} PROVE IsInjective(c)
    <2> SUFFICES ASSUME NEW i \in 1 .. n + m, NEW k \in 1 .. n + m, c[i] = c[k] PROVE i = k
        BY <1>2 DEF IsInjective
    <2>1. ASSUME NEW x \in 1 .. n, NEW y \in 1 .. m PROVE a[x] # b[y]
        BY <1>2, <1>7 DEF ToSet
    <2>2. CASE i \in 1 .. n /\ c[i] = a[i]
        BY <1>2, <1>5, <1>7, <2>1, <2>2 DEF IsInjective
    <2>3. CASE i - n \in 1 .. m /\ c[i] = b[i - n] /\ i > n
        <3>1. k - n \in 1 .. m /\ c[k] = b[k - n]
            BY <1>5, <2>1, <2>3
        <3>2. i - n = k - n
            BY <1>2, <1>7, <2>3, <3>1 DEF IsInjective
        <3> QED BY <1>1, <3>2
    <2> QED BY <1>5, <2>2, <2>3
<1> QED BY <1>1, <1>6, <1>7 DEF c

\* What the list of a reader shows of the table.
LEMMA MatchingRows ==
    ASSUME KeysAreUnique, NEW search
    PROVE  /\ Matching(search) \in SUBSET UserRows /\ IsFiniteSet(Matching(search))
           /\ Matching(search) \subseteq table
<1>1. Matching(search) \subseteq table
    BY DEF Matching
<1> QED BY <1>1, FS_Subset DEF KeysAreUnique

LEMMA SelectPageStep == ASSUME CrudInv, NEW l \in Readers, SelectPage(l) PROVE CrudInv'
<1>1. l \in Procs /\ Shape /\ ReaderFits(l) /\ KeysAreUnique /\ pc[l] = "page"
    BY DEF CrudInv, Procs, SelectPage
<1> DEFINE rows == Matching(list[l].search)
           sort == list[l].sort
           page == list[l].page
           lo == (page - 1) * PageSize
           hi == page * PageSize
<1>2. page \in 1 .. MaxId /\ list[l].search \in Searches /\ list[l].batch = <<>>
      /\ NothingSkipped(l) /\ NothingTwice(l) /\ IsList(list[l])
      /\ list[l].items \in Seq(UserRows) /\ out[l] = "none"
    BY <1>1 DEF ReaderFits
<1>3. lo \in Nat /\ hi \in Nat /\ lo <= hi
    <2>1. page \in Nat /\ page - 1 \in Nat /\ PageSize \in Nat
        BY <1>2, BoundsAssumption
    <2>2. hi = lo + PageSize
        BY <2>1
    <2> HIDE DEF page
    <2>3. lo \in Nat
        BY <2>1
    <2> QED BY <2>1, <2>2, <2>3
<1>4. Offset(l) = lo
    BY <1>1 DEF Offset
<1>5. rows \in SUBSET UserRows /\ IsFiniteSet(rows)
    BY <1>1, MatchingRows
<1>6. PICK s \in Listings(rows, sort) :
          list' = [list EXCEPT ![l].batch = SubSeq(s, lo + 1, IF hi > Len(s) THEN Len(s) ELSE hi)]
    BY DEF SelectPage
<1> DEFINE batch == SubSeq(s, lo + 1, IF hi > Len(s) THEN Len(s) ELSE hi)
           r == [list[l] EXCEPT !.batch = batch]
<1>7. /\ Goto(l, "count") /\ UNCHANGED <<table, nextId, op, req, histVars>>
      /\ UNCHANGED <<table, op, moved>>
    BY DEF SelectPage, histVars
<1>8. list' = [list EXCEPT ![l] = r] /\ list'[l] = r
    BY <1>1, <1>6 DEF Shape
<1> HIDE DEF batch
<1>9. /\ IsList(r) /\ r.batch = batch /\ r.page = page /\ r.sort = sort
      /\ r.search = list[l].search /\ r.items = list[l].items /\ r.from = list[l].from
    BY <1>2 DEF IsList
<1> HIDE DEF r
<1>10. /\ IsList(list'[l]) /\ list'[l].batch = batch /\ list'[l].page = page /\ list'[l].sort = sort
       /\ list'[l].search = list[l].search /\ list'[l].items = list[l].items
       /\ list'[l].from = list[l].from
    BY <1>8, <1>9
<1>11. /\ DOMAIN pc' = Procs /\ out' = out /\ pc'[l] = "count"
       /\ \A q \in Procs \ {l} : pc'[q] = pc[q]
    BY <1>1, <1>7, GotoEffect
<1> HIDE DEF lo, hi
<1>12. /\ batch \in Seq(UserRows) /\ IsInjective(batch)
       /\ \A row \in ToSet(batch) :
              row \in rows /\ lo <= Rank(rows, sort, row) /\ Rank(rows, sort, row) < hi
       /\ \A row \in rows : lo <= Rank(rows, sort, row) /\ Rank(rows, sort, row) < hi => row \in ToSet(batch)
    <2> HIDE DEF rows, sort
    <2>1. s \in Listings(rows, sort)
        OBVIOUS
    <2>2. LET b == SubSeq(s, lo + 1, IF hi > Len(s) THEN Len(s) ELSE hi) IN
          /\ b \in Seq(UserRows) /\ IsInjective(b)
          /\ \A row \in ToSet(b) :
                 row \in rows /\ lo <= Rank(rows, sort, row) /\ Rank(rows, sort, row) < hi
          /\ \A row \in rows : lo <= Rank(rows, sort, row) /\ Rank(rows, sort, row) < hi => row \in ToSet(b)
        BY <1>3, <1>5, <2>1, PageRows
    <2> QED BY <2>2, Zenon DEF batch
<1>13. Offset(l)' = hi
    BY <1>10, <1>11 DEF Offset, hi
<1>14. rows' = rows
    <2> DEFINE asked == list[l].search
    <2>1. asked' = asked
        BY <1>10
    <2> HIDE DEF asked
    <2>2. Matching(asked)' = Matching(asked)
        BY <1>7, <2>1 DEF Matching
    <2> QED BY <2>2 DEF asked
<1>15. \A row : RankOf(l, row)' = Rank(rows, sort, row) /\ RankOf(l, row) = Rank(rows, sort, row)
    <2>1. sort' = sort
        BY <1>10
    <2> QED BY <1>14, <2>1 DEF RankOf
<1>16. Got(l) = list[l].items /\ Got(l)' = list[l].items \o batch
    BY <1>2, <1>10, ConcatEmptySeq DEF Got
<1>17. ToSet(Got(l)') = ToSet(Got(l)) \union ToSet(batch)
    BY <1>2, <1>12, <1>16, Joined
<1>18. \A row \in rows : Rank(rows, sort, row) \in Nat
    BY <1>5, RankIsBelow
<1>19. NothingSkipped(l)'
    <2> SUFFICES ASSUME moved[l] \subseteq {"insert"}, NEW i \in list[l].from
                 PROVE  \/ \E row \in ToSet(Got(l)') : row.id = i
                        \/ \E row \in rows : row.id = i /\ Rank(rows, sort, row) >= hi
        BY <1>7, <1>10, <1>13, <1>14, <1>15 DEF NothingSkipped
    <2>1. CASE \E row \in ToSet(Got(l)) : row.id = i
        BY <1>17, <2>1
    <2>2. CASE \E row \in rows : row.id = i /\ RankOf(l, row) >= Offset(l)
        <3>1. PICK row \in rows : row.id = i /\ Rank(rows, sort, row) >= lo
            BY <1>4, <1>15, <2>2
        <3>2. Rank(rows, sort, row) >= hi \/ row \in ToSet(batch)
            BY <1>3, <1>12, <1>18, <3>1
        <3> QED BY <1>17, <3>1, <3>2
    <2> QED BY <1>2, <2>1, <2>2 DEF NothingSkipped
<1>20. NothingTwice(l)'
    <2> SUFFICES ASSUME moved[l] \subseteq {"delete"}
                 PROVE  /\ IsInjective(Got(l)')
                        /\ \A row \in ToSet(Got(l)') \intersect rows : Rank(rows, sort, row) < hi
        BY <1>7, <1>10, <1>13, <1>14, <1>15 DEF NothingTwice
    <2>1. /\ IsInjective(Got(l))
          /\ \A row \in ToSet(Got(l)) \intersect rows : Rank(rows, sort, row) < lo
        BY <1>2, <1>4, <1>15 DEF NothingTwice
    <2>2. ToSet(list[l].items) \intersect ToSet(batch) = {}
        BY <1>3, <1>12, <1>16, <1>18, <2>1
    <2>3. IsInjective(Got(l)')
        BY <1>2, <1>12, <1>16, <2>1, <2>2, Joined
    <2>4. \A row \in ToSet(Got(l)') \intersect rows : Rank(rows, sort, row) < hi
        BY <1>3, <1>12, <1>17, <1>18, <2>1
    <2> QED BY <2>3, <2>4
<1>21. ReaderFits(l)'
    <2>1. list'[l].page \in 1 .. MaxId /\ list'[l].search \in Searches
          /\ list'[l].items \in Seq(UserRows) /\ list'[l].batch \in Seq(UserRows)
        BY <1>2, <1>10, <1>12
    <2>2. list'[l].from \subseteq Ids /\ op'[l] \in Ops \union {"none"}
          /\ moved'[l] \subseteq {"insert", "update", "delete"} /\ out'[l] = "none"
        BY <1>1, <1>2, <1>7, <1>10, <1>11 DEF ReaderFits
    <2> QED BY <1>10, <1>11, <1>19, <1>20, <2>1, <2>2, BoundsAssumption DEF ReaderFits
<1> QED BY <1>1, <1>7, <1>8, <1>11, <1>21, ReaderStep DEF Shape

LEMMA CountDatasStep == ASSUME CrudInv, NEW l \in Readers, CountDatas(l) PROVE CrudInv'
<1>1. l \in Procs /\ Shape /\ ReaderFits(l) /\ KeysAreUnique /\ pc[l] = "count"
    BY DEF CrudInv, Procs, CountDatas
<1> DEFINE rows == Matching(list[l].search)
           sort == list[l].sort
           page == list[l].page
           total == Cardinality(rows)
           r == [list[l] EXCEPT !.page = @ + 1, !.batch = <<>>, !.items = @ \o list[l].batch]
<1>2. page \in 1 .. MaxId /\ list[l].search \in Searches
      /\ NothingSkipped(l) /\ NothingTwice(l) /\ IsList(list[l])
      /\ list[l].items \in Seq(UserRows) /\ list[l].batch \in Seq(UserRows) /\ out[l] = "none"
    BY <1>1 DEF ReaderFits
<1>3. /\ UNCHANGED <<table, nextId, op, req, histVars>> /\ UNCHANGED <<table, op, moved>>
      /\ IF page < TotalPages(total) THEN Goto(l, "page") ELSE End(l, "ok")
    BY DEF CountDatas, histVars
<1>4. list' = [list EXCEPT ![l] = r] /\ list'[l] = r
    BY <1>1 DEF CountDatas, Shape
<1>5. r.page = page + 1
    BY <1>2 DEF IsList
<1>6. /\ IsList(r) /\ r.batch = <<>> /\ r.sort = sort
      /\ r.search = list[l].search /\ r.items = Got(l) /\ r.from = list[l].from
    BY <1>2 DEF IsList, Got
<1> HIDE DEF r
<1>7. /\ IsList(list'[l]) /\ list'[l].batch = <<>> /\ list'[l].page = page + 1 /\ list'[l].sort = sort
      /\ list'[l].search = list[l].search /\ list'[l].items = Got(l)
      /\ list'[l].from = list[l].from
    BY <1>4, <1>5, <1>6
<1>8. Got(l) \in Seq(UserRows) /\ Got(l)' = Got(l)
    <2>1. Got(l) \in Seq(UserRows)
        BY <1>2, Joined DEF Got
    <2>2. Got(l)' = Got(l) \o <<>>
        BY <1>7 DEF Got
    <2> QED BY <2>1, <2>2, ConcatEmptySeq
<1>9. rows \in SUBSET UserRows /\ IsFiniteSet(rows) /\ rows \subseteq table
    BY <1>1, MatchingRows
<1>10. total \in Nat /\ total <= MaxId
    <2>1. Cardinality(table) \in Nat /\ Cardinality(table) <= MaxId
        BY <1>1, TableIsBounded
    <2>2. total <= Cardinality(table) /\ total \in Nat
        BY <1>1, <1>9, FS_Subset, FS_CardinalityType DEF KeysAreUnique
    <2> QED BY <2>1, <2>2, BoundsAssumption
<1>11. rows' = rows
    <2> DEFINE asked == list[l].search
    <2>1. asked' = asked
        BY <1>7
    <2> HIDE DEF asked
    <2>2. Matching(asked)' = Matching(asked)
        BY <1>3, <2>1 DEF Matching
    <2> QED BY <2>2 DEF asked
<1>12. \A row : RankOf(l, row)' = Rank(rows, sort, row) /\ RankOf(l, row) = Rank(rows, sort, row)
    <2>1. sort' = sort
        BY <1>7
    <2> QED BY <1>11, <2>1 DEF RankOf
<1>13. page \in Nat \ {0} /\ page <= MaxId
    BY <1>2, BoundsAssumption
<1>14. Offset(l) = page * PageSize
    BY <1>1 DEF Offset
<1>15. op'[l] \in Ops \union {"none"} /\ moved'[l] \subseteq {"insert", "update", "delete"}
       /\ list'[l].from \subseteq Ids
    BY <1>1, <1>3, <1>7 DEF ReaderFits
<1>16. CASE page < TotalPages(total) /\ Goto(l, "page")
    <2>1. /\ DOMAIN pc' = Procs /\ out' = out /\ pc'[l] = "page"
          /\ \A q \in Procs \ {l} : pc'[q] = pc[q]
        BY <1>1, <1>16, GotoEffect
    <2>2. page + 1 \in 1 .. MaxId
        <3> HIDE DEF page, total
        <3>1. TotalPages(total) \in Nat /\ TotalPages(total) <= total
            BY <1>10, <1>13, PageCount
        <3> QED BY <1>10, <1>13, <1>16, <3>1, BoundsAssumption
    <2>3. Offset(l)' = Offset(l)
        <3>1. Offset(l)' = ((page + 1) - 1) * PageSize
            BY <1>7, <2>1 DEF Offset
        <3>2. (page + 1) - 1 = page
            BY <1>13
        <3> QED BY <1>14, <3>1, <3>2
    <2>4. NothingSkipped(l)' = NothingSkipped(l)
        <3> HIDE DEF sort, page, total
        <3> QED BY <1>3, <1>7, <1>8, <1>11, <1>12, <2>3 DEF NothingSkipped
    <2>5. NothingTwice(l)' = NothingTwice(l)
        <3> HIDE DEF sort, page, total
        <3> QED BY <1>3, <1>7, <1>8, <1>11, <1>12, <2>3 DEF NothingTwice
    <2>6. ReaderFits(l)'
        <3>1. list'[l].page \in 1 .. MaxId /\ list'[l].search \in Searches /\ out'[l] = "none"
              /\ list'[l].items \in Seq(UserRows) /\ list'[l].batch \in Seq(UserRows)
            BY <1>2, <1>7, <1>8, <2>1, <2>2, EmptySeq
        <3> QED BY <1>2, <1>7, <1>15, <2>1, <2>4, <2>5, <3>1, BoundsAssumption DEF ReaderFits
    <2> QED BY <1>1, <1>3, <1>4, <2>1, <2>6, ReaderStep DEF Shape
<1>17. CASE ~(page < TotalPages(total)) /\ End(l, "ok")
    <2>1. /\ DOMAIN pc' = Procs /\ DOMAIN out' = Procs /\ pc'[l] = "end" /\ out'[l] = "ok"
          /\ \A q \in Procs \ {l} : pc'[q] = pc[q] /\ out'[q] = out[q]
        BY <1>1, <1>17, EndEffect
    <2>2. total <= page * PageSize
        <3> HIDE DEF page, total
        <3>1. TotalPages(total) \in Nat /\ (page >= TotalPages(total) => total <= page * PageSize)
            BY <1>10, <1>13, PageCount
        <3> QED BY <1>13, <1>17, <3>1
    <2>3. \A row \in rows : ~(RankOf(l, row) >= Offset(l))
        <3> SUFFICES ASSUME NEW row \in rows, Rank(rows, sort, row) >= page * PageSize PROVE FALSE
            BY <1>12, <1>14
        <3>1. Rank(rows, sort, row) \in Nat /\ Rank(rows, sort, row) < total
            BY <1>9, RankIsBelow
        <3>2. page * PageSize \in Int
            BY <1>13, BoundsAssumption
        <3> HIDE DEF page, total
        <3> QED BY <1>10, <2>2, <3>1, <3>2
    <2>4. VisitedEach(l)'
        <3>1. moved[l] \subseteq {"insert"} =>
                  list[l].from \subseteq {row.id : row \in ToSet(Got(l))}
            BY <1>2, <2>3 DEF NothingSkipped
        <3>2. moved[l] \subseteq {"delete"} => IsInjective(Got(l))
            BY <1>2 DEF NothingTwice
        <3> QED BY <1>3, <1>7, <3>1, <3>2 DEF VisitedEach
    <2>5. ReaderFits(l)'
        <3>1. list'[l].page \in 0 .. MaxId + 1
              /\ list'[l].items \in Seq(UserRows) /\ list'[l].batch \in Seq(UserRows)
            BY <1>2, <1>7, <1>8, EmptySeq, BoundsAssumption
        <3> QED BY <1>7, <1>15, <2>1, <2>4, <3>1 DEF ReaderFits
    <2> QED BY <1>3, <1>4, <2>1, <2>5, ReaderStep, <1>1 DEF Shape
<1> QED BY <1>3, <1>16, <1>17

-----------------------------------------------------------------------------
(* The invariant holds.                                                    *)

LEMMA InitInv == ASSUME Init PROVE CrudInv
<1> DEFINE first == CHOOSE row \in UserRows : row.id = 1
<1>1. first \in UserRows /\ first.id = 1
    <2>1. PICK n \in Names, m \in Mails : TRUE
        BY ColumnsAssumption
    <2> DEFINE row == [id |-> 1, username |-> n, email |-> m]
    <2>2. row \in UserRows /\ row.id = 1
        BY BoundsAssumption DEF UserRows, Ids
    <2> HIDE DEF row
    <2> QED BY <2>2
<1> HIDE DEF first
<1>2. table = {} \/ table = {first}
    BY DEF Init, first
<1>3. IsFiniteSet(table) /\ nextId = Cardinality(table) + 1 /\ Cardinality(table) \in {0, 1}
      /\ (table = {first} => nextId = 2)
    <2>1. nextId = Cardinality(table) + 1
        BY DEF Init
    <2>2. IsFiniteSet(table) /\ Cardinality(table) \in {0, 1} /\ (table = {first} => Cardinality(table) = 1)
        BY <1>2, FS_EmptySet, FS_Singleton
    <2> QED BY <2>1, <2>2
<1>4. Shape
    BY DEF Init, Shape
<1>5. /\ \A w \in Writers : /\ req[w] = NoReq /\ pc[w] = "idle" /\ op[w] = "none" /\ out[w] = "none"
                            /\ rivals[w] = {}
      /\ \A l \in Readers : /\ list[l] = NoList /\ pc[l] = "idle" /\ op[l] = "none" /\ out[l] = "none"
                            /\ moved[l] = {}
      /\ wrote = {}
    BY DEF Init, Procs
<1>6. KeysAreUnique
    <2>1. table \subseteq UserRows /\ nextId \in 1 .. MaxId + 1 /\ \A a \in table : a.id < nextId
        BY <1>1, <1>2, <1>3, BoundsAssumption
    <2>2. \A a, b \in table : a.id = b.id => a = b
        BY <1>2
    <2>3. \A w \in Writers : req[w].held = {}
        BY <1>5, NoReqFits
    <2> QED BY <1>3, <2>1, <2>2, <2>3, FS_EmptySet DEF KeysAreUnique
<1>7. ASSUME NEW w \in Writers PROVE WriterFits(w)
    <2>1. ReqFits(w)
        <3>1. req[w] = NoReq /\ pc[w] = "idle"
            BY <1>5
        <3>2. /\ IsReq(req[w]) /\ req[w].ents = <<>> /\ req[w].tgt = 0 /\ req[w].at = 0
              /\ req[w].errs = {} /\ req[w].held = {} /\ req[w].seen = NoRow
            BY <3>1, NoReqFits
        <3>3. <<>> \in Seq(UpdateUserRequest) /\ <<>> \in Seq(CreateUserRequest) /\ Len(<<>>) = 0
            BY EmptySeq
        <3> QED BY <3>1, <3>2, <3>3 DEF ReqFits
    <2> QED BY <1>5, <2>1 DEF WriterFits, OpFits, WriterSteps, Answers, RivalsFit, WroteFits
<1>8. ASSUME NEW l \in Readers PROVE ReaderFits(l)
    <2>1. /\ IsList(NoList) /\ NoList.page = 0 /\ NoList.from = {} /\ NoList.items = <<>>
          /\ NoList.batch = <<>>
        BY DEF NoList, IsList
    <2>2. 0 \in 0 .. MaxId + 1 /\ <<>> \in Seq(UserRows)
        BY EmptySeq, BoundsAssumption
    <2> QED BY <1>5, <2>1, <2>2 DEF ReaderFits
<1> QED BY <1>4, <1>6, <1>7, <1>8 DEF CrudInv

\* Nothing but the frame is left of a step that stutters.
LEMMA StutterStep == ASSUME CrudInv, UNCHANGED vars PROVE CrudInv'
<1>1. UNCHANGED <<table, nextId, pc, op, req, out, list, rivals, moved, wrote>>
    BY DEF vars, histVars
<1>2. Shape'
    BY <1>1 DEF CrudInv, Shape
<1>3. KeysAreUnique'
    BY <1>1 DEF CrudInv, KeysAreUnique
<1>4. ASSUME NEW w \in Writers PROVE WriterFits(w)'
    <2>1. ReqFits(w)'
        BY <1>1 DEF CrudInv, WriterFits, ReqFits
    <2>2. OpFits(w)'
        BY <1>1 DEF CrudInv, WriterFits, OpFits
    <2>3. RivalsFit(w)'
        BY <1>1 DEF CrudInv, WriterFits, RivalsFit, Unseen
    <2>4. WroteFits(w)'
        BY <1>1 DEF CrudInv, WriterFits, WroteFits
    <2> QED BY <2>1, <2>2, <2>3, <2>4 DEF WriterFits
<1>5. ASSUME NEW l \in Readers PROVE ReaderFits(l)'
    BY <1>1, ReaderStays DEF CrudInv
<1> QED BY <1>2, <1>3, <1>4, <1>5 DEF CrudInv

LEMMA CrudStep == ASSUME CrudInv, [Next]_vars PROVE CrudInv'
<1>1. ASSUME NEW w \in Writers, Receive(w) PROVE CrudInv'
    BY <1>1, ReceiveStep
<1>2. ASSUME NEW w \in Writers, Continue(w) PROVE CrudInv'
    BY <1>2, ValidateStep, InsertRowStep, PopulateStep, CommitStep, RefreshStep, SelectRowStep,
       UpdateRowStep, DeleteRowStep, RecheckStep DEF Continue
<1>3. ASSUME NEW w \in Writers, CommitLost(w) PROVE CrudInv'
    BY <1>3, CommitLostStep
<1>4. ASSUME NEW w \in Writers, Fail(w) \/ BreakDeadlock(w) PROVE CrudInv'
    BY <1>4, FailStep DEF BreakDeadlock
<1>5. ASSUME NEW l \in Readers, GetDatas(l) PROVE CrudInv'
    BY <1>5, GetDatasStep
<1>6. ASSUME NEW l \in Readers, Read(l) PROVE CrudInv'
    BY <1>6, SelectPageStep, CountDatasStep DEF Read
<1>7. CASE UNCHANGED vars
    BY <1>7, StutterStep
<1> QED BY <1>1, <1>2, <1>3, <1>4, <1>5, <1>6, <1>7 DEF Next

\* The requests are kept in functions; see Shape.
Functional ==
    /\ pc = [p \in Procs |-> pc[p]] /\ op = [p \in Procs |-> op[p]] /\ out = [p \in Procs |-> out[p]]

LEMMA FunctionalStep == ASSUME Functional, [Next]_vars PROVE Functional'
<1> USE DEF Functional
<1>1. ASSUME NEW p, NEW step, Goto(p, step), op' = op PROVE Functional'
    BY <1>1 DEF Goto
<1>2. ASSUME NEW p, NEW a, End(p, a), op' = op PROVE Functional'
    BY <1>2 DEF End
<1>3. ASSUME NEW w \in Writers, NEW o, NEW es, NEW i, NEW step, Accept(w, o, es, i, step)
      PROVE Functional'
    BY <1>3 DEF Accept, Goto
<1>4. ASSUME UNCHANGED <<pc, out>>, op' = op PROVE Functional'
    BY <1>4
<1>5. ASSUME NEW w \in Writers, Receive(w) PROVE Functional'
    <2>1. CASE CreateDatas(w)
        <3>1. ASSUME op' = [op EXCEPT ![w] = "batch"], End(w, "422") PROVE Functional'
            BY <3>1 DEF End
        <3> QED BY <1>3, <2>1, <3>1 DEF CreateDatas, Answer
    <2> QED BY <1>3, <1>5, <2>1 DEF Receive, CreateData, UpdateDataByDataId, DeleteDataByDataId
<1>6. ASSUME NEW w \in Writers, Validate(w) PROVE Functional'
    BY <1>1, <1>2, <1>4, <1>6, Zenon DEF Validate, Answer
<1>7. ASSUME NEW w \in Writers, Recheck(w) PROVE Functional'
    BY <1>1, <1>2, <1>4, <1>7, Zenon DEF Recheck, Answer
<1>8. ASSUME NEW w \in Writers, InsertRow(w) \/ UpdateRow(w) PROVE Functional'
    BY <1>1, <1>2, <1>8 DEF InsertRow, UpdateRow, Refused, Answer, ThenRefresh
<1>9. ASSUME NEW w \in Writers, PopulateDefaults(w) \/ Commit(w) \/ CommitLost(w) \/ Refresh(w)
                                \/ SelectRow(w) \/ DeleteRow(w) \/ Fail(w)
      PROVE Functional'
    BY <1>1, <1>2, <1>9 DEF PopulateDefaults, Commit, CommitLost, Refresh, SelectRow, DeleteRow, Fail,
       Answer, ThenRefresh
<1>10. ASSUME NEW l \in Readers, GetDatas(l) PROVE Functional'
    BY <1>10 DEF GetDatas, Goto, End
<1>11. ASSUME NEW l \in Readers, Read(l) PROVE Functional'
    BY <1>1, <1>2, <1>11 DEF Read, SelectPage, CountDatas
<1>12. CASE UNCHANGED vars
    BY <1>12 DEF vars
<1> QED BY <1>5, <1>6, <1>7, <1>8, <1>9, <1>10, <1>11, <1>12 DEF Next, Continue, BreakDeadlock

LEMMA InvHolds == Spec => [](CrudInv /\ Functional)
<1>1. Init => CrudInv /\ Functional
    BY InitInv DEF Init, Functional
<1>2. CrudInv /\ Functional /\ [Next]_vars => (CrudInv /\ Functional)'
    BY CrudStep, FunctionalStep
<1> QED BY <1>1, <1>2, PTL DEF Spec

-----------------------------------------------------------------------------
(* The theorems.                                                           *)

\* Type invariant.  A writer holds uncommitted rows only while its transaction
\* inserts, reads back or commits.
THEOREM CrudTypes == Spec => []CrudTypeOK
<1>1. ASSUME CrudInv, Functional PROVE CrudTypeOK
    <2>1. \A p \in Procs : /\ pc[p] \in WriterSteps \union {"page", "count"}
                           /\ op[p] \in Ops \union {"none"} /\ out[p] \in Answers
        BY <1>1 DEF CrudInv, WriterFits, OpFits, ReaderFits, Procs, WriterSteps, Answers
    <2>2. /\ pc \in [Procs -> {"idle", "validate", "insert", "populate", "commit", "refresh",
                         "select", "update", "delete", "recheck", "page", "count", "end"}]
          /\ op \in [Procs -> Ops \union {"none"}] /\ out \in [Procs -> Answers]
        BY <1>1, <2>1 DEF Functional, WriterSteps
    <2>3. ASSUME NEW w \in Writers
          PROVE  /\ ToSet(req[w].ents) \subseteq UpdateUserRequest
                 /\ req[w].tgt \in Ids \union {0} /\ req[w].at \in 0 .. 4
                 /\ req[w].errs \subseteq Fields /\ req[w].held \subseteq UserRows
                 /\ req[w].held # {} => pc[w] \in {"insert", "populate", "commit"}
                 /\ req[w].seen \in UserRows \union {NoRow}
                 /\ rivals[w] \subseteq table
        <3>1. ReqFits(w) /\ RivalsFit(w) /\ req[w].held \subseteq UserRows
            BY <1>1 DEF CrudInv, WriterFits, KeysAreUnique
        <3>2. ToSet(req[w].ents) \subseteq UpdateUserRequest
            BY <3>1 DEF ReqFits, ToSet
        <3> QED BY <3>1, <3>2 DEF ReqFits, RivalsFit
    <2>4. ASSUME NEW l \in Readers
          PROVE  /\ list[l].page \in 0 .. MaxId + 1 /\ ToSet(list[l].items) \subseteq UserRows
                 /\ list[l].from \subseteq Ids /\ moved[l] \subseteq {"insert", "update", "delete"}
        <3>1. ReaderFits(l)
            BY <1>1 DEF CrudInv
        <3>2. ToSet(list[l].items) \subseteq UserRows
            BY <3>1 DEF ReaderFits, ToSet
        <3> QED BY <3>1, <3>2 DEF ReaderFits
    <2>5. table \subseteq UserRows /\ nextId \in 1 .. MaxId + 1 /\ wrote \subseteq Writers
        BY <1>1 DEF CrudInv, KeysAreUnique, Shape
    <2> QED BY <2>2, <2>3, <2>4, <2>5 DEF CrudTypeOK
<1> QED BY <1>1, InvHolds, PTL

\* _raise_user_unique_conflict_if_present: a writer whose insert or update the
\* constraints refuse is told which field is taken, unless every row that
\* refused it has been removed or changed before it was looked up again.
THEOREM RawRefusalHolds == Spec => []RawRefusalOnlyIfRivalGone
<1>1. CrudInv => RawRefusalOnlyIfRivalGone
    BY DEF CrudInv, WriterFits, RivalsFit, RawRefusalOnlyIfRivalGone
<1> QED BY <1>1, InvHolds, PTL

\* BaseRepository reads a batch back before it commits: an error means that
\* nothing was written, but for the two reads after the commit of one row.
THEOREM ErrorsWriteNothingHolds == Spec => []ErrorsWriteNothing
<1>1. ASSUME CrudInv PROVE ErrorsWriteNothing
    <2> SUFFICES ASSUME NEW w \in wrote
                 PROVE  \/ out[w] \in {"none", "ok", "commit_lost"}
                        \/ out[w] = "500" /\ op[w] \in {"create", "update"}
        BY DEF ErrorsWriteNothing
    <2>1. WroteFits(w) /\ OpFits(w)
        BY <1>1 DEF CrudInv, Shape, WriterFits
    <2> QED BY <2>1 DEF WroteFits, OpFits
<1> QED BY <1>1, InvHolds, PTL

\* The lists order by the primary key last, so a client that follows next_page
\* to the end misses no row that stayed unless one was removed or changed, and
\* sees none twice unless one was added or changed.
THEOREM WalkVisitsEachHolds == Spec => []WalkVisitsEach
<1>1. CrudInv => WalkVisitsEach
    BY DEF CrudInv, ReaderFits, VisitedEach, WalkVisitsEach
<1> QED BY <1>1, InvHolds, PTL

\* A commit of another kind leaves every row that keeps its id as it is.
LEMMA OnlyUpdatesChange ==
    ASSUME CrudInv, NEW a \in table, NEW b \in table', a.id = b.id,
           \/ table' = table
           \/ \E w \in Writers : table' = table \union req[w].held
           \/ table' \subseteq table
    PROVE  a = b
BY DEF CrudInv, KeysAreUnique

\* The UPDATE names only the columns that the request changes: two updates of
\* one user undo each other only where both name the column.
THEOREM NoLostUpdateHolds == Spec => NoLostUpdate
<1> DEFINE Kept == \A a \in table, b \in table' : a.id = b.id => \A f \in Fields :
           b[f] # a[f] => \E w \in Writers :
               pc[w] = "update" /\ req[w].tgt = a.id /\ req[w].ents[1][f] = b[f]
<1>1. ASSUME CrudInv, [Next]_vars PROVE [Kept]_vars
    <2>1. ASSUME \/ table' = table
                 \/ \E w \in Writers : table' = table \union req[w].held
                 \/ table' \subseteq table
          PROVE  Kept
        BY <1>1, <2>1, OnlyUpdatesChange
    <2> HIDE DEF Kept
    <2>2. ASSUME NEW w \in Writers, Receive(w) PROVE Kept
        BY <2>1, <2>2 DEF Receive, CreateData, CreateDatas, UpdateDataByDataId, DeleteDataByDataId, Accept
    <2>3. ASSUME NEW w \in Writers,
                 \/ Validate(w) \/ InsertRow(w) \/ PopulateDefaults(w) \/ Refresh(w)
                 \/ SelectRow(w) \/ Recheck(w) \/ Fail(w) \/ BreakDeadlock(w)
          PROVE  Kept
        BY <2>1, <2>3 DEF Validate, InsertRow, Refused, PopulateDefaults, Refresh, SelectRow, Recheck,
           Fail, BreakDeadlock
    <2>4. ASSUME NEW w \in Writers, Commit(w) \/ CommitLost(w) PROVE Kept
        BY <2>1, <2>4 DEF Commit, CommitLost, Store
    <2>5. ASSUME NEW w \in Writers, DeleteRow(w) PROVE Kept
        BY <2>1, <2>5 DEF DeleteRow, Store
    <2>6. ASSUME NEW w \in Writers, UpdateRow(w) PROVE Kept
        <3>1. CASE table' = table
            BY <2>1, <3>1
        <3>2. CASE Store(w, {IF row.id = req[w].tgt THEN Updated(w, row) ELSE row : row \in table}, "update")
            <4> SUFFICES ASSUME NEW a \in table, NEW b \in table', a.id = b.id, NEW f \in Fields, b[f] # a[f]
                         PROVE  req[w].tgt = a.id /\ req[w].ents[1][f] = b[f]
                BY <2>6 DEF Kept, UpdateRow
            <4>1. PICK x \in table : b = IF x.id = req[w].tgt THEN Updated(w, x) ELSE x
                BY <3>2 DEF Store
            <4>2. /\ ReqFits(w) /\ pc[w] = "update" /\ KeysAreUnique /\ x \in UserRows /\ a \in UserRows
                BY <1>1, <2>6 DEF CrudInv, WriterFits, KeysAreUnique, UpdateRow
            <4>3. b.id = x.id
                BY <4>1, <4>2, UpdatedFits
            <4>4. x = a
                BY <4>2, <4>3 DEF KeysAreUnique
            <4>5. a.id = req[w].tgt /\ b = Updated(w, a)
                BY <4>1, <4>4
            <4>6. f \in DOMAIN a
                BY <4>2 DEF UserRows, Fields
            <4>7. b[f] = IF f \in Dirty(w) THEN req[w].ents[1][f] ELSE a[f]
                BY <4>5, <4>6 DEF Updated
            <4> QED BY <4>5, <4>7
        <3> QED BY <2>6, <3>1, <3>2 DEF UpdateRow, Refused
    <2>7. ASSUME NEW l \in Readers, GetDatas(l) \/ Read(l) PROVE Kept
        BY <2>1, <2>7 DEF GetDatas, Read, SelectPage, CountDatas
    <2> QED BY <1>1, <2>2, <2>3, <2>4, <2>5, <2>6, <2>7 DEF Next, Continue
<1> QED BY <1>1, InvHolds, PTL DEF Spec, NoLostUpdate
=============================================================================
