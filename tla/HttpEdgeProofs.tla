--------------------------- MODULE HttpEdgeProofs ---------------------------
(***************************************************************************)
(* Proofs about HttpEdge, for every set of bodies and limits.              *)
(***************************************************************************)
EXTENDS HttpEdge, SequenceTheorems, FiniteSetTheorems, TLAPS

-----------------------------------------------------------------------------
(* The inductive invariant: what each moment of a request knows of the     *)
(* response, of the tasks that send it and of what has been noted.         *)

Codes == {200, 422, 404, 400, 409, 503, 429, 500}
Tasks == {"reader", "writer"}

Stop(layer) == Body(layer, TRUE)

\* The connection carries the response (layer, status) up to its n-th
\* message, or less of it to a client that is gone.
Sent(layer, status, n) ==
  \/ n = 0 /\ wire = <<>>
  \/ n = 1 /\ wire = <<Start(layer, status)>>
  \/ n = 2 /\ wire = <<Start(layer, status), Stop(layer)>>
  \/ n > 0 /\ gone /\ wire = <<>>
  \/ n > 1 /\ gone /\ wire = <<Start(layer, status)>>

\* Task t sends it: the start, then at last the body, then it is at done.
Sending(t, layer, status, last, done) ==
  \/ /\ task[t] = [pc |-> "drain", msg |-> Start(layer, status), next |-> last]
     /\ Sent(layer, status, 0)
  \/ At(t, last) /\ Sent(layer, status, 1)
  \/ /\ task[t] = [pc |-> "drain", msg |-> Stop(layer), next |-> done]
     /\ Sent(layer, status, 1)
  \/ At(t, done) /\ Sent(layer, status, 2)

Noted(status) == seen.code = status /\ seen.started
Carried(layer, status) == Noted(status) /\ \E n \in 0 .. 2 : Sent(layer, status, n)
Untouched == wire = <<>> /\ seen.code = 0 /\ ~seen.started

Reading(t) == At(t, "read") \/ At(t, "ended") \/ At(t, "cut_off")
Clean == ~rs.rejected /\ ~rs.rejection_sent /\ ~rs.response_started

\* The endpoint has not ended, or has with an answer.
Quiet == cause = None /\ reports = <<>>
Handled == /\ cause \in Curated \union Answered
           /\ reports = IF cause \in Curated
                        THEN <<[cause |-> cause, status |-> Status(cause), logged |-> Status(cause) >= 500]>>
                        ELSE <<>>

Entering == /\ phase = "enter" /\ Clean /\ Untouched /\ Quiet
            /\ At("reader", "idle") /\ At("writer", "idle")

Preflight == /\ Clean /\ Noted(200) /\ Quiet /\ At("reader", "idle")
             /\ Sending("writer", "CORS", 200, "last_cors", "over")
Foreign == /\ ~rs.rejected /\ ~rs.rejection_sent /\ Noted(400) /\ Quiet /\ At("reader", "idle")
           /\ Sending("writer", "TrustedHost", 400, "last_host", "over")
Declared == /\ Clean /\ Noted(413) /\ Quiet /\ At("writer", "idle")
            /\ Sending("reader", "BodySize", 413, "last_413", "told")
Running == /\ Clean /\ Untouched /\ Quiet /\ Reading("reader") /\ At("writer", "begin")
Answering == /\ ~rs.rejected /\ ~rs.rejection_sent /\ (rs.response_started <=> req.limit > 0)
             /\ Handled /\ Noted(Status(cause)) /\ Reading("reader")
             /\ Sending("writer", "App", Status(cause), "last_app", "returning")
\* The application's own messages are muted from here on.
Muted == \/ At("writer", "begin") /\ Quiet
         \/ (At("writer", "last_app") \/ At("writer", "returning")) /\ Handled
Rejecting == /\ rs.rejected /\ ~rs.rejection_sent /\ ~rs.response_started /\ Noted(413) /\ Muted
             /\ req.limit > 0
             /\ (~req.streams => At("writer", "begin"))
             /\ Sending("reader", "BodySize", 413, "last_413", "told")
Told == /\ rs.rejected /\ rs.rejection_sent /\ ~rs.response_started /\ Noted(413) /\ Muted
        /\ req.limit > 0
        /\ At("reader", "cut_off") /\ Sent("BodySize", 413, 2)

Open == /\ phase = "open"
        /\ \/ Preflight \/ Foreign \/ Declared \/ Running \/ Answering \/ Rejecting \/ Told

\* Both tasks are over, and what they have sent is known.
Left ==
  /\ At("reader", "idle") \/ At("reader", "cut_off")
  /\ At("writer", "idle")
  /\ \/ /\ ~rs.rejected /\ ~rs.rejection_sent
        /\ Untouched \/ \E l \in {"CORS", "TrustedHost", "App"}, s \in Codes : Carried(l, s)
     \/ /\ rs.rejected \/ rs.rejection_sent
        /\ Carried("BodySize", 413)
        /\ rs.rejection_sent => Sent("BodySize", 413, 2)
        /\ ~req.streams => rs.rejection_sent

Returned == phase = "returned" /\ Left /\ (Quiet \/ Handled)
Raised == phase = "raised" /\ Left /\ cause \in Unhandled /\ reports = <<>>

FailedRecord(status) == records = <<[failed |-> TRUE, status |-> status]>>
Offered == reports = <<[cause |-> cause, status |-> Status(cause), logged |-> TRUE]>>

Failed == /\ phase = "failed" /\ Left /\ cause \in Unhandled /\ reports = <<>>
          /\ ~rs.rejection_sent /\ \E s \in Codes \union {413} : FailedRecord(s)
Erring == /\ phase = "erring" /\ cause \in Unhandled /\ Offered
          /\ ~rs.rejected /\ ~rs.rejection_sent /\ \E s \in Codes \union {413} : FailedRecord(s)
          /\ At("reader", "idle") \/ At("reader", "cut_off")
          /\ Sending("writer", "ServerError", Status(cause), "last_error", "over")

EndsWell == /\ Left /\ records = <<[failed |-> FALSE, status |-> seen.code]>>
            /\ Quiet \/ Handled \/ (cause \in Unhandled /\ reports = <<>> /\ rs.rejection_sent)
EndsFailed == /\ cause \in Unhandled /\ Offered /\ ~rs.rejection_sent /\ \E s \in Codes \union {413} : FailedRecord(s)
              /\ \/ Left
                 \/ /\ ~rs.rejected
                    /\ At("reader", "idle") \/ At("reader", "cut_off")
                    /\ At("writer", "idle")
                    /\ \E n \in 0 .. 2 : Sent("ServerError", Status(cause), n)
Ended == phase = "end" /\ (EndsWell \/ EndsFailed)

Moment == \/ (Entering \/ Open \/ Returned \/ Raised) /\ records = <<>>
          \/ Failed \/ Erring \/ Ended

\* What was counted is what was delivered, as long as it is counted.
Counting ==
  req.limit > 0 =>
    /\ ~rs.enforcement_stopped /\ ~rs.rejected => got = rs.received /\ rs.received <= req.limit
    /\ rs.enforcement_stopped => rs.response_started /\ ~rs.rejected
    /\ rs.rejected => got <= req.limit

EdgeTypeOK ==
  /\ req \in [body : Bodies, chunked : BOOLEAN, preflight : BOOLEAN, host : BOOLEAN,
              streams : BOOLEAN, limit : Limits]
  /\ frames \in Seq(Nat) /\ got \in Nat /\ gone \in BOOLEAN
  /\ rs \in [received : Nat, rejected : BOOLEAN, rejection_sent : BOOLEAN,
             response_started : BOOLEAN, enforcement_stopped : BOOLEAN]
  /\ DOMAIN task = Tasks
  /\ seen \in [code : {0, 413} \union Codes, started : BOOLEAN]

EdgeInv == EdgeTypeOK /\ Counting /\ Moment

-----------------------------------------------------------------------------
(* Layers and messages.                                                    *)

\* Which layers a message of each layer passes on its way out.
LEMMA Layers ==
  /\ "BodySize" \in Above("App") /\ "BodySize" \in Above("TrustedHost")
  /\ "BodySize" \notin Above("BodySize") /\ "BodySize" \notin Above("CORS")
  /\ "BodySize" \notin Above("ServerError")
  /\ \A l \in {"CORS", "BodySize", "TrustedHost", "App"} : {"ServerError", "RequestLog"} \subseteq Above(l)
  /\ "RequestLog" \notin Above("ServerError") /\ "ServerError" \notin Above("ServerError")
  /\ {"CorrelationId", "CORS"} \subseteq Above("BodySize")
<1>1. ASSUME NEW k \in 1 .. 7
      PROVE  Depth(Stack[k]) = k
  <2>1. k \in DOMAIN Stack /\ \A i \in DOMAIN Stack : Stack[i] = Stack[k] => i = k
    BY DEF Stack
  <2> QED BY <2>1, Zenon DEF Depth
<1>2. /\ Stack[1] = "ServerError" /\ Stack[2] = "CorrelationId" /\ Stack[3] = "RequestLog"
      /\ Stack[4] = "CORS" /\ Stack[5] = "BodySize" /\ Stack[6] = "TrustedHost" /\ Stack[7] = "App"
  BY DEF Stack
<1>3. /\ Depth("ServerError") = 1 /\ Depth("CORS") = 4 /\ Depth("BodySize") = 5
      /\ Depth("TrustedHost") = 6 /\ Depth("App") = 7
  BY <1>1, <1>2
<1>4. \A l, x : x \in Above(l) <=> \E i \in 1 .. Depth(l) - 1 : Stack[i] = x
  BY DEF Above
<1> QED BY <1>2, <1>3, <1>4

LEMMA Messages ==
  /\ \A l, s : /\ Start(l, s).kind = "start" /\ Start(l, s).status = s
               /\ Start(l, s).in = Above(l) /\ Start(l, s).from = l
  /\ \A l : Stop(l).kind = "last" /\ Stop(l).in = Above(l) /\ Stop(l).from = l
BY DEF Start, Body, Stop

LEMMA StatusCodes == \A c : Status(c) \in Codes
BY DEF Status, Codes

LEMMA AppendSecond ==
  ASSUME NEW a, NEW b
  PROVE  Append(<<a>>, b) = <<a, b>>
<1>1. <<a>> \in Seq({a, b}) /\ <<a, b>> \in Seq({a, b}) /\ Append(<<a>>, b) \in Seq({a, b})
  OBVIOUS
<1>2. Len(Append(<<a>>, b)) = 2 /\ Append(<<a>>, b)[1] = a /\ Append(<<a>>, b)[2] = b
  BY <1>1
<1>3. Len(<<a, b>>) = 2 /\ <<a, b>>[1] = a /\ <<a, b>>[2] = b /\ \A i \in 1 .. 2 : i = 1 \/ i = 2
  OBVIOUS
<1> QED BY <1>1, <1>2, <1>3, SeqEqual

\* Writing the next message carries the response one message further, unless
\* the client is gone.
LEMMA OneFurther ==
  ASSUME NEW l, NEW s, UNCHANGED gone
  PROVE  /\ Sent(l, s, 0) /\ wire' = (IF gone THEN wire ELSE Append(wire, Start(l, s))) => Sent(l, s, 1)'
         /\ Sent(l, s, 1) /\ wire' = (IF gone THEN wire ELSE Append(wire, Stop(l))) => Sent(l, s, 2)'
<1>1. /\ Append(<<>>, Start(l, s)) = <<Start(l, s)>>
      /\ Append(<<Start(l, s)>>, Stop(l)) = <<Start(l, s), Stop(l)>>
  BY AppendSecond
<1>2. Sent(l, s, 0) /\ wire' = (IF gone THEN wire ELSE Append(wire, Start(l, s))) => Sent(l, s, 1)'
  BY <1>1 DEF Sent
<1>3. Sent(l, s, 1) /\ wire' = (IF gone THEN wire ELSE Append(wire, Stop(l))) => Sent(l, s, 2)'
  <2> SUFFICES ASSUME Sent(l, s, 1), wire' = IF gone THEN wire ELSE Append(wire, Stop(l))
               PROVE  Sent(l, s, 2)'
    OBVIOUS
  <2>1. CASE gone
    BY <2>1 DEF Sent
  <2>2. CASE ~gone
    <3>1. wire = <<Start(l, s)>>
      BY <2>2 DEF Sent
    <3>2. wire' = <<Start(l, s), Stop(l)>>
      BY <2>2, <3>1, <1>1
    <3> QED BY <3>2 DEF Sent
  <2> QED BY <2>1, <2>2
<1> QED BY <1>2, <1>3

LEMMA WritesOn ==
  ASSUME EdgeTypeOK, NEW t \in Tasks, Write(t), NEW l, NEW s, NEW last, NEW done,
         Sending(t, l, s, last, done), last # "drain", done # "drain"
  PROVE  Sending(t, l, s, last, done)'
<1>1. UNCHANGED gone /\ wire' = (IF gone THEN wire ELSE Append(wire, task[t].msg))
  BY DEF Write
<1>2. task'[t].pc = task[t].next
  BY DEF Write, To, EdgeTypeOK
<1>3. CASE task[t] = [pc |-> "drain", msg |-> Start(l, s), next |-> last] /\ Sent(l, s, 0)
  <2>1. task[t].msg = Start(l, s) /\ task[t].next = last
    BY <1>3
  <2>2. Sent(l, s, 1)'
    BY <1>1, <1>3, <2>1, OneFurther
  <2> QED BY <1>2, <2>1, <2>2 DEF Sending, At
<1>4. CASE task[t] = [pc |-> "drain", msg |-> Stop(l), next |-> done] /\ Sent(l, s, 1)
  <2>1. task[t].msg = Stop(l) /\ task[t].next = done
    BY <1>4
  <2>2. Sent(l, s, 2)'
    BY <1>1, <1>4, <2>1, OneFurther
  <2> QED BY <1>2, <2>1, <2>2 DEF Sending, At
<1> QED BY <1>3, <1>4 DEF Sending, At, Write

LEMMA Tasked ==
  ASSUME EdgeTypeOK, NEW t \in Tasks, NEW u \in Tasks \ {t}, NEW pc, NEW m, NEW next
  PROVE  /\ To(t, pc) => task'[t].pc = pc /\ task'[u] = task[u] /\ DOMAIN task' = Tasks
         /\ Wait(t, m, next) => /\ task'[t] = [pc |-> "drain", msg |-> m, next |-> next]
                                /\ task'[u] = task[u] /\ DOMAIN task' = Tasks
BY DEF To, Wait, EdgeTypeOK

LEMMA TaskedBoth ==
  ASSUME EdgeTypeOK, NEW r, NEW w, Both(r, w)
  PROVE  task'["reader"].pc = r /\ task'["writer"].pc = w /\ DOMAIN task' = Tasks
BY DEF Both, EdgeTypeOK, Tasks

\* The layers between the server and the log note a start; the end says nothing.
LEMMA Notes ==
  ASSUME EdgeTypeOK
  PROVE  /\ \A l \in {"CORS", "BodySize", "TrustedHost", "App"}, s \in Codes \union {413} :
              Note(Start(l, s)) => Noted(s)' /\ seen' \in [code : {0, 413} \union Codes, started : BOOLEAN]
         /\ \A l : Note(Stop(l)) => seen' = seen
         /\ \A s : Note(Start("ServerError", s)) => seen' = seen
<1>1. ASSUME NEW l \in {"CORS", "BodySize", "TrustedHost", "App"}, NEW s \in Codes \union {413}, Note(Start(l, s))
      PROVE  Noted(s)' /\ seen' \in [code : {0, 413} \union Codes, started : BOOLEAN]
  <2>1. /\ Start(l, s).kind = "start" /\ Start(l, s).status = s
        /\ "RequestLog" \in Start(l, s).in /\ "ServerError" \in Start(l, s).in
    BY Messages, Layers
  <2>2. seen' = [code |-> s, started |-> TRUE]
    BY <1>1, <2>1 DEF Note, EdgeTypeOK
  <2> QED BY <2>2 DEF Noted
<1>2. ASSUME NEW l, Note(Stop(l))
      PROVE  seen' = seen
  BY <1>2, Messages DEF Note
<1>3. ASSUME NEW s, Note(Start("ServerError", s))
      PROVE  seen' = seen
  <2>1. /\ Start("ServerError", s).kind = "start"
        /\ "RequestLog" \notin Start("ServerError", s).in /\ "ServerError" \notin Start("ServerError", s).in
    BY Messages, Layers
  <2> QED BY <1>3, <2>1 DEF Note, EdgeTypeOK
<1> QED BY <1>1, <1>2, <1>3

\* What the limit's wrapper makes of a message: it is not asked about those of
\* the layers around it, and passes the others while nothing was rejected.
LEMMA Sends ==
  ASSUME EdgeTypeOK, NEW t \in Tasks, NEW next, NEW s
  PROVE  /\ \A l \in {"CORS", "ServerError"} :
              /\ Send(t, Start(l, s), next) => Wait(t, Start(l, s), next) /\ Note(Start(l, s)) /\ rs' = rs
              /\ Send(t, Stop(l), next) => Wait(t, Stop(l), next) /\ Note(Stop(l)) /\ rs' = rs
         /\ \A l \in {"TrustedHost", "App"} :
              /\ Send(t, Start(l, s), next) /\ ~rs.rejected =>
                   /\ Wait(t, Start(l, s), next) /\ Note(Start(l, s))
                   /\ rs' = [rs EXCEPT !.response_started = @ \/ req.limit > 0]
              /\ Send(t, Stop(l), next) /\ ~rs.rejected =>
                   Wait(t, Stop(l), next) /\ Note(Stop(l)) /\ rs' = rs
         /\ \A m : Send(t, m, next) /\ rs.rejected /\ req.limit > 0 /\ "BodySize" \in m.in =>
              To(t, next) /\ rs' = rs /\ seen' = seen
<1>1. ASSUME NEW l \in {"CORS", "ServerError"}
      PROVE  /\ Send(t, Start(l, s), next) => Wait(t, Start(l, s), next) /\ Note(Start(l, s)) /\ rs' = rs
             /\ Send(t, Stop(l), next) => Wait(t, Stop(l), next) /\ Note(Stop(l)) /\ rs' = rs
  BY Messages, Layers DEF Send
<1>2. ASSUME NEW l \in {"TrustedHost", "App"}, ~rs.rejected
      PROVE  /\ Send(t, Start(l, s), next) =>
                   /\ Wait(t, Start(l, s), next) /\ Note(Start(l, s))
                   /\ rs' = [rs EXCEPT !.response_started = @ \/ req.limit > 0]
             /\ Send(t, Stop(l), next) =>
                   Wait(t, Stop(l), next) /\ Note(Stop(l)) /\ rs' = rs
  <2>1. /\ "BodySize" \in Start(l, s).in /\ Start(l, s).kind = "start"
        /\ "BodySize" \in Stop(l).in /\ Stop(l).kind = "last"
    BY Messages, Layers
  <2>2. ASSUME Send(t, Start(l, s), next)
        PROVE  /\ Wait(t, Start(l, s), next) /\ Note(Start(l, s))
               /\ rs' = [rs EXCEPT !.response_started = @ \/ req.limit > 0]
    BY <1>2, <2>1, <2>2 DEF Send, GuardedSend, EdgeTypeOK
  <2>3. ASSUME Send(t, Stop(l), next)
        PROVE  Wait(t, Stop(l), next) /\ Note(Stop(l)) /\ rs' = rs
    BY <1>2, <2>1, <2>3 DEF Send, GuardedSend, EdgeTypeOK
  <2> QED BY <2>2, <2>3
<1>3. ASSUME NEW m, Send(t, m, next), rs.rejected, req.limit > 0, "BodySize" \in m.in
      PROVE  To(t, next) /\ rs' = rs /\ seen' = seen
  BY <1>3 DEF Send, GuardedSend
<1> QED BY <1>1, <1>2, <1>3

-----------------------------------------------------------------------------
(* Each action leads from one moment to another.                           *)

LEMMA EnterStep ==
  ASSUME EdgeInv, Enter
  PROVE  Moment' /\ EdgeTypeOK' /\ Counting'
<1>1. /\ Entering /\ records = <<>> /\ phase' = "open"
      /\ UNCHANGED <<req, frames, got, gone, cause, wire, records, reports>>
      /\ EdgeTypeOK /\ Counting
  BY DEF EdgeInv, Moment, Enter, Open, Returned, Raised, Failed, Erring, Ended, Entering
<1>2. Sent("CORS", 200, 0)' /\ Sent("TrustedHost", 400, 0)' /\ Sent("BodySize", 413, 0)'
  BY <1>1 DEF Entering, Untouched, Sent
<1>3. CASE Send("writer", Start("CORS", 200), "last_cors")
  <2>1. /\ Wait("writer", Start("CORS", 200), "last_cors") /\ Note(Start("CORS", 200)) /\ rs' = rs
    BY <1>1, <1>3, Sends DEF Tasks
  <2>2. /\ task'["writer"] = [pc |-> "drain", msg |-> Start("CORS", 200), next |-> "last_cors"]
        /\ task'["reader"] = task["reader"] /\ DOMAIN task' = Tasks
    BY <1>1, <2>1, Tasked DEF Tasks
  <2>3. Noted(200)' /\ seen' \in [code : {0, 413} \union Codes, started : BOOLEAN]
    BY <1>1, <2>1, Notes DEF Codes
  <2>4. Preflight'
    BY <1>1, <1>2, <2>1, <2>2, <2>3 DEF Preflight, Entering, Sending, Clean, Quiet, At
  <2> QED BY <1>1, <2>1, <2>2, <2>3, <2>4 DEF Moment, Open, EdgeTypeOK, Counting
<1>4. CASE /\ Wait("reader", Start("BodySize", 413), "last_413") /\ Note(Start("BodySize", 413))
           /\ UNCHANGED rs
  <2>2. /\ task'["reader"] = [pc |-> "drain", msg |-> Start("BodySize", 413), next |-> "last_413"]
        /\ task'["writer"] = task["writer"] /\ DOMAIN task' = Tasks
    BY <1>1, <1>4, Tasked DEF Tasks
  <2>3. Noted(413)' /\ seen' \in [code : {0, 413} \union Codes, started : BOOLEAN]
    BY <1>1, <1>4, Notes DEF Codes
  <2>4. Declared'
    BY <1>1, <1>2, <1>4, <2>2, <2>3 DEF Declared, Entering, Sending, Clean, Quiet, At
  <2> QED BY <1>1, <1>4, <2>2, <2>3, <2>4 DEF Moment, Open, EdgeTypeOK, Counting
<1>5. CASE Both("read", "begin") /\ UNCHANGED <<seen, rs>>
  <2>2. task'["reader"].pc = "read" /\ task'["writer"].pc = "begin" /\ DOMAIN task' = Tasks
    BY <1>1, <1>5, TaskedBoth
  <2>4. Running'
    BY <1>1, <1>5, <2>2 DEF Running, Entering, Clean, Quiet, At, Untouched, Reading
  <2> QED BY <1>1, <1>5, <2>2, <2>4 DEF Moment, Open, EdgeTypeOK, Counting
<1>6. CASE Send("writer", Start("TrustedHost", 400), "last_host")
  <2>1. /\ Wait("writer", Start("TrustedHost", 400), "last_host") /\ Note(Start("TrustedHost", 400))
        /\ rs' = [rs EXCEPT !.response_started = @ \/ req.limit > 0]
    BY <1>1, <1>6, Sends DEF Tasks, Entering, Clean
  <2>2. /\ task'["writer"] = [pc |-> "drain", msg |-> Start("TrustedHost", 400), next |-> "last_host"]
        /\ task'["reader"] = task["reader"] /\ DOMAIN task' = Tasks
    BY <1>1, <2>1, Tasked DEF Tasks
  <2>3. Noted(400)' /\ seen' \in [code : {0, 413} \union Codes, started : BOOLEAN]
    BY <1>1, <2>1, Notes DEF Codes
  <2>4. Foreign' /\ rs' \in [received : Nat, rejected : BOOLEAN, rejection_sent : BOOLEAN,
             response_started : BOOLEAN, enforcement_stopped : BOOLEAN]
    BY <1>1, <1>2, <2>1, <2>2, <2>3 DEF Foreign, Entering, Sending, Clean, Quiet, At, EdgeTypeOK
  <2> QED BY <1>1, <2>1, <2>2, <2>3, <2>4 DEF Moment, Open, EdgeTypeOK, Counting, Entering, Clean
<1> QED BY <1>3, <1>4, <1>5, <1>6 DEF Enter

LEMMA RejectBodyStep ==
  ASSUME EdgeInv, RejectBody
  PROVE  Moment' /\ EdgeTypeOK' /\ Counting'
<1>1. /\ Open /\ (Declared \/ Rejecting) /\ records = <<>>
      /\ UNCHANGED <<req, frames, got, gone, rs, phase, cause, wire, seen, records, reports>>
      /\ EdgeTypeOK /\ Counting
  BY DEF EdgeInv, Moment, RejectBody, Open, Returned, Raised, Failed, Erring, Ended, Entering, EndsWell,
         EndsFailed, Left, At, Preflight, Foreign, Running, Answering, Told, Reading
<1>2. /\ task'["reader"] = [pc |-> "drain", msg |-> Stop("BodySize"), next |-> "told"]
      /\ task'["writer"] = task["writer"] /\ DOMAIN task' = Tasks
  BY <1>1, Tasked DEF RejectBody, Tasks, Stop
<1>3. Sent("BodySize", 413, 1)
  BY <1>1 DEF Declared, Rejecting, Sending, At, RejectBody
<1>4. Sending("reader", "BodySize", 413, "last_413", "told")'
  BY <1>1, <1>2, <1>3 DEF Sending, Sent
<1>5. Declared' \/ Rejecting'
  BY <1>1, <1>2, <1>4 DEF Declared, Rejecting, Clean, Noted, Quiet, At, Muted, Handled
<1> QED BY <1>1, <1>2, <1>5 DEF Moment, Open, EdgeTypeOK, Counting

LEMMA RejectedStep ==
  ASSUME EdgeInv, Rejected
  PROVE  Moment' /\ EdgeTypeOK' /\ Counting'
<1>1. /\ Open /\ (Declared \/ Rejecting) /\ records = <<>>
      /\ UNCHANGED <<req, frames, got, gone, cause, wire, seen, records, reports>>
      /\ EdgeTypeOK /\ Counting
  BY DEF EdgeInv, Moment, Rejected, Open, Returned, Raised, Failed, Erring, Ended, Entering, EndsWell,
         EndsFailed, Left, At, Preflight, Foreign, Running, Answering, Told, Reading
<1>2. /\ task'["reader"].pc = "cut_off"
      /\ task'["writer"] = task["writer"] /\ DOMAIN task' = Tasks
  BY <1>1, Tasked DEF Rejected, Tasks
<1>3. Sent("BodySize", 413, 2)'
  BY <1>1 DEF Declared, Rejecting, Sending, At, Rejected, Sent
<1>4. /\ rs'.rejection_sent /\ rs'.rejected = rs.rejected /\ rs'.response_started = rs.response_started
      /\ rs'.enforcement_stopped = rs.enforcement_stopped /\ rs'.received = rs.received
      /\ rs' \in [received : Nat, rejected : BOOLEAN, rejection_sent : BOOLEAN,
             response_started : BOOLEAN, enforcement_stopped : BOOLEAN]
  BY <1>1 DEF Rejected, EdgeTypeOK
<1>5. CASE Declared
  <2>1. phase' = "returned"
    BY <1>5 DEF Declared, Rejected
  <2>2. Left'
    BY <1>1, <1>2, <1>3, <1>4, <1>5 DEF Declared, Left, At, Carried, Noted
  <2> QED BY <1>1, <1>2, <1>4, <1>5, <2>1, <2>2 DEF Moment, Returned, Declared, EdgeTypeOK, Counting, Quiet
<1>6. CASE Rejecting
  <2>1. phase' = "open"
    BY <1>1, <1>6 DEF Rejecting, Rejected, Muted, At, Open
  <2>2. Told'
    BY <1>1, <1>2, <1>3, <1>4, <1>6 DEF Rejecting, Told, At, Noted, Muted, Quiet, Handled
  <2> QED BY <1>1, <1>2, <1>4, <2>1, <2>2 DEF Moment, Open, EdgeTypeOK, Counting
<1> QED BY <1>1, <1>5, <1>6

LEMMA ReceiveStep ==
  ASSUME EdgeInv, Receive
  PROVE  Moment' /\ EdgeTypeOK' /\ Counting'
<1>1. /\ Open /\ (Running \/ Answering) /\ records = <<>> /\ At("reader", "read") /\ ~rs.rejected
      /\ UNCHANGED <<req, gone, phase, cause, wire, records, reports>>
      /\ EdgeTypeOK /\ Counting
  BY DEF EdgeInv, Moment, Receive, Open, Returned, Raised, Failed, Erring, Ended, Entering, EndsWell,
         EndsFailed, Left, At, Preflight, Foreign, Declared, Rejecting, Sending, Told, Running, Answering, Clean
<1>2. req.limit \in Nat
  BY <1>1, LimitsAssumption DEF EdgeTypeOK
<1>3. ASSUME NEW pc \in {"read", "ended", "cut_off"}, To("reader", pc), UNCHANGED seen,
             rs'.rejected = rs.rejected, rs'.rejection_sent = rs.rejection_sent,
             rs'.response_started = rs.response_started
      PROVE  Moment' /\ DOMAIN task' = Tasks
  <2>1. task'["reader"].pc = pc /\ task'["writer"] = task["writer"] /\ DOMAIN task' = Tasks
    BY <1>1, <1>3, Tasked DEF Tasks
  <2>2. CASE Running
    <3>1. Running'
      BY <1>1, <1>3, <2>1, <2>2 DEF Running, Clean, Untouched, Quiet, Reading, At
    <3> QED BY <1>1, <2>1, <3>1 DEF Moment, Open
  <2>3. CASE Answering
    <3>1. Sending("writer", "App", Status(cause), "last_app", "returning")'
      BY <1>1, <2>1, <2>3 DEF Answering, Sending, Sent, At
    <3>2. Answering'
      BY <1>1, <1>3, <2>1, <2>3, <3>1 DEF Answering, Handled, Noted, Reading, At
    <3> QED BY <1>1, <2>1, <3>2 DEF Moment, Open
  <2> QED BY <1>1, <2>2, <2>3
<1>4. CASE To("reader", "cut_off") /\ UNCHANGED <<frames, got, rs, seen>>
  <2>1. Moment' /\ DOMAIN task' = Tasks
    BY <1>3, <1>4
  <2> QED BY <1>1, <1>4, <2>1 DEF EdgeTypeOK, Counting
<1>5. ASSUME NEW n, n = Head(frames), Frame(n), Count(n)
      PROVE  Moment' /\ EdgeTypeOK' /\ Counting'
  <2>1. n \in Nat /\ frames' \in Seq(Nat)
    BY <1>1, <1>5 DEF Frame, EdgeTypeOK
  <2>2. /\ rs.received \in Nat /\ rs.received + n \in Nat /\ got + n \in Nat
        /\ rs.enforcement_stopped \in BOOLEAN
    BY <1>1, <2>1 DEF EdgeTypeOK
  <2>3. ASSUME Deliver(n), \/ rs' = rs /\ (req.limit <= 0 \/ rs.enforcement_stopped)
                           \/ /\ rs' = [rs EXCEPT !.received = rs.received + n]
                              /\ rs.received + n <= req.limit /\ ~rs.enforcement_stopped
                           \/ /\ rs' = [rs EXCEPT !.received = rs.received + n, !.enforcement_stopped = TRUE]
                              /\ rs.response_started
        PROVE  Moment' /\ EdgeTypeOK' /\ Counting'
    <3>1. /\ rs'.rejected = rs.rejected /\ rs'.rejection_sent = rs.rejection_sent
          /\ rs'.response_started = rs.response_started
          /\ rs' \in [received : Nat, rejected : BOOLEAN, rejection_sent : BOOLEAN,
                      response_started : BOOLEAN, enforcement_stopped : BOOLEAN]
      BY <1>1, <2>2, <2>3 DEF EdgeTypeOK
    <3>2. Moment' /\ DOMAIN task' = Tasks
      <4>1. \E pc \in {"read", "ended", "cut_off"} : To("reader", pc)
        BY <2>3 DEF Deliver
      <4> QED BY <1>3, <2>3, <3>1, <4>1 DEF Deliver
    <3>3. got' = got + n /\ seen' = seen
      BY <2>3 DEF Deliver
    <3>4. Counting'
      <4>1. /\ req.limit > 0 /\ ~rs.enforcement_stopped => got = rs.received /\ rs.received <= req.limit
            /\ req.limit > 0 /\ rs.enforcement_stopped => rs.response_started
        BY <1>1 DEF Counting
      <4>2. CASE rs' = rs /\ (req.limit <= 0 \/ rs.enforcement_stopped)
        BY <1>1, <1>2, <3>3, <4>1, <4>2 DEF Counting
      <4>3. CASE /\ rs' = [rs EXCEPT !.received = rs.received + n]
                 /\ rs.received + n <= req.limit /\ ~rs.enforcement_stopped
        <5>1. rs'.received = rs.received + n /\ ~rs'.enforcement_stopped /\ ~rs'.rejected
          BY <1>1, <4>3 DEF EdgeTypeOK
        <5> QED BY <1>1, <3>3, <4>1, <4>3, <5>1 DEF Counting
      <4>4. CASE /\ rs' = [rs EXCEPT !.received = rs.received + n, !.enforcement_stopped = TRUE]
                 /\ rs.response_started
        <5>1. rs'.enforcement_stopped /\ ~rs'.rejected /\ rs'.response_started
          BY <1>1, <4>4 DEF EdgeTypeOK
        <5> QED BY <5>1 DEF Counting
      <4> QED BY <2>3, <4>2, <4>3, <4>4
    <3> QED BY <1>1, <2>1, <2>2, <3>1, <3>2, <3>3, <3>4 DEF EdgeTypeOK
  <2>4. ASSUME Reject(rs.received + n), UNCHANGED got, req.limit > 0, ~rs.response_started,
               ~rs.enforcement_stopped
        PROVE  Moment' /\ EdgeTypeOK' /\ Counting'
    <3>1. /\ rs'.rejected /\ rs'.rejection_sent = rs.rejection_sent
          /\ rs'.response_started = rs.response_started /\ ~rs'.enforcement_stopped
          /\ rs' \in [received : Nat, rejected : BOOLEAN, rejection_sent : BOOLEAN,
                      response_started : BOOLEAN, enforcement_stopped : BOOLEAN]
      BY <1>1, <2>2, <2>4 DEF EdgeTypeOK, Reject
    <3>2. /\ task'["reader"] = [pc |-> "drain", msg |-> Start("BodySize", 413), next |-> "last_413"]
          /\ task'["writer"] = task["writer"] /\ DOMAIN task' = Tasks
      BY <1>1, <2>4, Tasked DEF Reject, Tasks
    <3>3. Noted(413)' /\ seen' \in [code : {0, 413} \union Codes, started : BOOLEAN]
      BY <1>1, <2>4, Notes DEF Reject
    <3>4. Running
      BY <1>1, <2>4 DEF Answering
    <3>5. Sending("reader", "BodySize", 413, "last_413", "told")'
      BY <1>1, <3>2, <3>4 DEF Sending, Sent, Running, Untouched
    <3>6. Rejecting'
      BY <1>1, <2>4, <3>1, <3>2, <3>3, <3>4, <3>5 DEF Rejecting, Running, Clean, Muted, Quiet, At
    <3>7. Counting'
      BY <1>1, <2>4, <3>1 DEF Counting
    <3> QED BY <1>1, <2>1, <2>4, <3>1, <3>2, <3>3, <3>6, <3>7 DEF Moment, Open, EdgeTypeOK
  <2> QED BY <1>5, <2>3, <2>4, <1>2, <2>2 DEF Count
<1> QED BY <1>1, <1>4, <1>5 DEF Receive

LEMMA LastLayers ==
  LastOf("last_cors") = "CORS" /\ LastOf("last_host") = "TrustedHost" /\ LastOf("last_error") = "ServerError"
BY DEF LastOf

LEMMA FinishStep ==
  ASSUME EdgeInv, Finish
  PROVE  Moment' /\ EdgeTypeOK' /\ Counting'
<1>1. /\ \/ Open /\ (Preflight \/ Foreign) /\ records = <<>>
         \/ Erring
      /\ UNCHANGED <<req, frames, got, gone, phase, cause, wire, records, reports>>
      /\ EdgeTypeOK /\ Counting
  BY DEF EdgeInv, Moment, Finish, Open, Returned, Raised, Failed, Erring, Ended, Entering, EndsWell,
         EndsFailed, Left, At, Declared, Running, Answering, Rejecting, Muted, Sending, Told
<1>2. ASSUME NEW l \in {"CORS", "TrustedHost", "ServerError"}, NEW s,
             NEW last \in {"last_cors", "last_host", "last_error"}, LastOf(last) = l,
             Sending("writer", l, s, last, "over"), At("writer", last), ~rs.rejected
      PROVE  /\ Sending("writer", l, s, last, "over")' /\ task'["reader"] = task["reader"]
             /\ DOMAIN task' = Tasks /\ rs' = rs /\ seen' = seen
  <2>1. Send("writer", Stop(l), "over")
    BY <1>2 DEF Finish, Stop, At
  <2>2. Wait("writer", Stop(l), "over") /\ Note(Stop(l)) /\ rs' = rs
    BY <1>1, <1>2, <2>1, Sends DEF Tasks
  <2>3. /\ task'["writer"] = [pc |-> "drain", msg |-> Stop(l), next |-> "over"]
        /\ task'["reader"] = task["reader"] /\ DOMAIN task' = Tasks
    BY <1>1, <2>2, Tasked DEF Tasks
  <2>4. Sent(l, s, 1)
    BY <1>2 DEF Sending, At
  <2> QED BY <1>1, <2>2, <2>3, <2>4, Notes DEF Sending, Sent
<1>3. CASE Open /\ Preflight /\ records = <<>>
  <2>1. At("writer", "last_cors")
    BY <1>3 DEF Finish, Preflight, Sending, At
  <2>2. /\ Sending("writer", "CORS", 200, "last_cors", "over")' /\ task'["reader"] = task["reader"]
        /\ DOMAIN task' = Tasks /\ rs' = rs /\ seen' = seen
    BY <1>2, <1>3, <2>1, LastLayers DEF Preflight, Clean
  <2>3. Preflight'
    BY <1>1, <1>3, <2>2 DEF Preflight, Clean, Noted, Quiet, At
  <2> QED BY <1>1, <1>3, <2>2, <2>3 DEF Moment, Open, EdgeTypeOK, Counting
<1>4. CASE Open /\ Foreign /\ records = <<>>
  <2>1. At("writer", "last_host")
    BY <1>4 DEF Finish, Foreign, Sending, At
  <2>2. /\ Sending("writer", "TrustedHost", 400, "last_host", "over")' /\ task'["reader"] = task["reader"]
        /\ DOMAIN task' = Tasks /\ rs' = rs /\ seen' = seen
    BY <1>2, <1>4, <2>1, LastLayers DEF Foreign
  <2>3. Foreign'
    BY <1>1, <1>4, <2>2 DEF Foreign, Noted, Quiet, At
  <2> QED BY <1>1, <1>4, <2>2, <2>3 DEF Moment, Open, EdgeTypeOK, Counting
<1>5. CASE Erring
  <2>1. At("writer", "last_error")
    BY <1>5 DEF Finish, Erring, Sending, At
  <2>2. /\ Sending("writer", "ServerError", Status(cause), "last_error", "over")'
        /\ task'["reader"] = task["reader"]
        /\ DOMAIN task' = Tasks /\ rs' = rs /\ seen' = seen
    <3>1. ASSUME NEW s, s = Status(cause)
          PROVE  /\ Sending("writer", "ServerError", s, "last_error", "over")'
                 /\ task'["reader"] = task["reader"]
                 /\ DOMAIN task' = Tasks /\ rs' = rs /\ seen' = seen
      BY <1>2, <1>5, <2>1, <3>1, LastLayers DEF Erring
    <3> QED BY <1>1, <3>1 DEF Sending
  <2>3. Erring'
    BY <1>1, <1>5, <2>2 DEF Erring, Offered, FailedRecord, At
  <2> QED BY <1>1, <1>5, <2>2, <2>3 DEF Moment, EdgeTypeOK, Counting
<1> QED BY <1>1, <1>3, <1>4, <1>5

\* The answer of the task is over: what it sent is what was carried.
LEMMA OverStep ==
  ASSUME EdgeInv, Over
  PROVE  Moment' /\ EdgeTypeOK' /\ Counting'
<1>1. /\ \/ Open /\ (Preflight \/ Foreign) /\ records = <<>>
         \/ Erring
      /\ UNCHANGED <<req, frames, got, gone, rs, cause, wire, seen, records, reports>>
      /\ EdgeTypeOK /\ Counting
  BY DEF EdgeInv, Moment, Over, Open, Returned, Raised, Failed, Erring, Ended, Entering, EndsWell,
         EndsFailed, Left, At, Declared, Running, Answering, Rejecting, Muted, Sending, Told
<1>2. /\ task'["writer"].pc = "idle"
      /\ task'["reader"] = task["reader"] /\ DOMAIN task' = Tasks
  BY <1>1, Tasked DEF Over, Tasks
<1>3. ASSUME NEW l, NEW s, NEW last, last # "over", Sending("writer", l, s, last, "over")
      PROVE  Sent(l, s, 2)'
  BY <1>1, <1>3 DEF Over, Sending, Sent, At
<1>4. CASE Open /\ (Preflight \/ Foreign) /\ records = <<>>
  <2>1. phase' = "returned"
    BY <1>4 DEF Over, Open
  <2>2. Left'
    <3>1. CASE Preflight
      <4>1. Sent("CORS", 200, 2)'
        BY <1>3, <3>1 DEF Preflight
      <4>2. Carried("CORS", 200)'
        BY <1>1, <3>1, <4>1 DEF Preflight, Carried, Noted
      <4> QED BY <1>1, <1>2, <3>1, <4>2 DEF Left, Preflight, Clean, At, Codes
    <3>2. CASE Foreign
      <4>1. Sent("TrustedHost", 400, 2)'
        BY <1>3, <3>2 DEF Foreign
      <4>2. Carried("TrustedHost", 400)'
        BY <1>1, <3>2, <4>1 DEF Foreign, Carried, Noted
      <4> QED BY <1>1, <1>2, <3>2, <4>2 DEF Left, Foreign, At, Codes
    <3> QED BY <1>4, <3>1, <3>2
  <2> QED BY <1>1, <1>2, <1>4, <2>1, <2>2 DEF Moment, Returned, Preflight, Foreign, Quiet, EdgeTypeOK, Counting
<1>5. CASE Erring
  <2>1. phase' = "end"
    BY <1>5 DEF Over, Erring
  <2>2. Sent("ServerError", Status(cause), 2)'
    <3>1. ASSUME NEW s, s = Status(cause)
          PROVE  Sent("ServerError", s, 2)'
      BY <1>3, <1>5, <3>1 DEF Erring
    <3> QED BY <1>1, <3>1 DEF Sent
  <2>3. EndsFailed'
    BY <1>1, <1>2, <1>5, <2>2 DEF EndsFailed, Erring, Offered, FailedRecord, At
  <2> QED BY <1>1, <1>2, <2>1, <2>3 DEF Moment, Ended, EdgeTypeOK, Counting
<1> QED BY <1>1, <1>4, <1>5

\* A task that ends early leaves behind a part of what it was sending.
LEMMA PartCarried ==
  ASSUME NEW t, NEW l, NEW s, NEW last, NEW done, Sending(t, l, s, last, done), Noted(s),
         UNCHANGED <<wire, gone, seen>>
  PROVE  Carried(l, s)'
<1>1. \E n \in 0 .. 2 : Sent(l, s, n)
  BY DEF Sending
<1>2. \E n \in 0 .. 2 : Sent(l, s, n)'
  BY <1>1 DEF Sent
<1> QED BY <1>2 DEF Carried, Noted

\* An exception of the application leaves whatever it or the limit had sent.
LEMMA RaiseStep ==
  ASSUME EdgeInv, Open, records = <<>>, Raise, UNCHANGED <<req, frames, got, gone, wire, records>>,
         cause' \in Unhandled, reports = <<>>, Running \/ Answering \/ (Rejecting /\ req.streams) \/ Told
  PROVE  Moment' /\ EdgeTypeOK' /\ Counting'
<1>1. /\ phase' = "raised" /\ reports' = <<>> /\ rs' = rs /\ seen' = seen
      /\ task'["reader"].pc = "idle" /\ task'["writer"].pc = "idle" /\ DOMAIN task' = Tasks
      /\ EdgeTypeOK /\ Counting
  BY TaskedBoth DEF Raise, EdgeInv
<1>2. CASE Running
  BY <1>1, <1>2 DEF Running, Clean, Untouched, Left, At, Raised, Moment, EdgeTypeOK, Counting
<1>3. CASE Answering
  <2>1. PICK s \in Codes : s = Status(cause)
    BY StatusCodes
  <2>2. Carried("App", s)'
    BY <1>1, <1>3, <2>1, PartCarried DEF Answering
  <2>3. Left'
    BY <1>1, <1>3, <2>2 DEF Left, Answering, At
  <2> QED BY <1>1, <2>3 DEF Moment, Raised, EdgeTypeOK, Counting
<1>4. CASE Rejecting /\ req.streams
  <2>1. Carried("BodySize", 413)'
    BY <1>1, <1>4, PartCarried DEF Rejecting
  <2>2. Left'
    BY <1>1, <1>4, <2>1 DEF Left, Rejecting, At
  <2> QED BY <1>1, <2>2 DEF Moment, Raised, EdgeTypeOK, Counting
<1>5. CASE Told
  <2>1. Sent("BodySize", 413, 2)'
    BY <1>5 DEF Told, Sent
  <2>2. Left'
    BY <1>1, <1>5, <2>1 DEF Left, Told, At, Carried, Noted
  <2> QED BY <1>1, <2>2 DEF Moment, Raised, EdgeTypeOK, Counting
<1> QED BY <1>2, <1>3, <1>4, <1>5

\* An answer of the application is sent, or muted under a rejection.
LEMMA RespondStep ==
  ASSUME EdgeInv, Open, records = <<>>, NEW c \in Curated \union Answered, Respond(c), cause' = c,
         UNCHANGED <<req, frames, got, gone, wire, records>>, At("writer", "begin"),
         Running \/ (Rejecting /\ req.streams) \/ Told
  PROVE  Moment' /\ EdgeTypeOK' /\ Counting'
<1>1. EdgeTypeOK /\ Counting /\ Quiet /\ phase' = "open"
  BY DEF EdgeInv, Running, Rejecting, Told, Muted, At, Respond, Open
<1>2. Handled'
  BY <1>1 DEF Quiet, Handled, Respond, Handle, Offer
<1>3. Send("writer", Start("App", Status(c)), "last_app")
  BY DEF Respond
<1>4. PICK s \in Codes : s = Status(c)
  BY StatusCodes
<1>5. CASE Running
  <2>1. /\ Wait("writer", Start("App", s), "last_app") /\ Note(Start("App", s))
        /\ rs' = [rs EXCEPT !.response_started = @ \/ req.limit > 0]
    BY <1>1, <1>3, <1>4, <1>5, Sends DEF Tasks, Running, Clean
  <2>2. /\ task'["writer"] = [pc |-> "drain", msg |-> Start("App", s), next |-> "last_app"]
        /\ task'["reader"] = task["reader"] /\ DOMAIN task' = Tasks
    BY <1>1, <2>1, Tasked DEF Tasks
  <2>3. Noted(s)' /\ seen' \in [code : {0, 413} \union Codes, started : BOOLEAN]
    BY <1>1, <2>1, Notes
  <2>4. /\ rs'.response_started <=> req.limit > 0
        /\ rs'.rejected = rs.rejected /\ rs'.rejection_sent = rs.rejection_sent
        /\ rs'.enforcement_stopped = rs.enforcement_stopped /\ rs'.received = rs.received
        /\ rs' \in [received : Nat, rejected : BOOLEAN, rejection_sent : BOOLEAN,
                    response_started : BOOLEAN, enforcement_stopped : BOOLEAN]
    BY <1>1, <1>5, <2>1 DEF EdgeTypeOK, Running, Clean
  <2>5. Sending("writer", "App", s, "last_app", "returning")'
    BY <1>5, <2>2 DEF Sending, Sent, Running, Untouched
  <2>6. Answering'
    BY <1>2, <1>4, <1>5, <2>2, <2>3, <2>4, <2>5 DEF Answering, Running, Clean, Reading, At
  <2>7. Counting'
    BY <1>1, <1>5, <2>4 DEF Counting, Running, Clean
  <2> QED BY <1>1, <2>2, <2>3, <2>4, <2>6, <2>7 DEF Moment, Open, EdgeTypeOK
<1>6. CASE (Rejecting /\ req.streams) \/ Told
  <2>1. "BodySize" \in Start("App", Status(c)).in
    BY Messages, Layers
  <2>2. To("writer", "last_app") /\ rs' = rs /\ seen' = seen
    BY <1>1, <1>3, <1>6, <2>1, Sends DEF Tasks, Rejecting, Told
  <2>3. /\ task'["writer"].pc = "last_app" /\ task'["reader"] = task["reader"] /\ DOMAIN task' = Tasks
    BY <1>1, <2>2, Tasked DEF Tasks
  <2>4. CASE Rejecting /\ req.streams
    <3>1. Sending("reader", "BodySize", 413, "last_413", "told")'
      BY <2>3, <2>4 DEF Sending, Sent, Rejecting, At
    <3>2. Rejecting'
      BY <1>2, <2>2, <2>3, <2>4, <3>1 DEF Rejecting, Noted, Muted, At
    <3> QED BY <1>1, <2>2, <2>3, <3>2 DEF Moment, Open, EdgeTypeOK, Counting
  <2>5. CASE Told
    <3>1. Told'
      BY <1>2, <2>2, <2>3, <2>5 DEF Told, Noted, Muted, At, Sent
    <3> QED BY <1>1, <2>2, <2>3, <3>1 DEF Moment, Open, EdgeTypeOK, Counting
  <2> QED BY <1>6, <2>4, <2>5
<1> QED BY <1>5, <1>6

LEMMA EndpointStep ==
  ASSUME EdgeInv, Endpoint \/ Stream
  PROVE  Moment' /\ EdgeTypeOK' /\ Counting'
<1>1. /\ Open /\ (Running \/ Rejecting \/ Told) /\ records = <<>> /\ At("writer", "begin") /\ reports = <<>>
      /\ UNCHANGED <<req, frames, got, gone, wire, records>>
  BY DEF EdgeInv, Moment, Endpoint, Stream, Open, Returned, Raised, Failed, Erring, Ended, Entering, EndsWell,
         EndsFailed, Left, At, Preflight, Foreign, Declared, Answering, Rejecting, Sending, Told, Running,
         Muted, Quiet
<1>2. Rejecting => req.streams
  BY DEF Rejecting, Sending, At, Endpoint, Stream
<1>3. PICK c \in Curated \union Answered \union Unhandled :
        cause' = c /\ IF c \in Unhandled THEN Raise ELSE Respond(c)
  BY DEF Endpoint, Stream, Curated, Answered, Unhandled
<1>4. CASE c \in Unhandled
  BY <1>1, <1>2, <1>3, <1>4, RaiseStep
<1>5. CASE c \notin Unhandled
  BY <1>1, <1>2, <1>3, <1>5, RespondStep
<1> QED BY <1>4, <1>5

LEMMA LastBodyStep ==
  ASSUME EdgeInv, LastBody
  PROVE  Moment' /\ EdgeTypeOK' /\ Counting'
<1>1. /\ Open /\ (Answering \/ Rejecting \/ Told) /\ records = <<>> /\ At("writer", "last_app") /\ Handled
      /\ UNCHANGED <<req, frames, got, gone, wire, records>>
      /\ EdgeTypeOK /\ Counting
  BY DEF EdgeInv, Moment, LastBody, Open, Returned, Raised, Failed, Erring, Ended, Entering, EndsWell,
         EndsFailed, Left, At, Preflight, Foreign, Declared, Running, Answering, Rejecting, Sending, Told,
         Muted
<1>2. CASE req.streams /\ cause = "ok" /\ cause' = "error" /\ Raise
  <2>1. reports = <<>> /\ cause' \in Unhandled
    BY <1>1, <1>2 DEF Handled, Curated, Unhandled
  <2> QED BY <1>1, <1>2, <2>1, RaiseStep
<1>3. CASE Send("writer", Stop("App"), "returning") /\ UNCHANGED <<phase, cause, reports>>
  <2>1. CASE Answering
    <3>1. Wait("writer", Stop("App"), "returning") /\ Note(Stop("App")) /\ rs' = rs
      BY <1>1, <1>3, <2>1, Sends DEF Tasks, Answering
    <3>2. /\ task'["writer"] = [pc |-> "drain", msg |-> Stop("App"), next |-> "returning"]
          /\ task'["reader"] = task["reader"] /\ DOMAIN task' = Tasks /\ seen' = seen
      BY <1>1, <3>1, Tasked, Notes DEF Tasks
    <3>3. Sent("App", Status(cause), 1)
      BY <1>1, <2>1 DEF Answering, Sending, At
    <3>4. Answering'
      BY <1>1, <1>3, <2>1, <3>1, <3>2, <3>3 DEF Answering, Sending, Sent, Handled, Noted, Reading, At
    <3> QED BY <1>1, <1>3, <3>1, <3>2, <3>4 DEF Moment, Open, EdgeTypeOK, Counting
  <2>2. CASE Rejecting \/ Told
    <3>1. "BodySize" \in Stop("App").in
      BY Messages, Layers
    <3>2. To("writer", "returning") /\ rs' = rs /\ seen' = seen
      BY <1>1, <1>3, <2>2, <3>1, Sends DEF Tasks, Rejecting, Told
    <3>3. /\ task'["writer"].pc = "returning" /\ task'["reader"] = task["reader"] /\ DOMAIN task' = Tasks
      BY <1>1, <3>2, Tasked DEF Tasks
    <3>4. Handled'
      BY <1>1, <1>3 DEF Handled
    <3>5. CASE Rejecting
      <4>1. Sending("reader", "BodySize", 413, "last_413", "told")'
        BY <1>1, <3>3, <3>5 DEF Sending, Sent, Rejecting, At
      <4>2. req.streams
        BY <1>1, <3>5 DEF Rejecting, At
      <4>3. Rejecting'
        BY <1>1, <3>2, <3>3, <3>4, <3>5, <4>1, <4>2 DEF Rejecting, Noted, Muted, At
      <4> QED BY <1>1, <1>3, <3>2, <3>3, <4>3 DEF Moment, Open, EdgeTypeOK, Counting
    <3>6. CASE Told
      <4>1. Told'
        BY <1>1, <3>2, <3>3, <3>4, <3>6 DEF Told, Noted, Muted, At, Sent
      <4> QED BY <1>1, <1>3, <3>2, <3>3, <4>1 DEF Moment, Open, EdgeTypeOK, Counting
    <3> QED BY <2>2, <3>5, <3>6
  <2> QED BY <1>1, <2>1, <2>2
<1> QED BY <1>2, <1>3 DEF LastBody, Stop

LEMMA ReturnStep ==
  ASSUME EdgeInv, Return
  PROVE  Moment' /\ EdgeTypeOK' /\ Counting'
<1>1. /\ Open /\ (Running \/ Answering \/ (Rejecting /\ req.streams) \/ Told) /\ records = <<>>
      /\ UNCHANGED <<req, frames, got, gone, rs, cause, wire, seen, records, reports>>
      /\ phase' = "returned" /\ EdgeTypeOK /\ Counting
  BY DEF EdgeInv, Moment, Return, Open, Returned, Raised, Failed, Erring, Ended, Entering,
         At, Preflight, Foreign, Declared, Rejecting, Sending, Muted
<1>2. task'["reader"].pc = "idle" /\ task'["writer"].pc = "idle" /\ DOMAIN task' = Tasks
  BY <1>1, TaskedBoth DEF Return
<1>3. Quiet' \/ Handled'
  BY <1>1 DEF Running, Answering, Rejecting, Told, Muted, Quiet, Handled
<1>4. CASE Running
  BY <1>1, <1>2, <1>3, <1>4 DEF Running, Clean, Untouched, Left, At, Returned, Moment, EdgeTypeOK, Counting
<1>5. CASE Answering
  <2>1. PICK s \in Codes : s = Status(cause)
    BY StatusCodes
  <2>2. Carried("App", s)'
    BY <1>1, <1>5, <2>1, PartCarried DEF Answering
  <2>3. Left'
    BY <1>1, <1>2, <1>5, <2>2 DEF Left, Answering, At
  <2> QED BY <1>1, <1>2, <1>3, <2>3 DEF Moment, Returned, EdgeTypeOK, Counting
<1>6. CASE Rejecting /\ req.streams
  <2>1. Carried("BodySize", 413)'
    BY <1>1, <1>6, PartCarried DEF Rejecting
  <2>2. Left'
    BY <1>1, <1>2, <1>6, <2>1 DEF Left, Rejecting, At
  <2> QED BY <1>1, <1>2, <1>3, <2>2 DEF Moment, Returned, EdgeTypeOK, Counting
<1>7. CASE Told
  <2>1. Sent("BodySize", 413, 2)'
    BY <1>1, <1>7 DEF Told, Sent
  <2>2. Left'
    BY <1>1, <1>2, <1>7, <2>1 DEF Left, Told, At, Carried, Noted
  <2> QED BY <1>1, <1>2, <1>3, <2>2 DEF Moment, Returned, EdgeTypeOK, Counting
<1> QED BY <1>1, <1>4, <1>5, <1>6, <1>7

\* What was sent stays sent, also to a client that hangs up.
LEMMA StaysSent ==
  ASSUME gone => gone', UNCHANGED <<wire, task, seen>>
  PROVE  /\ \A l, s, n : Sent(l, s, n) => Sent(l, s, n)'
         /\ \A t, l, s, last, done : Sending(t, l, s, last, done) => Sending(t, l, s, last, done)'
         /\ \A l, s : Carried(l, s) => Carried(l, s)'
<1>1. \A l, s, n : Sent(l, s, n) => Sent(l, s, n)'
  BY DEF Sent
<1>2. \A t, l, s, last, done : Sending(t, l, s, last, done) => Sending(t, l, s, last, done)'
  BY <1>1 DEF Sending, At
<1>3. \A l, s : Carried(l, s) => Carried(l, s)'
  BY <1>1 DEF Carried, Noted
<1> QED BY <1>1, <1>2, <1>3

LEMMA LeftStays ==
  ASSUME Left, gone => gone', UNCHANGED <<wire, task, seen, rs, req>>
  PROVE  Left'
<1>1. \A l, s : Carried(l, s) => Carried(l, s)'
  BY StaysSent
<1>2. Sent("BodySize", 413, 2) => Sent("BodySize", 413, 2)'
  BY StaysSent
<1>3. Untouched' = Untouched
  BY DEF Untouched
<1> QED BY <1>1, <1>2, <1>3 DEF Left, At

LEMMA LogRecordStep ==
  ASSUME EdgeInv, LogRecord
  PROVE  Moment' /\ EdgeTypeOK' /\ Counting'
<1>1. /\ Returned \/ Raised
      /\ records = <<>> /\ Left
      /\ UNCHANGED <<req, frames, got, gone, rs, task, cause, wire, seen, reports>>
      /\ EdgeTypeOK /\ Counting
  BY DEF EdgeInv, Moment, LogRecord, Open, Returned, Raised, Failed, Erring, Ended, Entering
<1>2. Left'
  BY <1>1, LeftStays
<1>3. EdgeTypeOK' /\ Counting'
  BY <1>1 DEF EdgeTypeOK, Counting
<1> DEFINE failed == phase = "raised" /\ ~Swallows
           code == IF failed /\ seen.code = 0 THEN 500 ELSE seen.code
<1>6. /\ phase' = IF failed THEN "failed" ELSE "end"
      /\ records' = Append(<<>>, [failed |-> failed, status |-> code])
  BY <1>1 DEF LogRecord
<1>7. failed \in BOOLEAN
  OBVIOUS
<1>8. records' = <<[failed |-> failed, status |-> code]>>
  <2> HIDE DEF failed, code
  <2> QED BY <1>6
<1>4. CASE phase = "raised" /\ ~rs.rejection_sent
  <2>0. failed = TRUE /\ code = IF seen.code = 0 THEN 500 ELSE seen.code
    BY <1>4 DEF Swallows
  <2>1. /\ phase' = "failed"
        /\ records' = <<[failed |-> TRUE, status |-> IF seen.code = 0 THEN 500 ELSE seen.code]>>
    <3> HIDE DEF failed, code
    <3> QED BY <1>6, <1>8, <2>0
  <2>2. \E s \in Codes \union {413} : FailedRecord(s)'
    <3>1. (IF seen.code = 0 THEN 500 ELSE seen.code) \in Codes \union {413}
      BY <1>1 DEF EdgeTypeOK, Codes
    <3>2. ASSUME NEW s, s = IF seen.code = 0 THEN 500 ELSE seen.code
          PROVE  s \in Codes \union {413} /\ FailedRecord(s)'
      BY <2>1, <3>1, <3>2 DEF FailedRecord
    <3> HIDE DEF failed, code
    <3> QED BY <3>2
  <2>3. Failed'
    BY <1>1, <1>2, <1>4, <2>1, <2>2 DEF Failed, Raised, Returned
  <2> QED BY <1>3, <2>3 DEF Moment
<1>5. CASE phase = "returned" \/ rs.rejection_sent
  <2>0. failed = FALSE /\ code = seen.code
    BY <1>5 DEF Swallows
  <2>1. phase' = "end" /\ records' = <<[failed |-> FALSE, status |-> seen.code]>>
    <3> HIDE DEF failed, code
    <3> QED BY <1>6, <1>8, <2>0
  <2>2. EndsWell'
    BY <1>1, <1>2, <1>5, <2>1 DEF EndsWell, Returned, Raised, Quiet, Handled
  <2> QED BY <1>3, <2>1, <2>2 DEF Moment, Ended
<1> QED BY <1>1, <1>4, <1>5 DEF Returned, Raised

LEMMA GenericHandlerStep ==
  ASSUME EdgeInv, GenericHandler
  PROVE  Moment' /\ EdgeTypeOK' /\ Counting'
<1>1. /\ Failed /\ UNCHANGED <<req, frames, got, gone, cause, wire, records>>
      /\ EdgeTypeOK /\ Counting
  BY DEF EdgeInv, Moment, GenericHandler, Open, Returned, Raised, Ended, Entering, Erring
<1>2. Offered'
  BY <1>1 DEF GenericHandler, Offer, Offered, Failed
<1>3. \E s \in Codes \union {413} : FailedRecord(s)'
  BY <1>1 DEF Failed, FailedRecord
<1>4. CASE seen.started
  <2>1. phase' = "end" /\ UNCHANGED <<task, seen, rs>>
    BY <1>4 DEF GenericHandler
  <2>2. Left'
    BY <1>1, <2>1, LeftStays DEF Failed
  <2>3. EndsFailed'
    BY <1>1, <1>2, <1>3, <2>1, <2>2 DEF EndsFailed, Failed
  <2> QED BY <1>1, <2>1, <2>3 DEF Moment, Ended, EdgeTypeOK, Counting
<1>5. CASE ~seen.started
  <2>1. phase' = "erring" /\ Send("writer", Start("ServerError", Status(cause)), "last_error")
    BY <1>5 DEF GenericHandler
  <2>2. /\ Wait("writer", Start("ServerError", Status(cause)), "last_error")
        /\ Note(Start("ServerError", Status(cause))) /\ rs' = rs
    BY <1>1, <2>1, Sends DEF Tasks
  <2>3. /\ task'["writer"] = [pc |-> "drain", msg |-> Start("ServerError", Status(cause)), next |-> "last_error"]
        /\ task'["reader"] = task["reader"] /\ DOMAIN task' = Tasks /\ seen' = seen
    BY <1>1, <2>2, Tasked, Notes DEF Tasks
  <2>4. Untouched /\ ~rs.rejected
    BY <1>1, <1>5 DEF Failed, Left, Carried, Noted
  <2>5. Status(cause)' = Status(cause)
    BY <1>1
  <2>6. Sending("writer", "ServerError", Status(cause), "last_error", "over")'
    BY <1>1, <2>3, <2>4, <2>5 DEF Sending, Sent, Untouched
  <2>7. Erring'
    BY <1>1, <1>2, <1>3, <2>1, <2>2, <2>3, <2>4, <2>6 DEF Erring, Failed, Left, At
  <2> QED BY <1>1, <2>2, <2>3, <2>7 DEF Moment, EdgeTypeOK, Counting
<1> QED BY <1>4, <1>5

\* Nothing moves, but for a client that may hang up.
LEMMA StaysInv ==
  ASSUME EdgeInv, gone => gone', gone' \in BOOLEAN,
         UNCHANGED <<req, frames, got, rs, task, phase, cause, wire, seen, records, reports>>
  PROVE  Moment' /\ EdgeTypeOK' /\ Counting'
<1>1. /\ gone => gone'
      /\ UNCHANGED <<req, frames, got, rs, task, phase, cause, wire, seen, records, reports>>
      /\ EdgeTypeOK /\ Counting /\ Moment
  BY DEF EdgeInv
<1>2. /\ \A l, s, n : Sent(l, s, n) => Sent(l, s, n)'
      /\ \A t, l, s, last, done : Sending(t, l, s, last, done) => Sending(t, l, s, last, done)'
      /\ \A l, s : Carried(l, s) => Carried(l, s)'
  BY <1>1, StaysSent
<1>3. Left => Left'
  BY <1>1, LeftStays
<1>4. /\ Quiet => Quiet'
      /\ Handled => Handled'
      /\ Muted => Muted'
  BY <1>1 DEF Quiet, Handled, Muted, At
<1>5. ASSUME Open
      PROVE  Open'
  <2>1. CASE Preflight
    BY <1>1, <1>2, <1>4, <1>5, <2>1 DEF Open, Preflight, Clean, Noted, At
  <2>2. CASE Foreign
    BY <1>1, <1>2, <1>4, <1>5, <2>2 DEF Open, Foreign, Noted, At
  <2>3. CASE Declared
    BY <1>1, <1>2, <1>4, <1>5, <2>3 DEF Open, Declared, Clean, Noted, At
  <2>4. CASE Running
    BY <1>1, <1>2, <1>4, <1>5, <2>4 DEF Open, Running, Clean, Untouched, Reading, At
  <2>5. CASE Answering
    <3>1. PICK s : s = Status(cause)
      OBVIOUS
    <3>2. Sending("writer", "App", s, "last_app", "returning")'
      BY <1>2, <2>5, <3>1 DEF Answering
    <3> QED BY <1>1, <1>4, <1>5, <2>5, <3>1, <3>2 DEF Open, Answering, Noted, Reading, At
  <2>6. CASE Rejecting
    BY <1>1, <1>2, <1>4, <1>5, <2>6 DEF Open, Rejecting, Noted, At
  <2>7. CASE Told
    BY <1>1, <1>2, <1>4, <1>5, <2>7 DEF Open, Told, Noted, At
  <2> QED BY <1>5, <2>1, <2>2, <2>3, <2>4, <2>5, <2>6, <2>7 DEF Open
<1>6. ASSUME Erring
      PROVE  Erring'
  <2>1. PICK s : s = Status(cause)
    OBVIOUS
  <2>2. Sending("writer", "ServerError", s, "last_error", "over")'
    BY <1>2, <1>6, <2>1 DEF Erring
  <2>3. s = Status(cause)' /\ Offered' /\ \E c \in Codes \union {413} : FailedRecord(c)'
    BY <1>1, <1>6, <2>1 DEF Erring, Offered, FailedRecord
  <2> QED BY <1>1, <1>6, <2>2, <2>3 DEF Erring, At
<1>7. /\ Entering => Entering'
      /\ Returned => Returned'
      /\ Raised => Raised'
      /\ Failed => Failed'
  BY <1>1, <1>3, <1>4 DEF Entering, Returned, Raised, Failed, Clean, Untouched, FailedRecord, At
<1>8. ASSUME Ended
      PROVE  Ended'
  <2>1. CASE EndsWell
    BY <1>1, <1>3, <1>4, <1>8, <2>1 DEF Ended, EndsWell
  <2>2. CASE EndsFailed
    <3>1. PICK s : s = Status(cause)
      OBVIOUS
    <3>2. (\E n \in 0 .. 2 : Sent("ServerError", s, n)) => \E n \in 0 .. 2 : Sent("ServerError", s, n)'
      BY <1>2
    <3>3. s = Status(cause)' /\ Offered' /\ \E c \in Codes \union {413} : FailedRecord(c)'
      BY <1>1, <2>2, <3>1 DEF EndsFailed, Offered, FailedRecord
    <3> QED BY <1>1, <1>3, <1>8, <2>2, <3>1, <3>2, <3>3 DEF Ended, EndsFailed, At
  <2> QED BY <1>8, <2>1, <2>2 DEF Ended
<1>9. Moment'
  BY <1>1, <1>5, <1>6, <1>7, <1>8 DEF Moment
<1> QED BY <1>1, <1>9 DEF EdgeTypeOK, Counting

LEMMA WriteStep ==
  ASSUME EdgeInv, NEW t \in Tasks, Write(t)
  PROVE  Moment' /\ EdgeTypeOK' /\ Counting'
<1>1. /\ \/ Open /\ records = <<>>
         \/ Erring
      /\ UNCHANGED <<req, frames, got, gone, rs, phase, cause, seen, records, reports>>
      /\ EdgeTypeOK /\ Counting /\ At(t, "drain") /\ DOMAIN task' = Tasks
      /\ \A u \in Tasks \ {t} : task'[u] = task[u]
  <2>1. To(t, task[t].next)
    BY DEF Write
  <2>2. DOMAIN task' = Tasks /\ \A u \in Tasks \ {t} : task'[u] = task[u]
    BY <2>1 DEF EdgeInv, EdgeTypeOK, To
  <2> QED
    BY <2>2 DEF EdgeInv, Moment, Write, Open, Returned, Raised, Failed, Ended, Entering, EndsWell,
        EndsFailed, Left, At, Tasks
<1>2. \A l, s, last, done : /\ Sending(t, l, s, last, done) /\ last # "drain" /\ done # "drain"
                            => Sending(t, l, s, last, done)'
  BY <1>1, WritesOn
<1>3. Quiet' = Quiet /\ Handled' = Handled
  BY <1>1 DEF Quiet, Handled
<1>4. CASE Open /\ records = <<>>
  <2>1. Open'
    <3>1. CASE Preflight
      <4>1. t = "writer"
        BY <1>1, <3>1 DEF Preflight, At, Tasks
      <4> QED BY <1>1, <1>2, <1>3, <1>4, <3>1, <4>1 DEF Open, Preflight, Clean, Noted, At, Tasks
    <3>2. CASE Foreign
      <4>1. t = "writer"
        BY <1>1, <3>2 DEF Foreign, At, Tasks
      <4> QED BY <1>1, <1>2, <1>3, <1>4, <3>2, <4>1 DEF Open, Foreign, Noted, At, Tasks
    <3>3. CASE Declared
      <4>1. t = "reader"
        BY <1>1, <3>3 DEF Declared, At, Tasks
      <4> QED BY <1>1, <1>2, <1>3, <1>4, <3>3, <4>1 DEF Open, Declared, Clean, Noted, At, Tasks
    <3>4. ~Running /\ ~Told
      BY <1>1 DEF Running, Told, Muted, Reading, At, Tasks
    <3>5. CASE Answering
      <4>1. t = "writer"
        BY <1>1, <3>5 DEF Answering, Reading, At, Tasks
      <4>2. PICK s : s = Status(cause)
        OBVIOUS
      <4>3. Sending("writer", "App", s, "last_app", "returning")'
        BY <1>2, <3>5, <4>1, <4>2 DEF Answering
      <4> QED BY <1>1, <1>3, <1>4, <3>5, <4>1, <4>2, <4>3 DEF Open, Answering, Noted, Reading, At, Tasks
    <3>6. CASE Rejecting
      <4>1. t = "reader"
        BY <1>1, <3>6 DEF Rejecting, Muted, At, Tasks
      <4>2. Muted'
        BY <1>1, <1>3, <3>6, <4>1 DEF Rejecting, Muted, At, Tasks
      <4> QED BY <1>1, <1>2, <1>4, <3>6, <4>1, <4>2 DEF Open, Rejecting, Noted, At, Tasks
    <3> QED BY <1>4, <3>1, <3>2, <3>3, <3>4, <3>5, <3>6 DEF Open
  <2> QED BY <1>1, <1>4, <2>1 DEF Moment, EdgeTypeOK, Counting
<1>5. CASE Erring
  <2>1. t = "writer"
    BY <1>1, <1>5 DEF Erring, At, Tasks
  <2>2. PICK s : s = Status(cause)
    OBVIOUS
  <2>3. Sending("writer", "ServerError", s, "last_error", "over")'
    BY <1>2, <1>5, <2>1, <2>2 DEF Erring
  <2>4. Erring'
    BY <1>1, <1>5, <2>1, <2>2, <2>3 DEF Erring, Offered, FailedRecord, At, Tasks
  <2> QED BY <1>1, <2>4 DEF Moment, EdgeTypeOK, Counting
<1> QED BY <1>1, <1>4, <1>5

-----------------------------------------------------------------------------
(* The invariant, and what follows from it.                                *)

LEMMA EdgeInvInit == Init => EdgeInv
<1> SUFFICES ASSUME Init
             PROVE  EdgeInv
  OBVIOUS
<1>1. EdgeTypeOK
  <2>1. frames \in Seq(Nat)
    BY BodiesAssumption DEF Init
  <2>2. rs \in [received : Nat, rejected : BOOLEAN, rejection_sent : BOOLEAN,
                response_started : BOOLEAN, enforcement_stopped : BOOLEAN]
    BY DEF Init
  <2>3. seen \in [code : {0, 413} \union Codes, started : BOOLEAN]
    BY DEF Init
  <2>4. DOMAIN task = Tasks /\ got \in Nat /\ gone \in BOOLEAN
    BY DEF Init, Tasks
  <2>5. req \in [body : Bodies, chunked : BOOLEAN, preflight : BOOLEAN, host : BOOLEAN,
                 streams : BOOLEAN, limit : Limits]
    BY DEF Init
  <2> QED BY <2>1, <2>2, <2>3, <2>4, <2>5 DEF EdgeTypeOK
<1>2. Counting
  <2>1. req.limit \in Nat
    BY <1>1, LimitsAssumption DEF EdgeTypeOK
  <2>2. got = 0 /\ rs.received = 0 /\ ~rs.rejected /\ ~rs.enforcement_stopped
    BY DEF Init
  <2> QED BY <2>1, <2>2 DEF Counting
<1>3. Entering /\ records = <<>>
  BY DEF Init, Entering, Clean, Untouched, Quiet, At
<1> QED BY <1>1, <1>2, <1>3 DEF EdgeInv, Moment

LEMMA EdgeInvStep == EdgeInv /\ [Next]_vars => EdgeInv'
<1> SUFFICES ASSUME EdgeInv, [Next]_vars
             PROVE  Moment' /\ EdgeTypeOK' /\ Counting'
  BY DEF EdgeInv
<1>1. CASE HangUp
  BY <1>1, StaysInv DEF HangUp
<1>2. CASE UNCHANGED vars
  BY <1>2, StaysInv DEF vars, EdgeInv, EdgeTypeOK
<1>3. CASE \E t \in DOMAIN task : Write(t)
  BY <1>3, WriteStep DEF EdgeInv, EdgeTypeOK
<1> QED BY <1>1, <1>2, <1>3, EnterStep, ReceiveStep, RejectBodyStep, RejectedStep, FinishStep, OverStep,
         EndpointStep, LastBodyStep, ReturnStep, LogRecordStep, GenericHandlerStep DEF Next

LEMMA EdgeInvAlways == Spec => []EdgeInv
BY EdgeInvInit, EdgeInvStep, PTL DEF Spec

\* Whatever the moment, what stands on the wire is one response of one layer.
LEMMA OneResponse ==
  ASSUME EdgeInv
  PROVE  \E l, s, n : n \in 0 .. 2 /\ Sent(l, s, n)
<1>1. ASSUME NEW t, NEW l, NEW s, NEW last, NEW done, Sending(t, l, s, last, done)
      PROVE  \E n \in 0 .. 2 : Sent(l, s, n)
  BY <1>1 DEF Sending
<1>2. Untouched => Sent("App", 200, 0)
  BY DEF Untouched, Sent
<1>3. ASSUME Left
      PROVE  \E l, s, n : n \in 0 .. 2 /\ Sent(l, s, n)
  BY <1>2, <1>3 DEF Left, Carried
<1>4. ASSUME Open
      PROVE  \E l, s, n : n \in 0 .. 2 /\ Sent(l, s, n)
  BY <1>1, <1>2, <1>4 DEF Open, Preflight, Foreign, Declared, Running, Answering, Rejecting, Told
<1> QED BY <1>1, <1>2, <1>3, <1>4 DEF EdgeInv, Moment, Entering, Returned, Raised, Failed, Erring, Ended,
         EndsWell, EndsFailed

\* However the tasks of an application interleave with a slow connection, the
\* connection carries one response of one layer (body_size_limit_middleware.py's
\* guarded send, RequestLogMiddleware and the ServerError layer around it).
THEOREM OneAnswerHolds == Spec => []OneAnswer
<1>1. ASSUME EdgeInv
      PROVE  OneAnswer
  <2>1. PICK l, s, n : n \in 0 .. 2 /\ Sent(l, s, n)
    BY <1>1, OneResponse
  <2>2. \/ wire = <<>>
        \/ wire = <<Start(l, s)>>
        \/ wire = <<Start(l, s), Stop(l)>>
    BY <2>1 DEF Sent
  <2>3. /\ Start(l, s).kind = "start" /\ Stop(l).kind = "last"
        /\ Start(l, s).from = l /\ Stop(l).from = l
    BY Messages
  <2>4. Starts \subseteq {1}
    BY <2>2, <2>3 DEF Starts
  <2>5. Cardinality(Starts) <= 1
    <3>1. IsFiniteSet({1}) /\ Cardinality({1}) = 1
      BY FS_Singleton
    <3>2. Cardinality(Starts) \in Nat /\ Cardinality(Starts) <= Cardinality({1})
      BY <2>4, <3>1, FS_Subset, FS_CardinalityType
    <3> QED BY <3>1, <3>2
  <2>6. \A i \in DOMAIN wire : /\ wire[i].from = wire[1].from
                               /\ (wire[i].kind = "start") <=> i = 1
                               /\ wire[i].kind = "last" => i = Len(wire)
    <3>1. ASSUME NEW a, NEW b, wire = <<a, b>>
          PROVE  DOMAIN wire = {1, 2} /\ Len(wire) = 2 /\ wire[1] = a /\ wire[2] = b
      BY <3>1
    <3>2. ASSUME NEW a, wire = <<a>>
          PROVE  DOMAIN wire = {1} /\ Len(wire) = 1 /\ wire[1] = a
      BY <3>2
    <3>3. wire = <<>> => DOMAIN wire = {}
      OBVIOUS
    <3> QED BY <2>2, <2>3, <3>1, <3>2, <3>3
  <2> QED BY <2>5, <2>6 DEF OneAnswer
<1> QED BY <1>1, EdgeInvAlways, PTL

\* The application is given more than the limit only after its response has
\* begun, and a request that is refused is told so in full, by a 413 with the
\* request id and the CORS headers that stands in the request log.
THEOREM OverLimitHolds == Spec => []OverLimitIsRefused
<1>1. ASSUME EdgeInv
      PROVE  OverLimitIsRefused
  <2>1. got > req.limit /\ req.limit > 0 => rs.response_started /\ ~rs.rejected
    <3>1. got \in Nat /\ req.limit \in Nat /\ rs.received \in Nat
      BY <1>1, LimitsAssumption DEF EdgeInv, EdgeTypeOK
    <3> QED BY <1>1, <3>1 DEF EdgeInv, Counting
  <2>2. ASSUME phase = "end", Refused, ~gone, req.streams => rs.rejection_sent
        PROVE  /\ Complete /\ wire[1].status = 413
               /\ {"CorrelationId", "CORS"} \subseteq wire[1].in
               /\ records = <<[failed |-> FALSE, status |-> 413]>>
    <3>1. EndsWell \/ EndsFailed
      BY <1>1, <2>2 DEF EdgeInv, Moment, Entering, Open, Returned, Raised, Failed, Erring, Ended
    <3>2. ASSUME NEW l, NEW s \in Codes, NEW n \in 0 .. 2, Sent(l, s, n), ~rs.rejected
          PROVE  FALSE
      <4>1. Start(l, s).status = s /\ Stop(l).kind = "last" /\ Start(l, s).kind = "start"
        BY Messages
      <4>2. \A i \in Starts : wire[i].status = s
        BY <3>2, <4>1 DEF Sent, Starts
      <4>3. s # 413
        BY DEF Codes
      <4> QED BY <2>2, <3>2, <4>2, <4>3 DEF Refused
    <3>3. Left /\ (rs.rejected \/ rs.rejection_sent)
      <4>1. ASSUME Left, ~rs.rejected, ~rs.rejection_sent
            PROVE  FALSE
        <5>1. Sent("App", 200, 0) \/ \E l, s, n : s \in Codes /\ n \in 0 .. 2 /\ Sent(l, s, n)
          BY <4>1 DEF Left, Carried, Untouched, Sent
        <5>2. 200 \in Codes /\ 0 \in 0 .. 2
          BY DEF Codes
        <5> QED BY <3>2, <4>1, <5>1, <5>2
      <4>2. ASSUME ~rs.rejected, \E n \in 0 .. 2 : Sent("ServerError", Status(cause), n)
            PROVE  FALSE
        <5>1. PICK s \in Codes : s = Status(cause)
          BY StatusCodes
        <5> QED BY <3>2, <4>2, <5>1
      <4> QED BY <3>1, <4>1, <4>2 DEF EndsWell, EndsFailed
    <3>4. Carried("BodySize", 413) /\ rs.rejection_sent /\ Sent("BodySize", 413, 2)
      BY <2>2, <3>3 DEF Left
    <3>5. wire = <<Start("BodySize", 413), Stop("BodySize")>>
      BY <2>2, <3>4 DEF Sent
    <3>6. records = <<[failed |-> FALSE, status |-> 413]>>
      BY <3>1, <3>4 DEF EndsWell, EndsFailed, Carried, Noted
    <3>7. /\ Stop("BodySize").kind = "last" /\ Start("BodySize", 413).status = 413
          /\ {"CorrelationId", "CORS"} \subseteq Start("BodySize", 413).in
      BY Messages, Layers
    <3> QED BY <3>5, <3>6, <3>7 DEF Complete, Last
  <2> QED BY <2>1, <2>2 DEF OverLimitIsRefused
<1> QED BY <1>1, EdgeInvAlways, PTL

\* Every failure is offered to the notifier once, with the status of its
\* answer, and stands in the request log; only a complete 413 swallows one.
THEOREM FailuresAreReportedHolds == Spec => []FailuresAreReported
<1>1. ASSUME EdgeInv
      PROVE  FailuresAreReported
  <2> SUFFICES ASSUME phase = "end"
               PROVE  LET silent == \/ cause \notin Curated \union Unhandled
                                    \/ cause \in Unhandled /\ rs.rejection_sent IN
                      /\ silent <=> reports = <<>>
                      /\ Len(reports) <= 1
                      /\ ~silent => /\ Head(reports).cause = cause
                                    /\ Head(reports).logged <=> cause \in Unhandled \/ Status(cause) >= 500
                      /\ Len(records) = 1
                      /\ Head(records).failed <=> cause \in Unhandled /\ ~rs.rejection_sent
                      /\ wire # <<>> /\ ~Head(records).failed => Head(records).status = wire[1].status
    BY DEF FailuresAreReported
  <2> DEFINE silent == \/ cause \notin Curated \union Unhandled
                       \/ cause \in Unhandled /\ rs.rejection_sent
  <2>1. EndsWell \/ EndsFailed
    BY <1>1 DEF EdgeInv, Moment, Entering, Open, Returned, Raised, Failed, Erring, Ended
  <2>2. /\ Curated \intersect Answered = {} /\ Curated \intersect Unhandled = {}
        /\ Answered \intersect Unhandled = {} /\ None \notin Curated \union Unhandled
    BY NoneAssumption DEF Curated, Answered, Unhandled
  <2>3. ASSUME NEW x, NEW y, NEW z, reports = <<[cause |-> x, status |-> y, logged |-> z]>>
        PROVE  reports # <<>> /\ Len(reports) = 1 /\ Head(reports).cause = x /\ Head(reports).logged = z
    BY <2>3
  <2>4. ASSUME NEW x, NEW y, records = <<[failed |-> x, status |-> y]>>
        PROVE  Len(records) = 1 /\ Head(records).failed = x /\ Head(records).status = y
    BY <2>4
  <2>5. CASE EndsWell
    <3>1. Len(records) = 1 /\ Head(records).failed = FALSE /\ Head(records).status = seen.code
      BY <2>4, <2>5 DEF EndsWell
    <3>2. wire # <<>> => seen.code = wire[1].status
      <4>1. PICK l, s : Carried(l, s) \/ Untouched
        BY <2>5 DEF EndsWell, Left
      <4>2. Start(l, s).status = s
        BY Messages
      <4> QED BY <4>1, <4>2 DEF Carried, Noted, Sent, Untouched
    <3>3. CASE Quiet
      BY <2>2, <3>1, <3>2, <3>3 DEF Quiet
    <3>4. CASE Handled /\ cause \notin Curated
      BY <2>2, <3>1, <3>2, <3>4 DEF Handled
    <3>5. CASE Handled /\ cause \in Curated
      <4>1. /\ Len(reports) = 1 /\ reports # <<>> /\ Head(reports).cause = cause
            /\ Head(reports).logged <=> Status(cause) >= 500
        <5> DEFINE logged == Status(cause) >= 500
        <5>1. reports = <<[cause |-> cause, status |-> Status(cause), logged |-> logged]>>
          BY <3>5 DEF Handled
        <5>2. Head(reports).logged = logged /\ Len(reports) = 1 /\ reports # <<>> /\ Head(reports).cause = cause
          <6> HIDE DEF logged
          <6> QED BY <2>3, <5>1
        <5> QED BY <5>2
      <4> QED BY <2>2, <3>1, <3>2, <3>5, <4>1
    <3>6. CASE cause \in Unhandled /\ reports = <<>> /\ rs.rejection_sent
      BY <2>2, <3>1, <3>2, <3>6
    <3> QED BY <2>5, <3>3, <3>4, <3>5, <3>6 DEF EndsWell
  <2>6. CASE EndsFailed
    <3>1. /\ Len(reports) = 1 /\ reports # <<>> /\ Head(reports).cause = cause /\ Head(reports).logged = TRUE
      BY <2>3, <2>6 DEF EndsFailed, Offered
    <3>2. Len(records) = 1 /\ Head(records).failed = TRUE
      BY <2>4, <2>6 DEF EndsFailed, FailedRecord
    <3> QED BY <2>2, <2>6, <3>1, <3>2 DEF EndsFailed
  <2> QED BY <2>1, <2>5, <2>6
<1> QED BY <1>1, EdgeInvAlways, PTL
=============================================================================
