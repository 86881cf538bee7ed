------------------------------ MODULE HttpEdge ------------------------------
(***************************************************************************)
(* One HTTP request on its way through the middleware stack of the server  *)
(* (_apps/server/bootstrap.py): the body-size limit, whose receive and     *)
(* send wrappers share a state, the request log, the exception handlers    *)
(* and the alerts they offer to the notifier.                              *)
(*                                                                         *)
(* An application is two tasks.  The reader calls receive, the writer      *)
(* sends the response; in an ordinary endpoint the writer begins when the  *)
(* reader has ended, in a streaming one they run side by side and the end  *)
(* of one cancels the other.  A call of send runs the wrappers at once and *)
(* then waits for the connection to drain before its message is written.   *)
(*                                                                         *)
(* Bytes are numbers; of a message the model keeps the layer that sent it, *)
(* its kind and its status, of a header that it was added.                 *)
(***************************************************************************)
EXTENDS Naturals, Sequences, FiniteSets, SequencesExt, Functions

CONSTANTS Bodies,   \* bodies of a request: sequences of frame sizes
          Limits,   \* settings.max_request_body_bytes
          None

ASSUME BodiesAssumption == Bodies \subseteq Seq(Nat)
ASSUME LimitsAssumption == Limits \subseteq Nat

VARIABLES req,      \* the request, its endpoint and the limit: fixed
          frames,   \* frames the application has not received yet
          got,      \* bytes delivered to the application
          gone,     \* the client has hung up
          rs,       \* _RejectionState
          task,     \* per task: where it is and the message it waits to write
          phase,    \* layer: of the call that is still open, or its end
          cause,    \* what the endpoint ended in
          wire,     \* messages written to the connection
          seen,     \* what the outer layers noted of the response so far
          records,  \* records of RequestLogMiddleware
          reports   \* exceptions logged and alerts offered

vars == <<req, frames, got, gone, rs, task, phase, cause, wire, seen, records, reports>>

-----------------------------------------------------------------------------
(* The stack, outermost first.  Starlette puts its own ServerError layer,  *)
(* which calls the handler of Exception, around all of it, and its         *)
(* Exception layer, which calls the other handlers, inside.                *)

\* mutant: the limit is registered last and becomes the outermost
StackLimitOutermost ==
    <<"ServerError", "BodySize", "CorrelationId", "RequestLog", "CORS", "TrustedHost", "App">>
Stack ==
    <<"ServerError", "CorrelationId", "RequestLog", "CORS", "BodySize", "TrustedHost", "App">>

Depth(layer) == CHOOSE i \in DOMAIN Stack : Stack[i] = layer
Above(layer) == {Stack[i] : i \in 1 .. Depth(layer) - 1}

\* What an endpoint ends in, the handler that answers it and its status.
Curated == {"curated_4xx", "curated_5xx"}
Answered == {"ok", "validation", "http", "bad_body"}
Unhandled == {"error", "provider", "client_disconnect"}
ASSUME NoneAssumption == None \notin Curated \union Answered \union Unhandled

Status(c) ==
    CASE c = "ok" -> 200 [] c = "validation" -> 422 [] c = "http" -> 404 [] c = "bad_body" -> 400
      [] c = "curated_4xx" -> 409 [] c = "curated_5xx" -> 503
      [] c = "provider" -> 429 [] OTHER -> 500

Start(layer, status) == [from |-> layer, kind |-> "start", status |-> status, in |-> Above(layer)]
Body(layer, last) == [from |-> layer, kind |-> IF last THEN "last" ELSE "more",
                      status |-> 0, in |-> Above(layer)]
Starts == {i \in DOMAIN wire : wire[i].kind = "start"}
Complete == wire # <<>> /\ Last(wire).kind = "last"

-----------------------------------------------------------------------------
(* Sending.                                                                *)

\* The wrappers a message passes on its way out: the log notes the status, the
\* ServerError layer that a response has started.
Note(m) ==
    IF m.kind # "start" THEN UNCHANGED seen
    ELSE seen' = [code |-> IF "RequestLog" \in m.in THEN m.status ELSE seen.code,
                  started |-> seen.started \/ "ServerError" \in m.in]

Wait(t, m, next) == task' = [task EXCEPT ![t] = [pc |-> "drain", msg |-> m, next |-> next]]
At(t, pc) == task[t].pc = pc
Both(r, w) == task' = [t \in DOMAIN task |-> [pc |-> IF t = "reader" THEN r ELSE w,
                                              msg |-> None, next |-> None]]
To(t, pc) == task' = [task EXCEPT ![t] = [pc |-> pc, msg |-> None, next |-> None]]

\* guarded_send: once a 413 is the response, nothing of the application's is.
\* mutant: the start of the application's response is not noted
GuardedSendUnnoted(t, m, next) ==
    IF rs.rejected THEN To(t, next) /\ UNCHANGED <<seen, rs>>
    ELSE Wait(t, m, next) /\ Note(m) /\ UNCHANGED rs
GuardedSend(t, m, next) ==
    IF rs.rejected THEN To(t, next) /\ UNCHANGED <<seen, rs>>
    ELSE /\ Wait(t, m, next) /\ Note(m)
         /\ rs' = [rs EXCEPT !.response_started = @ \/ m.kind = "start"]

Send(t, m, next) ==
    IF "BodySize" \in m.in /\ req.limit > 0 THEN GuardedSend(t, m, next)
    ELSE Wait(t, m, next) /\ Note(m) /\ UNCHANGED rs

\* The server writes the message when the connection has drained; to a client
\* that is gone it writes nothing.
Write(t) ==
    /\ At(t, "drain")
    /\ wire' = IF gone THEN wire ELSE Append(wire, task[t].msg)
    /\ To(t, task[t].next)
    /\ UNCHANGED <<req, frames, got, gone, rs, phase, cause, seen, records, reports>>

HangUp ==
    /\ ~gone /\ phase # "end" /\ gone' = TRUE
    /\ UNCHANGED <<req, frames, got, rs, task, phase, cause, wire, seen, records, reports>>

-----------------------------------------------------------------------------
(* The limit.                                                              *)

\* _declared_length is None for a chunked body, which has no such header.
DeclaredTooLong == /\ req.limit > 0 /\ ~req.chunked
                   /\ FoldFunction(+, 0, req.body) > req.limit

\* The call enters the stack: CORS answers a preflight, the limit refuses what
\* is declared too long, TrustedHost a foreign host, and the rest is called.
Enter ==
    /\ phase = "enter"
    /\ phase' = "open"
    /\ \/ req.preflight /\ Send("writer", Start("CORS", 200), "last_cors")
       \/ /\ ~req.preflight /\ DeclaredTooLong
          /\ Wait("reader", Start("BodySize", 413), "last_413") /\ Note(Start("BodySize", 413))
          /\ UNCHANGED rs
       \/ /\ ~req.preflight /\ ~DeclaredTooLong
          /\ IF req.host THEN Both("read", "begin") /\ UNCHANGED <<seen, rs>>
             ELSE Send("writer", Start("TrustedHost", 400), "last_host")
    /\ UNCHANGED <<req, frames, got, gone, cause, wire, records, reports>>

\* The server's own receive: the next frame, or the end of the connection when
\* the client is gone or was answered.
Frame(n) == /\ ~gone /\ ~Complete /\ frames # <<>> /\ n = Head(frames)
            /\ frames' = Tail(frames)
NoMore == gone \/ Complete
Deliver(n) ==
    /\ got' = got + n
    /\ To("reader", IF Tail(frames) = <<>> THEN "ended" ELSE "read")
    /\ UNCHANGED seen

\* counting_receive.
Reject(received) ==
    /\ rs' = [rs EXCEPT !.received = received, !.rejected = TRUE]
    /\ Wait("reader", Start("BodySize", 413), "last_413") /\ Note(Start("BodySize", 413))

Count(n) ==
    LET received == rs.received + n IN
    IF req.limit <= 0 \/ rs.enforcement_stopped THEN Deliver(n) /\ UNCHANGED rs
    ELSE IF received <= req.limit THEN Deliver(n) /\ rs' = [rs EXCEPT !.received = received]
    ELSE IF rs.response_started
         THEN Deliver(n) /\ rs' = [rs EXCEPT !.received = received, !.enforcement_stopped = TRUE]
    ELSE Reject(received) /\ UNCHANGED got
Receive ==
    /\ At("reader", "read")
    /\ \/ rs.rejected /\ To("reader", "cut_off") /\ UNCHANGED <<frames, got, rs, seen>>
       \/ ~rs.rejected /\ NoMore /\ To("reader", "cut_off") /\ UNCHANGED <<frames, got, rs, seen>>
       \/ ~rs.rejected /\ \E n \in {Head(frames)} : Frame(n) /\ Count(n)
    /\ UNCHANGED <<req, gone, phase, cause, wire, records, reports>>

\* _reject ends with the body of the 413.
RejectBody ==
    /\ At("reader", "last_413")
    /\ Wait("reader", Body("BodySize", TRUE), "told")
    /\ UNCHANGED <<req, frames, got, gone, rs, phase, cause, wire, seen, records, reports>>
Rejected ==
    /\ At("reader", "told")
    /\ rs' = [rs EXCEPT !.rejection_sent = TRUE]
    /\ IF At("writer", "idle") THEN phase' = "returned" /\ To("reader", "cut_off")
       ELSE To("reader", "cut_off") /\ UNCHANGED phase
    /\ UNCHANGED <<req, frames, got, gone, cause, wire, seen, records, reports>>

\* The answers of the other layers end with their body.
LastOf(t) == [last_cors |-> "CORS", last_host |-> "TrustedHost", last_error |-> "ServerError"][t]
Finish ==
    /\ task["writer"].pc \in {"last_cors", "last_host", "last_error"}
    /\ Send("writer", Body(LastOf(task["writer"].pc), TRUE), "over")
    /\ UNCHANGED <<req, frames, got, gone, phase, cause, wire, records, reports>>
Over ==
    /\ At("writer", "over")
    /\ phase' = IF phase = "open" THEN "returned" ELSE "end"
    /\ To("writer", "idle")
    /\ UNCHANGED <<req, frames, got, gone, rs, cause, wire, seen, records, reports>>

-----------------------------------------------------------------------------
(* The application and the handlers of the Exception layer.                *)

Offer(c, exception) == reports' = Append(reports, [cause |-> c, status |-> Status(c), logged |-> exception])

\* An endpoint ends: its answer, a handler's, or an exception nobody handles.
Handle(c) == IF c \in Curated THEN Offer(c, Status(c) >= 500) ELSE UNCHANGED reports

Respond(c) ==
    /\ Handle(c)
    /\ Send("writer", Start("App", Status(c)), "last_app")
    /\ UNCHANGED phase
\* The end of the writer cancels the reader, wherever it waits.
Raise == /\ phase' = "raised"
         /\ Both("idle", "idle")
         /\ UNCHANGED <<rs, seen, reports>>

\* An ordinary endpoint has its body, or was told that the client is gone: as
\* FastAPI parses the body that is a 400, and an exception where it reads itself.
Endpoint ==
    /\ ~req.streams /\ At("writer", "begin")
    /\ \E c \in Curated \union Answered \union Unhandled :
          /\ IF At("reader", "cut_off") THEN c \in {"bad_body", "client_disconnect"}
             ELSE At("reader", "ended") /\ c \notin {"bad_body", "client_disconnect"}
          /\ cause' = c
          /\ IF c \in Unhandled THEN Raise ELSE Respond(c)
    /\ UNCHANGED <<req, frames, got, gone, wire, records>>

\* A streaming endpoint answers when it likes, or fails before it has.
Stream ==
    /\ req.streams /\ At("writer", "begin")
    /\ \E c \in {"ok", "curated_4xx", "curated_5xx", "error"} :
          cause' = c /\ IF c \in Unhandled THEN Raise ELSE Respond(c)
    /\ UNCHANGED <<req, frames, got, gone, wire, records>>

\* Its body may fail halfway: a handled exception becomes a RuntimeError then.
LastBody ==
    /\ At("writer", "last_app")
    /\ \/ Send("writer", Body("App", TRUE), "returning") /\ UNCHANGED <<phase, cause, reports>>
       \/ req.streams /\ cause = "ok" /\ cause' = "error" /\ Raise
    /\ UNCHANGED <<req, frames, got, gone, wire, records>>

\* The application returns: the writer is through, or the reader of a stream
\* was told that the client is gone; the other task is cancelled.
Return ==
    /\ phase = "open"
    /\ \/ At("writer", "returning")
       \/ req.streams /\ At("reader", "cut_off") /\ ~At("writer", "idle")
    /\ phase' = "returned"
    /\ Both("idle", "idle")
    /\ UNCHANGED <<req, frames, got, gone, rs, cause, wire, seen, records, reports>>

-----------------------------------------------------------------------------
(* The way out.                                                            *)

\* The limit swallows an exception when its 413 is complete.
\* mutant: as soon as it has decided to reject
SwallowsEarly == rs.rejected
Swallows == rs.rejection_sent

\* RequestLogMiddleware writes one record, and a swallowed exception never
\* reaches it.
LogRecord ==
    /\ phase \in {"returned", "raised"}
    /\ LET failed == phase = "raised" /\ ~Swallows IN
       /\ phase' = IF failed THEN "failed" ELSE "end"
       /\ records' = Append(records,
            [failed |-> failed, status |-> IF failed /\ seen.code = 0 THEN 500 ELSE seen.code])
    /\ UNCHANGED <<req, frames, got, gone, rs, task, cause, wire, seen, reports>>

\* ServerErrorMiddleware calls generic_exception_handler and sends its answer
\* unless a response has started.
GenericHandler ==
    /\ phase = "failed"
    /\ Offer(cause, TRUE)
    /\ IF seen.started THEN phase' = "end" /\ UNCHANGED <<task, seen, rs>>
       ELSE /\ phase' = "erring"
            /\ Send("writer", Start("ServerError", Status(cause)), "last_error")
    /\ UNCHANGED <<req, frames, got, gone, cause, wire, records>>

-----------------------------------------------------------------------------
Init ==
    /\ req \in [body : Bodies, chunked : BOOLEAN, preflight : BOOLEAN, host : BOOLEAN,
                streams : BOOLEAN, limit : Limits]
    /\ frames = req.body /\ got = 0 /\ gone = FALSE
    /\ rs = [received |-> 0, rejected |-> FALSE, rejection_sent |-> FALSE,
             response_started |-> FALSE, enforcement_stopped |-> FALSE]
    /\ task = [t \in {"reader", "writer"} |-> [pc |-> "idle", msg |-> None, next |-> None]]
    /\ phase = "enter" /\ cause = None /\ wire = <<>>
    /\ seen = [code |-> 0, started |-> FALSE]
    /\ records = <<>> /\ reports = <<>>

Next == \/ Enter \/ Receive \/ RejectBody \/ Rejected \/ Finish \/ Over
        \/ Endpoint \/ Stream \/ LastBody \/ Return \/ LogRecord \/ GenericHandler
        \/ HangUp
        \/ \E t \in DOMAIN task : Write(t)
Spec == Init /\ [][Next]_vars

-----------------------------------------------------------------------------
(* Properties.                                                             *)

\* However reader and writer interleave with a connection that drains slowly,
\* the connection carries one response of one layer: it starts once, and what
\* follows belongs to it and ends with it.
OneAnswer ==
    /\ Cardinality(Starts) <= 1
    /\ \A i \in DOMAIN wire : /\ wire[i].from = wire[1].from
                              /\ (wire[i].kind = "start") <=> i = 1
                              /\ wire[i].kind = "last" => i = Len(wire)

\* "Byte counting ... caps the cumulative request bytes delivered to route
\* parsing": the application gets more than the limit only after its response
\* has begun.  A request that was refused is told so in full, by a 413 that
\* carries the request id and the CORS headers and stands in the request log,
\* unless the client hung up or a streaming endpoint ended under the rejection.
Refused == rs.rejected \/ \E i \in Starts : wire[i].status = 413
OverLimitIsRefused ==
    /\ got > req.limit /\ req.limit > 0 => rs.response_started /\ ~rs.rejected
    /\ phase = "end" /\ Refused /\ ~gone /\ (req.streams => rs.rejection_sent) =>
          /\ Complete /\ wire[1].status = 413
          /\ {"CorrelationId", "CORS"} \subseteq wire[1].in
          /\ records = <<[failed |-> FALSE, status |-> 413]>>

\* Every failure is offered to the notifier once, with the status of its
\* answer; one the client must not see in full is logged with its exception, and
\* an unhandled one stands in the request log as failed.  Only a complete 413 may
\* take the place of an exception, and what was refused raises no alert.
FailuresAreReported ==
    phase = "end" =>
        LET silent == \/ cause \notin Curated \union Unhandled
                      \/ cause \in Unhandled /\ rs.rejection_sent IN
        /\ silent <=> reports = <<>>
        /\ Len(reports) <= 1
        /\ ~silent => /\ Head(reports).cause = cause
                      /\ Head(reports).logged <=> cause \in Unhandled \/ Status(cause) >= 500
        /\ Len(records) = 1
        /\ Head(records).failed <=> cause \in Unhandled /\ ~rs.rejection_sent
        /\ wire # <<>> /\ ~Head(records).failed => Head(records).status = wire[1].status
=============================================================================
