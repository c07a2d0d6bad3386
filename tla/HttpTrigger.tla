----------------------------- MODULE HttpTrigger -----------------------------
(***************************************************************************)
(* The two http doors of the system: the http trigger                      *)
(* (pkg/httptrigger), which asks the controller in its own process (the    *)
(* call client) or over http (the rpc client), and the controller's own    *)
(* InvokeHandler. Both run on fasthttp, which reuses the context of a      *)
(* connection for its next request while an asynchronous invocation of the *)
(* earlier one may still run.                                              *)
(*                                                                         *)
(* A payload is the request it belongs to; what Controller.Do makes of it  *)
(* is module Invocation's subject and here one of its outcomes.            *)
(***************************************************************************)
EXTENDS Naturals, FiniteSets

CONSTANTS
    Doors,          \* connections to the trigger
    Conns,          \* connections to the controller
    MaxIssued       \* bound on requests

ASSUME TriggerAssumption == MaxIssued \in Nat /\ 0 \notin Doors     \* 0 is no connection

VARIABLES
    client,     \* "call" or "rpc", by deployment
    doors,      \* the context of every connection to the trigger
    conns,      \* the context of every connection to the controller
    events,     \* goroutines of asynchronous invocations
    ran,        \* what Do was asked to run, and its outcome
    issued      \* requests so far

triggerVars == <<client, doors, conns, events, ran, issued>>

Lost == 0                   \* an empty body
NoOne == 0
NoAnswer == [status |-> 0, header |-> "", kind |-> "", body |-> Lost, stream |-> Lost]
Closed == [at |-> "idle", id |-> 0, stream |-> FALSE, toBody |-> FALSE, conn |-> NoOne, answer |-> NoAnswer]
IdleConn == [at |-> "idle", id |-> 0, kind |-> "", body |-> Lost, toBody |-> FALSE, door |-> NoOne,
             answer |-> NoAnswer]

TriggerInit ==
    /\ client \in {"call", "rpc"}
    /\ doors = [d \in Doors |-> Closed]
    /\ conns = [k \in Conns |-> IdleConn]
    /\ events = {} /\ ran = {} /\ issued = 0

Issue == issued < MaxIssued /\ issued' = issued + 1

-----------------------------------------------------------------------------
(* Controller.Do *)

\* How Do ends: refused or failed with a status, or 200 with the function's result, which
\* is text, json, or an answer that declares a status of its own. A function error is an
\* outcome with status 200.
Outcomes ==
    [status : {404, 500}, error : {""}, kind : {"text"}]
      \cup [status : {200}, error : {"", "Handled"}, kind : {"text", "json", "teapot", "base64"}]
      \cup [status : {200}, error : {"Unhandled"}, kind : {"json"}]

\* buildTotallyToBody and build: the header names the error, unless all goes to the body or
\* the body is streamed.
Respond(o, id, stream, toBody) ==
    [status |-> o.status,
     header |-> IF stream \/ toBody THEN "" ELSE o.error,
     kind |-> IF toBody /\ o.status = 200 THEN "json" ELSE o.kind,
     body |-> IF stream THEN Lost ELSE id,
     stream |-> IF stream /\ o.status = 200 THEN id ELSE Lost]

Ran(id, body, o, stream) == [id |-> id, body |-> body, status |-> o.status, error |-> o.error, stream |-> stream]

-----------------------------------------------------------------------------
(* The controller's InvokeHandler *)

\* Mutant: the goroutine reads the body from the context of the connection.
EventBodyShared(e) == conns[e.conn].body

\* generateInvokeRequest reads the whole body of an event before the handler returns.
EventBody(e) == e.body

\* A function name that is no brn needs a Qualifier. The handler sets 400 and returns the
\* error as well, which the router turns into a 500.
InvokeHandler(k, id, kind, body, toBody, door, qualified) ==
    LET c == [at |-> "do", id |-> id, kind |-> kind, body |-> body, toBody |-> toBody, door |-> door,
              answer |-> NoAnswer]
        says(status) == [c EXCEPT !.at = "answered", !.answer.status = status]
        event == qualified /\ kind = "event"
    IN /\ conns[k].at = "idle"
       /\ conns' = [conns EXCEPT ![k] =
            IF ~qualified THEN says(500) ELSE IF event THEN says(201) ELSE c]
       /\ events' = IF event THEN events \cup {[id |-> id, body |-> body, conn |-> k]} ELSE events

Ask(k, kind, toBody, qualified) ==
    /\ Issue
    /\ InvokeHandler(k, issued + 1, kind, issued + 1, toBody, NoOne, qualified)
    /\ UNCHANGED <<client, doors, ran>>

\* Do and makeHTTPResponse.
InvokeDo(k, o) ==
    LET c == conns[k]
        stream == c.kind = "stream"
    IN /\ c.at = "do"
       /\ ran' = ran \cup {Ran(c.id, c.body, o, stream)}
       /\ conns' = [conns EXCEPT ![k].at = "answered", ![k].answer = Respond(o, c.id, stream, c.toBody)]
       /\ UNCHANGED <<client, doors, events, issued>>

\* The goroutine of an event; nobody waits for its outcome.
EventDo(e, o) ==
    /\ ran' = ran \cup {Ran(e.id, EventBody(e), o, FALSE)}
    /\ events' = events \ {e}
    /\ UNCHANGED <<client, doors, conns, issued>>

\* The caller has read the answer; the context waits for the next request.
Taken(k) ==
    /\ conns[k].at = "answered" /\ conns[k].door = NoOne
    /\ conns' = [conns EXCEPT ![k].at = "idle"]
    /\ UNCHANGED <<client, doors, events, ran, issued>>

-----------------------------------------------------------------------------
(* The trigger *)

\* ProxyHandler and buildRequest. The body of a stream is written to a buffer that the
\* reader of the pair never reads; otherwise it goes along in a ProxyRequest.
ProxyHandler(d, stream, toBody) ==
    /\ doors[d].at = "idle" /\ Issue
    /\ doors' = [doors EXCEPT ![d] = [Closed EXCEPT !.at = "invoke", !.id = issued + 1,
                                                    !.stream = stream, !.toBody = toBody]]
    /\ UNCHANGED <<client, conns, events, ran>>

requestBody(door) == IF door.stream THEN Lost ELSE door.id

\* ControllerCallClient.Invoke leaves LogToBody out of the context it makes.
CallInvoke(d, o) ==
    LET door == doors[d]
    IN /\ client = "call" /\ door.at = "invoke"
       /\ ran' = ran \cup {Ran(door.id, requestBody(door), o, door.stream)}
       /\ doors' = [doors EXCEPT ![d].at = "made", ![d].answer = Respond(o, door.id, door.stream, FALSE)]
       /\ UNCHANGED <<client, conns, events, issued>>

\* ControllerClient.Invoke sends no invoke type, so a stream is a common invocation there.
RpcInvoke(d, k) ==
    LET door == doors[d]
    IN /\ client = "rpc" /\ door.at = "invoke"
       /\ doors' = [doors EXCEPT ![d].at = "rpc", ![d].conn = k]
       /\ InvokeHandler(k, door.id, "common", requestBody(door), door.toBody, d, TRUE)
       /\ UNCHANGED <<client, ran, issued>>

\* FastClient.Do takes any status outside 200..206 for an error, which becomes a 502.
TriggerReturns(d) ==
    LET k == doors[d].conn
        answer == conns[k].answer
        failed == answer.status \notin 200..206
    IN /\ doors[d].at = "rpc" /\ conns[k].at = "answered" /\ conns[k].door = d
       /\ doors' = [doors EXCEPT ![d].at = IF failed THEN "answered" ELSE "made",
                                 ![d].answer = IF failed THEN [NoAnswer EXCEPT !.status = 502] ELSE answer]
       /\ conns' = [conns EXCEPT ![k].at = "idle", ![k].door = NoOne]
       /\ UNCHANGED <<client, events, ran, issued>>

\* The connection breaks; the controller goes on with the request it has.
RpcBreaks(d) ==
    /\ doors[d].at = "rpc" /\ conns[doors[d].conn].door = d
    /\ doors' = [doors EXCEPT ![d].at = "answered", ![d].answer = [NoAnswer EXCEPT !.status = 502]]
    /\ conns' = [conns EXCEPT ![doors[d].conn].door = NoOne]
    /\ UNCHANGED <<client, events, ran, issued>>

\* The response is never released, so it is still the answer when makeResponse reads it.
Response(d) == doors[d].answer

\* A 5xx of the controller is an error, which RequestController reports as 502; an
\* unhandled function error is a 500 if its message can be decoded (that of a stream is
\* empty); a result that declares its status is given that.
makeResponse(resp, stream) ==
    CASE resp.status > 499 -> [status |-> 502, body |-> Lost]
      [] resp.status \notin {200} \cup 500..599 -> [status |-> resp.status, body |-> resp.body]
      [] resp.status = 200 /\ resp.header = "Unhandled" ->
           IF resp.body # Lost THEN [status |-> 500, body |-> resp.body] ELSE [status |-> 502, body |-> Lost]
      [] resp.status = 200 /\ resp.header # "Unhandled" ->
           [status |-> IF ~stream /\ resp.kind = "teapot" THEN 418 ELSE 200, body |-> resp.body]

\* base64.Decode writes to a slice of length 0.
DecodePanics(d) ==
    LET resp == Response(d)
    IN  ~doors[d].stream /\ resp.status = 200 /\ resp.header # "Unhandled" /\ resp.kind = "base64"

\* RequestController: a stream mode answer is the body stream, whatever makeResponse says.
RequestController(d) ==
    LET m == makeResponse(Response(d), doors[d].stream)
        body == IF doors[d].stream THEN Response(d).stream ELSE m.body
    IN /\ doors[d].at = "made" /\ ~DecodePanics(d)
       /\ doors' = [doors EXCEPT ![d].at = "answered",
                                 ![d].answer = [NoAnswer EXCEPT !.status = m.status, !.body = body]]
       /\ UNCHANGED <<client, conns, events, ran, issued>>

\* The process of the trigger ends; with the call client it is the controller's too.
Panic(d) ==
    /\ doors[d].at = "made" /\ DecodePanics(d)
    /\ doors' = [e \in Doors |-> [doors[e] EXCEPT !.at = "dead"]]
    /\ IF client = "call"
       THEN conns' = [k \in Conns |-> [conns[k] EXCEPT !.at = "dead"]] /\ events' = {}
       ELSE conns' = [k \in Conns |-> [conns[k] EXCEPT !.door = NoOne]] /\ UNCHANGED events
    /\ UNCHANGED <<client, ran, issued>>

Read(d) ==
    /\ doors[d].at = "answered"
    /\ doors' = [doors EXCEPT ![d] = Closed]
    /\ UNCHANGED <<client, conns, events, ran, issued>>

TriggerNext ==
    \/ \E k \in Conns, kind \in {"common", "event", "stream"}, toBody \in BOOLEAN, q \in BOOLEAN :
         Ask(k, kind, toBody, q)
    \/ \E k \in Conns, o \in Outcomes : InvokeDo(k, o)
    \/ \E k \in Conns : Taken(k)
    \/ \E e \in events, o \in Outcomes : EventDo(e, o)
    \/ \E d \in Doors, stream \in BOOLEAN, toBody \in BOOLEAN : ProxyHandler(d, stream, toBody)
    \/ \E d \in Doors, o \in Outcomes : CallInvoke(d, o)
    \/ \E d \in Doors, k \in Conns : RpcInvoke(d, k)
    \/ \E d \in Doors : TriggerReturns(d) \/ RpcBreaks(d) \/ RequestController(d) \/ Panic(d) \/ Read(d)

-----------------------------------------------------------------------------
(* Properties *)

\* A function is never run with the body of another request, whatever the connection it
\* came by has read since. (The body of a request that streams through the trigger is lost.)
OwnBody == \A r \in ran : r.body \in {r.id, Lost}

\* A 200 of either door follows a run for that request, and its body is what that run made,
\* although the contexts and the connections are shared. (The trigger's rpc client has no
\* body stream to hand on.)
OwnAnswer ==
    /\ \A d \in Doors : doors[d].at = "answered" /\ doors[d].answer.status = 200 =>
         /\ \E r \in ran : r.id = doors[d].id
         /\ doors[d].answer.body = doors[d].id \/ doors[d].stream
    /\ \A k \in Conns : conns[k].at = "answered" /\ conns[k].answer.status = 200 =>
         /\ \E r \in ran : r.id = conns[k].id
         /\ conns[k].id \in {conns[k].answer.body, conns[k].answer.stream}

\* The trigger answers below 300 only when the run did not fail: an error of the controller
\* or an unhandled error of the function reaches the caller as one. (In stream mode, and
\* when the caller wants all in the body over rpc, the error is not in the header.)
FailureShown ==
    \A d \in Doors :
      doors[d].at = "answered" /\ doors[d].answer.status < 300 /\ ~doors[d].stream
        /\ ~(doors[d].toBody /\ client = "rpc") =>
        \A r \in ran : r.id = doors[d].id => r.status = 200 /\ r.error # "Unhandled"

\* The doors keep requests apart and failures visible: bodies and answers are those of
\* the request although fasthttp reuses contexts, and an error is no success.
DoorsSound == OwnBody /\ OwnAnswer /\ FailureShown
=============================================================================
