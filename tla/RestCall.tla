------------------------------ MODULE RestCall ------------------------------
(***************************************************************************)
(* The calls of the controller to funclet: FuncletClient builds a request  *)
(* (rest/client.go, funclet/client) whose Do (rest/request.go) sends it    *)
(* and repeats it when the answer has a Retry-After. The other end is      *)
(* GenericServer; the connection may break while a request is in the       *)
(* server, and the client gives up after its clientTimeout.                *)
(***************************************************************************)
EXTENDS GenericServer

CONSTANTS
    Verbs,          \* GET of Info, List and NodeInfo; POST of WarmUp, CoolDown and Reborn
    MaxRetries      \* maxRetries of request, 10 in the code

ASSUME RestAssumption == MaxRetries \in Nat \ {0} /\ Verbs \subseteq {"GET", "POST"}

VARIABLE
    call            \* call[c]: a Request and the progress of its Do

restVars == <<serverVars, call>>

NoCall == [at |-> "idle", verb |-> "GET", timeout |-> 0, retries |-> 0, body |-> "start", sent |-> "start", result |-> "none"]

RestInit == ServerInit /\ call = [c \in Calls |-> NoCall]

\* FuncletClient's methods: verb, resource, marshalled body and the timeout parameter.
NewRequest(c, verb, t) ==
    /\ call[c].at = "idle"
    /\ call' = [call EXCEPT ![c] = [NoCall EXCEPT !.at = "send", !.verb = verb, !.timeout = t]]
    /\ UNCHANGED serverVars

Finish(c, result) == call' = [call EXCEPT ![c].at = "done", ![c].result = result]

\* client.Do sends the request. Sending uses the body up.
Send(c) ==
    /\ call[c].at = "send"
    /\ Accept(c, call[c].timeout)
    /\ call' = [call EXCEPT ![c].at = "answer", ![c].sent = call[c].body, ![c].body = "end"]

\* Nobody listens: the error is returned.
SendFails(c) ==
    /\ call[c].at = "send" /\ ~(listening /\ Alive)
    /\ Finish(c, "error")
    /\ UNCHANGED serverVars

\* isConnectionReset looks for a net.OpError, but http.Client returns its errors as
\* url.Error: it is false for all of them, and the retry of a GET never happens.
isConnectionReset(err) == FALSE
Repeats(verb, err) == isConnectionReset(err) /\ verb = "GET"

\* The connection breaks, or the clientTimeout passes. The handler in the server goes on
\* and nobody reads its answer.
DoFails(c, err) ==
    /\ call[c].at = "answer"
    /\ err = "reset" \/ Alive
    /\ IF Repeats(call[c].verb, err)
         THEN call' = [call EXCEPT ![c].at = "retry", ![c].retries = @ + 1]
         ELSE Finish(c, "error")
    /\ UNCHANGED serverVars

\* Mutant: the answer of a server that is busy or shutting down is repeated.
CheckWaitAll(part) == part \in {"503", "500", "504"}

\* checkWait: Retry-After comes with the 503 only.
CheckWait(part) == part = "503"

\* The answer: one with Retry-After makes the client sleep and try again, up to maxRetries
\* attempts. Everything else is transformResponse's.
Answer(c, part) ==
    /\ call[c].at = "answer" /\ Alive /\ req[c].outer = "done"
    /\ req[c].parts = {part}
    /\ IF CheckWait(part) /\ call[c].retries + 1 < MaxRetries
         THEN call' = [call EXCEPT ![c].at = "retry", ![c].retries = @ + 1]
         ELSE Finish(c, IF part = "200" THEN "ok" ELSE "error")
    /\ UNCHANGED serverVars

\* The connection that the timeout filter's panic closes, or the dead process.
Killed(c) ==
    /\ call[c].at = "answer"
    /\ req[c].outer = "killed" \/ ~Alive
    /\ Finish(c, "error")
    /\ UNCHANGED serverVars

\* The body, a bytes.Reader, is set back to its start.
Seek(c) ==
    /\ call[c].at = "retry"
    /\ call' = [call EXCEPT ![c].at = "send", ![c].body = "start"]
    /\ req' = [req EXCEPT ![c] = NoRequest]
    /\ UNCHANGED <<main, postStart, healthzChecks, listening, wg, inFlight, timeout, executed, hookFailed>>

RestNext ==
    \/ ServerNext /\ UNCHANGED call
    \/ \E c \in Calls :
         \/ \E verb \in Verbs, t \in ClientTimeouts : NewRequest(c, verb, t)
         \/ Send(c) \/ SendFails(c) \/ Killed(c) \/ Seek(c)
         \/ \E err \in {"reset", "deadline"} : DoFails(c, err)
         \/ \E part \in {"200", "500", "503", "504"} : Answer(c, part)

-----------------------------------------------------------------------------
(* Properties *)

\* A call is executed at most once, although the client repeats writes too: the server says
\* Retry-After only where no handler has seen the request.
AtMostOnce == \A c \in Calls : executed[c] <= 1

\* A caller that is told of success has had its request executed, and executed with the
\* whole body, whichever attempt it was.
SuccessIsExecuted ==
    \A c \in Calls : call[c].result = "ok" => executed[c] = 1 /\ call[c].sent = "start"

\* One call of the controller is one execution in funclet and one answer, through retries,
\* timeouts on both sides, broken connections and the shutdown of the server.
CallsSound == AtMostOnce /\ SuccessIsExecuted /\ OneAnswer
=============================================================================
