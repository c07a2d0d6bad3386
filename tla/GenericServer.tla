---------------------------- MODULE GenericServer ----------------------------
(***************************************************************************)
(* The http server of funclet (pkg/server): start and shutdown with their  *)
(* hooks, healthz, and the handler chain WithTimeoutFilter, WithWaitGroup, *)
(* WithMaxInFlightLimit around the API handlers. The timeout filter runs   *)
(* the rest of the chain in a goroutine (inner) and waits for it or for    *)
(* its timer (outer); a handler that is timed out goes on and keeps its    *)
(* slot and its place in the wait group.                                   *)
(*                                                                         *)
(* Timers fire at any time. A request is named by the call it belongs to.  *)
(***************************************************************************)
EXTENDS Integers, FiniteSets

CONSTANTS
    Calls,                  \* requests on the way at the same time
    Hooks,                  \* post-start hooks
    MaxRequestsInFlight,    \* limit of WithMaxInFlightLimit
    DefaultTimeout,         \* RequestTimeout of the configuration
    ClientTimeouts          \* values of the timeout parameter; 0 for none

ASSUME ServerAssumption ==
    MaxRequestsInFlight \in Nat \ {0} /\ DefaultTimeout \in Nat \ {0} /\ ClientTimeouts \subseteq Nat

VARIABLES
    main,           \* what the program's Run is doing
    postStart,      \* a hook, and whether it was added before PrepareRun
    healthzChecks,  \* checks installed for /healthz
    listening,      \* the listener accepts
    wg,             \* HandlerChainWaitGroup: count and wait
    inFlight,       \* tokens in the channel of WithMaxInFlightLimit
    timeout,        \* the variable WithTimeoutFilter captures
    req,            \* requests in the server
    executed,       \* ghost: how often the API handler of a call has run
    hookFailed      \* ghost: a pre-shutdown hook returned an error

serverVars == <<main, postStart, healthzChecks, listening, wg, inFlight, timeout, req, executed, hookFailed>>

NoRequest == [outer |-> "none", inner |-> "none", asks |-> 0, limit |-> 0, wrote |-> FALSE,
              timedOut |-> FALSE, parts |-> {}]

ServerInit ==
    /\ main = "new"
    /\ postStart = [h \in Hooks |-> [is |-> "none", early |-> FALSE]]
    /\ healthzChecks = {}
    /\ listening = FALSE
    /\ wg = [count |-> 0, wait |-> FALSE]
    /\ inFlight = 0
    /\ timeout = DefaultTimeout
    /\ req = [c \in Calls |-> NoRequest]
    /\ executed = [c \in Calls |-> 0]
    /\ hookFailed = FALSE

Alive == main \notin {"returned", "dead"}

-----------------------------------------------------------------------------
(* Start *)

\* A hook is added with a check that it has finished, unless the hooks have been called or
\* it is there already. The check is refused once PrepareRun has installed healthz, and
\* nobody looks at that error.
AddPostStartHook(h) ==
    /\ main \in {"new", "prepared"} /\ postStart[h].is = "none"
    /\ postStart' = [postStart EXCEPT ![h] = [is |-> "added", early |-> main = "new"]]
    /\ healthzChecks' = IF main = "new" THEN healthzChecks \cup {h} ELSE healthzChecks
    /\ UNCHANGED <<main, listening, wg, inFlight, timeout, req, executed, hookFailed>>

PrepareRun ==
    /\ main = "new" /\ main' = "prepared"
    /\ UNCHANGED <<postStart, healthzChecks, listening, wg, inFlight, timeout, req, executed, hookFailed>>

\* serveSecurely starts to accept before RunPostStartHooks starts the hooks.
NonBlockingRun ==
    /\ main = "prepared" /\ main' = "serving"
    /\ listening' = TRUE
    /\ postStart' = [h \in Hooks |-> IF postStart[h].is = "none"
                                       THEN postStart[h]
                                       ELSE [postStart[h] EXCEPT !.is = "running"]]
    /\ UNCHANGED <<healthzChecks, wg, inFlight, timeout, req, executed, hookFailed>>

\* runPostStartHook: a panic is swallowed, an error ends the program.
runPostStartHook(h) ==
    /\ Alive /\ postStart[h].is = "running"
    /\ \/ postStart' = [postStart EXCEPT ![h].is = "done"] /\ UNCHANGED main
       \/ main' = "dead" /\ UNCHANGED postStart
    /\ UNCHANGED <<healthzChecks, listening, wg, inFlight, timeout, req, executed, hookFailed>>

\* handleRootHealthz.
Healthy == listening /\ \A h \in healthzChecks : postStart[h].is = "done"

-----------------------------------------------------------------------------
(* A request *)

Update(c, fields) == req' = [req EXCEPT ![c] = fields]

Accept(c, asks) ==
    /\ listening /\ Alive /\ req[c].outer = "none"
    /\ Update(c, [NoRequest EXCEPT !.outer = "set", !.asks = asks])
    /\ UNCHANGED <<main, postStart, healthzChecks, listening, wg, inFlight, timeout, executed, hookFailed>>

\* WithTimeoutFilter: a timeout the request asks for is assigned to the captured variable,
setTimeout(c) ==
    /\ Alive /\ req[c].outer = "set"
    /\ timeout' = IF req[c].asks = 0 THEN timeout ELSE req[c].asks
    /\ Update(c, [req[c] EXCEPT !.outer = "read"])
    /\ UNCHANGED <<main, postStart, healthzChecks, listening, wg, inFlight, executed, hookFailed>>

\* from which the timer is made.
timeoutHandler(c) ==
    /\ Alive /\ req[c].outer = "read"
    /\ Update(c, [req[c] EXCEPT !.outer = "select", !.inner = "wait group", !.limit = timeout])
    /\ UNCHANGED <<main, postStart, healthzChecks, listening, wg, inFlight, timeout, executed, hookFailed>>

\* Write of the timeout writer.
Written(c, part) ==
    IF req[c].timedOut THEN req[c] ELSE [req[c] EXCEPT !.parts = @ \cup {part}, !.wrote = TRUE]

\* After Wait, Add is an error and the request gets a 500.
WithWaitGroup(c) ==
    /\ Alive /\ req[c].inner = "wait group"
    /\ IF wg.wait
         THEN Update(c, [Written(c, "500") EXCEPT !.inner = "end"]) /\ UNCHANGED wg
         ELSE wg' = [wg EXCEPT !.count = @ + 1] /\ Update(c, [req[c] EXCEPT !.inner = "limit"])
    /\ UNCHANGED <<main, postStart, healthzChecks, listening, inFlight, timeout, executed, hookFailed>>

\* A full channel is a 503 with Retry-After, and the end of the chain.
WithMaxInFlightLimit(c) ==
    /\ Alive /\ req[c].inner = "limit"
    /\ IF inFlight < MaxRequestsInFlight
         THEN /\ inFlight' = inFlight + 1
              /\ Update(c, [req[c] EXCEPT !.inner = "handler"])
              /\ UNCHANGED wg
         ELSE /\ Update(c, [Written(c, "503") EXCEPT !.inner = "end"])
              /\ wg' = [wg EXCEPT !.count = @ - 1]
              /\ UNCHANGED inFlight
    /\ UNCHANGED <<main, postStart, healthzChecks, listening, timeout, executed, hookFailed>>

\* The director dispatches to the API handler, which does what was asked,
Execute(c) ==
    /\ Alive /\ req[c].inner = "handler"
    /\ executed' = [executed EXCEPT ![c] = @ + 1]
    /\ Update(c, [req[c] EXCEPT !.inner = "reply"])
    /\ UNCHANGED <<main, postStart, healthzChecks, listening, wg, inFlight, timeout, hookFailed>>

\* answers, and returns through the chain.
Reply(c) ==
    /\ Alive /\ req[c].inner = "reply"
    /\ Update(c, [Written(c, "200") EXCEPT !.inner = "return"])
    /\ UNCHANGED <<main, postStart, healthzChecks, listening, wg, inFlight, timeout, executed, hookFailed>>

ReturnInner(c) ==
    /\ Alive /\ req[c].inner = "return"
    /\ Update(c, [req[c] EXCEPT !.inner = "end"])
    /\ inFlight' = inFlight - 1
    /\ wg' = [wg EXCEPT !.count = @ - 1]
    /\ UNCHANGED <<main, postStart, healthzChecks, listening, timeout, executed, hookFailed>>

\* ServeHTTP of the timeout filter returns when the chain is done,
SelectDone(c) ==
    /\ Alive /\ req[c].outer = "select" /\ req[c].inner = "end"
    /\ Update(c, [req[c] EXCEPT !.outer = "done"])
    /\ UNCHANGED <<main, postStart, healthzChecks, listening, wg, inFlight, timeout, executed, hookFailed>>

\* Mutant: the slot of a request that is timed out is given back.
SelectTimeoutFrees(c) ==
    /\ Alive /\ req[c].outer = "select"
    /\ Update(c, [req[c] EXCEPT !.outer = IF req[c].wrote THEN "killed" ELSE "done",
                                !.timedOut = TRUE,
                                !.parts = IF req[c].wrote THEN @ ELSE @ \cup {"504"}])
    /\ inFlight' = IF req[c].inner = "handler" THEN inFlight - 1 ELSE inFlight
    /\ UNCHANGED <<main, postStart, healthzChecks, listening, wg, timeout, executed, hookFailed>>

\* or when the timer fires: a 504, or a panic that closes the connection when the answer
\* has begun. With both ready, select takes either.
SelectTimeout(c) ==
    /\ Alive /\ req[c].outer = "select"
    /\ Update(c, [req[c] EXCEPT !.outer = IF req[c].wrote THEN "killed" ELSE "done",
                                !.timedOut = TRUE,
                                !.parts = IF req[c].wrote THEN @ ELSE @ \cup {"504"}])
    /\ UNCHANGED <<main, postStart, healthzChecks, listening, wg, inFlight, timeout, executed, hookFailed>>

\* A panic of the handler is in a goroutine that nobody recovers.
HandlerPanics(c) ==
    /\ Alive /\ req[c].inner \in {"handler", "reply"}
    /\ main' = "dead"
    /\ UNCHANGED <<postStart, healthzChecks, listening, wg, inFlight, timeout, req, executed, hookFailed>>

-----------------------------------------------------------------------------
(* Shutdown *)

\* A signal closes stopCh. Run and the goroutine of NonBlockingRun go on from there.
Stop ==
    /\ main = "serving" /\ main' = "hooks"
    /\ UNCHANGED <<postStart, healthzChecks, listening, wg, inFlight, timeout, req, executed, hookFailed>>

\* RunServer's goroutine calls Shutdown, which closes the listener.
Shutdown ==
    /\ main \in {"hooks", "wait"} /\ listening
    /\ listening' = FALSE
    /\ UNCHANGED <<main, postStart, healthzChecks, wg, inFlight, timeout, req, executed, hookFailed>>

\* The first half of Wait, of Run or of the goroutine.
MarkWait ==
    /\ main \in {"hooks", "wait"} /\ ~wg.wait
    /\ wg' = [wg EXCEPT !.wait = TRUE]
    /\ UNCHANGED <<main, postStart, healthzChecks, listening, inFlight, timeout, req, executed, hookFailed>>

\* RunPreShutdownHooks: an error makes Run return at once.
RunPreShutdownHooks(failed) ==
    /\ main = "hooks" /\ main' = IF failed THEN "returned" ELSE "wait"
    /\ hookFailed' = failed
    /\ UNCHANGED <<postStart, healthzChecks, listening, wg, inFlight, timeout, req, executed>>

WaitReturns ==
    /\ main = "wait" /\ wg.wait /\ wg.count = 0
    /\ main' = "returned"
    /\ UNCHANGED <<postStart, healthzChecks, listening, wg, inFlight, timeout, req, executed, hookFailed>>

ServerNext ==
    \/ \E h \in Hooks : AddPostStartHook(h) \/ runPostStartHook(h)
    \/ PrepareRun \/ NonBlockingRun \/ Stop \/ Shutdown \/ MarkWait \/ WaitReturns
    \/ \E failed \in BOOLEAN : RunPreShutdownHooks(failed)
    \/ \E c \in Calls :
         \/ setTimeout(c) \/ timeoutHandler(c) \/ WithWaitGroup(c) \/ WithMaxInFlightLimit(c)
         \/ Execute(c) \/ Reply(c) \/ ReturnInner(c) \/ SelectDone(c) \/ SelectTimeout(c)
         \/ HandlerPanics(c)

-----------------------------------------------------------------------------
(* Properties *)

\* A request is answered by the handler or by the timeout filter, never by both.
OneAnswer == \A c \in Calls : Cardinality(req[c].parts) <= 1

\* When Run returns after its hooks, no handler is at work, not even one whose request was
\* timed out long before.
RunWaitsForHandlers ==
    main = "returned" /\ ~hookFailed =>
      \A c \in Calls : req[c].inner \notin {"limit", "handler", "reply", "return"}

\* Never more handlers are at work than MaxRequestsInFlight, those of requests that were
\* timed out included.
HandlersLimited ==
    Cardinality({c \in Calls : req[c].inner \in {"handler", "reply", "return"}}) <= MaxRequestsInFlight

\* Once /healthz says ok, the hooks that were added before PrepareRun have finished.
HealthyMeansHooked ==
    Healthy /\ Alive => \A h \in Hooks : postStart[h].early => postStart[h].is = "done"

\* The comment on WithTimeoutFilter says that it "times out non-long-running requests after
\* the time given by timeout": a request runs under the configured timeout, or under
\* the one it asks for.
TimeoutIsOwn ==
    \A c \in Calls :
      req[c].outer \in {"select", "done", "killed"} =>
        req[c].limit = IF req[c].asks = 0 THEN DefaultTimeout ELSE req[c].asks
=============================================================================
