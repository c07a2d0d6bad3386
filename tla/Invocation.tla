----------------------------- MODULE Invocation -----------------------------
(***************************************************************************)
(* Invocations inside the session of one runtime: RuntimeClient's          *)
(* InvokeFunction with its timer (client.go), the RequestInfo both sides   *)
(* write to (request.go), and the session's send and receive loops and     *)
(* stopRuntime (runtime.go), in generic mode (requests and responses over  *)
(* the runtime's connection) and in stream mode (http requests).           *)
(*                                                                         *)
(* InvokeResult tests Status and then writes without a lock. The client's  *)
(* timer, the two loops and stopRuntime all call it, so each call is a     *)
(* step that tests and a step that writes.                                 *)
(***************************************************************************)
EXTENDS Naturals, Sequences, FiniteSets

CONSTANTS
    Requests,       \* invocations of the one function the runtime serves
    NoRequest,      \* the request of a loop that handles none
    Succeeds,       \* the invocations the function itself succeeds in
    Modes,          \* subset of {"generic", "stream"}: WithStreamMode
    ChanCap,        \* capacity of the request and response channels (100 in the code)
    MaxSessions,    \* bound on sessions of the runtime
    MaxDeaths       \* bound on processes that die or answer garbage

ASSUME InvocationAssumption ==
    /\ NoRequest \notin Requests
    /\ Succeeds \subseteq Requests
    /\ Modes \subseteq {"generic", "stream"}
    /\ ChanCap \in Nat \ {0}
    /\ MaxSessions \in Nat
    /\ MaxDeaths \in Nat

VARIABLES
    sess,           \* the RuntimeInfo's session, see Sessions
    concurrency,    \* Concurrency: the invocations the pool counts
    requestMap,     \* keys of requestMap
    requestChan,    \* requestChan or httpRequestChan
    wire,           \* requests the process has received and not answered
    resps,          \* responses on the connection, or httpResponseChan
    snd,            \* the send loop
    rcv,            \* the receive loop
    stopping,       \* the call of stopRuntime
    client,         \* the goroutine of every invocation
    info,           \* the RequestInfo of every invocation
    failures        \* sessions and deaths so far

vars == <<sess, concurrency, requestMap, requestChan, wire, resps, snd, rcv, stopping,
          client, info, failures>>

\* alive: the function's process; stop, drain: runtimeStopChan and
\* runtimeStoppingChan are closed.
Sessions == [state : {"cold", "warm", "stopping", "stopped"}, mode : Modes,
             alive : BOOLEAN, stop : BOOLEAN, drain : BOOLEAN]

Senders == [pc : {"off", "idle", "write", "loop", "do", "panic"},
            req : Requests \cup {NoRequest}, retried : BOOLEAN]

Receivers == [pc : {"off", "read", "write", "panic"},
              req : Requests \cup {NoRequest}]

\* begin: the keys when Range began; seen: the keys it has visited.
Stoppers == [pc : {"off", "lock", "range", "write", "wait"},
             req : Requests \cup {NoRequest},
             begin : SUBSET Requests, seen : SUBSET Requests]

\* message: errorMessage of InvokeFunction is set.
Clients == [pc : {"new", "wait", "store", "send", "await", "write", "cleanup",
                  "build", "done"}, message : BOOLEAN]

\* result, error: FuncResult and ErrorInfo of the output (FuncError is set
\* exactly when ErrorInfo is); sync, timeout: the content of SyncChannel and of
\* TimeoutChannel, both of capacity one; reply: what the caller was sent.
RequestInfos == [status : {"normal", "running", "success", "failed", "timeout"},
                 result : {"none", "answer", "message"},
                 error : {"none", "function", "exited", "not alive", "Invoke timeout."},
                 sync : BOOLEAN, timeout : BOOLEAN,
                 reply : {"none", "answer", "message", "function", "exited",
                          "not alive", "streamed"}]

\* The types of the variables.
TypeOK ==
    /\ sess \in Sessions
    /\ concurrency \in Nat
    /\ requestMap \subseteq Requests
    /\ requestChan \in Seq(Requests) /\ Len(requestChan) <= ChanCap
    /\ wire \subseteq Requests
    /\ resps \in Seq(Requests)
    /\ snd \in Senders
    /\ rcv \in Receivers
    /\ stopping \in Stoppers
    /\ client \in [Requests -> Clients]
    /\ info \in [Requests -> RequestInfos]
    /\ failures \in [sessions : Nat, deaths : Nat]

NewRequestInfo == [status |-> "normal", result |-> "none", error |-> "none",
                   sync |-> FALSE, timeout |-> FALSE, reply |-> "none"]

SendIdle(pc) == [pc |-> pc, req |-> NoRequest, retried |-> FALSE]
RecvIdle(pc) == [pc |-> pc, req |-> NoRequest]
StopIdle(pc) == [pc |-> pc, req |-> NoRequest, begin |-> {}, seen |-> {}]

Init ==
    /\ \E m \in Modes : sess = [state |-> "cold", mode |-> m, alive |-> FALSE,
                                stop |-> FALSE, drain |-> FALSE]
    /\ concurrency = 0
    /\ requestMap = {}
    /\ requestChan = << >>
    /\ wire = {}
    /\ resps = << >>
    /\ snd = SendIdle("off")
    /\ rcv = RecvIdle("off")
    /\ stopping = StopIdle("off")
    /\ client = [q \in Requests |-> [pc |-> "new", message |-> FALSE]]
    /\ info = [q \in Requests |-> NewRequestInfo]
    /\ failures = [sessions |-> 0, deaths |-> 0]

Stream == sess.mode = "stream"

\* invokeLock is free: of the steps below only stopRuntime keeps it for long.
LockFree == stopping.pc \in {"off", "lock"}

At(c, pc) == [c EXCEPT !.pc = pc]
Go(q, pc) == client' = [client EXCEPT ![q] = At(@, pc)]

\* InvokeFunction goes on with an errorMessage.
Failed(q, pc) == client' = [client EXCEPT ![q] = [pc |-> pc, message |-> TRUE]]

-----------------------------------------------------------------------------
(* RequestInfo *)

\* InvokeResult after its test of Status.
InvokeResult(i, status, text) ==
    IF status = "success" THEN [i EXCEPT !.status = status, !.result = text]
    ELSE [i EXCEPT !.status = status, !.error = text]

Running(q) == info[q].status = "running"

Notify(i) == [i EXCEPT !.sync = TRUE]

\* SyncChannel is read; TimeoutChannel is written or read.
Received(i) == [i EXCEPT !.sync = FALSE]
Timeout(i, full) == [i EXCEPT !.timeout = full]

\* getFuncResult: what is made of the output.
getFuncResult(i) == IF i.error \in {"none", "Invoke timeout."} THEN i.result ELSE i.error

\* Result of InvokeFunction's first defer: errorMessage goes into FuncResult.
WithMessage(i, message) == IF message THEN [i EXCEPT !.result = "message"] ELSE i

\* buildResponse; in stream mode the body goes to the caller by itself.
Response(i) == IF Stream THEN "streamed" ELSE getFuncResult(i)

-----------------------------------------------------------------------------
(* InvokeFunction *)

\* The pool gives the invocation this runtime: Concurrency counts it.
Arrive(q) ==
    /\ client[q].pc = "new"
    /\ LockFree
    /\ sess.state \in {"cold", "warm"}
    /\ concurrency' = concurrency + 1
    /\ Go(q, "wait")
    /\ UNCHANGED <<sess, requestMap, requestChan, wire, resps, snd, rcv,
                   stopping, info, failures>>

\* waitRuntime sees a warm runtime; logs are set up and Status becomes Running.
WaitRuntime(q) ==
    /\ client[q].pc = "wait"
    /\ sess.state = "warm"
    /\ info' = [info EXCEPT ![q] = [@ EXCEPT !.status = "running"]]
    /\ Go(q, "store")
    /\ UNCHANGED <<sess, concurrency, requestMap, requestChan, wire, resps, snd,
                   rcv, stopping, failures>>

\* The timer of Wait runs out while the runtime is not warm.
WaitRuntimeFails(q) ==
    /\ client[q].pc = "wait"
    /\ sess.state # "warm"
    /\ Go(q, "build")
    /\ info' = [info EXCEPT ![q] = WithMessage(@, TRUE)]
    /\ UNCHANGED <<sess, concurrency, requestMap, requestChan, wire, resps, snd,
                   rcv, stopping, failures>>

\* InvokeFunc and InvokeHTTPFunc, first half.
StoreRequest(q) ==
    /\ client[q].pc = "store"
    /\ requestMap' = requestMap \cup {q}
    /\ Go(q, "send")
    /\ UNCHANGED <<sess, concurrency, requestChan, wire, resps, snd, rcv,
                   stopping, info, failures>>

\* Mutant: an off by one at the capacity of the channel.
EnqueueRequestOffByOne(q) ==
    /\ client[q].pc = "send"
    /\ IF Len(requestChan) <= ChanCap
       THEN /\ requestChan' = Append(requestChan, q)
            /\ Go(q, "await")
       ELSE /\ Failed(q, "cleanup")
            /\ UNCHANGED requestChan
    /\ UNCHANGED <<sess, concurrency, requestMap, wire, resps, snd, rcv, stopping,
                   info, failures>>

\* Second half: a select with a default, so a full channel is an error.
EnqueueRequest(q) ==
    /\ client[q].pc = "send"
    /\ IF Len(requestChan) < ChanCap
       THEN /\ requestChan' = Append(requestChan, q)
            /\ Go(q, "await")
       ELSE /\ Failed(q, "cleanup")
            /\ UNCHANGED requestChan
    /\ UNCHANGED <<sess, concurrency, requestMap, wire, resps, snd, rcv,
                   stopping, info, failures>>

Woken(q) ==
    /\ client[q].pc = "await"
    /\ info[q].sync
    /\ info' = [info EXCEPT ![q] = Received(@)]
    /\ Go(q, "cleanup")
    /\ UNCHANGED <<sess, concurrency, requestMap, requestChan, wire, resps, snd,
                   rcv, stopping, failures>>

\* Mutant: only stream mode has a timer.
TimerFiresInStreamMode(q) ==
    /\ client[q].pc = "await" /\ Stream
    /\ IF Running(q) THEN Go(q, "write") /\ UNCHANGED info
       ELSE Failed(q, "cleanup") /\ info' = [info EXCEPT ![q] = Timeout(@, Stream)]
    /\ UNCHANGED <<sess, concurrency, requestMap, requestChan, wire, resps, snd, rcv,
                   stopping, failures>>

\* The function's timeout; the select may also pick it when SyncChannel is ready.
TimerFires(q) ==
    /\ client[q].pc = "await"
    /\ IF Running(q) THEN Go(q, "write") /\ UNCHANGED info
       ELSE Failed(q, "cleanup") /\ info' = [info EXCEPT ![q] = Timeout(@, Stream)]
    /\ UNCHANGED <<sess, concurrency, requestMap, requestChan, wire, resps, snd,
                   rcv, stopping, failures>>

TimerWrites(q) ==
    /\ client[q].pc = "write"
    /\ info' = [info EXCEPT ![q] =
                   Timeout(InvokeResult(@, "timeout", "Invoke timeout."), Stream)]
    /\ Failed(q, "cleanup")
    /\ UNCHANGED <<sess, concurrency, requestMap, requestChan, wire, resps, snd,
                   rcv, stopping, failures>>

\* Mutant: the early return after a failed InvokeFunc skips invokeCleanup.
CleanupUnlessError(q) ==
    /\ client[q].pc = "cleanup"
    /\ requestMap' = IF client[q].message THEN requestMap ELSE requestMap \ {q}
    /\ info' = [info EXCEPT ![q] = WithMessage(@, client[q].message)]
    /\ Go(q, "build")
    /\ UNCHANGED <<sess, concurrency, requestChan, wire, resps, snd, rcv, stopping,
                   failures>>

\* The logs are closed, then the defers run: invokeCleanup (InvokeDone without a
\* signal) and the one that sets the result.
Cleanup(q) ==
    /\ client[q].pc = "cleanup"
    /\ requestMap' = requestMap \ {q}
    /\ info' = [info EXCEPT ![q] = WithMessage(@, client[q].message)]
    /\ Go(q, "build")
    /\ UNCHANGED <<sess, concurrency, requestChan, wire, resps, snd, rcv, stopping,
                   failures>>

\* buildResponse reads the output, then putRuntime: Release takes invokeLock and
\* refuses when Concurrency is 0. The caller gets the response once Do returns.
PutRuntime(q) ==
    /\ client[q].pc = "build"
    /\ LockFree
    /\ info' = [info EXCEPT ![q] = [@ EXCEPT !.reply = Response(info[q])]]
    /\ concurrency' = IF concurrency = 0 THEN 0 ELSE concurrency - 1
    /\ Go(q, "done")
    /\ UNCHANGED <<sess, requestMap, requestChan, wire, resps, snd, rcv, stopping,
                   failures>>

-----------------------------------------------------------------------------
(* The session *)

\* initRuntime: new channels, both loops start, the waiting invocations see the
\* runtime warm. requestMap is not reset.
StartSession ==
    /\ sess.state = "cold"
    /\ failures.sessions < MaxSessions
    /\ sess' = [sess EXCEPT !.state = "warm", !.alive = TRUE, !.stop = FALSE,
                            !.drain = FALSE]
    /\ requestChan' = << >>
    /\ wire' = {}
    /\ resps' = << >>
    /\ snd' = SendIdle("idle")
    /\ rcv' = RecvIdle("read")
    /\ failures' = [failures EXCEPT !.sessions = @ + 1]
    /\ UNCHANGED <<concurrency, requestMap, stopping, client, info>>

\* sendGenericRequestLoop writes a request to the connection.
SendRequest ==
    /\ ~Stream /\ snd.pc = "idle" /\ requestChan # << >>
    /\ sess.alive /\ ~sess.stop
    /\ requestChan' = Tail(requestChan)
    /\ wire' = wire \cup {Head(requestChan)}
    /\ UNCHANGED <<sess, concurrency, requestMap, resps, snd, rcv, stopping,
                   client, info, failures>>

\* The loop writes the outcome of a request it could not deliver, unless the
\* outcome is known already, and notifies the client.
SendOutcome(q) ==
    IF Running(q) THEN snd' = [snd EXCEPT !.pc = "write", !.req = q] /\ UNCHANGED info
    ELSE snd' = SendIdle("idle") /\ info' = [info EXCEPT ![q] = Notify(@)]

\* Encode fails: the process is gone or the connection is closed.
SendFails ==
    /\ ~Stream /\ snd.pc = "idle" /\ requestChan # << >>
    /\ ~sess.alive \/ sess.stop
    /\ requestChan' = Tail(requestChan)
    /\ IF Head(requestChan) \in requestMap THEN SendOutcome(Head(requestChan))
       ELSE UNCHANGED <<snd, info>>
    /\ UNCHANGED <<sess, concurrency, requestMap, wire, resps, rcv, stopping,
                   client, failures>>

SendWrites ==
    /\ snd.pc = "write"
    /\ info' = [info EXCEPT ![snd.req] =
                   IF Stream THEN Notify(InvokeResult(@, "timeout", "not alive"))
                   ELSE Notify(InvokeResult(@, "failed", "exited"))]
    /\ snd' = SendIdle("idle")
    /\ UNCHANGED <<sess, concurrency, requestMap, requestChan, wire, resps, rcv,
                   stopping, client, failures>>

\* sendHTTPRequestLoop takes a request. The selects that follow read its
\* TimeoutChannel through the pointer loadRequest returned, nil included.
TakeHTTPRequest ==
    /\ Stream /\ snd.pc = "idle" /\ requestChan # << >>
    /\ requestChan' = Tail(requestChan)
    /\ snd' = [pc |-> IF Head(requestChan) \in requestMap THEN "loop" ELSE "panic",
               req |-> Head(requestChan), retried |-> FALSE]
    /\ UNCHANGED <<sess, concurrency, requestMap, wire, resps, rcv, stopping,
                   client, info, failures>>

\* Nothing else is ready, so the default branch calls httpClient.Do.
StartDo ==
    /\ snd.pc = "loop"
    /\ ~info[snd.req].timeout
    /\ snd' = [snd EXCEPT !.pc = "do"]
    /\ wire' = wire \cup {snd.req}
    /\ UNCHANGED <<sess, concurrency, requestMap, requestChan, resps, rcv,
                   stopping, client, info, failures>>

\* Do returns an error; the loop comes round again after retryDuration.
DoFails ==
    /\ snd.pc = "do"
    /\ snd' = [snd EXCEPT !.pc = "loop", !.retried = TRUE]
    /\ UNCHANGED <<sess, concurrency, requestMap, requestChan, wire, resps, rcv,
                   stopping, client, info, failures>>

DoReturns ==
    /\ snd.pc = "do" /\ sess.alive /\ snd.req \in wire
    /\ Len(resps) < ChanCap
    /\ wire' = wire \ {snd.req}
    /\ resps' = Append(resps, snd.req)
    /\ snd' = SendIdle("idle")
    /\ UNCHANGED <<sess, concurrency, requestMap, requestChan, rcv, stopping,
                   client, info, failures>>

\* The timer of retryDeadline; it has not run out when the first Do starts.
RetryDeadline ==
    /\ snd.pc = "loop" /\ snd.retried
    /\ SendOutcome(snd.req)
    /\ UNCHANGED <<sess, concurrency, requestMap, requestChan, wire, resps, rcv,
                   stopping, client, failures>>

\* The client's timer ran out between two calls of Do.
CancelRequest ==
    /\ snd.pc = "loop"
    /\ info[snd.req].timeout
    /\ info' = [info EXCEPT ![snd.req] = Timeout(@, FALSE)]
    /\ snd' = SendIdle("idle")
    /\ UNCHANGED <<sess, concurrency, requestMap, requestChan, wire, resps, rcv,
                   stopping, client, failures>>

\* The send loop ends. On runtimeStoppingChan, which only stream mode listens to,
\* its defer runs stopRuntime.
SendLoopStops ==
    /\ snd.pc = "idle"
    /\ sess.stop
    /\ snd' = SendIdle("off")
    /\ UNCHANGED <<sess, concurrency, requestMap, requestChan, wire, resps, rcv,
                   stopping, client, info, failures>>

SendLoopDrains ==
    /\ Stream /\ snd.pc = "idle"
    /\ sess.drain
    /\ snd' = SendIdle("off")
    /\ stopping' = StopIdle("lock")
    /\ UNCHANGED <<sess, concurrency, requestMap, requestChan, wire, resps, rcv,
                   client, info, failures>>

\* InvokeDone with a signal: nothing for a request that is not in the map.
InvokeDone(q, i) ==
    /\ info' = [info EXCEPT ![q] = IF q \in requestMap THEN Notify(i) ELSE i]
    /\ requestMap' = requestMap \ {q}

\* Mutant: the client is notified before the result is written.
RecvResponseNotifiesFirst ==
    /\ rcv.pc = "read" /\ resps # << >>
    /\ resps' = Tail(resps)
    /\ IF Head(resps) \in requestMap
       THEN /\ rcv' = [pc |-> "write", req |-> Head(resps)]
            /\ InvokeDone(Head(resps), info[Head(resps)])
       ELSE /\ rcv' = IF Stream THEN RecvIdle("panic") ELSE rcv
            /\ UNCHANGED <<info, requestMap>>
    /\ UNCHANGED <<sess, concurrency, requestChan, wire, snd, stopping, client,
                   failures>>

\* recvGenericResponseLoop and recvHTTPResponseLoop take a response. The generic
\* loop ignores one whose request is gone; the other converts it into the output
\* of a nil request.
RecvResponse ==
    LET q == Head(resps) IN
    /\ rcv.pc = "read" /\ resps # << >>
    /\ resps' = Tail(resps)
    /\ CASE q \notin requestMap ->
                /\ rcv' = IF Stream THEN RecvIdle("panic") ELSE rcv
                /\ UNCHANGED <<info, requestMap>>
         [] q \in requestMap /\ Running(q) ->
                /\ rcv' = [pc |-> "write", req |-> q]
                /\ UNCHANGED <<info, requestMap>>
         [] q \in requestMap /\ ~Running(q) ->
                /\ InvokeDone(q, info[q])
                /\ UNCHANGED rcv
    /\ UNCHANGED <<sess, concurrency, requestChan, wire, snd, stopping, client,
                   failures>>

\* handleInvokeDone, and ConvertHTTPResponseToProxy in stream mode. There the
\* strings are empty, as the body is streamed; that they were written is kept.
ResponseOutcome(q) ==
    IF q \in Succeeds THEN InvokeResult(info[q], "success", "answer")
    ELSE InvokeResult(info[q], "failed", "function")

RecvWrites ==
    /\ rcv.pc = "write"
    /\ InvokeDone(rcv.req, ResponseOutcome(rcv.req))
    /\ rcv' = RecvIdle("read")
    /\ UNCHANGED <<sess, concurrency, requestChan, wire, resps, snd, stopping,
                   client, failures>>

\* Decode fails: the receive loop ends and its defer runs stopRuntime.
RecvLoopEnds ==
    /\ ~Stream /\ rcv.pc = "read"
    /\ rcv' = RecvIdle("off")
    /\ stopping' = StopIdle("lock")
    /\ UNCHANGED <<sess, concurrency, requestMap, requestChan, wire, resps, snd,
                   client, info>>

\* At the end of file, after the last response.
RecvEOF ==
    /\ RecvLoopEnds
    /\ ~sess.alive /\ resps = << >>
    /\ UNCHANGED failures

\* At something that is no response.
RecvGarbage ==
    /\ RecvLoopEnds
    /\ failures.deaths < MaxDeaths
    /\ failures' = [failures EXCEPT !.deaths = @ + 1]

RecvLoopStops ==
    /\ Stream /\ rcv.pc = "read"
    /\ sess.stop
    /\ rcv' = RecvIdle("off")
    /\ UNCHANGED <<sess, concurrency, requestMap, requestChan, wire, resps, snd,
                   stopping, client, info, failures>>

-----------------------------------------------------------------------------
(* stopRuntime *)

\* It takes invokeLock, clears the counters and starts Range.
StopRuntime ==
    /\ stopping.pc = "lock"
    /\ concurrency' = 0
    /\ stopping' = [StopIdle("range") EXCEPT !.begin = requestMap]
    /\ UNCHANGED <<sess, requestMap, requestChan, wire, resps, snd, rcv, client, info,
                   failures>>

\* Range calls back for a key; one stored meanwhile may be visited or not.
StopVisits(q) ==
    /\ stopping.pc = "range"
    /\ q \in requestMap \ stopping.seen
    /\ IF Running(q)
       THEN stopping' = [stopping EXCEPT !.pc = "write", !.req = q] /\ UNCHANGED info
       ELSE /\ stopping' = [stopping EXCEPT !.seen = @ \cup {q}]
            /\ info' = [info EXCEPT ![q] = Notify(@)]
    /\ UNCHANGED <<sess, concurrency, requestMap, requestChan, wire, resps, snd, rcv,
                   client, failures>>

\* Mutant: the request gets its result but nobody wakes its client.
StopWritesOnly ==
    /\ stopping.pc = "write"
    /\ info' = [info EXCEPT ![stopping.req] = InvokeResult(@, "failed", "exited")]
    /\ stopping' = [stopping EXCEPT !.pc = "range", !.req = NoRequest,
                                    !.seen = @ \cup {stopping.req}]
    /\ UNCHANGED <<sess, concurrency, requestMap, requestChan, wire, resps, snd, rcv,
                   client, failures>>

StopWrites ==
    /\ stopping.pc = "write"
    /\ info' = [info EXCEPT ![stopping.req] = Notify(InvokeResult(@, "failed", "exited"))]
    /\ stopping' = [stopping EXCEPT !.pc = "range", !.req = NoRequest,
                                    !.seen = @ \cup {stopping.req}]
    /\ UNCHANGED <<sess, concurrency, requestMap, requestChan, wire, resps, snd, rcv,
                   client, failures>>

\* Mutant: runtimeStopChan stays open.
StopClosesNothing ==
    /\ stopping.pc = "range"
    /\ stopping.begin \cap requestMap \subseteq stopping.seen
    /\ requestMap' = {}
    /\ stopping' = [stopping EXCEPT !.pc = "wait"]
    /\ UNCHANGED <<sess, concurrency, requestChan, wire, resps, snd, rcv, client, info,
                   failures>>

\* Range is over. The map is replaced, runtimeStopChan and the connection closed.
StopCloses ==
    /\ stopping.pc = "range"
    /\ stopping.begin \cap requestMap \subseteq stopping.seen
    /\ requestMap' = {}
    /\ sess' = [sess EXCEPT !.stop = TRUE]
    /\ stopping' = [stopping EXCEPT !.pc = "wait"]
    /\ UNCHANGED <<concurrency, requestChan, wire, resps, snd, rcv, client, info,
                   failures>>

\* runtimeWaitGroup.Wait has returned.
StopReturns ==
    /\ stopping.pc = "wait"
    /\ snd.pc = "off" /\ rcv.pc = "off"
    /\ sess' = [sess EXCEPT !.state = "stopped"]
    /\ stopping' = StopIdle("off")
    /\ UNCHANGED <<concurrency, requestMap, requestChan, wire, resps, snd, rcv, client,
                   info, failures>>

-----------------------------------------------------------------------------
(* The cron task and the process *)

\* coolDown: opStopSet on an idle runtime closes runtimeStoppingChan.
CoolDown ==
    /\ LockFree
    /\ sess.state = "warm" /\ concurrency = 0
    /\ sess' = [sess EXCEPT !.state = "stopping", !.drain = TRUE]
    /\ UNCHANGED <<concurrency, requestMap, requestChan, wire, resps, snd, rcv,
                   stopping, client, info, failures>>

\* The runner of a stopped runtime goes and comes back (see RuntimePool). The next
\* occupy sets WithStreamMode, which stopRuntime cleared, for the same function.
Reborn ==
    /\ LockFree
    /\ sess.state = "stopped" /\ failures.sessions < MaxSessions
    /\ sess' = [sess EXCEPT !.state = "cold"]
    /\ UNCHANGED <<concurrency, requestMap, requestChan, wire, resps, snd, rcv,
                   stopping, client, info, failures>>

\* The process answers requests in any order, or never.
Respond(q) ==
    /\ ~Stream /\ sess.alive
    /\ q \in wire
    /\ wire' = wire \ {q}
    /\ resps' = Append(resps, q)
    /\ UNCHANGED <<sess, concurrency, requestMap, requestChan, snd, rcv, stopping,
                   client, info, failures>>

\* It dies, or the container is reset after the cool down.
Die ==
    /\ sess.alive
    /\ sess.state = "warm" /\ failures.deaths < MaxDeaths
    /\ sess' = [sess EXCEPT !.alive = FALSE]
    /\ wire' = {}
    /\ failures' = [failures EXCEPT !.deaths = @ + 1]
    /\ UNCHANGED <<concurrency, requestMap, requestChan, resps, snd, rcv, stopping,
                   client, info>>

Reset ==
    /\ sess.alive
    /\ sess.state = "stopping"
    /\ sess' = [sess EXCEPT !.alive = FALSE]
    /\ wire' = {}
    /\ UNCHANGED <<concurrency, requestMap, requestChan, resps, snd, rcv, stopping,
                   client, info, failures>>

-----------------------------------------------------------------------------

\* A panic of the send loop, a goroutine of its own, ends the controller. One of
\* the receive loop is recovered by net/http, whose handler it is.
Up == snd.pc # "panic"

InvokeFunction(q) ==
    \/ WaitRuntime(q) \/ WaitRuntimeFails(q) \/ StoreRequest(q) \/ EnqueueRequest(q)
    \/ Woken(q) \/ TimerFires(q) \/ TimerWrites(q) \/ Cleanup(q) \/ PutRuntime(q)

SendLoop ==
    \/ SendRequest \/ SendFails \/ SendWrites \/ TakeHTTPRequest \/ StartDo
    \/ CancelRequest \/ SendLoopStops \/ SendLoopDrains

RecvLoop == RecvResponse \/ RecvWrites \/ RecvEOF \/ RecvLoopStops

Stopper ==
    \/ StopRuntime \/ StopWrites \/ StopCloses \/ StopReturns
    \/ \E q \in Requests : StopVisits(q)

Process == \/ \E q \in Requests : Respond(q)
           \/ DoReturns \/ DoFails \/ RecvGarbage \/ Die

Next ==
    Up /\ (\/ \E q \in Requests : Arrive(q) \/ InvokeFunction(q)
           \/ SendLoop \/ RetryDeadline \/ RecvLoop \/ Stopper
           \/ StartSession \/ CoolDown \/ Reborn \/ Reset \/ Process)

Spec == Init /\ [][Next]_vars

\* Goroutines run and timers fire. A call of Do on a process that is gone fails,
\* and the deadline of a request that is retried passes. Of the process, of new
\* sessions and of garbage nothing is assumed.
FairSpec ==
    /\ Spec
    /\ \A q \in Requests : WF_vars(Up /\ InvokeFunction(q))
    /\ WF_vars(Up /\ SendLoop)
    /\ WF_vars(Up /\ ~sess.alive /\ DoFails)
    /\ SF_vars(Up /\ RetryDeadline)
    /\ WF_vars(Up /\ RecvLoop)
    /\ WF_vars(Up /\ Stopper)
    /\ WF_vars(Up /\ Reset)

-----------------------------------------------------------------------------
(* Properties *)

\* No caller of a generic invocation gets an empty body: whoever wakes the client
\* (a response, a failed send, stopRuntime) or ends its wait (the timer, a full
\* queue, a runtime that is not ready) has written a result before, in every
\* order in which the tests and writes of InvokeResult interleave.
NoEmptyReply ==
    \A q \in Requests :
        client[q].pc = "done" => info[q].reply # "none"

\* Every request that was in requestMap when stopRuntime began Range and that
\* still waits has been notified when the map is thrown away.
StopNotifies ==
    stopping.pc = "wait" =>
        \A q \in stopping.begin : client[q].pc = "await" => info[q].sync

\* A finished invocation leaves no entry in requestMap, although the map is
\* replaced by stopRuntime and shared with the loops.
NothingLeaked ==
    \A q \in Requests : client[q].pc = "done" => q \notin requestMap

\* Both loops of a session are there to consume requests and responses.
LoopsSurvive == snd.pc # "panic" /\ rcv.pc # "panic"

\* Every invocation that was given a runtime ends, whatever the process does, as
\* long as no loop panics: stopRuntime, which holds invokeLock while it waits for
\* the loops, never blocks putRuntime for good.
InvocationsEnd ==
    \A q \in Requests : client[q].pc = "wait" ~> (client[q].pc = "done" \/ ~LoopsSurvive)

\* A session whose process is gone, or that is cooled down, is stopped in the end:
\* both loops end although they wait on channels, on a dead process and on
\* responses for requests that are gone.
SessionsEnd ==
    (sess.state = "stopping" \/ (~Stream /\ sess.state = "warm" /\ ~sess.alive))
        ~> (sess.state = "stopped" \/ ~LoopsSurvive)
=============================================================================
