---------------------------- MODULE ServiceProofs ----------------------------
(***************************************************************************)
(* Proofs about the parts of the services, for any number of callers,      *)
(* calls, connections, keys and functions.                                 *)
(***************************************************************************)
EXTENDS MCService, DataLemmas, TLAPS

-----------------------------------------------------------------------------
(* The rest client and the generic server *)

Outers == {"none", "set", "read", "select", "done", "killed"}
Inners == {"none", "wait group", "limit", "handler", "reply", "return", "end"}
AnswerCodes == {"200", "500", "503", "504"}

ServerRequests ==
  [outer : Outers, inner : Inners, asks : Nat, limit : Nat, wrote : BOOLEAN, timedOut : BOOLEAN,
   parts : SUBSET AnswerCodes]

ClientCalls ==
  [at : {"idle", "send", "answer", "retry", "done"}, verb : {"GET", "POST"}, timeout : Nat,
   retries : Nat, body : {"start", "end"}, sent : {"start", "end"}, result : {"none", "ok", "error"}]

\* The places of a request's inner goroutine in which it has a place in the wait group, and
\* a slot.
Grouped == {"limit", "handler", "reply", "return"}
Slotted == {"handler", "reply", "return"}

\* The answer of a request r whose handler has run n times: nobody writes to it twice.
OneWriter(r) ==
  /\ r.parts = {} \/ \E p \in AnswerCodes : r.parts = {p}
  /\ ~r.wrote /\ ~r.timedOut => r.parts = {}
  /\ r.timedOut => r.outer \in {"done", "killed"}
  /\ r.outer \in {"none", "set", "read"} => r.inner = "none"
  /\ r.inner \in {"none", "wait group", "limit", "handler", "reply"} => ~r.wrote

Runs(r, n) ==
  /\ r.inner \in {"none", "wait group", "limit", "handler"} => n = 0
  /\ r.inner \in {"reply", "return"} => n = 1
  /\ n \in {0, 1}
  /\ "200" \in r.parts => n = 1
  /\ "503" \in r.parts => n = 0 /\ r.inner = "end"

\* A call l with request r whose handler has run n times: it begins, and begins again, with the
\* whole body and nothing done.
CallGood(l, r, n) ==
  /\ l.at \in {"idle", "send"} => r = NoRequest /\ n = 0 /\ l.body = "start"
  /\ l.at = "answer" => l.sent = "start"
  /\ l.at = "retry" => n = 0 /\ r.inner = "end"
  /\ l.result = "ok" => n = 1 /\ l.sent = "start"
  /\ l.result = "ok" => l.at = "done"

CallInv ==
  /\ req \in [Calls -> ServerRequests]
  /\ executed \in [Calls -> Nat]
  /\ call \in [Calls -> ClientCalls]
  /\ timeout \in Nat
  /\ \A c \in Calls : OneWriter(req[c]) /\ Runs(req[c], executed[c]) /\ CallGood(call[c], req[c], executed[c])

LEMMA NoRequestGood ==
  NoRequest \in ServerRequests /\ OneWriter(NoRequest) /\ Runs(NoRequest, 0)
BY DEF NoRequest, ServerRequests, OneWriter, Runs, Outers, Inners, AnswerCodes

LEMMA NoCallGood ==
  NoCall \in ClientCalls /\ CallGood(NoCall, NoRequest, 0)
BY DEF NoCall, ClientCalls, CallGood

\* A step that changes only what concerns one call c.
LEMMA CallStep ==
  ASSUME CallInv, NEW c \in Calls,
         NEW r \in ServerRequests, NEW n \in Nat, NEW l \in ClientCalls,
         req' = [req EXCEPT ![c] = r], executed' = [executed EXCEPT ![c] = n],
         call' = [call EXCEPT ![c] = l], timeout' \in Nat,
         OneWriter(r), Runs(r, n), CallGood(l, r, n)
  PROVE  CallInv'
<1>1. req' \in [Calls -> ServerRequests] /\ executed' \in [Calls -> Nat] /\ call' \in [Calls -> ClientCalls]
  BY DEF CallInv
<1>2. ASSUME NEW d \in Calls
      PROVE OneWriter(req'[d]) /\ Runs(req'[d], executed'[d]) /\ CallGood(call'[d], req'[d], executed'[d])
  <2>1. CASE d = c
    <3>1. req'[d] = r /\ executed'[d] = n /\ call'[d] = l
      BY <2>1 DEF CallInv
    <3>. QED  BY <3>1
  <2>2. CASE d # c
    <3>1. req'[d] = req[d] /\ executed'[d] = executed[d] /\ call'[d] = call[d]
      BY <2>2 DEF CallInv
    <3>. QED  BY <3>1 DEF CallInv
  <2>. QED  BY <2>1, <2>2
<1>. QED  BY <1>1, <1>2 DEF CallInv

\* What a step in the server does to the call's own record: the request has been sent, and it is
\* not one that the client gives up to repeat.
LEMMA CallKept ==
  ASSUME CallInv, NEW c \in Calls, NEW r \in ServerRequests, NEW n \in {0, 1},
         req[c].outer # "none", r.inner = req[c].inner \/ req[c].inner # "end",
         n = executed[c] \/ executed[c] = 0,
         req[c].inner = "end" => n = executed[c]
  PROVE  CallGood(call[c], r, n)
<1>1. CallGood(call[c], req[c], executed[c]) /\ executed[c] \in Nat /\ call[c] \in ClientCalls
  BY DEF CallInv
<1>2. NoRequest.outer = "none"
  BY DEF NoRequest
<1>. QED  BY <1>1, <1>2 DEF CallGood

\* A step of the server in the request of c that leaves its call alone.
LEMMA ServerRequestStep ==
  ASSUME CallInv, NEW c \in Calls, NEW r \in ServerRequests, NEW n \in Nat,
         req' = [req EXCEPT ![c] = r], executed' = [executed EXCEPT ![c] = n],
         UNCHANGED call, timeout' \in Nat,
         OneWriter(r), Runs(r, n),
         req[c].outer # "none", r.inner = req[c].inner \/ req[c].inner # "end",
         n = executed[c] \/ executed[c] = 0,
         req[c].inner = "end" => n = executed[c]
  PROVE  CallInv'
<1>1. n \in {0, 1}
  BY DEF Runs
<1>2. CallGood(call[c], r, n)
  BY <1>1, CallKept
<1>3. call' = [call EXCEPT ![c] = call[c]] /\ call[c] \in ClientCalls
  BY DEF CallInv
<1>. QED  BY <1>2, <1>3, CallStep

\* The inner goroutine exists only in a request that was accepted.
LEMMA Accepted ==
  ASSUME CallInv, NEW c \in Calls
  PROVE  /\ req[c] \in ServerRequests /\ executed[c] \in Nat /\ call[c] \in ClientCalls
         /\ OneWriter(req[c]) /\ Runs(req[c], executed[c]) /\ CallGood(call[c], req[c], executed[c])
         /\ executed = [executed EXCEPT ![c] = executed[c]]
         /\ req = [req EXCEPT ![c] = req[c]]
BY DEF CallInv

\* The request after its chain has written p.
WrittenTo(c, p, i) == [Written(c, p) EXCEPT !.inner = i]

LEMMA WrittenGood ==
  ASSUME NEW c \in Calls, NEW p \in AnswerCodes, NEW i \in {"return", "end"},
         req[c] \in ServerRequests, OneWriter(req[c]), req[c].inner \in {"wait group", "limit", "reply"}
  PROVE  /\ WrittenTo(c, p, i) \in ServerRequests /\ OneWriter(WrittenTo(c, p, i))
         /\ WrittenTo(c, p, i).inner = i
         /\ WrittenTo(c, p, i).parts \subseteq req[c].parts \cup {p}
<1>. DEFINE r == WrittenTo(c, p, i)
<1>. HIDE DEF r
<1>0. r = WrittenTo(c, p, i)
  BY DEF r
<1>1. ~req[c].wrote
  BY DEF OneWriter
<1>2. CASE req[c].timedOut
  <2>1. r = [req[c] EXCEPT !.inner = i]
    BY <1>0, <1>2 DEF Written, WrittenTo
  <2>2. /\ r \in ServerRequests /\ r.inner = i /\ r.outer = req[c].outer /\ r.parts = req[c].parts
        /\ r.wrote = req[c].wrote /\ r.timedOut = req[c].timedOut
    BY <2>1 DEF ServerRequests, Inners
  <2>3. OneWriter(r)
    BY <1>1, <1>2, <2>2 DEF OneWriter
  <2>. QED  BY <1>0, <2>2, <2>3
<1>3. CASE ~req[c].timedOut
  <2>1. req[c].parts = {}
    BY <1>1, <1>3 DEF OneWriter
  <2>2. r = [req[c] EXCEPT !.parts = {p}, !.wrote = TRUE, !.inner = i]
    BY <1>0, <1>3, <2>1 DEF Written, WrittenTo, ServerRequests
  <2>a. {p} \in SUBSET AnswerCodes /\ i \in Inners
    BY DEF Inners
  <2>3. /\ r \in ServerRequests /\ r.inner = i /\ r.outer = req[c].outer /\ r.parts = {p}
        /\ r.wrote = TRUE /\ r.timedOut = req[c].timedOut
    BY <2>2, <2>a DEF ServerRequests
  <2>4. OneWriter(r)
    BY <1>3, <2>3 DEF OneWriter
  <2>. QED  BY <1>0, <2>3, <2>4
<1>. QED  BY <1>2, <1>3

LEMMA RequestSteps ==
  ASSUME CallInv, NEW c \in Calls, UNCHANGED call,
         \/ setTimeout(c) \/ timeoutHandler(c) \/ WithWaitGroup(c) \/ WithMaxInFlightLimit(c)
         \/ Execute(c) \/ Reply(c) \/ ReturnInner(c) \/ SelectDone(c) \/ SelectTimeout(c)
  PROVE  CallInv'
<1>0. /\ req[c] \in ServerRequests /\ executed[c] \in Nat /\ timeout \in Nat
      /\ OneWriter(req[c]) /\ Runs(req[c], executed[c])
      /\ executed = [executed EXCEPT ![c] = executed[c]]
  BY Accepted DEF CallInv
<1>a. req[c].inner # "none" => req[c].outer # "none"
  BY <1>0 DEF OneWriter
<1>b. req[c] \in ServerRequests /\ OneWriter(req[c])
  BY <1>0
<1>1. CASE setTimeout(c)
  <2>. DEFINE r == [req[c] EXCEPT !.outer = "read"]
  <2>1. r \in ServerRequests /\ OneWriter(r) /\ Runs(r, executed[c]) /\ r.inner = req[c].inner
    BY <1>0, <1>1 DEF setTimeout, ServerRequests, OneWriter, Runs, Outers
  <2>2. timeout' \in Nat /\ req[c].outer # "none" /\ req' = [req EXCEPT ![c] = r] /\ executed' = executed
    BY <1>0, <1>1 DEF setTimeout, Update, ServerRequests
  <2>. HIDE DEF r
  <2>. QED  BY <1>0, <2>1, <2>2, ServerRequestStep
<1>2. CASE timeoutHandler(c)
  <2>. DEFINE r == [req[c] EXCEPT !.outer = "select", !.inner = "wait group", !.limit = timeout]
  <2>1. r \in ServerRequests /\ OneWriter(r) /\ Runs(r, executed[c]) /\ req[c].inner # "end"
    BY <1>0, <1>2 DEF timeoutHandler, ServerRequests, OneWriter, Runs, Outers, Inners
  <2>2. timeout' \in Nat /\ req[c].outer # "none" /\ req' = [req EXCEPT ![c] = r] /\ executed' = executed
    BY <1>0, <1>2 DEF timeoutHandler, Update
  <2>. HIDE DEF r
  <2>. QED  BY <1>0, <2>1, <2>2, ServerRequestStep
<1>3. CASE WithWaitGroup(c)
  <2>1. timeout' \in Nat /\ req[c].outer # "none" /\ req[c].inner = "wait group" /\ executed' = executed
    BY <1>0, <1>a, <1>3 DEF WithWaitGroup
  <2>2. ASSUME NEW r, r = WrittenTo(c, "500", "end"), req' = [req EXCEPT ![c] = r] PROVE CallInv'
    <3>0. "500" \in AnswerCodes /\ "end" \in {"return", "end"} /\ req[c].inner \in {"wait group", "limit", "reply"}
      BY <2>1 DEF AnswerCodes
    <3>1. r \in ServerRequests /\ OneWriter(r) /\ r.inner = "end" /\ r.parts \subseteq req[c].parts \cup {"500"}
      BY <1>b, <2>2, <3>0, WrittenGood
    <3>2. Runs(r, executed[c])
      BY <1>0, <2>1, <3>1 DEF Runs
    <3>. QED  BY <1>0, <2>1, <2>2, <3>1, <3>2, ServerRequestStep
  <2>3. ASSUME NEW r, r = [req[c] EXCEPT !.inner = "limit"], req' = [req EXCEPT ![c] = r] PROVE CallInv'
    <3>1. r \in ServerRequests /\ OneWriter(r) /\ Runs(r, executed[c])
      BY <1>0, <2>1, <2>3 DEF ServerRequests, OneWriter, Runs, Inners
    <3>. QED  BY <1>0, <2>1, <2>3, <3>1, ServerRequestStep
  <2>. QED  BY <1>3, <2>2, <2>3 DEF WithWaitGroup, Update, WrittenTo
<1>4. CASE WithMaxInFlightLimit(c)
  <2>1. timeout' \in Nat /\ req[c].outer # "none" /\ req[c].inner = "limit" /\ executed' = executed
    BY <1>0, <1>a, <1>4 DEF WithMaxInFlightLimit
  <2>2. ASSUME NEW r, r = WrittenTo(c, "503", "end"), req' = [req EXCEPT ![c] = r] PROVE CallInv'
    <3>0. "503" \in AnswerCodes /\ "end" \in {"return", "end"} /\ req[c].inner \in {"wait group", "limit", "reply"}
      BY <2>1 DEF AnswerCodes
    <3>1. r \in ServerRequests /\ OneWriter(r) /\ r.inner = "end" /\ r.parts \subseteq req[c].parts \cup {"503"}
      BY <1>b, <2>2, <3>0, WrittenGood
    <3>2. Runs(r, executed[c])
      BY <1>0, <2>1, <3>1 DEF Runs
    <3>. QED  BY <1>0, <2>1, <2>2, <3>1, <3>2, ServerRequestStep
  <2>3. ASSUME NEW r, r = [req[c] EXCEPT !.inner = "handler"], req' = [req EXCEPT ![c] = r] PROVE CallInv'
    <3>1. r \in ServerRequests /\ OneWriter(r) /\ Runs(r, executed[c])
      BY <1>0, <2>1, <2>3 DEF ServerRequests, OneWriter, Runs, Inners
    <3>. QED  BY <1>0, <2>1, <2>3, <3>1, ServerRequestStep
  <2>. QED  BY <1>4, <2>2, <2>3 DEF WithMaxInFlightLimit, Update, WrittenTo
<1>5. CASE Execute(c)
  <2>1. timeout' \in Nat /\ req[c].outer # "none" /\ req[c].inner = "handler" /\ executed[c] = 0
    BY <1>0, <1>a, <1>5 DEF Execute, Runs
  <2>2. executed' = [executed EXCEPT ![c] = 1]
    BY <1>5, <2>1 DEF Execute
  <2>3. ASSUME NEW r, r = [req[c] EXCEPT !.inner = "reply"], req' = [req EXCEPT ![c] = r] PROVE CallInv'
    <3>0. "503" \notin req[c].parts
      BY <1>0, <2>1 DEF Runs
    <3>1. r \in ServerRequests /\ OneWriter(r) /\ Runs(r, 1)
      BY <1>0, <2>1, <2>3, <3>0 DEF ServerRequests, OneWriter, Runs, Inners
    <3>. QED  BY <1>0, <2>1, <2>2, <2>3, <3>1, ServerRequestStep
  <2>. QED  BY <1>5, <2>3 DEF Execute, Update
<1>6. CASE Reply(c)
  <2>1. timeout' \in Nat /\ req[c].outer # "none" /\ req[c].inner = "reply" /\ executed' = executed
    BY <1>0, <1>a, <1>6 DEF Reply
  <2>2. ASSUME NEW r, r = WrittenTo(c, "200", "return"), req' = [req EXCEPT ![c] = r] PROVE CallInv'
    <3>0. "200" \in AnswerCodes /\ "return" \in {"return", "end"} /\ req[c].inner \in {"wait group", "limit", "reply"}
      BY <2>1 DEF AnswerCodes
    <3>1. r \in ServerRequests /\ OneWriter(r) /\ r.inner = "return" /\ r.parts \subseteq req[c].parts \cup {"200"}
      BY <1>b, <2>2, <3>0, WrittenGood
    <3>2. Runs(r, executed[c])
      BY <1>0, <2>1, <3>1 DEF Runs
    <3>. QED  BY <1>0, <2>1, <2>2, <3>1, <3>2, ServerRequestStep
  <2>. QED  BY <1>6, <2>2 DEF Reply, Update, WrittenTo
<1>7. CASE ReturnInner(c)
  <2>1. timeout' \in Nat /\ req[c].outer # "none" /\ req[c].inner = "return" /\ executed' = executed
    BY <1>0, <1>a, <1>7 DEF ReturnInner
  <2>3. ASSUME NEW r, r = [req[c] EXCEPT !.inner = "end"], req' = [req EXCEPT ![c] = r] PROVE CallInv'
    <3>1. r \in ServerRequests /\ OneWriter(r) /\ Runs(r, executed[c])
      BY <1>0, <2>1, <2>3 DEF ServerRequests, OneWriter, Runs, Inners
    <3>. QED  BY <1>0, <2>1, <2>3, <3>1, ServerRequestStep
  <2>. QED  BY <1>7, <2>3 DEF ReturnInner, Update
<1>8. CASE SelectDone(c)
  <2>1. timeout' \in Nat /\ req[c].outer # "none" /\ executed' = executed
    BY <1>0, <1>8 DEF SelectDone
  <2>3. ASSUME NEW r, r = [req[c] EXCEPT !.outer = "done"], req' = [req EXCEPT ![c] = r] PROVE CallInv'
    <3>1. r \in ServerRequests /\ OneWriter(r) /\ Runs(r, executed[c]) /\ r.inner = req[c].inner
      BY <1>0, <1>8, <2>3 DEF SelectDone, ServerRequests, OneWriter, Runs, Outers
    <3>. QED  BY <1>0, <2>1, <2>3, <3>1, ServerRequestStep
  <2>. QED  BY <1>8, <2>3 DEF SelectDone, Update
<1>9. CASE SelectTimeout(c)
  <2>1. timeout' \in Nat /\ req[c].outer = "select" /\ executed' = executed /\ ~req[c].timedOut
    BY <1>0, <1>9 DEF SelectTimeout, OneWriter
  <2>2. ASSUME NEW r, req' = [req EXCEPT ![c] = r],
               r = [req[c] EXCEPT !.outer = IF req[c].wrote THEN "killed" ELSE "done", !.timedOut = TRUE,
                                  !.parts = IF req[c].wrote THEN @ ELSE @ \cup {"504"}]
        PROVE  CallInv'
    <3>0. /\ r.outer \in {"killed", "done"} /\ r.timedOut = TRUE /\ r.inner = req[c].inner
          /\ r.wrote = req[c].wrote /\ r.asks = req[c].asks /\ r.limit = req[c].limit
          /\ r.parts = IF req[c].wrote THEN req[c].parts ELSE req[c].parts \cup {"504"}
      BY <1>0, <2>2 DEF ServerRequests
    <3>a. ~req[c].wrote => req[c].parts = {}
      BY <1>0, <2>1 DEF OneWriter
    <3>1. r \in ServerRequests
      BY <1>0, <2>2, <3>0 DEF ServerRequests, Outers, AnswerCodes
    <3>2. OneWriter(r)
      BY <1>0, <3>0, <3>a DEF OneWriter, AnswerCodes
    <3>3. Runs(r, executed[c])
      <4>1. ("200" \in r.parts <=> "200" \in req[c].parts) /\ ("503" \in r.parts <=> "503" \in req[c].parts)
        BY <3>0
      <4>. QED  BY <1>0, <3>0, <4>1 DEF Runs
    <3>. QED  BY <1>0, <2>1, <2>2, <3>0, <3>1, <3>2, <3>3, ServerRequestStep
  <2>. QED  BY <1>9, <2>2 DEF SelectTimeout, Update
<1>. QED  BY <1>1, <1>2, <1>3, <1>4, <1>5, <1>6, <1>7, <1>8, <1>9

LEMMA ClientSteps ==
  ASSUME CallInv, NEW c \in Calls,
         \/ \E verb \in Verbs, t \in ClientTimeouts : NewRequest(c, verb, t)
         \/ Send(c) \/ SendFails(c) \/ Killed(c) \/ Seek(c)
         \/ \E err \in {"reset", "deadline"} : DoFails(c, err)
         \/ \E p \in AnswerCodes : Answer(c, p)
  PROVE  CallInv'
<1>0. /\ req[c] \in ServerRequests /\ executed[c] \in Nat /\ timeout \in Nat /\ call[c] \in ClientCalls
      /\ OneWriter(req[c]) /\ Runs(req[c], executed[c]) /\ CallGood(call[c], req[c], executed[c])
      /\ executed = [executed EXCEPT ![c] = executed[c]]
      /\ req = [req EXCEPT ![c] = req[c]]
  BY Accepted DEF CallInv
<1>1. ASSUME NEW l \in ClientCalls, call' = [call EXCEPT ![c] = l], UNCHANGED serverVars,
             CallGood(l, req[c], executed[c])
      PROVE  CallInv'
  <2>1. req' = [req EXCEPT ![c] = req[c]] /\ executed' = [executed EXCEPT ![c] = executed[c]] /\ timeout' \in Nat
    BY <1>0, <1>1 DEF serverVars
  <2>. QED  BY <1>0, <1>1, <2>1, CallStep
<1>2. ASSUME NEW result \in {"ok", "error"}, call[c].at \notin {"idle"}, Finish(c, result), UNCHANGED serverVars,
             result = "ok" => executed[c] = 1 /\ call[c].sent = "start"
      PROVE  CallInv'
  <2>. DEFINE l == [call[c] EXCEPT !.at = "done", !.result = result]
  <2>1. call' = [call EXCEPT ![c] = l]
    BY <1>2 DEF Finish, CallInv
  <2>2. l \in ClientCalls /\ l.at = "done" /\ l.result = result /\ l.sent = call[c].sent
    BY <1>0 DEF ClientCalls
  <2>3. CallGood(l, req[c], executed[c])
    BY <1>2, <2>2 DEF CallGood
  <2>. HIDE DEF l
  <2>. QED  BY <1>1, <1>2, <2>1, <2>2, <2>3
<1>3. ASSUME NEW verb \in Verbs, NEW t \in ClientTimeouts, NewRequest(c, verb, t) PROVE CallInv'
  <2>. DEFINE l == [NoCall EXCEPT !.at = "send", !.verb = verb, !.timeout = t]
  <2>1. call' = [call EXCEPT ![c] = l] /\ UNCHANGED serverVars
    BY <1>3 DEF NewRequest
  <2>2. l \in ClientCalls /\ l.at = "send" /\ l.result = "none" /\ l.body = "start"
    BY RestAssumption, ServerAssumption DEF NoCall, ClientCalls
  <2>3. CallGood(l, req[c], executed[c])
    BY <1>0, <1>3, <2>2 DEF CallGood, NewRequest
  <2>. HIDE DEF l
  <2>. QED  BY <1>1, <2>1, <2>2, <2>3
<1>4. CASE Send(c)
  <2>. DEFINE l == [call[c] EXCEPT !.at = "answer", !.sent = call[c].body, !.body = "end"]
              r == [NoRequest EXCEPT !.outer = "set", !.asks = call[c].timeout]
  <2>1. /\ call' = [call EXCEPT ![c] = l] /\ req' = [req EXCEPT ![c] = r] /\ UNCHANGED <<executed, timeout>>
        /\ call[c].at = "send"
    BY <1>4 DEF Send, Accept, Update, CallInv
  <2>2. l \in ClientCalls /\ l.at = "answer" /\ l.result = call[c].result /\ l.sent = call[c].body
    BY <1>0 DEF ClientCalls
  <2>3. call[c].body = "start" /\ executed[c] = 0 /\ call[c].result # "ok"
    BY <1>0, <2>1 DEF CallGood
  <2>4. CallGood(l, r, 0)
    BY <2>2, <2>3 DEF CallGood
  <2>5. r \in ServerRequests /\ OneWriter(r) /\ Runs(r, 0)
    <3>1. /\ r.outer = "set" /\ r.inner = NoRequest.inner /\ r.asks = call[c].timeout
          /\ r.limit = NoRequest.limit /\ r.wrote = NoRequest.wrote /\ r.timedOut = NoRequest.timedOut
          /\ r.parts = NoRequest.parts
      BY DEF NoRequest
    <3>2. call[c].timeout \in Nat
      BY <1>0 DEF ClientCalls
    <3>3. r \in ServerRequests
      BY <3>2, NoRequestGood DEF ServerRequests, Outers
    <3>4. NoRequest.inner = "none" /\ NoRequest.wrote = FALSE /\ NoRequest.timedOut = FALSE /\ NoRequest.parts = {}
      BY DEF NoRequest
    <3>5. OneWriter(r)
      BY <3>1, <3>4 DEF OneWriter
    <3>6. Runs(r, 0)
      BY <3>1, <3>4 DEF Runs
    <3>. QED  BY <3>3, <3>5, <3>6
  <2>. HIDE DEF l, r
  <2>. QED  BY <1>0, <2>1, <2>2, <2>3, <2>4, <2>5, CallStep
<1>5. CASE SendFails(c) \/ Killed(c)
  BY <1>2, <1>5 DEF SendFails, Killed
<1>6. CASE Seek(c)
  <2>. DEFINE l == [call[c] EXCEPT !.at = "send", !.body = "start"]
  <2>1. /\ call' = [call EXCEPT ![c] = l] /\ req' = [req EXCEPT ![c] = NoRequest] /\ UNCHANGED <<executed, timeout>>
        /\ call[c].at = "retry"
    BY <1>6 DEF Seek, CallInv
  <2>2. l \in ClientCalls /\ l.at = "send" /\ l.result = call[c].result /\ l.body = "start"
    BY <1>0 DEF ClientCalls
  <2>3. executed[c] = 0 /\ call[c].result # "ok"
    BY <1>0, <2>1 DEF CallGood
  <2>4. CallGood(l, NoRequest, 0)
    BY <2>2, <2>3 DEF CallGood
  <2>. HIDE DEF l
  <2>. QED  BY <1>0, <2>1, <2>2, <2>3, <2>4, NoRequestGood, CallStep
<1>7. ASSUME NEW err \in {"reset", "deadline"}, DoFails(c, err) PROVE CallInv'
  <2>1. ~Repeats(call[c].verb, err)
    BY DEF Repeats, isConnectionReset
  <2>. QED  BY <1>2, <1>7, <2>1 DEF DoFails
<1>8. ASSUME NEW p \in AnswerCodes, Answer(c, p) PROVE CallInv'
  <2>1. call[c].at = "answer" /\ req[c].parts = {p} /\ UNCHANGED serverVars
    BY <1>8 DEF Answer
  <2>2. CASE p = "503" /\ call[c].retries + 1 < MaxRetries
    <3>. DEFINE l == [call[c] EXCEPT !.at = "retry", !.retries = @ + 1]
    <3>1. call' = [call EXCEPT ![c] = l]
      BY <1>8, <2>2 DEF Answer, CheckWait, CallInv
    <3>a. call[c].retries + 1 \in Nat
      BY <1>0 DEF ClientCalls
    <3>2. l \in ClientCalls /\ l.at = "retry" /\ l.result = call[c].result
      BY <1>0, <3>a DEF ClientCalls
    <3>3. executed[c] = 0 /\ req[c].inner = "end" /\ call[c].result # "ok"
      BY <1>0, <2>1, <2>2 DEF Runs, CallGood
    <3>4. CallGood(l, req[c], executed[c])
      BY <3>2, <3>3 DEF CallGood
    <3>. HIDE DEF l
    <3>. QED  BY <1>1, <2>1, <3>1, <3>2, <3>4
  <2>3. CASE ~(p = "503" /\ call[c].retries + 1 < MaxRetries)
    <3>1. Finish(c, IF p = "200" THEN "ok" ELSE "error")
      BY <1>8, <2>3 DEF Answer, CheckWait
    <3>2. p = "200" => executed[c] = 1
      BY <1>0, <2>1 DEF Runs
    <3>3. call[c].sent = "start"
      BY <1>0, <2>1 DEF CallGood
    <3>. QED  BY <1>2, <2>1, <3>1, <3>2, <3>3
  <2>. QED  BY <2>2, <2>3
<1>. QED  BY <1>3, <1>4, <1>5, <1>6, <1>7, <1>8

LEMMA CallInductive ==
  /\ RestInit => CallInv
  /\ CallInv /\ [RestNext]_restVars => CallInv'
<1>1. ASSUME RestInit PROVE CallInv
  <2>1. /\ req = [c \in Calls |-> NoRequest] /\ executed = [c \in Calls |-> 0] /\ call = [c \in Calls |-> NoCall]
        /\ timeout \in Nat
    BY <1>1, ServerAssumption DEF RestInit, ServerInit
  <2>. QED  BY <2>1, NoRequestGood, NoCallGood DEF CallInv
<1>2. ASSUME CallInv, UNCHANGED <<req, executed, call, timeout>> PROVE CallInv'
  BY <1>2 DEF CallInv
<1>3. ASSUME CallInv, ServerNext, UNCHANGED call PROVE CallInv'
  <2>1. \/ UNCHANGED <<req, executed, timeout>>
        \/ \E c \in Calls : \/ setTimeout(c) \/ timeoutHandler(c) \/ WithWaitGroup(c) \/ WithMaxInFlightLimit(c)
                            \/ Execute(c) \/ Reply(c) \/ ReturnInner(c) \/ SelectDone(c) \/ SelectTimeout(c)
    BY <1>3 DEF ServerNext, AddPostStartHook, runPostStartHook, PrepareRun, NonBlockingRun, Stop, Shutdown,
                MarkWait, WaitReturns, RunPreShutdownHooks, HandlerPanics
  <2>. QED  BY <1>2, <1>3, <2>1, RequestSteps
<1>4. ASSUME CallInv, RestNext PROVE CallInv'
  BY <1>3, <1>4, ClientSteps DEF RestNext, AnswerCodes
<1>. QED  BY <1>1, <1>2, <1>4 DEF restVars, serverVars

\* Calls (CallsSound), for every number of calls, slots and retries: a call is executed at most
\* once although the client repeats it, a caller that is told of success has had it executed with
\* the whole body, and a request gets one answer (Request.Do, checkWait, WithTimeoutFilter,
\* WithWaitGroup, WithMaxInFlightLimit).
THEOREM CallsAlways == RestInit /\ [][RestNext]_restVars => []CallsSound
<1>1. RestInit => CallInv
  BY CallInductive
<1>2. CallInv /\ [RestNext]_restVars => CallInv'
  BY CallInductive
<1>3. ASSUME CallInv PROVE CallsSound
  <2>1. ASSUME NEW c \in Calls
        PROVE  executed[c] <= 1 /\ (call[c].result = "ok" => executed[c] = 1 /\ call[c].sent = "start")
    <3>1. Runs(req[c], executed[c]) /\ CallGood(call[c], req[c], executed[c])
      BY <1>3 DEF CallInv
    <3>2. executed[c] = 0 \/ executed[c] = 1
      BY <3>1 DEF Runs
    <3>3. executed[c] <= 1
      BY <3>2
    <3>4. call[c].result = "ok" => executed[c] = 1 /\ call[c].sent = "start"
      BY <3>1 DEF CallGood
    <3>. QED  BY <3>3, <3>4
  <2>2. ASSUME NEW c \in Calls PROVE Cardinality(req[c].parts) <= 1
    <3>1. req[c].parts = {} \/ \E p \in AnswerCodes : req[c].parts = {p}
      BY <1>3 DEF CallInv, OneWriter
    <3>2. CASE req[c].parts = {}
      BY <3>2, FS_EmptySet
    <3>3. ASSUME NEW p \in AnswerCodes, req[c].parts = {p} PROVE Cardinality(req[c].parts) <= 1
      BY <3>3, FS_Singleton
    <3>. QED  BY <3>1, <3>2, <3>3
  <2>. QED  BY <2>1, <2>2 DEF CallsSound, AtMostOnce, SuccessIsExecuted, OneAnswer
<1>. QED  BY <1>1, <1>2, <1>3, PTL

-----------------------------------------------------------------------------
(* The generic server's counters, hooks and shutdown *)

Inside(places) == {c \in Calls : req[c].inner \in places}

ServerInv ==
  /\ postStart \in [Hooks -> [is : {"none", "added", "running", "done"}, early : BOOLEAN]]
  /\ wg \in [count : Int, wait : BOOLEAN]
  /\ IsFiniteSet(Inside(Grouped)) /\ wg.count = Cardinality(Inside(Grouped))
  /\ IsFiniteSet(Inside(Slotted)) /\ inFlight = Cardinality(Inside(Slotted))
  /\ inFlight <= MaxRequestsInFlight
  /\ \A h \in Hooks : postStart[h].early => h \in healthzChecks
  /\ main = "returned" /\ ~hookFailed => Inside(Grouped) = {}

\* One request moves, or none.
LEMMA InsideMoves ==
  ASSUME NEW places, NEW c \in Calls, NEW r, req \in [Calls -> ServerRequests],
         req' = [req EXCEPT ![c] = r], IsFiniteSet(Inside(places))
  PROVE  /\ IsFiniteSet(Inside(places)')
         /\ r.inner \in places /\ req[c].inner \notin places =>
              Cardinality(Inside(places)') = Cardinality(Inside(places)) + 1
         /\ r.inner \notin places /\ req[c].inner \in places =>
              Cardinality(Inside(places)') = Cardinality(Inside(places)) - 1
         /\ (r.inner \in places <=> req[c].inner \in places) => Inside(places)' = Inside(places)
<1>1. \A d \in Calls : req'[d] = IF d = c THEN r ELSE req[d]
  OBVIOUS
<1>2. CASE r.inner \in places /\ req[c].inner \notin places
  <2>1. Inside(places)' = Inside(places) \cup {c} /\ c \notin Inside(places)
    BY <1>1, <1>2 DEF Inside
  <2>. QED  BY <1>2, <2>1, FS_AddElement
<1>3. CASE r.inner \notin places /\ req[c].inner \in places
  <2>1. Inside(places)' = Inside(places) \ {c} /\ c \in Inside(places)
    BY <1>1, <1>3 DEF Inside
  <2>. QED  BY <1>3, <2>1, FS_RemoveElement
<1>4. CASE r.inner \in places <=> req[c].inner \in places
  <2>1. Inside(places)' = Inside(places)
    BY <1>1, <1>4 DEF Inside
  <2>. QED  BY <1>4, <2>1
<1>. QED  BY <1>2, <1>3, <1>4

\* A step in one request that keeps the hooks: the counters follow the handler.
LEMMA CountedStep ==
  ASSUME ServerInv, CallInv, NEW c \in Calls, NEW r, req' = [req EXCEPT ![c] = r],
         UNCHANGED <<main, postStart, healthzChecks, hookFailed>>, Alive \/ r.inner = req[c].inner,
         wg' \in [count : Int, wait : BOOLEAN],
         wg'.count = wg.count + (IF r.inner \in Grouped THEN 1 ELSE 0) - (IF req[c].inner \in Grouped THEN 1 ELSE 0),
         inFlight' = inFlight + (IF r.inner \in Slotted THEN 1 ELSE 0) - (IF req[c].inner \in Slotted THEN 1 ELSE 0),
         r.inner \in Slotted /\ req[c].inner \notin Slotted => inFlight < MaxRequestsInFlight
  PROVE  ServerInv'
<1>0. req \in [Calls -> ServerRequests] /\ MaxRequestsInFlight \in Nat
  BY ServerAssumption DEF CallInv
<1>1. Cardinality(Inside(Grouped)) \in Nat /\ Cardinality(Inside(Slotted)) \in Nat /\ wg.count \in Int
  BY FS_CardinalityType DEF ServerInv
<1>2. IsFiniteSet(Inside(Grouped)') /\ wg'.count = Cardinality(Inside(Grouped)')
  <2>1. IsFiniteSet(Inside(Grouped))
    BY DEF ServerInv
  <2>2. CASE r.inner \in Grouped /\ req[c].inner \notin Grouped
    <3>1. IsFiniteSet(Inside(Grouped)') /\ Cardinality(Inside(Grouped)') = Cardinality(Inside(Grouped)) + 1
      BY <1>0, <2>1, <2>2, InsideMoves
    <3>2. wg'.count = wg.count + 1
      BY <1>1, <2>2
    <3>. QED  BY <3>1, <3>2 DEF ServerInv
  <2>3. CASE r.inner \notin Grouped /\ req[c].inner \in Grouped
    <3>1. IsFiniteSet(Inside(Grouped)') /\ Cardinality(Inside(Grouped)') = Cardinality(Inside(Grouped)) - 1
      BY <1>0, <2>1, <2>3, InsideMoves
    <3>2. wg'.count = wg.count - 1
      BY <1>1, <2>3
    <3>. QED  BY <3>1, <3>2 DEF ServerInv
  <2>4. CASE r.inner \in Grouped <=> req[c].inner \in Grouped
    <3>1. wg'.count = wg.count
      BY <1>1, <2>4
    <3>. QED  BY <1>0, <2>1, <2>4, <3>1, InsideMoves DEF ServerInv
  <2>. QED  BY <2>2, <2>3, <2>4
<1>3. IsFiniteSet(Inside(Slotted)') /\ inFlight' = Cardinality(Inside(Slotted)') /\ inFlight' <= MaxRequestsInFlight
  <2>1. IsFiniteSet(Inside(Slotted)) /\ inFlight = Cardinality(Inside(Slotted)) /\ inFlight <= MaxRequestsInFlight
    BY DEF ServerInv
  <2>2. CASE r.inner \in Slotted /\ req[c].inner \notin Slotted
    <3>1. IsFiniteSet(Inside(Slotted)') /\ Cardinality(Inside(Slotted)') = Cardinality(Inside(Slotted)) + 1
      BY <1>0, <2>1, <2>2, InsideMoves
    <3>2. inFlight' = inFlight + 1 /\ inFlight < MaxRequestsInFlight
      BY <1>1, <2>1, <2>2
    <3>. QED  BY <1>0, <1>1, <2>1, <3>1, <3>2
  <2>3. CASE r.inner \notin Slotted /\ req[c].inner \in Slotted
    <3>1. IsFiniteSet(Inside(Slotted)') /\ Cardinality(Inside(Slotted)') = Cardinality(Inside(Slotted)) - 1
      BY <1>0, <2>1, <2>3, InsideMoves
    <3>2. inFlight' = inFlight - 1
      BY <1>1, <2>1, <2>3
    <3>. QED  BY <1>0, <1>1, <2>1, <3>1, <3>2
  <2>4. CASE r.inner \in Slotted <=> req[c].inner \in Slotted
    <3>1. inFlight' = inFlight
      BY <1>1, <2>1, <2>4
    <3>. QED  BY <1>0, <2>1, <2>4, <3>1, InsideMoves
  <2>. QED  BY <2>2, <2>3, <2>4
<1>4. main' = "returned" /\ ~hookFailed' => Inside(Grouped)' = {}
  <2>1. CASE Alive
    BY <2>1 DEF Alive
  <2>2. CASE r.inner = req[c].inner
    <3>1. Inside(Grouped)' = Inside(Grouped)
      BY <1>0, <2>2, InsideMoves DEF ServerInv
    <3>. QED  BY <3>1 DEF ServerInv
  <2>. QED  BY <2>1, <2>2
<1>. QED  BY <1>2, <1>3, <1>4 DEF ServerInv

LEMMA CountedSteps ==
  ASSUME ServerInv, CallInv, NEW c \in Calls,
         \/ setTimeout(c) \/ timeoutHandler(c) \/ WithWaitGroup(c) \/ WithMaxInFlightLimit(c)
         \/ Execute(c) \/ Reply(c) \/ ReturnInner(c) \/ SelectDone(c) \/ SelectTimeout(c)
         \/ Send(c) \/ Seek(c)
  PROVE  ServerInv'
<1>0. /\ req[c] \in ServerRequests /\ OneWriter(req[c]) /\ CallGood(call[c], req[c], executed[c])
      /\ wg \in [count : Int, wait : BOOLEAN] /\ inFlight \in Int
  <2>1. inFlight \in Int
    BY FS_CardinalityType DEF ServerInv
  <2>. QED  BY <2>1, Accepted DEF ServerInv
<1>k. ASSUME NEW r, req' = [req EXCEPT ![c] = r], UNCHANGED <<main, postStart, healthzChecks, hookFailed, wg, inFlight>>,
             Alive \/ r.inner = req[c].inner, r.inner \in Grouped <=> req[c].inner \in Grouped,
             r.inner \in Slotted <=> req[c].inner \in Slotted
      PROVE  ServerInv'
  <2>1. /\ wg'.count = wg.count + (IF r.inner \in Grouped THEN 1 ELSE 0) - (IF req[c].inner \in Grouped THEN 1 ELSE 0)
        /\ inFlight' = inFlight + (IF r.inner \in Slotted THEN 1 ELSE 0) - (IF req[c].inner \in Slotted THEN 1 ELSE 0)
    BY <1>0, <1>k
  <2>. QED  BY <1>0, <1>k, <2>1, CountedStep
<1>1. CASE setTimeout(c) \/ timeoutHandler(c) \/ Execute(c) \/ SelectDone(c) \/ SelectTimeout(c) \/ Reply(c)
  <2>1. /\ UNCHANGED <<main, postStart, healthzChecks, hookFailed, wg, inFlight>> /\ Alive
    BY <1>1 DEF setTimeout, timeoutHandler, Execute, SelectDone, SelectTimeout, Reply
  <2>2. PICK r : /\ req' = [req EXCEPT ![c] = r]
                 /\ \/ r.inner = req[c].inner
                    \/ r.inner = "wait group" /\ req[c].inner = "none"
                    \/ r.inner = "reply" /\ req[c].inner = "handler"
                    \/ r.inner = "return" /\ req[c].inner = "reply"
    <3>1. CASE setTimeout(c)
      <4>1. [req[c] EXCEPT !.outer = "read"].inner = req[c].inner
        BY <1>0 DEF ServerRequests
      <4>. QED  BY <3>1, <4>1 DEF setTimeout, Update
    <3>2. CASE timeoutHandler(c)
      <4>1. [req[c] EXCEPT !.outer = "select", !.inner = "wait group", !.limit = timeout].inner = "wait group"
        BY <1>0 DEF ServerRequests
      <4>2. req[c].inner = "none"
        BY <1>0, <3>2 DEF timeoutHandler, OneWriter
      <4>. QED  BY <3>2, <4>1, <4>2 DEF timeoutHandler, Update
    <3>3. CASE Execute(c)
      <4>1. [req[c] EXCEPT !.inner = "reply"].inner = "reply"
        BY <1>0 DEF ServerRequests
      <4>. QED  BY <3>3, <4>1 DEF Execute, Update
    <3>4. CASE SelectDone(c)
      <4>1. [req[c] EXCEPT !.outer = "done"].inner = req[c].inner
        BY <1>0 DEF ServerRequests
      <4>. QED  BY <3>4, <4>1 DEF SelectDone, Update
    <3>5. CASE SelectTimeout(c)
      <4>1. ASSUME NEW o, NEW ps PROVE [req[c] EXCEPT !.outer = o, !.timedOut = TRUE, !.parts = ps].inner = req[c].inner
        BY <1>0 DEF ServerRequests
      <4>2. \E o, ps : req' = [req EXCEPT ![c] = [req[c] EXCEPT !.outer = o, !.timedOut = TRUE, !.parts = ps]]
        BY <3>5 DEF SelectTimeout, Update
      <4>3. PICK o, ps : req' = [req EXCEPT ![c] = [req[c] EXCEPT !.outer = o, !.timedOut = TRUE, !.parts = ps]]
        BY <4>2
      <4>4. [req[c] EXCEPT !.outer = o, !.timedOut = TRUE, !.parts = ps].inner = req[c].inner
        BY <4>1
      <4>. QED  BY <4>3, <4>4
    <3>6. CASE Reply(c)
      <4>1. "200" \in AnswerCodes /\ "return" \in {"return", "end"} /\ req[c].inner = "reply"
        BY <3>6 DEF AnswerCodes, Reply
      <4>2. WrittenTo(c, "200", "return").inner = "return"
        BY <1>0, <4>1, WrittenGood
      <4>. QED  BY <3>6, <4>1, <4>2 DEF Reply, Update, WrittenTo
    <3>. QED  BY <1>1, <3>1, <3>2, <3>3, <3>4, <3>5, <3>6
  <2>3. (r.inner \in Grouped <=> req[c].inner \in Grouped) /\ (r.inner \in Slotted <=> req[c].inner \in Slotted)
    BY <2>2 DEF Grouped, Slotted
  <2>. QED  BY <1>k, <2>1, <2>2, <2>3
<1>2. CASE WithWaitGroup(c)
  <2>1. req[c].inner = "wait group" /\ Alive /\ UNCHANGED <<main, postStart, healthzChecks, hookFailed, inFlight>>
    BY <1>2 DEF WithWaitGroup
  <2>2. CASE wg.wait
    <3>1. "500" \in AnswerCodes /\ "end" \in {"return", "end"} /\ req[c].inner \in {"wait group", "limit", "reply"}
      BY <2>1 DEF AnswerCodes
    <3>2. WrittenTo(c, "500", "end").inner = "end"
      BY <1>0, <3>1, WrittenGood
    <3>3. PICK r : req' = [req EXCEPT ![c] = r] /\ r.inner = "end" /\ UNCHANGED wg
      BY <1>2, <2>2, <3>2 DEF WithWaitGroup, Update, WrittenTo
    <3>4. (r.inner \in Grouped <=> req[c].inner \in Grouped) /\ (r.inner \in Slotted <=> req[c].inner \in Slotted)
      BY <2>1, <3>3 DEF Grouped, Slotted
    <3>. QED  BY <1>k, <2>1, <3>3, <3>4
  <2>3. CASE ~wg.wait
    <3>1. [req[c] EXCEPT !.inner = "limit"].inner = "limit"
      BY <1>0 DEF ServerRequests
    <3>2. PICK r : req' = [req EXCEPT ![c] = r] /\ r.inner = "limit" /\ wg' = [wg EXCEPT !.count = @ + 1]
      BY <1>2, <2>3, <3>1 DEF WithWaitGroup, Update
    <3>3. wg' \in [count : Int, wait : BOOLEAN] /\ wg'.count = wg.count + 1 /\ wg.count \in Int
      BY <1>0, <3>2
    <3>4. r.inner \in Grouped /\ req[c].inner \notin Grouped /\ r.inner \notin Slotted /\ req[c].inner \notin Slotted
      BY <2>1, <3>2 DEF Grouped, Slotted
    <3>a. wg'.count = wg.count + 1 - 0
      BY <3>3
    <3>5. wg'.count = wg.count + 1 - 0 /\ inFlight' = inFlight + 0 - 0
      <4>1. inFlight' = inFlight
        BY <2>1
      <4>2. inFlight \in Int
        BY <1>0
      <4>. QED  BY <3>a, <4>1, <4>2
    <3>. QED  BY <1>0, <2>1, <3>2, <3>3, <3>4, <3>5, CountedStep
  <2>. QED  BY <2>2, <2>3
<1>3. CASE WithMaxInFlightLimit(c)
  <2>1. req[c].inner = "limit" /\ Alive /\ UNCHANGED <<main, postStart, healthzChecks, hookFailed>>
    BY <1>3 DEF WithMaxInFlightLimit
  <2>2. CASE inFlight < MaxRequestsInFlight
    <3>1. [req[c] EXCEPT !.inner = "handler"].inner = "handler"
      BY <1>0 DEF ServerRequests
    <3>2. PICK r : req' = [req EXCEPT ![c] = r] /\ r.inner = "handler" /\ wg' = wg /\ inFlight' = inFlight + 1
      BY <1>3, <2>2, <3>1 DEF WithMaxInFlightLimit, Update
    <3>3. wg.count \in Int
      BY <1>0
    <3>4. r.inner \in Grouped /\ req[c].inner \in Grouped /\ r.inner \in Slotted /\ req[c].inner \notin Slotted
      BY <2>1, <3>2 DEF Grouped, Slotted
    <3>5. wg'.count = wg.count + 1 - 1 /\ inFlight' = inFlight + 1 - 0
      BY <1>0, <3>2, <3>3
    <3>. QED  BY <1>0, <2>1, <2>2, <3>2, <3>4, <3>5, CountedStep
  <2>3. CASE ~(inFlight < MaxRequestsInFlight)
    <3>1. "503" \in AnswerCodes /\ "end" \in {"return", "end"} /\ req[c].inner \in {"wait group", "limit", "reply"}
      BY <2>1 DEF AnswerCodes
    <3>2. WrittenTo(c, "503", "end").inner = "end"
      BY <1>0, <3>1, WrittenGood
    <3>3. PICK r : /\ req' = [req EXCEPT ![c] = r] /\ r.inner = "end" /\ inFlight' = inFlight
                   /\ wg' = [wg EXCEPT !.count = @ - 1]
      BY <1>3, <2>3, <3>2 DEF WithMaxInFlightLimit, Update, WrittenTo
    <3>4. wg' \in [count : Int, wait : BOOLEAN] /\ wg'.count = wg.count - 1 /\ wg.count \in Int
      BY <1>0, <3>3
    <3>5. r.inner \notin Grouped /\ req[c].inner \in Grouped /\ r.inner \notin Slotted /\ req[c].inner \notin Slotted
      BY <2>1, <3>3 DEF Grouped, Slotted
    <3>6. wg'.count = wg.count + 0 - 1 /\ inFlight' = inFlight + 0 - 0
      BY <1>0, <3>3, <3>4
    <3>. QED  BY <1>0, <2>1, <3>3, <3>4, <3>5, <3>6, CountedStep
  <2>. QED  BY <2>2, <2>3
<1>4. CASE ReturnInner(c)
  <2>1. req[c].inner = "return" /\ Alive /\ UNCHANGED <<main, postStart, healthzChecks, hookFailed>>
    BY <1>4 DEF ReturnInner
  <2>2. [req[c] EXCEPT !.inner = "end"].inner = "end"
    BY <1>0 DEF ServerRequests
  <2>3. PICK r : /\ req' = [req EXCEPT ![c] = r] /\ r.inner = "end" /\ inFlight' = inFlight - 1
                 /\ wg' = [wg EXCEPT !.count = @ - 1]
    BY <1>4, <2>2 DEF ReturnInner, Update
  <2>4. wg' \in [count : Int, wait : BOOLEAN] /\ wg'.count = wg.count - 1 /\ wg.count \in Int
    BY <1>0, <2>3
  <2>5. r.inner \notin Grouped /\ req[c].inner \in Grouped /\ r.inner \notin Slotted /\ req[c].inner \in Slotted
    BY <2>1, <2>3 DEF Grouped, Slotted
  <2>6. wg'.count = wg.count + 0 - 1 /\ inFlight' = inFlight + 0 - 1
    BY <1>0, <2>3, <2>4
  <2>. QED  BY <1>0, <2>1, <2>3, <2>4, <2>5, <2>6, CountedStep
<1>5. CASE Send(c)
  <2>1. UNCHANGED <<main, postStart, healthzChecks, hookFailed, wg, inFlight>> /\ Alive /\ req[c].inner = "none"
    BY <1>0, <1>5 DEF Send, Accept, OneWriter
  <2>2. [NoRequest EXCEPT !.outer = "set", !.asks = call[c].timeout].inner = "none"
    BY DEF NoRequest
  <2>3. PICK r : req' = [req EXCEPT ![c] = r] /\ r.inner = req[c].inner
    BY <1>5, <2>1, <2>2 DEF Send, Accept, Update
  <2>. QED  BY <1>k, <2>1, <2>3
<1>6. CASE Seek(c)
  <2>1. UNCHANGED <<main, postStart, healthzChecks, hookFailed, wg, inFlight>> /\ req[c].inner = "end"
    BY <1>0, <1>6 DEF Seek, CallGood
  <2>2. NoRequest.inner = "none" /\ req' = [req EXCEPT ![c] = NoRequest]
    BY <1>6 DEF NoRequest, Seek
  <2>3. "none" \notin Grouped \cup Slotted /\ "end" \notin Grouped \cup Slotted
    BY DEF Grouped, Slotted
  <2>4. CASE Alive
    BY <1>k, <2>1, <2>2, <2>3, <2>4
  <2>5. CASE ~Alive
    <3>1. Inside(Grouped)' = Inside(Grouped) /\ Inside(Slotted)' = Inside(Slotted)
      BY <2>1, <2>2, <2>3, InsideMoves, ZenonT(40) DEF ServerInv, CallInv
    <3>. QED  BY <2>1, <3>1 DEF ServerInv
  <2>. QED  BY <2>4, <2>5
<1>. QED  BY <1>1, <1>2, <1>3, <1>4, <1>5, <1>6

LEMMA ServerInductive ==
  /\ RestInit => ServerInv
  /\ CallInv /\ ServerInv /\ [RestNext]_restVars => ServerInv'
<1>1. ASSUME RestInit PROVE ServerInv
  <2>1. /\ req = [c \in Calls |-> NoRequest] /\ wg = [count |-> 0, wait |-> FALSE] /\ inFlight = 0
        /\ main = "new" /\ postStart = [h \in Hooks |-> [is |-> "none", early |-> FALSE]]
    BY <1>1 DEF RestInit, ServerInit
  <2>2. Inside(Grouped) = {} /\ Inside(Slotted) = {}
    BY <2>1 DEF Inside, NoRequest, Grouped, Slotted
  <2>3. IsFiniteSet({}) /\ Cardinality({}) = 0
    BY FS_EmptySet
  <2>4. 0 <= MaxRequestsInFlight
    BY ServerAssumption
  <2>. QED  BY <2>1, <2>2, <2>3, <2>4 DEF ServerInv
<1>2. ASSUME ServerInv, UNCHANGED <<req, wg, inFlight, postStart, healthzChecks>>,
             main' = "returned" /\ ~hookFailed' => Inside(Grouped) = {}
      PROVE  ServerInv'
  <2>1. Inside(Grouped)' = Inside(Grouped) /\ Inside(Slotted)' = Inside(Slotted)
    BY <1>2 DEF Inside
  <2>. QED  BY <1>2, <2>1 DEF ServerInv
<1>3. ASSUME ServerInv, UNCHANGED <<req, wg, inFlight>>, main' # "returned",
             \A h \in Hooks : postStart'[h].early => h \in healthzChecks',
             postStart' \in [Hooks -> [is : {"none", "added", "running", "done"}, early : BOOLEAN]]
      PROVE  ServerInv'
  <2>1. Inside(Grouped)' = Inside(Grouped) /\ Inside(Slotted)' = Inside(Slotted)
    BY <1>3 DEF Inside
  <2>. QED  BY <1>3, <2>1 DEF ServerInv
<1>4. ASSUME ServerInv, NEW h \in Hooks, AddPostStartHook(h) PROVE ServerInv'
  <2>1. /\ UNCHANGED <<req, wg, inFlight>> /\ main' \in {"new", "prepared"}
        /\ postStart' = [postStart EXCEPT ![h] = [is |-> "added", early |-> main = "new"]]
        /\ healthzChecks \subseteq healthzChecks' /\ (main = "new" => h \in healthzChecks')
    BY <1>4 DEF AddPostStartHook
  <2>2. postStart' \in [Hooks -> [is : {"none", "added", "running", "done"}, early : BOOLEAN]]
    BY <1>4, <2>1 DEF ServerInv
  <2>3. ASSUME NEW g \in Hooks, postStart'[g].early PROVE g \in healthzChecks'
    <3>1. CASE g = h
      BY <1>4, <2>1, <2>3, <3>1 DEF ServerInv
    <3>2. CASE g # h
      BY <1>4, <2>1, <2>3, <3>2 DEF ServerInv
    <3>. QED  BY <3>1, <3>2
  <2>. QED  BY <1>3, <1>4, <2>1, <2>2, <2>3
<1>5. ASSUME ServerInv, NEW h \in Hooks, runPostStartHook(h) PROVE ServerInv'
  <2>1. UNCHANGED <<req, wg, inFlight, healthzChecks>> /\ main' # "returned"
    BY <1>5 DEF runPostStartHook, Alive
  <2>2. CASE UNCHANGED postStart
    BY <1>3, <1>5, <2>1, <2>2 DEF ServerInv
  <2>3. CASE postStart' = [postStart EXCEPT ![h].is = "done"]
    <3>1. postStart' \in [Hooks -> [is : {"none", "added", "running", "done"}, early : BOOLEAN]]
      BY <1>5, <2>3 DEF ServerInv
    <3>2. ASSUME NEW g \in Hooks PROVE postStart'[g].early = postStart[g].early
      BY <1>5, <2>3 DEF ServerInv
    <3>. QED  BY <1>3, <1>5, <2>1, <3>1, <3>2 DEF ServerInv
  <2>. QED  BY <1>5, <2>2, <2>3 DEF runPostStartHook
<1>6. ASSUME ServerInv, NonBlockingRun PROVE ServerInv'
  <2>1. UNCHANGED <<req, wg, inFlight, healthzChecks>> /\ main' # "returned"
    BY <1>6 DEF NonBlockingRun
  <2>2. ASSUME NEW g \in Hooks
        PROVE  /\ postStart'[g] \in [is : {"none", "added", "running", "done"}, early : BOOLEAN]
               /\ postStart'[g].early = postStart[g].early
    <3>1. postStart[g] \in [is : {"none", "added", "running", "done"}, early : BOOLEAN]
      BY <1>6 DEF ServerInv
    <3>2. CASE postStart[g].is = "none"
      BY <1>6, <3>1, <3>2 DEF NonBlockingRun
    <3>3. CASE postStart[g].is # "none"
      <4>1. postStart'[g] = [postStart[g] EXCEPT !.is = "running"]
        BY <1>6, <3>3 DEF NonBlockingRun
      <4>. QED  BY <3>1, <4>1
    <3>. QED  BY <3>2, <3>3
  <2>3. postStart' \in [Hooks -> [is : {"none", "added", "running", "done"}, early : BOOLEAN]]
    BY <1>6, <2>2 DEF NonBlockingRun
  <2>. QED  BY <1>3, <1>6, <2>1, <2>2, <2>3 DEF ServerInv
<1>7. ASSUME ServerInv, PrepareRun \/ Stop \/ Shutdown \/ \E c \in Calls : HandlerPanics(c) PROVE ServerInv'
  <2>1. UNCHANGED <<req, wg, inFlight, healthzChecks, postStart>> /\ main' # "returned"
    BY <1>7 DEF PrepareRun, Stop, Shutdown, HandlerPanics
  <2>. QED  BY <1>2, <1>7, <2>1
<1>8. ASSUME ServerInv, MarkWait PROVE ServerInv'
  <2>1. UNCHANGED <<req, inFlight, healthzChecks, postStart>> /\ main' # "returned" /\ wg' = [wg EXCEPT !.wait = TRUE]
    BY <1>8 DEF MarkWait
  <2>2. wg' \in [count : Int, wait : BOOLEAN] /\ wg'.count = wg.count
    BY <1>8, <2>1 DEF ServerInv
  <2>3. Inside(Grouped)' = Inside(Grouped) /\ Inside(Slotted)' = Inside(Slotted)
    BY <2>1 DEF Inside
  <2>. QED  BY <1>8, <2>1, <2>2, <2>3 DEF ServerInv
<1>9. ASSUME ServerInv, WaitReturns PROVE ServerInv'
  <2>1. UNCHANGED <<req, wg, inFlight, healthzChecks, postStart>> /\ wg.count = 0
    BY <1>9 DEF WaitReturns
  <2>2. Inside(Grouped) = {}
    BY <1>9, <2>1, FS_EmptySet DEF ServerInv
  <2>. QED  BY <1>2, <1>9, <2>1, <2>2
<1>10. ASSUME ServerInv, NEW failed \in BOOLEAN, RunPreShutdownHooks(failed) PROVE ServerInv'
  <2>1. UNCHANGED <<req, wg, inFlight, healthzChecks, postStart>> /\ (main' = "returned" => hookFailed')
    BY <1>10 DEF RunPreShutdownHooks
  <2>. QED  BY <1>2, <1>10, <2>1
<1>11. ASSUME CallInv, ServerInv, ServerNext PROVE ServerInv'
  BY <1>4, <1>5, <1>6, <1>7, <1>8, <1>9, <1>10, <1>11, CountedSteps DEF ServerNext
<1>12. ASSUME ServerInv, UNCHANGED serverVars PROVE ServerInv'
  BY <1>2, <1>12 DEF serverVars, ServerInv
<1>13. ASSUME CallInv, ServerInv, RestNext PROVE ServerInv'
  <2>1. \/ ServerNext \/ UNCHANGED serverVars
        \/ \E c \in Calls : Send(c) \/ Seek(c)
    BY <1>13 DEF RestNext, NewRequest, SendFails, Killed, DoFails, Answer
  <2>. QED  BY <1>11, <1>12, <1>13, <2>1, CountedSteps
<1>. QED  BY <1>1, <1>12, <1>13 DEF restVars

-----------------------------------------------------------------------------
(* The mux *)

\* s is an order of the prefixes by priority.
InOrder(s, prefixes) ==
  /\ s \in [1..Cardinality(prefixes) -> prefixes]
  /\ Range(s) = prefixes
  /\ \A i, j \in DOMAIN s : i < j => ~byPrefixPriority(s[j], s[i])

\* Every finite set of paths can be sorted: take a shortest path of a smallest set that
\* cannot, and put it at the end.
LEMMA SortedExists ==
  ASSUME NEW S, IsFiniteSet(S), S \subseteq Seq(STRING)
  PROVE  \E s : InOrder(s, S)
<1>. DEFINE Bad == {n \in Nat : \E P \in SUBSET Seq(STRING) :
                      IsFiniteSet(P) /\ Cardinality(P) = n /\ ~\E s : InOrder(s, P)}
<1>. SUFFICES Bad = {}
  <2>1. Cardinality(S) \in Nat
    BY FS_CardinalityType
  <2>. QED  BY <2>1
<1>. SUFFICES ASSUME Bad # {} PROVE FALSE
  OBVIOUS
<1>1. PICK n \in Bad : \A m \in Bad : n <= m
  <2>1. Bad \subseteq Nat
    OBVIOUS
  <2>. HIDE DEF Bad
  <2>. QED  BY <2>1, LeastElement
<1>2. PICK P \in SUBSET Seq(STRING) : IsFiniteSet(P) /\ Cardinality(P) = n /\ ~\E s : InOrder(s, P)
  BY <1>1
<1>3. P # {}
  <2>1. ASSUME P = {} PROVE FALSE
    <3>1. n = 0
      BY <1>2, <2>1, FS_EmptySet
    <3>2. 1..Cardinality(P) = {} /\ DOMAIN << >> = {} /\ << >> \in [{} -> {}]
      BY <1>2, <3>1
    <3>3. InOrder(<< >>, P)
      BY <2>1, <3>2 DEF InOrder, Range
    <3>. QED  BY <1>2, <3>3
  <2>. QED  BY <2>1
<1>4. PICK x \in P : \A y \in P : Len(x) <= Len(y)
  <2>. DEFINE T == {Len(p) : p \in P}
  <2>1. T \subseteq Nat /\ T # {}
    <3>1. \A p \in P : Len(p) \in Nat
      BY <1>2
    <3>. QED  BY <1>3, <3>1
  <2>2. PICK l \in T : \A m \in T : l <= m
    <3>. HIDE DEF T
    <3>. QED  BY <2>1, LeastElement
  <2>. QED  BY <2>2
<1>. DEFINE Q == P \ {x}
<1>5. IsFiniteSet(Q) /\ Cardinality(Q) = n - 1 /\ n - 1 \in Nat /\ Q \in SUBSET Seq(STRING)
  <2>1. IsFiniteSet(Q) /\ Cardinality(Q) = n - 1 /\ Cardinality(Q) \in Nat
    BY <1>2, <1>4, FS_RemoveElement, FS_CardinalityType
  <2>. QED  BY <1>2, <2>1
<1>6. PICK s : InOrder(s, Q)
  <2>1. n - 1 \notin Bad
    <3>1. n \in Nat
      BY <1>1
    <3>2. ~(n <= n - 1)
      BY <3>1
    <3>. HIDE DEF Bad
    <3>. QED  BY <1>1, <3>2
  <2>. HIDE DEF Q
  <2>. QED  BY <1>5, <2>1
<1>. DEFINE t == [i \in 1..n |-> IF i = n THEN x ELSE s[i]]
<1>7. /\ n \in Nat \ {0} /\ \A i \in 1..(n - 1) : s[i] \in P /\ s[i] # x
      /\ DOMAIN s = 1..(n - 1) /\ \A p \in P : p # x => \E i \in 1..(n - 1) : s[i] = p
  <2>1. n \in Nat
    BY <1>1
  <2>2. DOMAIN s = 1..(n - 1) /\ \A i \in 1..(n - 1) : s[i] \in Q
    BY <1>5, <1>6 DEF InOrder
  <2>3. \A p \in Q : \E i \in 1..(n - 1) : s[i] = p
    BY <1>6, <2>2 DEF InOrder, Range
  <2>. QED  BY <1>5, <2>1, <2>2, <2>3
<1>8. InOrder(t, P)
  <2>1. DOMAIN t = 1..n /\ t[n] = x /\ \A i \in 1..n : i # n => i \in 1..(n - 1) /\ t[i] = s[i]
    BY <1>7
  <2>. HIDE DEF t
  <2>2. \A i \in 1..n : t[i] \in P
    BY <1>7, <2>1
  <2>3. t \in [1..Cardinality(P) -> P]
    BY <1>2, <2>1, <2>2 DEF t
  <2>4. Range(t) = P
    <3>1. ASSUME NEW p \in P PROVE \E i \in 1..n : t[i] = p
      <4>1. CASE p = x
        BY <1>7, <2>1, <4>1
      <4>2. CASE p # x
        <5>1. PICK i \in 1..(n - 1) : s[i] = p
          BY <1>7, <4>2
        <5>2. i \in 1..n /\ i # n
          BY <1>7
        <5>. QED  BY <2>1, <5>1, <5>2
      <4>. QED  BY <4>1, <4>2
    <3>. QED  BY <2>1, <2>2, <3>1 DEF Range
  <2>5. ASSUME NEW i \in 1..n, NEW j \in 1..n, i < j PROVE ~byPrefixPriority(t[j], t[i])
    <3>1. i # n /\ i \in 1..(n - 1) /\ t[i] = s[i] /\ s[i] \in P
      <4>1. i # n
        BY <1>7, <2>5
      <4>. QED  BY <1>7, <2>1, <4>1
    <3>2. CASE j = n
      <4>1. Len(x) <= Len(s[i]) /\ Len(x) \in Nat /\ Len(s[i]) \in Nat
        BY <1>2, <1>4, <3>1
      <4>. QED  BY <2>1, <3>1, <3>2, <4>1 DEF byPrefixPriority
    <3>3. CASE j # n
      <4>1. j \in 1..(n - 1) /\ t[j] = s[j]
        BY <2>1, <3>3
      <4>. QED  BY <1>6, <1>7, <2>5, <3>1, <4>1 DEF InOrder
    <3>. QED  BY <3>2, <3>3
  <2>. QED  BY <2>1, <2>3, <2>4, <2>5 DEF InOrder
<1>. QED  BY <1>2, <1>8

LEMMA SortedInOrder ==
  ASSUME NEW S, IsFiniteSet(S), S \subseteq Seq(STRING)
  PROVE  InOrder(Sorted(S), S)
<1>1. PICK s : InOrder(s, S)
  BY SortedExists
<1>. QED  BY <1>1 DEF InOrder, Sorted

\* Two prefixes of one path that are equally long are equal.
LEMMA OnePrefixOfALength ==
  ASSUME NEW path \in Paths, NEW q \in Paths, NEW r \in Paths,
         IsPrefixPath(q), IsPrefixPath(r), HasPrefix(path, q), HasPrefix(path, r), Len(q) = Len(r)
  PROVE  q = r
<1>1. /\ path \in Seq(STRING) /\ q \in Seq(STRING) /\ r \in Seq(STRING)
      /\ Len(q) \in Nat \ {0} /\ Len(path) \in Nat
  BY MuxAssumption
<1>2. ASSUME NEW p \in Paths, HasPrefix(path, p), NEW i \in 1..(Len(p) - 1) PROVE p[i] = path[i]
  <2>0. p \in Seq(STRING) /\ Len(p) \in Nat
    BY MuxAssumption
  <2>. DEFINE f == Front(p)
  <2>1. f = SubSeq(p, 1, Len(p) - 1)
    BY DEF Front
  <2>2. Len(f) = Len(p) - 1 /\ f[i] = p[i] /\ f \in Seq(STRING)
    BY <2>0, <2>1
  <2>. HIDE DEF f
  <2>3. Len(f) <= Len(path) /\ SubSeq(f, 1, Len(f)) = SubSeq(path, 1, Len(f))
    BY <1>2 DEF HasPrefix, IsPrefix, f
  <2>4. SubSeq(f, 1, Len(f))[i] = f[i] /\ SubSeq(path, 1, Len(f))[i] = path[i]
    BY <1>1, <2>0, <2>2, <2>3
  <2>. QED  BY <2>2, <2>3, <2>4
<1>3. ASSUME NEW i \in 1..Len(q) PROVE q[i] = r[i]
  <2>1. CASE i = Len(q)
    BY <2>1 DEF IsPrefixPath, Last
  <2>2. CASE i # Len(q)
    <3>1. i \in 1..(Len(q) - 1) /\ i \in 1..(Len(r) - 1)
      BY <1>1, <2>2
    <3>. QED  BY <1>2, <3>1
  <2>. QED  BY <2>1, <2>2
<1>. QED  BY <1>1, <1>3

MuxInv ==
  /\ DOMAIN prefixed \subseteq Paths /\ IsFiniteSet(DOMAIN prefixed)
  /\ \A q \in DOMAIN prefixed : IsPrefixPath(q)
  /\ published.exact = exact /\ published.prefixed = prefixed /\ published.notFound = notFound
  /\ InOrder(published.order, DOMAIN prefixed)
  /\ exposedPaths \in Seq(Paths)
  /\ \A p \in Paths : p \notin again =>
       Once(exposedPaths, p) /\ (Contains(exposedPaths, p) => p \in DOMAIN exact \cup DOMAIN prefixed)

LEMMA PathsAreSequences ==
  ASSUME MuxInv
  PROVE  /\ DOMAIN prefixed \subseteq Seq(STRING)
         /\ \A q \in DOMAIN prefixed : Len(q) \in Nat
         /\ Len(published.order) \in Nat /\ DOMAIN published.order = 1..Len(published.order)
<1>1. DOMAIN prefixed \subseteq Seq(STRING)
  BY MuxAssumption DEF MuxInv
<1>2. Cardinality(DOMAIN prefixed) \in Nat
  BY FS_CardinalityType DEF MuxInv
<1>3. published.order \in Seq(DOMAIN prefixed)
  BY <1>2 DEF MuxInv, InOrder
<1>. QED  BY <1>1, <1>3

LEMMA RoutesRight == ASSUME MuxInv PROVE RoutesBest
<1>. DEFINE order == published.order
<1>0. /\ Len(order) \in Nat /\ DOMAIN order = 1..Len(order) /\ \A i \in 1..Len(order) : order[i] \in DOMAIN prefixed
      /\ \A q \in DOMAIN prefixed : (\E i \in 1..Len(order) : order[i] = q) /\ q \in Paths /\ IsPrefixPath(q) /\ Len(q) \in Nat
      /\ \A i, j \in 1..Len(order) : i < j => ~(Len(order[j]) > Len(order[i]))
  <2>1. Len(order) \in Nat /\ DOMAIN order = 1..Len(order)
    BY PathsAreSequences
  <2>2. Range(order) = DOMAIN prefixed /\ \A i, j \in 1..Len(order) : i < j => ~(Len(order[j]) > Len(order[i]))
    BY <2>1 DEF MuxInv, InOrder, byPrefixPriority
  <2>3. /\ \A i \in 1..Len(order) : order[i] \in DOMAIN prefixed
        /\ \A q \in DOMAIN prefixed : \E i \in 1..Len(order) : order[i] = q
    BY <2>1, <2>2 DEF Range
  <2>. QED  BY <2>1, <2>2, <2>3, PathsAreSequences DEF MuxInv
<1>. HIDE DEF order
<1>. SUFFICES ASSUME NEW path \in Paths
              PROVE  LET matching == {q \in DOMAIN prefixed : HasPrefix(path, q)}
                     IN  ServeHTTP(path) =
                           IF path \in DOMAIN exact THEN exact[path]
                           ELSE IF matching = {} THEN notFound
                           ELSE prefixed[CHOOSE q \in matching : \A r \in matching : Len(r) <= Len(q)]
  BY DEF RoutesBest
<1>. DEFINE matching == {q \in DOMAIN prefixed : HasPrefix(path, q)}
            I == {i \in 1..Len(order) : HasPrefix(path, order[i])}
            best == CHOOSE q \in matching : \A r \in matching : Len(r) <= Len(q)
            first == IF I # {} THEN Min(I) ELSE 0
<1>1. ServeHTTP(path) = IF path \in DOMAIN exact THEN exact[path]
                        ELSE IF first # 0 THEN prefixed[order[first]] ELSE notFound
  BY DEF ServeHTTP, SelectInSeq, MuxInv, order
<1>2. CASE matching = {}
  <2>1. I = {}
    BY <1>0, <1>2
  <2>. QED  BY <1>1, <1>2, <2>1
<1>3. CASE matching # {}
  <2>1. PICK q \in matching : TRUE
    BY <1>3
  <2>2. I # {} /\ I \subseteq Nat
    BY <1>0, <2>1
  <2>3. first \in I /\ \A j \in I : first <= j
    <3>1. first = Min(I)
      BY <2>2
    <3>2. \E i \in I : \A j \in I : i <= j
      <4>. HIDE DEF I
      <4>. QED  BY <2>2, LeastElement
    <3>. HIDE DEF I, first
    <3>. QED  BY <3>1, <3>2 DEF Min
  <2>4. order[first] \in matching /\ first # 0
    BY <1>0, <2>3
  <2>5. ASSUME NEW r \in matching PROVE Len(r) <= Len(order[first])
    <3>0. r \in DOMAIN prefixed /\ Len(r) \in Nat /\ Len(order[first]) \in Nat
      BY <1>0, <2>4
    <3>1. PICK j \in I : order[j] = r
      BY <1>0
    <3>2. CASE j = first
      <4>1. Len(r) = Len(order[first])
        BY <3>1, <3>2
      <4>. HIDE DEF first
      <4>. QED  BY <3>0, <4>1
    <3>3. CASE j # first
      <4>1. first \in 1..Len(order) /\ j \in 1..Len(order) /\ first < j
        BY <2>3, <3>3
      <4>2. ~(Len(order[j]) > Len(order[first]))
        <5>. HIDE DEF first
        <5>. QED  BY <1>0, <4>1
      <4>3. ~(Len(r) > Len(order[first]))
        BY <3>1, <4>2
      <4>. HIDE DEF first
      <4>. QED  BY <3>0, <4>3
    <3>. QED  BY <3>2, <3>3
  <2>6. best \in matching /\ \A r \in matching : Len(r) <= Len(best)
    <3>1. \E p \in matching : \A r \in matching : Len(r) <= Len(p)
      BY <2>4, <2>5
    <3>. HIDE DEF matching
    <3>. QED  BY <3>1
  <2>7. Len(best) = Len(order[first])
    <3>1. Len(best) \in Nat /\ Len(order[first]) \in Nat
      BY <1>0, <2>4, <2>6
    <3>2. Len(best) <= Len(order[first]) /\ Len(order[first]) <= Len(best)
      BY <2>4, <2>5, <2>6
    <3>. HIDE DEF best, matching, first
    <3>. QED  BY <3>1, <3>2
  <2>8. best = order[first]
    <3>1. best \in DOMAIN prefixed /\ HasPrefix(path, best)
      BY <2>6
    <3>2. order[first] \in DOMAIN prefixed /\ HasPrefix(path, order[first])
      BY <2>4
    <3>. HIDE DEF best, first
    <3>. QED  BY <1>0, <2>7, <3>1, <3>2, OnePrefixOfALength
  <2>. QED  BY <1>1, <1>3, <2>4, <2>8
<1>. QED  BY <1>2, <1>3

\* What is exposed after a path p is registered, listed or not, and tracked.
LEMMA ExposeKept ==
  ASSUME MuxInv, NEW p \in Paths, NEW listed \in BOOLEAN, trackCallers(p), Expose(p, listed),
         DOMAIN exact' \cup DOMAIN prefixed' = DOMAIN exact \cup DOMAIN prefixed \cup {p}
  PROVE  /\ exposedPaths' \in Seq(Paths)
         /\ \A q \in Paths : q \notin again' =>
              Once(exposedPaths', q) /\ (Contains(exposedPaths', q) => q \in DOMAIN exact' \cup DOMAIN prefixed')
<1>0. exposedPaths \in Seq(Paths) /\ again \subseteq again'
  BY DEF MuxInv, trackCallers
<1>1. exposedPaths' \in Seq(Paths)
  BY <1>0 DEF Expose
<1>2. ASSUME NEW q \in Paths, q \notin again'
      PROVE  Once(exposedPaths', q) /\ (Contains(exposedPaths', q) => q \in DOMAIN exact' \cup DOMAIN prefixed')
  <2>1. Once(exposedPaths, q) /\ (Contains(exposedPaths, q) => q \in DOMAIN exact \cup DOMAIN prefixed)
    BY <1>0, <1>2 DEF MuxInv
  <2>2. CASE ~listed
    BY <2>1, <2>2 DEF Expose
  <2>3. CASE listed
    <3>1. exposedPaths' = Append(exposedPaths, p)
      BY <2>3 DEF Expose
    <3>2. q = p => ~Contains(exposedPaths, q)
      BY <1>2, <2>1 DEF trackCallers
    <3>3. Once(exposedPaths', q) /\ (Contains(exposedPaths', q) => Contains(exposedPaths, q) \/ q = p)
      BY <1>0, <2>1, <3>1, <3>2, AppendFacts
    <3>. QED  BY <2>1, <3>3
  <2>. QED  BY <2>2, <2>3
<1>. QED  BY <1>1, <1>2

LEMMA WithFacts ==
  ASSUME NEW table, NEW p, NEW h
  PROVE  DOMAIN With(table, p, h) = DOMAIN table \cup {p} /\ DOMAIN Without(table, p) = DOMAIN table \ {p}
BY DEF With, Without

LEMMA RefreshFacts ==
  ASSUME NEW e, NEW t, NEW o, IsFiniteSet(DOMAIN t), DOMAIN t \subseteq Paths
  PROVE  /\ Refresh(e, t, o).exact = e /\ Refresh(e, t, o).prefixed = t /\ Refresh(e, t, o).notFound = o
         /\ InOrder(Refresh(e, t, o).order, DOMAIN t)
<1>1. DOMAIN t \subseteq Seq(STRING)
  BY MuxAssumption
<1>2. InOrder(Sorted(DOMAIN t), DOMAIN t)
  BY <1>1, SortedInOrder
<1>. QED  BY <1>2 DEF Refresh

LEMMA MuxInductive ==
  /\ MuxInit => MuxInv
  /\ MuxInv /\ [MuxNext]_muxVars => MuxInv'
<1>1. ASSUME MuxInit PROVE MuxInv
  <2>1. DOMAIN prefixed = {} /\ exposedPaths = << >> /\ Len(exposedPaths) = 0
    BY <1>1 DEF MuxInit, NoTable
  <2>2. /\ published.exact = exact /\ published.prefixed = prefixed /\ published.notFound = notFound
        /\ published.order = << >>
    BY <1>1 DEF MuxInit
  <2>3. IsFiniteSet({}) /\ Cardinality({}) = 0
    BY FS_EmptySet
  <2>4. InOrder(<< >>, {})
    <3>1. 1..0 = {} /\ DOMAIN << >> = {} /\ << >> \in [{} -> {}]
      OBVIOUS
    <3>. QED  BY <2>3, <3>1 DEF InOrder, Range
  <2>5. \A p : Once(exposedPaths, p) /\ ~Contains(exposedPaths, p)
    BY <2>1 DEF Once, Contains
  <2>. QED  BY <2>1, <2>2, <2>3, <2>4, <2>5 DEF MuxInv
<1>2. ASSUME MuxInv, NEW p \in Paths, NEW h \in Responders, NEW listed \in BOOLEAN, Handle(p, h, listed) PROVE MuxInv'
  <2>1. /\ exact' = With(exact, p, h) /\ UNCHANGED <<prefixed, notFound>> /\ trackCallers(p) /\ Expose(p, listed)
        /\ published' = Refresh(exact', prefixed, notFound)
    BY <1>2 DEF Handle
  <2>2. DOMAIN exact' = DOMAIN exact \cup {p}
    BY <2>1, WithFacts
  <2>3. /\ exposedPaths' \in Seq(Paths)
        /\ \A q \in Paths : q \notin again' =>
             Once(exposedPaths', q) /\ (Contains(exposedPaths', q) => q \in DOMAIN exact' \cup DOMAIN prefixed')
    <3>1. DOMAIN exact' \cup DOMAIN prefixed' = DOMAIN exact \cup DOMAIN prefixed \cup {p}
      BY <2>1, <2>2
    <3>. QED  BY <1>2, <2>1, <3>1, ExposeKept
  <2>4. /\ published'.exact = exact' /\ published'.prefixed = prefixed /\ published'.notFound = notFound
        /\ InOrder(published'.order, DOMAIN prefixed)
    BY <1>2, <2>1, RefreshFacts DEF MuxInv
  <2>. QED  BY <1>2, <2>1, <2>3, <2>4 DEF MuxInv
<1>3. ASSUME MuxInv, NEW p \in Paths, NEW h \in Responders, NEW listed \in BOOLEAN, HandlePrefix(p, h, listed)
      PROVE  MuxInv'
  <2>1. /\ prefixed' = With(prefixed, p, h) /\ UNCHANGED <<exact, notFound>> /\ trackCallers(p) /\ Expose(p, listed)
        /\ published' = Refresh(exact, prefixed', notFound) /\ IsPrefixPath(p)
    BY <1>3 DEF HandlePrefix
  <2>2. DOMAIN prefixed' = DOMAIN prefixed \cup {p}
    BY <2>1, WithFacts
  <2>3. /\ exposedPaths' \in Seq(Paths)
        /\ \A q \in Paths : q \notin again' =>
             Once(exposedPaths', q) /\ (Contains(exposedPaths', q) => q \in DOMAIN exact' \cup DOMAIN prefixed')
    <3>1. DOMAIN exact' \cup DOMAIN prefixed' = DOMAIN exact \cup DOMAIN prefixed \cup {p}
      BY <2>1, <2>2
    <3>. QED  BY <1>3, <2>1, <3>1, ExposeKept
  <2>4. IsFiniteSet(DOMAIN prefixed') /\ DOMAIN prefixed' \subseteq Paths
    BY <1>3, <2>2, FS_AddElement DEF MuxInv
  <2>5. /\ published'.exact = exact /\ published'.prefixed = prefixed' /\ published'.notFound = notFound
        /\ InOrder(published'.order, DOMAIN prefixed')
    BY <2>1, <2>4, RefreshFacts
  <2>6. \A q \in DOMAIN prefixed' : IsPrefixPath(q)
    BY <1>3, <2>1, <2>2 DEF MuxInv
  <2>. QED  BY <2>1, <2>3, <2>4, <2>5, <2>6 DEF MuxInv
<1>4. ASSUME MuxInv, NEW h \in Responders, NotFoundHandler(h) PROVE MuxInv'
  <2>1. UNCHANGED <<exact, prefixed, exposedPaths, again>> /\ notFound' = h /\ published' = Refresh(exact, prefixed, h)
    BY <1>4 DEF NotFoundHandler
  <2>2. /\ published'.exact = exact /\ published'.prefixed = prefixed /\ published'.notFound = h
        /\ InOrder(published'.order, DOMAIN prefixed)
    BY <1>4, <2>1, RefreshFacts DEF MuxInv
  <2>. QED  BY <1>4, <2>1, <2>2 DEF MuxInv
<1>5. ASSUME MuxInv, NEW p \in Paths, Unregister(p) PROVE MuxInv'
  <2>1. /\ exact' = Without(exact, p) /\ prefixed' = Without(prefixed, p) /\ UNCHANGED <<notFound, again>>
        /\ exposedPaths' = IF Contains(exposedPaths, p) THEN RemoveAt(exposedPaths, FirstExposed(p)) ELSE exposedPaths
        /\ published' = Refresh(exact', prefixed', notFound) /\ exposedPaths \in Seq(Paths)
    BY <1>5 DEF Unregister, MuxInv
  <2>2. DOMAIN exact' = DOMAIN exact \ {p} /\ DOMAIN prefixed' = DOMAIN prefixed \ {p}
    BY <2>1, WithFacts
  <2>3. IsFiniteSet(DOMAIN prefixed') /\ DOMAIN prefixed' \subseteq Paths /\ \A q \in DOMAIN prefixed' : IsPrefixPath(q)
    BY <1>5, <2>2, FS_Subset DEF MuxInv
  <2>4. /\ published'.exact = exact' /\ published'.prefixed = prefixed' /\ published'.notFound = notFound
        /\ InOrder(published'.order, DOMAIN prefixed')
    BY <2>1, <2>3, RefreshFacts
  <2>5. ASSUME Contains(exposedPaths, p)
        PROVE  FirstExposed(p) \in 1..Len(exposedPaths) /\ exposedPaths[FirstExposed(p)] = p
    <3>. DEFINE T == {i \in 1..Len(exposedPaths) : exposedPaths[i] = p}
    <3>1. T \subseteq Nat /\ T # {} /\ DOMAIN exposedPaths = 1..Len(exposedPaths) /\ Len(exposedPaths) \in Nat
      BY <2>1, <2>5 DEF Contains
    <3>2. PICK i \in T : \A j \in T : i <= j
      <4>. HIDE DEF T
      <4>. QED  BY <3>1, LeastElement
    <3>3. i \in DOMAIN exposedPaths /\ exposedPaths[i] = p /\ \A j \in 1..(i - 1) : exposedPaths[j] # p
      BY <3>1, <3>2
    <3>. QED  BY <3>1, <3>3 DEF FirstExposed
  <2>6. exposedPaths' \in Seq(Paths)
    <3>1. CASE Contains(exposedPaths, p)
      BY <2>1, <2>5, <3>1, RemoveAtFacts
    <3>2. CASE ~Contains(exposedPaths, p)
      BY <2>1, <3>2
    <3>. QED  BY <3>1, <3>2
  <2>7. ASSUME NEW q \in Paths, q \notin again'
        PROVE  Once(exposedPaths', q) /\ (Contains(exposedPaths', q) => q \in DOMAIN exact' \cup DOMAIN prefixed')
    <3>1. Once(exposedPaths, q) /\ (Contains(exposedPaths, q) => q \in DOMAIN exact \cup DOMAIN prefixed)
      BY <1>5, <2>1, <2>7 DEF MuxInv
    <3>2. CASE Contains(exposedPaths, p)
      <4>1. /\ Once(exposedPaths', q) /\ (Contains(exposedPaths', q) => Contains(exposedPaths, q))
            /\ q = p => ~Contains(exposedPaths', q)
        BY <2>1, <2>5, <3>1, <3>2, RemoveAtFacts
      <4>. QED  BY <2>2, <3>1, <4>1
    <3>3. CASE ~Contains(exposedPaths, p)
      <4>1. exposedPaths' = exposedPaths
        BY <2>1, <3>3
      <4>. QED  BY <2>2, <3>1, <3>3, <4>1
    <3>. QED  BY <3>2, <3>3
  <2>. QED  BY <2>1, <2>3, <2>4, <2>6, <2>7 DEF MuxInv
<1>6. ASSUME MuxInv, UNCHANGED muxVars PROVE MuxInv'
  BY <1>6 DEF muxVars, MuxInv
<1>. QED  BY <1>1, <1>2, <1>3, <1>4, <1>5, <1>6 DEF MuxNext

\* The generic server (HttpServerSafe), for every number of requests, hooks, slots, paths and
\* registrations: Run returns after the last handler, the slots hold although requests are timed
\* out, healthz waits for the hooks, and readers of the mux are led to the best match of what is
\* registered (NonBlockingRun, RunPreShutdownHooks, WithWaitGroup, WithMaxInFlightLimit,
\* refreshMuxLocked, ServeHTTP).
THEOREM HttpServerAlways ==
  RestInit /\ MuxInit /\ [][RestNext]_restVars /\ [][MuxNext]_muxVars => []HttpServerSafe
<1>1. RestInit => CallInv /\ ServerInv
  BY CallInductive, ServerInductive
<1>2. CallInv /\ ServerInv /\ [RestNext]_restVars => CallInv' /\ ServerInv'
  BY CallInductive, ServerInductive
<1>3. MuxInit => MuxInv
  BY MuxInductive
<1>4. MuxInv /\ [MuxNext]_muxVars => MuxInv'
  BY MuxInductive
<1>5. ASSUME CallInv, ServerInv, MuxInv PROVE HttpServerSafe
  <2>1. RunWaitsForHandlers
    BY <1>5 DEF ServerInv, RunWaitsForHandlers, Inside, Grouped
  <2>2. HandlersLimited
    BY <1>5 DEF ServerInv, HandlersLimited, Inside, Slotted
  <2>3. HealthyMeansHooked
    BY <1>5 DEF ServerInv, HealthyMeansHooked, Healthy
  <2>4. RoutesBest
    BY <1>5, RoutesRight
  <2>5. ListedServed
    <3>1. ASSUME NEW i \in DOMAIN exposedPaths
          PROVE  exposedPaths[i] \in again \/ exposedPaths[i] \in DOMAIN exact \cup DOMAIN prefixed
      <4>1. i \in 1..Len(exposedPaths) /\ exposedPaths[i] \in Paths
        BY <1>5 DEF MuxInv
      <4>2. Contains(exposedPaths, exposedPaths[i])
        BY <4>1 DEF Contains
      <4>. QED  BY <1>5, <4>1, <4>2 DEF MuxInv
    <3>. QED  BY <3>1 DEF ListedServed
  <2>. QED  BY <2>1, <2>2, <2>3, <2>4, <2>5 DEF HttpServerSafe
<1>. QED  BY <1>1, <1>2, <1>3, <1>4, <1>5, PTL

-----------------------------------------------------------------------------
(* The expiring cache *)

IsItem(x) == \E T, V : x \in [Object : [id : Nat, type : T, val : V], Expiration : Int]

\* A set of items, the latest of them the n-th object: an object has one expiration wherever
\* it is.
ItemsGood(S, n) ==
  /\ \A x \in S : IsItem(x) /\ (x.Object.id = 0 => x = NoItem) /\ x.Object.id <= n
  /\ \A x, y \in S : x.Object.id = y.Object.id => x.Expiration = y.Expiration

StoredItems ==
  {items[k] : k \in CacheKeys} \cup {saved.items[k] : k \in CacheKeys} \cup {set[c].item : c \in Callers}

CacheTypes ==
  /\ items = [k \in CacheKeys |-> items[k]]
  /\ saved.items = [k \in CacheKeys |-> saved.items[k]]
  /\ saved \in [state : {"none", "empty", "full"}, loaded : BOOLEAN, items : {saved.items}]
  /\ set = [c \in Callers |-> set[c]]
  /\ \A c \in Callers : set[c].pc \in {"idle", "set", "evict"} /\ (set[c].pc = "set" => set[c].key \in CacheKeys)
  /\ janitor \in [pc : {"idle", "lock", "call"}, at : Nat, todo : SUBSET (1..MaxObjects)]
  /\ janitor.at <= now
  /\ now \in Nat /\ objects \in Nat /\ objects <= MaxObjects /\ onEvicted \in BOOLEAN
  /\ evicted \in [1..MaxObjects -> Nat]

\* Where object i is: in the map, with a caller that is to store it or to hand it to the
\* callback, with the janitor, or evicted. As long as no file was loaded it is in one place.
AtKey(i, k) == items[k].Object.id = i
AtCaller(i, c) == set[c].pc # "idle" /\ set[c].item.Object.id = i

PlacedOnce(i) ==
  /\ \A k, l \in CacheKeys : AtKey(i, k) /\ AtKey(i, l) => k = l
  /\ \A c, d \in Callers : AtCaller(i, c) /\ AtCaller(i, d) => c = d
  /\ \A k \in CacheKeys : AtKey(i, k) =>
       i \notin janitor.todo /\ evicted[i] = 0 /\ \A c \in Callers : ~AtCaller(i, c)
  /\ \A c \in Callers : AtCaller(i, c) => i \notin janitor.todo /\ evicted[i] = 0
  /\ i \in janitor.todo => evicted[i] = 0
  /\ evicted[i] \in {0, 1}
  /\ i > objects => i \notin janitor.todo /\ evicted[i] = 0

CacheInv ==
  /\ CacheTypes
  /\ ItemsGood(StoredItems, objects)
  /\ \A c \in Callers : set[c].pc # "idle" => set[c].item.Object.id # 0
  /\ ~saved.loaded => \A i \in 1..MaxObjects : PlacedOnce(i)

LEMMA NoItemGood ==
  NoItem.Object.id = 0 /\ NoItem.Expiration = 0 /\ IsItem(NoItem)
<1>1. NoItem.Object.id = 0 /\ NoItem.Expiration = 0
  BY DEF NoItem
<1>2. NoItem \in [Object : [id : Nat, type : {"none"}, val : {0}], Expiration : Int]
  BY DEF NoItem
<1>. QED  BY <1>1, <1>2 DEF IsItem

\* With the new object.
LEMMA NewGood ==
  ASSUME NEW S, NEW n \in Nat, ItemsGood(S, n), NEW x, IsItem(x), x.Object.id = n + 1
  PROVE  ItemsGood(S \cup {x}, n + 1)
<1>1. ASSUME NEW y \in S PROVE y.Object.id <= n + 1 /\ y.Object.id # x.Object.id
  <2>1. y.Object.id \in Nat /\ y.Object.id <= n
    BY DEF ItemsGood, IsItem
  <2>. QED  BY <2>1
<1>. QED  BY <1>1 DEF ItemsGood

\* With a new value of an object.
LEMMA ChangedGood ==
  ASSUME NEW S, NEW n \in Nat, ItemsGood(S, n), NEW x \in S, x # NoItem, NEW v
  PROVE  ItemsGood(S \cup {[x EXCEPT !.Object.val = v]}, n)
<1>. DEFINE y == [x EXCEPT !.Object.val = v]
<1>1. PICK T, V : x \in [Object : [id : Nat, type : T, val : V], Expiration : Int]
  BY DEF ItemsGood, IsItem
<1>2. y \in [Object : [id : Nat, type : T, val : V \cup {v}], Expiration : Int]
  BY <1>1
<1>3. y.Object.id = x.Object.id /\ y.Expiration = x.Expiration
  BY <1>1
<1>4. x.Object.id # 0 /\ x.Object.id <= n
  BY DEF ItemsGood
<1>. HIDE DEF y
<1>5. IsItem(y)
  BY <1>2 DEF IsItem
<1>. QED  BY <1>3, <1>4, <1>5, ZenonT(40) DEF ItemsGood, y

LEMMA SubsetGood ==
  ASSUME NEW S, NEW T, NEW n, ItemsGood(S, n), T \subseteq S
  PROVE  ItemsGood(T, n)
BY DEF ItemsGood

LEMMA WithNoItemGood ==
  ASSUME NEW S, NEW n \in Nat, ItemsGood(S, n)
  PROVE  ItemsGood(S \cup {NoItem}, n)
BY NoItemGood DEF ItemsGood

LEMMA NewItemGood ==
  ASSUME CacheTypes, NEW t, NEW d \in Durations
  PROVE  LET x == NewItem(Object(t, 0), d, now, newCacheDefault(CacheDefault))
         IN  IsItem(x) /\ x.Object.id = objects + 1
<1>. DEFINE x == NewItem(Object(t, 0), d, now, newCacheDefault(CacheDefault))
<1>1. d \in Int /\ newCacheDefault(CacheDefault) \in Int /\ now \in Nat /\ objects \in Nat
  BY ExpiringCacheAssumption DEF newCacheDefault, NoExpiration, CacheTypes
<1>2. x \in [Object : [id : Nat, type : {t}, val : {0}], Expiration : Int] /\ x.Object.id = objects + 1
  BY <1>1 DEF NewItem, Object, DefaultExpiration
<1>. QED  BY <1>2 DEF IsItem

\* Between two states an object keeps its expiration.
Kept == \A k \in CacheKeys : items'[k].Object.id = items[k].Object.id => items'[k].Expiration = items[k].Expiration

\* All items before and after a step are of one good set.
LEMMA KeptStep ==
  ASSUME NEW S, ItemsGood(S, objects'), StoredItems \subseteq S, StoredItems' \subseteq S
  PROVE  ItemsGood(StoredItems', objects') /\ Kept
<1>1. ItemsGood(StoredItems', objects')
  BY SubsetGood
<1>2. ASSUME NEW k \in CacheKeys PROVE items[k] \in S /\ items'[k] \in S
  BY DEF StoredItems
<1>. QED  BY <1>1, <1>2 DEF ItemsGood, Kept

\* Facts about the state that every step uses.
LEMMA CacheFacts ==
  ASSUME CacheInv
  PROVE  /\ \A k \in CacheKeys : items[k] \in StoredItems /\ items[k].Object.id \in Nat
                                   /\ items[k].Object.id <= objects /\ (items[k].Object.id = 0 => items[k] = NoItem)
         /\ \A c \in Callers : set[c].item \in StoredItems /\ set[c].item.Object.id \in Nat
                                   /\ set[c].item.Object.id <= objects
         /\ ItemsGood(StoredItems \cup {NoItem}, objects)
         /\ objects \in Nat
<1>0. objects \in Nat /\ ItemsGood(StoredItems, objects)
  BY DEF CacheInv, CacheTypes
<1>1. \A x \in StoredItems : x.Object.id \in Nat /\ x.Object.id <= objects /\ (x.Object.id = 0 => x = NoItem)
  BY <1>0 DEF ItemsGood, IsItem
<1>2. (\A k \in CacheKeys : items[k] \in StoredItems) /\ (\A c \in Callers : set[c].item \in StoredItems)
  BY DEF StoredItems
<1>3. ItemsGood(StoredItems \cup {NoItem}, objects)
  BY <1>0, WithNoItemGood
<1>. QED  BY <1>0, <1>1, <1>2, <1>3

\* Steps that leave the map and the callers alone.
LEMMA QuietCacheSteps ==
  ASSUME CacheInv, SetOnEvicted \/ DeleteExpiredBegin \/ CacheTick \/ SaveFileCreate \/ Save
  PROVE  CacheInv' /\ Kept
<1>0. CacheTypes /\ MaxObjects \in Nat
  BY ExpiringCacheAssumption DEF CacheInv
<1>1. /\ UNCHANGED <<items, set, evicted, objects>> /\ janitor'.todo = janitor.todo /\ saved'.loaded = saved.loaded
      /\ CacheTypes' /\ (saved'.items = saved.items \/ saved'.items = items)
  <2>1. CASE SetOnEvicted
    BY <1>0, <2>1 DEF SetOnEvicted, CacheTypes
  <2>2. CASE DeleteExpiredBegin
    <3>1. /\ UNCHANGED <<items, now, set, evicted, onEvicted, saved, objects>>
          /\ janitor' = [janitor EXCEPT !.pc = "lock", !.at = now]
      BY <2>2 DEF DeleteExpiredBegin
    <3>2. /\ janitor' \in [pc : {"idle", "lock", "call"}, at : Nat, todo : SUBSET (1..MaxObjects)]
          /\ janitor'.at = now /\ janitor'.todo = janitor.todo /\ now \in Nat
      BY <1>0, <3>1 DEF CacheTypes
    <3>3. janitor'.at <= now'
      BY <3>1, <3>2
    <3>. QED  BY <1>0, <3>1, <3>2, <3>3 DEF CacheTypes
  <2>3. CASE CacheTick
    <3>1. UNCHANGED <<items, set, janitor, evicted, onEvicted, saved, objects>> /\ now' = now + 1
      BY <2>3 DEF CacheTick
    <3>2. now' \in Nat /\ janitor'.at <= now'
      BY <1>0, <3>1 DEF CacheTypes
    <3>. QED  BY <1>0, <3>1, <3>2 DEF CacheTypes
  <2>4. CASE SaveFileCreate
    <3>1. UNCHANGED <<items, now, set, janitor, evicted, onEvicted, objects>> /\ saved' = [saved EXCEPT !.state = "empty"]
      BY <2>4 DEF SaveFileCreate
    <3>2. /\ saved'.items = saved.items /\ saved'.loaded = saved.loaded
          /\ saved' \in [state : {"none", "empty", "full"}, loaded : BOOLEAN, items : {saved.items}]
      BY <1>0, <3>1 DEF CacheTypes
    <3>. QED  BY <1>0, <3>1, <3>2 DEF CacheTypes
  <2>5. CASE Save
    <3>1. /\ UNCHANGED <<items, now, set, janitor, evicted, onEvicted, objects>>
          /\ saved' = [saved EXCEPT !.state = "full", !.items = items]
      BY <2>5 DEF Save
    <3>2. /\ saved'.items = items /\ saved'.loaded = saved.loaded
          /\ saved' \in [state : {"none", "empty", "full"}, loaded : BOOLEAN, items : {items}]
      BY <1>0, <3>1 DEF CacheTypes
    <3>. QED  BY <1>0, <3>1, <3>2 DEF CacheTypes
  <2>. QED  BY <2>1, <2>2, <2>3, <2>4, <2>5
<1>2. ItemsGood(StoredItems', objects') /\ Kept
  <2>1. StoredItems' \subseteq StoredItems
    BY <1>1 DEF StoredItems
  <2>2. ItemsGood(StoredItems, objects')
    BY <1>1 DEF CacheInv
  <2>. QED  BY <2>1, <2>2, KeptStep
<1>3. ASSUME NEW i \in 1..MaxObjects, PlacedOnce(i) PROVE PlacedOnce(i)'
  BY <1>1, <1>3 DEF PlacedOnce, AtKey, AtCaller
<1>. QED  BY <1>1, <1>2, <1>3 DEF CacheInv

LEMMA SetBeginStep ==
  ASSUME CacheInv, NEW c \in Callers, NEW k \in CacheKeys, NEW t \in Types, NEW d \in Durations, SetBegin(c, k, t, d)
  PROVE  CacheInv' /\ Kept
<1>. DEFINE x == NewItem(Object(t, 0), d, now, newCacheDefault(CacheDefault))
<1>0. CacheTypes /\ objects \in Nat
  BY CacheFacts DEF CacheInv
<1>1. IsItem(x) /\ x.Object.id = objects + 1
  BY <1>0, NewItemGood
<1>2. /\ set' = [set EXCEPT ![c] = [pc |-> "set", key |-> k, item |-> x]] /\ objects' = objects + 1
      /\ UNCHANGED <<items, now, janitor, evicted, onEvicted, saved>> /\ set[c].pc = "idle" /\ objects < MaxObjects
  BY DEF SetBegin
<1>. HIDE DEF x
<1>3. \A e \in Callers : set'[e] = IF e = c THEN [pc |-> "set", key |-> k, item |-> x] ELSE set[e]
  BY <1>0, <1>2 DEF CacheTypes
<1>4. CacheTypes'
  <2>1. objects' \in Nat /\ objects' <= MaxObjects
    BY <1>0, <1>2, ExpiringCacheAssumption
  <2>. QED  BY <1>0, <1>2, <1>3, <2>1 DEF CacheTypes
<1>5. ItemsGood(StoredItems', objects') /\ Kept
  <2>1. ItemsGood(StoredItems \cup {x}, objects')
    BY <1>0, <1>1, <1>2, NewGood DEF CacheInv
  <2>2. StoredItems' \subseteq StoredItems \cup {x}
    BY <1>2, <1>3 DEF StoredItems
  <2>. QED  BY <2>1, <2>2, KeptStep
<1>6. ASSUME NEW e \in Callers, set'[e].pc # "idle" PROVE set'[e].item.Object.id # 0
  BY <1>0, <1>1, <1>3, <1>6 DEF CacheInv
<1>7. ASSUME NEW i \in 1..MaxObjects, PlacedOnce(i) PROVE PlacedOnce(i)'
  <2>1. /\ \A l \in CacheKeys : AtKey(i, l)' <=> AtKey(i, l)
        /\ \A e \in Callers : AtCaller(i, e)' <=> IF e = c THEN i = objects + 1 ELSE AtCaller(i, e)
    BY <1>1, <1>2, <1>3 DEF AtKey, AtCaller
  <2>2. (\A l \in CacheKeys : AtKey(i, l) => i <= objects) /\ (\A e \in Callers : AtCaller(i, e) => i <= objects)
    BY CacheFacts DEF AtKey, AtCaller
  <2>3. CASE i = objects + 1
    <3>1. i > objects /\ ~(i <= objects) /\ ~(i > objects')
      BY <1>0, <1>2, <2>3
    <3>2. i \notin janitor.todo /\ evicted[i] = 0
      BY <1>7, <3>1 DEF PlacedOnce
    <3>. QED  BY <1>2, <2>1, <2>2, <2>3, <3>1, <3>2 DEF PlacedOnce
  <2>4. CASE i # objects + 1
    <3>1. i > objects' => i > objects
      BY <1>0, <1>2
    <3>2. ~AtCaller(i, c)
      BY <1>2 DEF AtCaller
    <3>. QED  BY <1>2, <1>7, <2>1, <2>4, <3>1, <3>2 DEF PlacedOnce
  <2>. QED  BY <2>3, <2>4
<1>. QED  BY <1>2, <1>4, <1>5, <1>6, <1>7 DEF CacheInv

LEMMA SetStoreStep ==
  ASSUME CacheInv, NEW c \in Callers, SetStore(c)
  PROVE  CacheInv' /\ Kept
<1>0. CacheTypes /\ objects \in Nat
  BY CacheFacts DEF CacheInv
<1>. DEFINE x == set[c].item
            key == set[c].key
<1>1. /\ items' = [items EXCEPT ![key] = x] /\ set' = [set EXCEPT ![c] = IdleCall]
      /\ UNCHANGED <<now, janitor, evicted, onEvicted, saved, objects>> /\ set[c].pc = "set" /\ key \in CacheKeys
  BY <1>0 DEF SetStore, CacheTypes
<1>2. IdleCall.pc = "idle" /\ IdleCall.item = NoItem
  BY DEF IdleCall
<1>3. /\ \A e \in Callers : set'[e] = IF e = c THEN IdleCall ELSE set[e]
      /\ \A l \in CacheKeys : items'[l] = IF l = key THEN x ELSE items[l]
  BY <1>0, <1>1 DEF CacheTypes
<1>4. CacheTypes'
  <2>1. items' = [l \in CacheKeys |-> items'[l]] /\ set' = [e \in Callers |-> set'[e]]
    BY <1>0, <1>1 DEF CacheTypes
  <2>. QED  BY <1>0, <1>1, <1>2, <1>3, <2>1 DEF CacheTypes
<1>5. ItemsGood(StoredItems', objects') /\ Kept
  <2>1. ItemsGood(StoredItems \cup {NoItem}, objects')
    BY <1>1, CacheFacts
  <2>2. StoredItems' \subseteq StoredItems \cup {NoItem}
    BY <1>1, <1>2, <1>3 DEF StoredItems
  <2>. QED  BY <2>1, <2>2, KeptStep
<1>6. ASSUME NEW e \in Callers, set'[e].pc # "idle" PROVE set'[e].item.Object.id # 0
  BY <1>2, <1>3, <1>6 DEF CacheInv
<1>7. ASSUME NEW i \in 1..MaxObjects, PlacedOnce(i) PROVE PlacedOnce(i)'
  <2>1. /\ \A l \in CacheKeys : AtKey(i, l)' <=> IF l = key THEN AtCaller(i, c) ELSE AtKey(i, l)
        /\ \A e \in Callers : AtCaller(i, e)' <=> e # c /\ AtCaller(i, e)
    BY <1>1, <1>2, <1>3 DEF AtKey, AtCaller
  <2>. HIDE DEF key
  <2>. QED  BY <1>1, <1>7, <2>1 DEF PlacedOnce
<1>. QED  BY <1>1, <1>4, <1>5, <1>6, <1>7 DEF CacheInv

LEMMA StoreStep ==
  ASSUME CacheInv, NEW k \in CacheKeys, NEW t \in Types, NEW d \in Durations, Store(k, t, d)
  PROVE  CacheInv' /\ Kept
<1>. DEFINE x == NewItem(Object(t, 0), d, now, newCacheDefault(CacheDefault))
<1>0. CacheTypes /\ objects \in Nat
  BY CacheFacts DEF CacheInv
<1>1. IsItem(x) /\ x.Object.id = objects + 1
  BY <1>0, NewItemGood
<1>2. /\ items' = [items EXCEPT ![k] = x] /\ objects' = objects + 1
      /\ UNCHANGED <<set, now, janitor, evicted, onEvicted, saved>> /\ objects < MaxObjects
  BY DEF Store
<1>. HIDE DEF x
<1>3. \A l \in CacheKeys : items'[l] = IF l = k THEN x ELSE items[l]
  BY <1>0, <1>2 DEF CacheTypes
<1>4. CacheTypes'
  <2>1. objects' \in Nat /\ objects' <= MaxObjects
    BY <1>0, <1>2, ExpiringCacheAssumption
  <2>. QED  BY <1>0, <1>2, <1>3, <2>1 DEF CacheTypes
<1>5. ItemsGood(StoredItems', objects') /\ Kept
  <2>1. ItemsGood(StoredItems \cup {x}, objects')
    BY <1>0, <1>1, <1>2, NewGood DEF CacheInv
  <2>2. StoredItems' \subseteq StoredItems \cup {x}
    BY <1>2, <1>3 DEF StoredItems
  <2>. QED  BY <2>1, <2>2, KeptStep
<1>7. ASSUME NEW i \in 1..MaxObjects, PlacedOnce(i) PROVE PlacedOnce(i)'
  <2>1. /\ \A l \in CacheKeys : AtKey(i, l)' <=> IF l = k THEN i = objects + 1 ELSE AtKey(i, l)
        /\ \A e \in Callers : AtCaller(i, e)' <=> AtCaller(i, e)
    BY <1>1, <1>2, <1>3 DEF AtKey, AtCaller
  <2>2. (\A l \in CacheKeys : AtKey(i, l) => i <= objects) /\ (\A e \in Callers : AtCaller(i, e) => i <= objects)
    BY CacheFacts DEF AtKey, AtCaller
  <2>3. CASE i = objects + 1
    <3>1. i > objects /\ ~(i <= objects) /\ ~(i > objects')
      BY <1>0, <1>2, <2>3
    <3>2. i \notin janitor.todo /\ evicted[i] = 0
      BY <1>7, <3>1 DEF PlacedOnce
    <3>. QED  BY <1>2, <2>1, <2>2, <2>3, <3>1, <3>2 DEF PlacedOnce
  <2>4. CASE i # objects + 1
    <3>1. i > objects' => i > objects
      BY <1>0, <1>2
    <3>. QED  BY <1>2, <1>7, <2>1, <2>4, <3>1 DEF PlacedOnce
  <2>. QED  BY <2>3, <2>4
<1>. QED  BY <1>2, <1>4, <1>5, <1>7 DEF CacheInv

LEMMA CountStep ==
  ASSUME CacheInv, NEW k \in CacheKeys, NEW types, NEW n, Count(k, types, n)
  PROVE  CacheInv' /\ Kept
<1>0. CacheTypes /\ objects \in Nat
  BY CacheFacts DEF CacheInv
<1>1. PICK v : items' = [items EXCEPT ![k].Object.val = v]
  BY DEF Count
<1>2. UNCHANGED <<now, set, janitor, evicted, onEvicted, saved, objects>> /\ items[k] # NoItem
  BY DEF Count, Live, Found
<1>. DEFINE x == [items[k] EXCEPT !.Object.val = v]
<1>3. \A l \in CacheKeys : items'[l] = IF l = k THEN x ELSE items[l]
  BY <1>0, <1>1 DEF CacheTypes
<1>4. CacheTypes'
  <2>1. items' = [l \in CacheKeys |-> items'[l]]
    BY <1>0, <1>1 DEF CacheTypes
  <2>. QED  BY <1>0, <1>2, <2>1 DEF CacheTypes
<1>a. ItemsGood(StoredItems \cup {x}, objects)
  BY <1>0, <1>2, ChangedGood, CacheFacts DEF CacheInv
<1>b. x.Object.id = items[k].Object.id
  <2>1. IsItem(items[k])
    BY CacheFacts DEF CacheInv, ItemsGood
  <2>. QED  BY <2>1 DEF IsItem
<1>. HIDE DEF x
<1>5. ItemsGood(StoredItems', objects') /\ Kept
  <2>1. ItemsGood(StoredItems \cup {x}, objects')
    BY <1>2, <1>a
  <2>2. StoredItems' \subseteq StoredItems \cup {x}
    BY <1>2, <1>3 DEF StoredItems
  <2>. QED  BY <2>1, <2>2, KeptStep
<1>7. ASSUME NEW i \in 1..MaxObjects, PlacedOnce(i) PROVE PlacedOnce(i)'
  <2>1. /\ \A l \in CacheKeys : AtKey(i, l)' <=> AtKey(i, l)
        /\ \A e \in Callers : AtCaller(i, e)' <=> AtCaller(i, e)
    BY <1>2, <1>3, <1>b DEF AtKey, AtCaller
  <2>. QED  BY <1>2, <1>7, <2>1 DEF PlacedOnce
<1>. QED  BY <1>2, <1>4, <1>5, <1>7 DEF CacheInv

LEMMA DeleteStep ==
  ASSUME CacheInv, NEW c \in Callers, NEW k \in CacheKeys, Delete(c, k)
  PROVE  CacheInv' /\ Kept
<1>0. CacheTypes /\ objects \in Nat /\ items[k].Object.id # 0
  BY CacheFacts DEF CacheInv, Delete, Found
<1>1. /\ items' = [items EXCEPT ![k] = NoItem] /\ set[c].pc = "idle"
      /\ set' = set \/ set' = [set EXCEPT ![c] = [pc |-> "evict", key |-> k, item |-> items[k]]]
      /\ UNCHANGED <<now, janitor, evicted, onEvicted, saved, objects>>
  BY DEF Delete
<1>3. /\ \A l \in CacheKeys : items'[l] = IF l = k THEN NoItem ELSE items[l]
      /\ \/ set' = set
         \/ \A e \in Callers : set'[e] = IF e = c THEN [pc |-> "evict", key |-> k, item |-> items[k]] ELSE set[e]
  BY <1>0, <1>1 DEF CacheTypes
<1>4. CacheTypes'
  <2>1. items' = [l \in CacheKeys |-> items'[l]] /\ set' = [e \in Callers |-> set'[e]]
    BY <1>0, <1>1 DEF CacheTypes
  <2>. QED  BY <1>0, <1>1, <1>3, <2>1 DEF CacheTypes
<1>5. ItemsGood(StoredItems', objects') /\ Kept
  <2>1. ItemsGood(StoredItems \cup {NoItem}, objects')
    BY <1>1, CacheFacts
  <2>2. StoredItems' \subseteq StoredItems \cup {NoItem}
    BY <1>1, <1>3 DEF StoredItems
  <2>. QED  BY <2>1, <2>2, KeptStep
<1>6. ASSUME NEW e \in Callers, set'[e].pc # "idle" PROVE set'[e].item.Object.id # 0
  BY <1>0, <1>3, <1>6 DEF CacheInv
<1>7. ASSUME NEW i \in 1..MaxObjects, PlacedOnce(i) PROVE PlacedOnce(i)'
  <2>0. i # 0 /\ NoItem.Object.id = 0
    BY NoItemGood
  <2>1. \A l \in CacheKeys : AtKey(i, l)' <=> l # k /\ AtKey(i, l)
    BY <1>3, <2>0 DEF AtKey
  <2>2. CASE set' = set
    <3>1. \A e \in Callers : AtCaller(i, e)' <=> AtCaller(i, e)
      BY <2>2 DEF AtCaller
    <3>. QED  BY <1>1, <1>7, <2>1, <3>1 DEF PlacedOnce
  <2>3. CASE \A e \in Callers : set'[e] = IF e = c THEN [pc |-> "evict", key |-> k, item |-> items[k]] ELSE set[e]
    <3>1. \A e \in Callers : AtCaller(i, e)' <=> IF e = c THEN AtKey(i, k) ELSE AtCaller(i, e)
      BY <2>3 DEF AtCaller, AtKey
    <3>2. ~AtCaller(i, c)
      BY <1>1 DEF AtCaller
    <3>. QED  BY <1>1, <1>7, <2>1, <3>1, <3>2 DEF PlacedOnce
  <2>. QED  BY <1>3, <2>2, <2>3
<1>. QED  BY <1>1, <1>4, <1>5, <1>6, <1>7 DEF CacheInv

LEMMA DeleteCallsStep ==
  ASSUME CacheInv, NEW c \in Callers, DeleteCalls(c)
  PROVE  CacheInv' /\ Kept
<1>0. CacheTypes /\ objects \in Nat
  BY CacheFacts DEF CacheInv
<1>. DEFINE id == set[c].item.Object.id
<1>1. /\ evicted' = [evicted EXCEPT ![id] = @ + 1] /\ set' = [set EXCEPT ![c] = IdleCall] /\ set[c].pc = "evict"
      /\ UNCHANGED <<items, now, janitor, onEvicted, saved, objects>>
  BY DEF DeleteCalls
<1>2. IdleCall.pc = "idle" /\ IdleCall.item = NoItem
  BY DEF IdleCall
<1>3. /\ \A e \in Callers : set'[e] = IF e = c THEN IdleCall ELSE set[e]
      /\ \A i \in 1..MaxObjects : evicted'[i] = IF i = id THEN evicted[i] + 1 ELSE evicted[i]
  BY <1>0, <1>1 DEF CacheTypes
<1>4. CacheTypes'
  <2>1. set' = [e \in Callers |-> set'[e]]
    BY <1>0, <1>1 DEF CacheTypes
  <2>2. evicted' \in [1..MaxObjects -> Nat]
    <3>1. \A i \in 1..MaxObjects : evicted'[i] \in Nat
      BY <1>0, <1>3 DEF CacheTypes
    <3>. QED  BY <1>0, <1>1, <3>1 DEF CacheTypes
  <2>. QED  BY <1>0, <1>1, <1>2, <1>3, <2>1, <2>2 DEF CacheTypes
<1>5. ItemsGood(StoredItems', objects') /\ Kept
  <2>1. ItemsGood(StoredItems \cup {NoItem}, objects')
    BY <1>1, CacheFacts
  <2>2. StoredItems' \subseteq StoredItems \cup {NoItem}
    BY <1>1, <1>2, <1>3 DEF StoredItems
  <2>. QED  BY <2>1, <2>2, KeptStep
<1>6. ASSUME NEW e \in Callers, set'[e].pc # "idle" PROVE set'[e].item.Object.id # 0
  BY <1>2, <1>3, <1>6 DEF CacheInv
<1>7. ASSUME NEW i \in 1..MaxObjects, PlacedOnce(i) PROVE PlacedOnce(i)'
  <2>1. /\ \A l \in CacheKeys : AtKey(i, l)' <=> AtKey(i, l)
        /\ \A e \in Callers : AtCaller(i, e)' <=> e # c /\ AtCaller(i, e)
    BY <1>1, <1>2, <1>3 DEF AtKey, AtCaller
  <2>2. AtCaller(i, c) <=> i = id
    BY <1>1 DEF AtCaller
  <2>3. CASE i = id
    <3>1. evicted[i] = 0 /\ evicted'[i] = 1
      BY <1>3, <1>7, <2>2, <2>3 DEF PlacedOnce
    <3>2. ~(i > objects)
      BY <1>0, <2>3, CacheFacts
    <3>. QED  BY <1>1, <1>7, <2>1, <2>2, <2>3, <3>1, <3>2 DEF PlacedOnce
  <2>4. CASE i # id
    <3>1. evicted'[i] = evicted[i]
      BY <1>3, <2>4
    <3>. QED  BY <1>1, <1>7, <2>1, <3>1 DEF PlacedOnce
  <2>. QED  BY <2>3, <2>4
<1>. QED  BY <1>1, <1>4, <1>5, <1>6, <1>7 DEF CacheInv

LEMMA DeleteExpiredStep ==
  ASSUME CacheInv, DeleteExpired
  PROVE  CacheInv' /\ Kept
<1>0. CacheTypes /\ objects \in Nat /\ MaxObjects \in Nat
  BY CacheFacts, ExpiringCacheAssumption DEF CacheInv
<1>. DEFINE gone == {k \in CacheKeys : Found(k) /\ Expired(items[k], janitor.at)}
            ids == IF onEvicted THEN {items[k].Object.id : k \in gone} ELSE {}
<1>1. /\ items' = [k \in CacheKeys |-> IF k \in gone THEN NoItem ELSE items[k]]
      /\ janitor' = [pc |-> "call", at |-> 0, todo |-> ids]
      /\ UNCHANGED <<now, set, evicted, onEvicted, saved, objects>>
  BY DEF DeleteExpired
<1>2. /\ \A i \in ids : \E k \in gone : AtKey(i, k)
      /\ \A k \in gone : items[k].Object.id # 0
  BY CacheFacts DEF AtKey, Found
<1>3. ids \subseteq 1..MaxObjects /\ \A i \in ids : i <= objects
  <2>1. ASSUME NEW i \in ids PROVE i \in Nat /\ i # 0 /\ i <= objects /\ objects <= MaxObjects
    BY <1>0, <1>2, CacheFacts DEF AtKey, CacheTypes
  <2>. HIDE DEF ids
  <2>. QED  BY <1>0, <2>1
<1>. HIDE DEF gone, ids
<1>4. CacheTypes'
  <2>1. /\ janitor' \in [pc : {"idle", "lock", "call"}, at : Nat, todo : SUBSET (1..MaxObjects)]
        /\ janitor'.at <= now'
    BY <1>0, <1>1, <1>3 DEF CacheTypes
  <2>. QED  BY <1>0, <1>1, <2>1 DEF CacheTypes
<1>5. ItemsGood(StoredItems', objects') /\ Kept
  <2>1. ItemsGood(StoredItems \cup {NoItem}, objects')
    BY <1>1, CacheFacts
  <2>2. StoredItems' \subseteq StoredItems \cup {NoItem}
    BY <1>1 DEF StoredItems
  <2>. QED  BY <2>1, <2>2, KeptStep
<1>7. ASSUME NEW i \in 1..MaxObjects, PlacedOnce(i) PROVE PlacedOnce(i)'
  <2>0. i # 0 /\ NoItem.Object.id = 0 /\ (i \in ids => ~(i > objects))
    BY <1>0, <1>3, NoItemGood
  <2>1. /\ \A l \in CacheKeys : AtKey(i, l)' <=> l \notin gone /\ AtKey(i, l)
        /\ \A e \in Callers : AtCaller(i, e)' <=> AtCaller(i, e)
    BY <1>1, <2>0 DEF AtKey, AtCaller
  <2>2. i \in janitor'.todo <=> i \in ids
    BY <1>1
  <2>3. gone \subseteq CacheKeys
    BY DEF gone
  <2>4. CASE i \in ids
    <3>1. PICK k \in gone : AtKey(i, k)
      BY <1>2, <2>4
    <3>2. evicted[i] = 0 /\ (\A e \in Callers : ~AtCaller(i, e)) /\ \A l \in CacheKeys : AtKey(i, l) => l = k
      BY <1>7, <2>3, <3>1 DEF PlacedOnce
    <3>. QED  BY <1>1, <2>0, <2>1, <2>2, <2>3, <2>4, <3>1, <3>2 DEF PlacedOnce
  <2>5. CASE i \notin ids
    BY <1>1, <1>7, <2>1, <2>2, <2>5 DEF PlacedOnce
  <2>. QED  BY <2>4, <2>5
<1>. QED  BY <1>1, <1>4, <1>5, <1>7 DEF CacheInv

LEMMA DeleteExpiredCallsStep ==
  ASSUME CacheInv, DeleteExpiredCalls
  PROVE  CacheInv' /\ Kept
<1>0. CacheTypes /\ objects \in Nat
  BY CacheFacts DEF CacheInv
<1>1. UNCHANGED <<items, now, set, onEvicted, saved, objects>>
  BY DEF DeleteExpiredCalls
<1>2. ItemsGood(StoredItems', objects') /\ Kept
  <2>1. StoredItems' \subseteq StoredItems
    BY <1>1 DEF StoredItems
  <2>2. ItemsGood(StoredItems, objects')
    BY <1>1 DEF CacheInv
  <2>. QED  BY <2>1, <2>2, KeptStep
<1>3. CASE janitor.todo = {}
  <2>1. janitor' = [janitor EXCEPT !.pc = "idle"] /\ UNCHANGED evicted
    BY <1>3 DEF DeleteExpiredCalls
  <2>2. /\ janitor' \in [pc : {"idle", "lock", "call"}, at : Nat, todo : SUBSET (1..MaxObjects)]
        /\ janitor'.at = janitor.at /\ janitor'.todo = janitor.todo
    BY <1>0, <2>1 DEF CacheTypes
  <2>3. CacheTypes'
    BY <1>0, <1>1, <2>1, <2>2 DEF CacheTypes
  <2>4. ASSUME NEW i \in 1..MaxObjects, PlacedOnce(i) PROVE PlacedOnce(i)'
    BY <1>1, <2>1, <2>2, <2>4 DEF PlacedOnce, AtKey, AtCaller
  <2>. QED  BY <1>1, <1>2, <2>3, <2>4 DEF CacheInv
<1>4. CASE janitor.todo # {}
  <2>1. PICK j \in janitor.todo : /\ evicted' = [evicted EXCEPT ![j] = @ + 1]
                                  /\ janitor' = [janitor EXCEPT !.todo = @ \ {j}]
    BY <1>4 DEF DeleteExpiredCalls
  <2>2. /\ janitor' \in [pc : {"idle", "lock", "call"}, at : Nat, todo : SUBSET (1..MaxObjects)]
        /\ janitor'.at = janitor.at /\ janitor'.todo = janitor.todo \ {j} /\ j \in 1..MaxObjects
    BY <1>0, <2>1 DEF CacheTypes
  <2>3. /\ evicted' \in [1..MaxObjects -> Nat]
        /\ \A i \in 1..MaxObjects : evicted'[i] = IF i = j THEN evicted[i] + 1 ELSE evicted[i]
    BY <1>0, <2>1, <2>2 DEF CacheTypes
  <2>4. CacheTypes'
    BY <1>0, <1>1, <2>2, <2>3 DEF CacheTypes
  <2>5. ASSUME NEW i \in 1..MaxObjects, PlacedOnce(i) PROVE PlacedOnce(i)'
    <3>1. /\ \A l \in CacheKeys : AtKey(i, l)' <=> AtKey(i, l)
          /\ \A e \in Callers : AtCaller(i, e)' <=> AtCaller(i, e)
      BY <1>1 DEF AtKey, AtCaller
    <3>2. CASE i = j
      <4>1. evicted[i] = 0 /\ evicted'[i] = 1 /\ ~(i > objects) /\ i \notin janitor'.todo
        BY <2>1, <2>2, <2>3, <2>5, <3>2 DEF PlacedOnce
      <4>2. (\A l \in CacheKeys : ~AtKey(i, l)) /\ (\A e \in Callers : ~AtCaller(i, e))
        BY <2>1, <2>5, <3>2 DEF PlacedOnce
      <4>. QED  BY <1>1, <3>1, <4>1, <4>2 DEF PlacedOnce
    <3>3. CASE i # j
      <4>1. evicted'[i] = evicted[i] /\ (i \in janitor'.todo <=> i \in janitor.todo)
        BY <2>2, <2>3, <3>3
      <4>. QED  BY <1>1, <2>5, <3>1, <4>1 DEF PlacedOnce
    <3>. QED  BY <3>2, <3>3
  <2>. QED  BY <1>1, <1>2, <2>4, <2>5 DEF CacheInv
<1>. QED  BY <1>3, <1>4

LEMMA FlushLoadStep ==
  ASSUME CacheInv, Flush \/ Load
  PROVE  CacheInv' /\ Kept
<1>0. CacheTypes /\ objects \in Nat
  BY CacheFacts DEF CacheInv
<1>1. CASE Flush
  <2>1. items' = [k \in CacheKeys |-> NoItem] /\ UNCHANGED <<now, set, janitor, evicted, onEvicted, saved, objects>>
    BY <1>1 DEF Flush
  <2>2. CacheTypes'
    BY <1>0, <2>1 DEF CacheTypes
  <2>3. ItemsGood(StoredItems', objects') /\ Kept
    <3>1. ItemsGood(StoredItems \cup {NoItem}, objects')
      BY <2>1, CacheFacts
    <3>2. StoredItems' \subseteq StoredItems \cup {NoItem}
      BY <2>1 DEF StoredItems
    <3>. QED  BY <3>1, <3>2, KeptStep
  <2>4. ASSUME NEW i \in 1..MaxObjects, PlacedOnce(i) PROVE PlacedOnce(i)'
    <3>1. /\ \A l \in CacheKeys : ~AtKey(i, l)'
          /\ \A e \in Callers : AtCaller(i, e)' <=> AtCaller(i, e)
      BY <2>1, NoItemGood DEF AtKey, AtCaller
    <3>. QED  BY <2>1, <2>4, <3>1 DEF PlacedOnce
  <2>. QED  BY <2>1, <2>2, <2>3, <2>4 DEF CacheInv
<1>2. CASE Load
  <2>1. /\ \A k \in CacheKeys : items'[k] \in {items[k], saved.items[k]}
        /\ items' = [k \in CacheKeys |-> items'[k]]
        /\ saved' = [saved EXCEPT !.loaded = TRUE] /\ UNCHANGED <<now, set, janitor, evicted, onEvicted, objects>>
    BY <1>2 DEF Load
  <2>2. /\ saved'.items = saved.items /\ saved'.loaded
        /\ saved' \in [state : {"none", "empty", "full"}, loaded : BOOLEAN, items : {saved.items}]
    BY <1>0, <2>1 DEF CacheTypes
  <2>3. CacheTypes'
    BY <1>0, <2>1, <2>2 DEF CacheTypes
  <2>4. ItemsGood(StoredItems', objects') /\ Kept
    <3>1. StoredItems' \subseteq StoredItems
      BY <2>1, <2>2 DEF StoredItems
    <3>2. ItemsGood(StoredItems, objects')
      BY <2>1 DEF CacheInv
    <3>. QED  BY <3>1, <3>2, KeptStep
  <2>. QED  BY <2>1, <2>2, <2>3, <2>4 DEF CacheInv
<1>. QED  BY <1>1, <1>2

LEMMA CacheInductive ==
  /\ CacheInit => CacheInv
  /\ CacheInv /\ [CacheNext]_cacheVars => CacheInv' /\ Kept
<1>1. ASSUME CacheInit PROVE CacheInv
  <2>0. MaxObjects \in Nat
    BY ExpiringCacheAssumption
  <2>1. /\ \A k \in CacheKeys : items[k] = NoItem /\ saved.items[k] = NoItem
        /\ \A c \in Callers : set[c].item = NoItem /\ set[c].pc = "idle"
        /\ items = [k \in CacheKeys |-> NoItem] /\ set = [c \in Callers |-> IdleCall]
        /\ saved = [state |-> "none", loaded |-> FALSE, items |-> [k \in CacheKeys |-> NoItem]]
        /\ now = 1 /\ objects = 0 /\ onEvicted = FALSE /\ evicted = [i \in 1..MaxObjects |-> 0]
        /\ janitor = [pc |-> "idle", at |-> 0, todo |-> {}]
    BY <1>1 DEF CacheInit, IdleCall
  <2>2. CacheTypes
    <3>1. saved \in [state : {"none", "empty", "full"}, loaded : BOOLEAN, items : {saved.items}]
      BY <2>1
    <3>2. saved.items = [k \in CacheKeys |-> saved.items[k]]
      BY <2>1
    <3>3. items = [k \in CacheKeys |-> items[k]] /\ set = [c \in Callers |-> set[c]]
      BY <2>1
    <3>4. janitor \in [pc : {"idle", "lock", "call"}, at : Nat, todo : SUBSET (1..MaxObjects)] /\ janitor.at = 0
      BY <2>1
    <3>5. evicted \in [1..MaxObjects -> Nat] /\ 0 <= MaxObjects
      BY <2>0, <2>1
    <3>6. \A c \in Callers : set[c].pc \in {"idle", "set", "evict"} /\ (set[c].pc = "set" => set[c].key \in CacheKeys)
      BY <2>1
    <3>7. now \in Nat /\ objects \in Nat /\ objects <= MaxObjects /\ janitor.at <= now
      <4>1. now = 1 /\ objects = 0 /\ janitor.at = 0 /\ 0 <= MaxObjects
        BY <2>1, <3>4, <3>5
      <4>. QED  BY <4>1
    <3>8. onEvicted \in BOOLEAN
      BY <2>1
    <3>. QED  BY <3>1, <3>2, <3>3, <3>4, <3>5, <3>6, <3>7, <3>8 DEF CacheTypes
  <2>3. ItemsGood(StoredItems, objects)
    <3>1. ItemsGood({}, 0)
      BY DEF ItemsGood
    <3>2. ItemsGood({NoItem}, 0)
      BY <3>1, WithNoItemGood
    <3>3. StoredItems \subseteq {NoItem}
      BY <2>1 DEF StoredItems
    <3>. QED  BY <2>1, <3>2, <3>3, SubsetGood
  <2>4. ASSUME NEW i \in 1..MaxObjects PROVE PlacedOnce(i)
    BY <2>1, NoItemGood DEF PlacedOnce, AtKey, AtCaller
  <2>. QED  BY <2>1, <2>2, <2>3, <2>4 DEF CacheInv
<1>2. ASSUME CacheInv, Storing PROVE CacheInv' /\ Kept
  BY <1>2, SetBeginStep, StoreStep DEF Storing, Add, Replace
<1>3. ASSUME CacheInv, Counting PROVE CacheInv' /\ Kept
  BY <1>3, CountStep DEF Counting, Increment, IncrementFloat, IncrementSigned, IncrementUnsigned, IncrementFloats,
     Decrement, DecrementFloat, DecrementSigned, DecrementUnsigned, DecrementFloats
<1>4. ASSUME CacheInv, Removing PROVE CacheInv' /\ Kept
  BY <1>4, QuietCacheSteps, DeleteExpiredStep, DeleteExpiredCallsStep, FlushLoadStep, DeleteCallsStep, DeleteStep
  DEF Removing
<1>5. ASSUME CacheInv, CacheTick \/ SaveFileCreate \/ Save \/ Load \/ \E c \in Callers : SetStore(c)
      PROVE  CacheInv' /\ Kept
  BY <1>5, QuietCacheSteps, FlushLoadStep, SetStoreStep
<1>6. ASSUME CacheInv, UNCHANGED cacheVars PROVE CacheInv' /\ Kept
  <2>1. UNCHANGED <<items, now, set, janitor, evicted, onEvicted, saved, objects>>
    BY <1>6 DEF cacheVars
  <2>2. CacheTypes'
    BY <1>6, <2>1 DEF CacheInv, CacheTypes
  <2>3. StoredItems' = StoredItems
    BY <2>1 DEF StoredItems
  <2>4. ASSUME NEW i \in 1..MaxObjects, PlacedOnce(i) PROVE PlacedOnce(i)'
    BY <2>1, <2>4 DEF PlacedOnce, AtKey, AtCaller
  <2>. QED  BY <1>6, <2>1, <2>2, <2>3, <2>4 DEF CacheInv, Kept
<1>7. ASSUME CacheInv, CacheNext PROVE CacheInv' /\ Kept
  BY <1>2, <1>3, <1>4, <1>5, <1>7 DEF CacheNext
<1>. QED  BY <1>1, <1>6, <1>7

\* Eviction (EvictedOnce), for every number of keys, callers and objects: whoever races the
\* janitor, the callback gets an object once, and never one that is still in the map (Delete,
\* DeleteExpired, OnEvicted).
THEOREM EvictedAlways == CacheInit /\ [][CacheNext]_cacheVars => []EvictedOnce
<1>1. CacheInit => CacheInv
  BY CacheInductive
<1>2. CacheInv /\ [CacheNext]_cacheVars => CacheInv'
  BY CacheInductive
<1>3. ASSUME CacheInv PROVE EvictedOnce
  <2>. SUFFICES ASSUME NEW i \in 1..MaxObjects, ~saved.loaded
                PROVE  /\ evicted[i] + (IF Pending(i) THEN 1 ELSE 0) <= 1
                       /\ \A k \in CacheKeys : items[k].Object.id = i => evicted[i] = 0 /\ ~Pending(i)
    BY DEF EvictedOnce
  <2>1. PlacedOnce(i)
    BY <1>3 DEF CacheInv
  <2>2. Pending(i) => i \in janitor.todo \/ \E c \in Callers : AtCaller(i, c)
    BY DEF Pending, AtCaller
  <2>3. (Pending(i) => evicted[i] = 0) /\ evicted[i] \in {0, 1}
    BY <2>1, <2>2 DEF PlacedOnce
  <2>4. \A k \in CacheKeys : AtKey(i, k) => evicted[i] = 0 /\ ~Pending(i)
    BY <2>1, <2>2 DEF PlacedOnce
  <2>. QED  BY <2>3, <2>4 DEF AtKey
<1>. QED  BY <1>1, <1>2, <1>3, PTL

\* What Get returns (ItemsKept): counting never moves an expiration, and neither the janitor, who
\* works with the clock he read before the lock, nor Load takes a live item away (Increment,
\* DeleteExpired, Load).
THEOREM ItemsKeptAlways == CacheInit /\ [][CacheNext]_cacheVars => ItemsKept
<1>1. CacheInit => CacheInv
  BY CacheInductive
<1>2. CacheInv /\ [CacheNext]_cacheVars => CacheInv'
  BY CacheInductive
<1>. DEFINE A == \A k \in CacheKeys :
                   /\ items'[k].Object.id = items[k].Object.id => items'[k].Expiration = items[k].Expiration
                   /\ (DeleteExpired \/ Load) /\ Live(k) => items'[k] = items[k]
<1>3. ASSUME CacheInv, CacheNext PROVE A
  <2>1. Kept
    BY <1>3, CacheInductive
  <2>2. ASSUME NEW k \in CacheKeys, DeleteExpired, Live(k) PROVE items'[k] = items[k]
    <3>1. items[k].Expiration \in Int /\ janitor.at \in Nat /\ now \in Nat /\ janitor.at <= now
      <4>1. items[k] \in StoredItems
        BY <1>3, CacheFacts
      <4>2. IsItem(items[k])
        BY <1>3, <4>1 DEF CacheInv, ItemsGood
      <4>. QED  BY <1>3, <4>2 DEF CacheInv, CacheTypes, IsItem
    <3>2. ~Expired(items[k], janitor.at)
      BY <2>2, <3>1 DEF Live, Expired
    <3>. QED  BY <2>2, <3>2 DEF DeleteExpired
  <2>3. ASSUME NEW k \in CacheKeys, Load, Live(k) PROVE items'[k] = items[k]
    BY <2>3 DEF Load
  <2>. QED  BY <2>1, <2>2, <2>3 DEF Kept
<1>4. CacheInv /\ [CacheNext]_cacheVars => [A]_cacheVars
  BY <1>3
<1>. HIDE DEF A
<1>5. CacheInit /\ [][CacheNext]_cacheVars => [][A]_cacheVars
  BY <1>1, <1>2, <1>4, PTL
<1>. QED  BY <1>5 DEF ItemsKept, A

-----------------------------------------------------------------------------
(* The function cache *)

Asking == {"alias", "function", "runtime"}
LookupRecords ==
  [pc : Asking \cup {"new", "done"}, qualifier : Qualifiers, at : Nat, waiting : BOOLEAN, got : Nat,
   function : Nat, hit : BOOLEAN, byName : BOOLEAN]

LookupTypes ==
  /\ registry \in [MetaKeys -> Seq(Nat)]
  /\ entries \in [MetaKeys -> [Object : Nat, Expiration : Nat]]
  /\ lookup \in [Lookups -> LookupRecords]
  /\ lclock \in Nat

\* Not read by name and not $LATEST.
Uncached(l) == l.byName \/ l.qualifier = "$LATEST"

\* A revision that was the registry's at some time since t, which has passed.
Seen(k, rev, t) == rev # 0 /\ t <= lclock /\ CurrentSince(k, rev, t)

\* What a request knows: an answer is as old as the question, and the question not older than
\* the timeout.
LookupGood(l) ==
  /\ l.waiting => l.pc \in Asking /\ l.at <= lclock /\ lclock <= l.at + RpcTimeout
  /\ l.waiting /\ l.got # 0 => Seen(KeyOf(l), l.got, l.at)
  /\ l.pc = "runtime" /\ ~l.waiting /\ Uncached(l) =>
       ~l.hit /\ Seen(<<"function", l.qualifier>>, l.function, l.at - RpcTimeout)

\* An entry was stored before its expiration by that much, and the call before by its timeout.
EntryGood(k, e) ==
  e # NoEntry => e.Expiration > 0 /\ Seen(k, e.Object, e.Expiration - Expiration - RpcTimeout)

LookupInv ==
  /\ LookupTypes
  /\ \A r \in Lookups : LookupGood(lookup[r])
  /\ \A k \in MetaKeys : EntryGood(k, entries[k])

LEMMA KeyFacts ==
  ASSUME NEW l \in LookupRecords, l.pc \in Asking
  PROVE  /\ KeyOf(l) \in MetaKeys
         /\ l.pc = "function" => KeyOf(l) = <<"function", l.qualifier>>
<1>0. l.qualifier \in Qualifiers
  BY DEF LookupRecords
<1>1. CASE l.pc = "alias"
  <2>1. KeyOf(l) = <<"alias", "alias">>
    BY <1>1 DEF KeyOf
  <2>. QED  BY <1>1, <2>1 DEF MetaKeys
<1>2. CASE l.pc = "function"
  <2>1. KeyOf(l) = <<"function", l.qualifier>>
    BY <1>2 DEF KeyOf
  <2>. QED  BY <1>0, <1>2, <2>1 DEF MetaKeys
<1>3. CASE l.pc = "runtime"
  <2>1. KeyOf(l) = <<"runtime", "go">>
    BY <1>3 DEF KeyOf
  <2>. QED  BY <1>3, <2>1 DEF MetaKeys
<1>. QED  BY <1>1, <1>2, <1>3 DEF Asking

LEMMA SeenWeaker ==
  ASSUME LookupTypes, NEW k \in MetaKeys, NEW rev \in Nat, NEW t \in Int, NEW u \in Int, u <= t, Seen(k, rev, t)
  PROVE  Seen(k, rev, u)
<1>1. lclock \in Nat /\ registry[k] \in Seq(Nat)
  BY DEF LookupTypes
<1>2. CASE rev <= Len(registry[k])
  <2>1. rev \in 1..Len(registry[k])
    BY <1>1, <1>2 DEF Seen
  <2>2. registry[k][rev] \in Nat
    BY <1>1, <2>1
  <2>. QED  BY <1>1, <1>2, <2>2 DEF Seen, CurrentSince
<1>3. CASE ~(rev <= Len(registry[k]))
  BY <1>1, <1>3 DEF Seen, CurrentSince
<1>. QED  BY <1>2, <1>3

\* A change of the registry, and the clock, leave alone what was seen.
LEMMA SeenStays ==
  ASSUME LookupTypes, NEW k \in MetaKeys, NEW rev \in Nat, NEW t \in Int, Seen(k, rev, t),
         \/ \E j \in MetaKeys : registry' = [registry EXCEPT ![j] = Append(@, lclock)] /\ UNCHANGED lclock
         \/ UNCHANGED registry /\ (lclock' = lclock + 1 \/ lclock' = lclock)
  PROVE  Seen(k, rev, t)'
<1>0. lclock \in Nat /\ registry[k] \in Seq(Nat) /\ Len(registry[k]) \in Nat
  BY DEF LookupTypes
<1>1. CASE UNCHANGED registry /\ (lclock' = lclock + 1 \/ lclock' = lclock)
  <2>1. t <= lclock'
    BY <1>0, <1>1 DEF Seen
  <2>. QED  BY <1>1, <2>1 DEF Seen, CurrentSince
<1>2. ASSUME NEW j \in MetaKeys, registry' = [registry EXCEPT ![j] = Append(@, lclock)], UNCHANGED lclock
      PROVE  Seen(k, rev, t)'
  <2>1. CASE j # k
    <3>1. registry'[k] = registry[k]
      BY <1>2, <2>1 DEF LookupTypes
    <3>. QED  BY <1>2, <3>1 DEF Seen, CurrentSince
  <2>2. CASE j = k
    <3>1. registry'[k] = Append(registry[k], lclock)
      BY <1>2, <2>2 DEF LookupTypes
    <3>2. /\ Len(registry'[k]) = Len(registry[k]) + 1 /\ registry'[k][Len(registry[k]) + 1] = lclock
          /\ \A i \in 1..Len(registry[k]) : registry'[k][i] = registry[k][i]
      BY <1>0, <3>1
    <3>3. CASE rev = Len(registry[k]) + 1
      BY <1>0, <1>2, <3>2, <3>3 DEF Seen, CurrentSince
    <3>4. CASE rev # Len(registry[k]) + 1 /\ rev <= Len(registry[k])
      <4>1. rev \in 1..Len(registry[k])
        BY <1>0, <3>4 DEF Seen
      <4>. QED  BY <1>2, <3>2, <3>4, <4>1 DEF Seen, CurrentSince
    <3>5. CASE rev # Len(registry[k]) + 1 /\ ~(rev <= Len(registry[k]))
      <4>1. ~(rev <= Len(registry'[k]))
        BY <1>0, <3>2, <3>5
      <4>. QED  BY <1>2, <4>1 DEF Seen, CurrentSince
    <3>. QED  BY <3>3, <3>4, <3>5
  <2>. QED  BY <2>1, <2>2
<1>. QED  BY <1>1, <1>2

\* A step of one request that leaves the registry and the clock alone.
LEMMA RequestStep ==
  ASSUME LookupInv, NEW r \in Lookups, NEW l \in LookupRecords, LookupGood(l), LookupSet(r, l),
         UNCHANGED <<registry, lclock>>,
         entries' \in [MetaKeys -> [Object : Nat, Expiration : Nat]], \A k \in MetaKeys : EntryGood(k, entries'[k])
  PROVE  LookupInv'
<1>1. lookup' = [lookup EXCEPT ![r] = l] /\ lookup \in [Lookups -> LookupRecords]
  BY DEF LookupSet, LookupInv, LookupTypes
<1>2. LookupTypes'
  BY <1>1 DEF LookupInv, LookupTypes
<1>4. ASSUME NEW s \in Lookups PROVE LookupGood(lookup[s])'
  <2>1. lookup'[s] = IF s = r THEN l ELSE lookup[s]
    BY <1>1
  <2>2. lookup'[s] \in LookupRecords /\ LookupGood(lookup'[s])
    BY <1>1, <2>1 DEF LookupInv
  <2>. QED  BY <2>2 DEF LookupGood, Seen, CurrentSince, KeyOf, Uncached
<1>5. ASSUME NEW k \in MetaKeys PROVE EntryGood(k, entries[k])'
  <2>1. EntryGood(k, entries'[k])
    OBVIOUS
  <2>. QED  BY <2>1 DEF EntryGood, Seen, CurrentSince
<1>. QED  BY <1>2, <1>4, <1>5 DEF LookupInv

LEMMA NewLookupGood ==
  /\ NewLookup \in LookupRecords /\ NewLookup.waiting = FALSE /\ NewLookup.pc = "new"
  /\ [NewLookup EXCEPT !.pc = "done"] \in LookupRecords /\ LookupGood([NewLookup EXCEPT !.pc = "done"])
  /\ LookupGood(NewLookup)
<1>1. NewLookup \in LookupRecords
  BY DEF NewLookup, LookupRecords, Qualifiers
<1>2. [NewLookup EXCEPT !.pc = "done"] \in LookupRecords
  BY <1>1 DEF LookupRecords
<1>3. NewLookup.waiting = FALSE /\ NewLookup.pc = "new"
  BY DEF NewLookup
<1>4. [NewLookup EXCEPT !.pc = "done"].waiting = FALSE /\ [NewLookup EXCEPT !.pc = "done"].pc = "done"
  BY DEF NewLookup
<1>. QED  BY <1>1, <1>2, <1>3, <1>4 DEF LookupGood

\* The step after a revision is known: read from the cache, which holds for no function that is
\* not cached, or answered by the registry.
LEMMA ProceedGood ==
  ASSUME LookupInv, NEW r \in Lookups, NEW rev \in Nat, NEW hit \in BOOLEAN, lookup[r].pc \in Asking, Proceed(r, rev, hit),
         lookup[r].pc = "function" /\ Uncached(lookup[r]) =>
           ~hit /\ Seen(KeyOf(lookup[r]), rev, lclock - RpcTimeout)
  PROVE  \E l \in LookupRecords : LookupGood(l) /\ LookupSet(r, l)
<1>0. lookup[r] \in LookupRecords /\ lclock \in Nat
  BY DEF LookupInv, LookupTypes
<1>. DEFINE b == [lookup[r] EXCEPT !.waiting = FALSE, !.got = 0, !.at = 0]
<1>1. /\ b \in LookupRecords /\ b.waiting = FALSE /\ b.pc = lookup[r].pc /\ b.qualifier = lookup[r].qualifier
      /\ b.byName = lookup[r].byName
  BY <1>0 DEF LookupRecords
<1>2. CASE lookup[r].pc = "alias"
  <2>0. b.pc = "alias" /\ Proceed(r, rev, hit)
    BY <1>1, <1>2
  <2>1. PICK q \in Canary(rev) : LookupSet(r, [b EXCEPT !.pc = "function", !.qualifier = q])
    BY <2>0, Zenon DEF Proceed
  <2>2. q \in Qualifiers
    BY DEF Canary, Qualifiers
  <2>. DEFINE l == [b EXCEPT !.pc = "function", !.qualifier = q]
  <2>. HIDE DEF b
  <2>3. l \in LookupRecords /\ l.pc = "function" /\ l.waiting = FALSE
    BY <1>1, <2>2 DEF LookupRecords, Asking
  <2>4. LookupGood(l)
    BY <2>3 DEF LookupGood
  <2>. QED  BY <2>1, <2>3, <2>4
<1>3. CASE lookup[r].pc = "function"
  <2>1. \/ LookupSet(r, [b EXCEPT !.pc = "runtime", !.at = lclock, !.function = rev, !.hit = hit])
        \/ LookupSet(r, [NewLookup EXCEPT !.pc = "done"])
    BY <1>1, <1>3 DEF Proceed
  <2>. DEFINE l == [b EXCEPT !.pc = "runtime", !.at = lclock, !.function = rev, !.hit = hit]
  <2>2. CASE LookupSet(r, l)
    <3>1. /\ l \in LookupRecords /\ l.pc = "runtime" /\ l.waiting = FALSE /\ l.at = lclock /\ l.function = rev
          /\ l.hit = hit /\ l.qualifier = lookup[r].qualifier /\ l.byName = lookup[r].byName
      <4>. HIDE DEF b
      <4>. QED  BY <1>0, <1>1 DEF LookupRecords, Asking
    <3>. HIDE DEF l
    <3>2. Uncached(l) => ~l.hit /\ Seen(<<"function", l.qualifier>>, l.function, l.at - RpcTimeout)
      BY <1>0, <1>3, <3>1, KeyFacts DEF Uncached
    <3>3. LookupGood(l)
      BY <3>1, <3>2 DEF LookupGood
    <3>. QED  BY <2>2, <3>1, <3>3
  <2>. QED  BY <2>1, <2>2, NewLookupGood
<1>4. CASE lookup[r].pc = "runtime"
  <2>1. LookupSet(r, [NewLookup EXCEPT !.pc = "done"])
    BY <1>1, <1>4 DEF Proceed
  <2>. QED  BY <2>1, NewLookupGood
<1>. QED  BY <1>2, <1>3, <1>4 DEF Asking

LEMMA LookupSteps ==
  ASSUME LookupInv, NEW r \in Lookups,
         \/ \E q \in Qualifiers, n \in BOOLEAN : getFunction(r, q, n)
         \/ HitCache(r) \/ MissCache(r) \/ RegistryAnswers(r) \/ RpcReturns(r) \/ RpcFails(r)
  PROVE  LookupInv'
<1>0. /\ lookup[r] \in LookupRecords /\ lclock \in Nat /\ LookupGood(lookup[r]) /\ LookupTypes
      /\ entries \in [MetaKeys -> [Object : Nat, Expiration : Nat]] /\ \A k \in MetaKeys : EntryGood(k, entries[k])
      /\ RpcTimeout \in Nat /\ Expiration \in Nat \ {0}
  BY FunctionCacheAssumption DEF LookupInv, LookupTypes
<1>1. ASSUME NEW l \in LookupRecords, LookupGood(l), LookupSet(r, l), UNCHANGED <<registry, lclock, entries>>
      PROVE  LookupInv'
  <2>1. entries' = entries
    BY <1>1
  <2>. QED  BY <1>0, <1>1, <2>1, RequestStep
<1>2. ASSUME NEW q \in Qualifiers, NEW n \in BOOLEAN, getFunction(r, q, n) PROVE LookupInv'
  <2>. DEFINE p == IF q = "alias" THEN "alias" ELSE "function"
              l == [NewLookup EXCEPT !.pc = p, !.qualifier = q, !.byName = n]
  <2>1. LookupSet(r, l) /\ UNCHANGED <<registry, lclock, entries>>
    BY <1>2 DEF getFunction
  <2>2. p \in Asking /\ p # "runtime"
    BY DEF Asking
  <2>. HIDE DEF p
  <2>3. l \in LookupRecords /\ l.waiting = FALSE /\ l.pc # "runtime"
    BY <2>2, NewLookupGood DEF LookupRecords
  <2>. HIDE DEF l
  <2>4. LookupGood(l)
    BY <2>3 DEF LookupGood
  <2>. QED  BY <1>1, <2>1, <2>3, <2>4
<1>3. CASE HitCache(r)
  <2>. DEFINE k == KeyOf(lookup[r])
  <2>1. /\ lookup[r].pc \in Asking /\ WithCache(lookup[r]) /\ Proceed(r, entries[k].Object, TRUE)
        /\ UNCHANGED <<registry, lclock, entries>>
    BY <1>3 DEF HitCache, Asking
  <2>2. k \in MetaKeys
    BY <1>0, <2>1, KeyFacts
  <2>. HIDE DEF k
  <2>3. entries[k].Object \in Nat
    BY <1>0, <2>2
  <2>4. ~(lookup[r].pc = "function" /\ Uncached(lookup[r]))
    BY <2>1 DEF WithCache, Uncached
  <2>5. \E l \in LookupRecords : LookupGood(l) /\ LookupSet(r, l)
    BY <2>1, <2>3, <2>4, ProceedGood
  <2>. QED  BY <1>1, <2>1, <2>5
<1>4. CASE MissCache(r)
  <2>. DEFINE o == lookup[r]
              l == [NewLookup EXCEPT !.pc = o.pc, !.qualifier = o.qualifier, !.byName = o.byName,
                                     !.waiting = TRUE, !.at = lclock]
  <2>1. LookupSet(r, l) /\ UNCHANGED <<registry, lclock, entries>> /\ o.pc \in Asking
    BY <1>4 DEF MissCache, Asking
  <2>2. o.qualifier \in Qualifiers /\ o.byName \in BOOLEAN /\ o \in LookupRecords
    BY <1>0 DEF LookupRecords
  <2>. HIDE DEF o
  <2>3. /\ l \in LookupRecords /\ l.waiting = TRUE /\ l.pc = o.pc /\ l.at = lclock /\ l.got = NewLookup.got
    BY <1>0, <2>1, <2>2, NewLookupGood DEF LookupRecords
  <2>4. NewLookup.got = 0
    BY DEF NewLookup
  <2>. HIDE DEF l
  <2>5. lclock <= lclock + RpcTimeout
    BY <1>0
  <2>6. LookupGood(l)
    BY <1>0, <2>1, <2>3, <2>4, <2>5 DEF LookupGood
  <2>. QED  BY <1>1, <2>1, <2>3, <2>6
<1>5. CASE RegistryAnswers(r)
  <2>. DEFINE k == KeyOf(lookup[r])
              l == [lookup[r] EXCEPT !.got = Revision(k)]
  <2>1. LookupSet(r, l) /\ UNCHANGED <<registry, lclock, entries>> /\ lookup[r].waiting
    BY <1>5 DEF RegistryAnswers
  <2>2. lookup[r].pc \in Asking /\ lookup[r].at <= lclock
    BY <1>0, <2>1 DEF LookupGood
  <2>3. k \in MetaKeys
    BY <1>0, <2>2, KeyFacts
  <2>4. Revision(k) \in Nat \ {0} /\ Revision(k) > Len(registry[k]) /\ Len(registry[k]) \in Nat
    <3>1. Len(registry[k]) \in Nat
      BY <1>0, <2>3 DEF LookupTypes
    <3>. HIDE DEF k
    <3>. QED  BY <3>1 DEF Revision
  <2>5. /\ l \in LookupRecords /\ l.got = Revision(k) /\ l.at = lookup[r].at /\ l.pc = lookup[r].pc
        /\ l.waiting = lookup[r].waiting /\ l.qualifier = lookup[r].qualifier
    <3>. HIDE DEF k
    <3>. QED  BY <1>0, <2>4 DEF LookupRecords
  <2>6. KeyOf(l) = k
    <3>1. KeyOf(l) = KeyOf(lookup[r])
      <4>. HIDE DEF l
      <4>. QED  BY <2>5 DEF KeyOf
    <3>. QED  BY <3>1
  <2>. HIDE DEF l, k
  <2>7. Seen(KeyOf(l), l.got, l.at)
    <3>1. ~(l.got <= Len(registry[k]))
      BY <2>4, <2>5
    <3>. QED  BY <2>2, <2>4, <2>5, <2>6, <3>1 DEF Seen, CurrentSince
  <2>8. LookupGood(l)
    BY <1>0, <2>1, <2>5, <2>7 DEF LookupGood
  <2>. QED  BY <1>1, <2>1, <2>5, <2>8
<1>6. CASE RpcReturns(r)
  <2>. DEFINE k == KeyOf(lookup[r])
              e == StoreItem(lookup[r], lookup[r].got)
  <2>1. /\ lookup[r].waiting /\ lookup[r].got # 0 /\ Proceed(r, lookup[r].got, FALSE)
        /\ entries' = entries \/ entries' = [entries EXCEPT ![k] = e]
        /\ UNCHANGED <<registry, lclock>>
    BY <1>6 DEF RpcReturns
  <2>2. /\ lookup[r].pc \in Asking /\ lookup[r].at <= lclock /\ lclock <= lookup[r].at + RpcTimeout
        /\ Seen(k, lookup[r].got, lookup[r].at) /\ lookup[r].at \in Nat /\ lookup[r].got \in Nat
    BY <1>0, <2>1 DEF LookupGood, LookupRecords
  <2>3. k \in MetaKeys
    BY <1>0, <2>2, KeyFacts
  <2>4. Seen(k, lookup[r].got, lclock - RpcTimeout)
    <3>1. lclock - RpcTimeout \in Int /\ lclock - RpcTimeout <= lookup[r].at
      BY <1>0, <2>2
    <3>. HIDE DEF k
    <3>. QED  BY <1>0, <2>2, <2>3, <3>1, SeenWeaker
  <2>5. e = [Object |-> lookup[r].got, Expiration |-> lclock + Expiration]
    BY <1>0 DEF StoreItem, NewItem, DefaultExpiration
  <2>6. EntryGood(k, e) /\ e \in [Object : Nat, Expiration : Nat]
    <3>1. e.Object = lookup[r].got /\ e.Expiration = lclock + Expiration /\ e \in [Object : Nat, Expiration : Nat]
      BY <1>0, <2>2, <2>5
    <3>. HIDE DEF e, k
    <3>2. e.Expiration > 0 /\ e.Expiration - Expiration - RpcTimeout = lclock - RpcTimeout
      BY <1>0, <3>1
    <3>. QED  BY <2>4, <3>1, <3>2 DEF EntryGood
  <2>. HIDE DEF e, k
  <2>7. entries' \in [MetaKeys -> [Object : Nat, Expiration : Nat]] /\ \A j \in MetaKeys : EntryGood(j, entries'[j])
    <3>1. CASE entries' = entries
      BY <1>0, <3>1
    <3>2. CASE entries' = [entries EXCEPT ![k] = e]
      <4>1. \A j \in MetaKeys : entries'[j] = IF j = k THEN e ELSE entries[j]
        BY <1>0, <3>2
      <4>. QED  BY <1>0, <2>3, <2>6, <3>2, <4>1
    <3>. QED  BY <2>1, <3>1, <3>2
  <2>8. \E l \in LookupRecords : LookupGood(l) /\ LookupSet(r, l)
    BY <2>1, <2>2, <2>4, ProceedGood DEF k
  <2>. QED  BY <2>1, <2>7, <2>8, RequestStep
<1>7. CASE RpcFails(r)
  <2>1. LookupSet(r, [NewLookup EXCEPT !.pc = "done"]) /\ UNCHANGED <<registry, lclock, entries>>
    BY <1>7 DEF RpcFails
  <2>. QED  BY <1>1, <2>1, NewLookupGood
<1>. QED  BY <1>2, <1>3, <1>4, <1>5, <1>6, <1>7

\* The registry's changes and the clock. Time does not pass over a call that is out of time.
LEMMA RegistrySteps ==
  ASSUME LookupInv, (\E k \in MetaKeys : Publish(k)) \/ LookupTick \/ UNCHANGED lookupVars
  PROVE  LookupInv'
<1>0. /\ LookupTypes /\ lclock \in Nat /\ RpcTimeout \in Nat /\ Expiration \in Nat
      /\ entries' = entries /\ lookup' = lookup /\ registry \in [MetaKeys -> Seq(Nat)]
      /\ entries \in [MetaKeys -> [Object : Nat, Expiration : Nat]]
      /\ lookup \in [Lookups -> LookupRecords]
  BY FunctionCacheAssumption DEF LookupInv, LookupTypes, Publish, LookupTick, lookupVars
<1>1. \/ \E j \in MetaKeys : registry' = [registry EXCEPT ![j] = Append(@, lclock)] /\ UNCHANGED lclock
      \/ UNCHANGED registry /\ (lclock' = lclock + 1 \/ lclock' = lclock)
  BY DEF Publish, LookupTick, lookupVars
<1>2. LookupTypes'
  <2>1. lclock' \in Nat
    BY <1>0, <1>1
  <2>2. registry' \in [MetaKeys -> Seq(Nat)]
    <3>1. ASSUME NEW j \in MetaKeys, registry' = [registry EXCEPT ![j] = Append(@, lclock)]
          PROVE  registry' \in [MetaKeys -> Seq(Nat)]
      <4>1. Append(registry[j], lclock) \in Seq(Nat)
        BY <1>0
      <4>2. registry' = [registry EXCEPT ![j] = Append(registry[j], lclock)]
        BY <1>0, <3>1
      <4>. HIDE DEF MetaKeys
      <4>. QED  BY <1>0, <4>1, <4>2
    <3>. QED  BY <1>0, <1>1, <3>1
  <2>. QED  BY <1>0, <2>1, <2>2 DEF LookupTypes
<1>3. ASSUME NEW k \in MetaKeys, NEW rev \in Nat, NEW t \in Int, Seen(k, rev, t) PROVE Seen(k, rev, t)'
  BY <1>0, <1>1, <1>3, SeenStays
<1>4. ASSUME NEW r \in Lookups PROVE LookupGood(lookup[r])'
  <2>. DEFINE l == lookup[r]
  <2>0. /\ l \in LookupRecords /\ lookup'[r] = l /\ LookupGood(l) /\ l.at \in Nat /\ l.got \in Nat /\ l.function \in Nat
        /\ l.qualifier \in Qualifiers /\ l.waiting \in BOOLEAN
    BY <1>0 DEF LookupInv, LookupRecords
  <2>1. l.waiting => lclock' <= l.at + RpcTimeout
    <3>1. CASE lclock' = lclock
      BY <2>0, <3>1 DEF LookupGood
    <3>2. CASE LookupTick
      <4>. SUFFICES ASSUME l.waiting PROVE lclock' <= l.at + RpcTimeout
        OBVIOUS
      <4>1. lclock - l.at < RpcTimeout /\ lclock' = lclock + 1
        BY <3>2 DEF LookupTick
      <4>. QED  BY <1>0, <2>0, <4>1
    <3>. QED  BY <3>1, <3>2 DEF Publish, lookupVars
  <2>. HIDE DEF l
  <2>2. l.waiting => l.pc \in Asking /\ l.at <= lclock'
    BY <1>0, <1>1, <2>0 DEF LookupGood
  <2>3. l.waiting /\ l.got # 0 => Seen(KeyOf(l), l.got, l.at)'
    <3>. SUFFICES ASSUME l.waiting, l.got # 0 PROVE Seen(KeyOf(l), l.got, l.at)'
      OBVIOUS
    <3>1. KeyOf(l) \in MetaKeys /\ Seen(KeyOf(l), l.got, l.at) /\ l.at \in Int
      BY <2>0, <2>2, KeyFacts DEF LookupGood
    <3>2. PICK k \in MetaKeys, g \in Nat, a \in Int : k = KeyOf(l) /\ g = l.got /\ a = l.at
      BY <2>0, <3>1
    <3>3. Seen(k, g, a)'
      BY <1>3, <3>1, <3>2
    <3>4. l' = l
      BY <1>0 DEF l
    <3>. QED  BY <3>2, <3>3, <3>4 DEF KeyOf, Seen, CurrentSince
  <2>4. l.pc = "runtime" /\ ~l.waiting /\ Uncached(l) =>
          ~l.hit /\ Seen(<<"function", l.qualifier>>, l.function, l.at - RpcTimeout)'
    <3>. SUFFICES ASSUME l.pc = "runtime", ~l.waiting, Uncached(l)
                  PROVE  ~l.hit /\ Seen(<<"function", l.qualifier>>, l.function, l.at - RpcTimeout)'
      OBVIOUS
    <3>1. ~l.hit /\ Seen(<<"function", l.qualifier>>, l.function, l.at - RpcTimeout)
      BY <2>0 DEF LookupGood
    <3>2. <<"function", l.qualifier>> \in MetaKeys /\ l.at - RpcTimeout \in Int
      BY <1>0, <2>0 DEF MetaKeys
    <3>3. PICK k \in MetaKeys, g \in Nat, a \in Int : k = <<"function", l.qualifier>> /\ g = l.function /\ a = l.at - RpcTimeout
      BY <2>0, <3>2
    <3>4. Seen(k, g, a)'
      BY <1>3, <3>1, <3>3
    <3>5. l' = l
      BY <1>0 DEF l
    <3>. QED  BY <3>1, <3>3, <3>4, <3>5 DEF Seen, CurrentSince
  <2>5. l' = l /\ l = lookup[r]
    BY <1>0 DEF l
  <2>. QED  BY <2>0, <2>1, <2>2, <2>3, <2>4, <2>5 DEF LookupGood, KeyOf, Uncached, Seen, CurrentSince
<1>5. ASSUME NEW k \in MetaKeys PROVE EntryGood(k, entries[k])'
  <2>. SUFFICES ASSUME entries[k] # NoEntry PROVE EntryGood(k, entries[k])'
    BY <1>0 DEF EntryGood, NoEntry
  <2>1. PICK e \in [Object : Nat, Expiration : Nat] : e = entries[k]
    BY <1>0
  <2>2. e.Expiration > 0 /\ Seen(k, e.Object, e.Expiration - Expiration - RpcTimeout)
    BY <2>1 DEF LookupInv, EntryGood
  <2>3. PICK g \in Nat, a \in Int : g = e.Object /\ a = e.Expiration - Expiration - RpcTimeout
    BY <1>0
  <2>4. Seen(k, g, a)'
    BY <1>3, <2>2, <2>3
  <2>5. Seen(k, e.Object, e.Expiration - Expiration - RpcTimeout)'
    BY <2>3, <2>4 DEF Seen, CurrentSince
  <2>. QED  BY <1>0, <2>1, <2>2, <2>5 DEF EntryGood
<1>. QED  BY <1>2, <1>4, <1>5 DEF LookupInv

LEMMA LookupStart == LookupInit => LookupInv
<1>. SUFFICES ASSUME LookupInit PROVE LookupInv
  OBVIOUS
<1>1. NoEntry \in [Object : Nat, Expiration : Nat] /\ << >> \in Seq(Nat)
  BY DEF NoEntry
<1>2. LookupTypes
  <2>1. registry \in [MetaKeys -> Seq(Nat)] /\ entries \in [MetaKeys -> [Object : Nat, Expiration : Nat]] /\ lclock \in Nat
    BY <1>1 DEF LookupInit
  <2>2. lookup \in [Lookups -> LookupRecords]
    BY NewLookupGood DEF LookupInit
  <2>. QED  BY <2>1, <2>2 DEF LookupTypes
<1>3. \A r \in Lookups : LookupGood(lookup[r])
  BY NewLookupGood DEF LookupInit
<1>4. \A k \in MetaKeys : EntryGood(k, entries[k])
  BY DEF LookupInit, EntryGood
<1>. QED  BY <1>2, <1>3, <1>4 DEF LookupInv

\* What a request gets of the cache is not older than its expiration and one call of the registry,
\* and what it gets for $LATEST or by name was the registry's while it asked, for any number of
\* requests, versions, timeouts and expirations.
THEOREM AgeAlways == LookupInit /\ [][LookupNext]_lookupVars => []AgeBounded
<1>1. LookupInv /\ [LookupNext]_lookupVars => LookupInv'
  BY LookupSteps, RegistrySteps DEF LookupNext
<1>2. LookupInv => AgeBounded
  <2>. SUFFICES ASSUME LookupInv PROVE AgeBounded
    OBVIOUS
  <2>0. /\ LookupTypes /\ lclock \in Nat /\ RpcTimeout \in Nat /\ Expiration \in Nat
        /\ entries \in [MetaKeys -> [Object : Nat, Expiration : Nat]]
    BY FunctionCacheAssumption DEF LookupInv, LookupTypes
  <2>1. BoundedStaleness
    <3>. SUFFICES ASSUME NEW k \in MetaKeys, entries[k] # NoEntry, ~Expired(entries[k], lclock)
                  PROVE  CurrentSince(k, entries[k].Object, lclock - Expiration - RpcTimeout)
      BY DEF BoundedStaleness
    <3>1. PICK e \in [Object : Nat, Expiration : Nat] : e = entries[k]
      BY <2>0
    <3>2. e.Expiration > 0 /\ Seen(k, e.Object, e.Expiration - Expiration - RpcTimeout)
      BY <3>1 DEF LookupInv, EntryGood
    <3>3. lclock <= e.Expiration
      BY <2>0, <3>1, <3>2 DEF Expired
    <3>4. /\ lclock - Expiration - RpcTimeout \in Int /\ e.Expiration - Expiration - RpcTimeout \in Int
          /\ lclock - Expiration - RpcTimeout <= e.Expiration - Expiration - RpcTimeout
      BY <2>0, <3>3
    <3>5. Seen(k, e.Object, lclock - Expiration - RpcTimeout)
      BY <2>0, <3>2, <3>4, SeenWeaker
    <3>. QED  BY <3>1, <3>5 DEF Seen
  <2>2. LatestIsCurrent
    BY DEF LatestIsCurrent, LookupInv, LookupGood, Uncached, Seen
  <2>. QED  BY <2>1, <2>2 DEF AgeBounded
<1>. QED  BY <1>1, <1>2, LookupStart, PTL

-----------------------------------------------------------------------------
(* The http doors *)

Statuses == {200, 404, 500}
Errors == {"", "Handled", "Unhandled"}
ResultKinds == {"", "text", "json", "teapot", "base64"}
DoorAnswers == [status : Nat, header : Errors, kind : ResultKinds, body : Nat, stream : Nat]
DoorAts == {"idle", "invoke", "rpc", "made", "answered", "dead"}
ConnAts == {"idle", "do", "answered", "dead"}
InvokeTypes == {"", "common", "event", "stream"}
DoorRecords ==
  [at : DoorAts, id : Nat, stream : BOOLEAN, toBody : BOOLEAN, conn : Conns \cup {0}, answer : DoorAnswers]
ConnRecords ==
  [at : ConnAts, id : Nat, kind : InvokeTypes, body : Nat, toBody : BOOLEAN, door : Doors \cup {0}, answer : DoorAnswers]
EventRecords == [id : Nat, body : Nat, conn : Conns]
RunRecords == [id : Nat, body : Nat, status : Statuses, error : Errors, stream : BOOLEAN]

DoorTypes ==
  /\ client \in {"call", "rpc"} /\ issued \in Nat
  /\ doors \in [Doors -> DoorRecords] /\ conns \in [Conns -> ConnRecords]
  /\ events \subseteq EventRecords /\ ran \subseteq RunRecords

\* Whoever may still run request i: the connection that is in Do, the goroutine of an event, or
\* the door that has not yet called the controller.
Holders(i) ==
  {<<"conn", k>> : k \in {j \in Conns : conns[j].at = "do" /\ conns[j].id = i}}
    \cup {<<"event", e>> : e \in {f \in events : f.id = i}}
    \cup {<<"door", d>> : d \in {f \in Doors : doors[f].at = "invoke" /\ doors[f].id = i}}

RunsOf(i) == {r \in ran : r.id = i}

\* Nobody runs request i any more.
Settled(i) == i <= issued /\ Holders(i) = {}

\* A request has one holder, and none once it has run.
OneRun ==
  /\ \A i \in Nat : \A x, y \in Holders(i) : x = y
  /\ \A i \in Nat : RunsOf(i) # {} => Settled(i)
  /\ \A i \in Nat : i > issued => Holders(i) = {}

Bodies ==
  /\ \A k \in Conns : conns[k].body \in {conns[k].id, Lost}
  /\ \A e \in events : e.body \in {e.id, Lost}
  /\ \A r \in ran : r.body \in {r.id, Lost}

\* The answer says how the one run of the request ended.
Tells(a, i, quiet) ==
  /\ Settled(i) /\ RunsOf(i) # {}
  /\ \A r \in RunsOf(i) : r.status = a.status /\ (quiet \/ r.error = a.header)

DoorTold(d) ==
  /\ d.at = "rpc" => d.conn \in Conns
  /\ d.at = "made" =>
       /\ Tells(d.answer, d.id, d.stream \/ (d.toBody /\ client = "rpc"))
       /\ d.stream \/ d.answer.body = d.id
  /\ d.at = "answered" /\ d.answer.status < 300 =>
       /\ Settled(d.id) /\ RunsOf(d.id) # {}
       /\ d.stream \/ d.answer.body = d.id
       /\ d.stream \/ (d.toBody /\ client = "rpc")
            \/ \A r \in RunsOf(d.id) : r.status = 200 /\ r.error # "Unhandled"

ConnTold(c) ==
  c.at = "answered" =>
    /\ c.answer.status = 200 => RunsOf(c.id) # {} /\ c.id \in {c.answer.body, c.answer.stream}
    /\ c.door # NoOne => Tells(c.answer, c.id, c.toBody) /\ c.answer.body = c.id

\* The context of a connection that a door waits for is that of the door's request.
Linked(k, c) ==
  c.at # "dead" /\ c.door # NoOne =>
    /\ c.door \in Doors /\ c.kind = "common" /\ c.at \in {"do", "answered"} /\ client = "rpc"
    /\ doors[c.door].at = "rpc" /\ doors[c.door].conn = k
    /\ doors[c.door].id = c.id /\ doors[c.door].toBody = c.toBody

DoorInv ==
  /\ DoorTypes /\ OneRun /\ Bodies
  /\ \A d \in Doors : DoorTold(doors[d])
  /\ \A k \in Conns : ConnTold(conns[k]) /\ Linked(k, conns[k])

\* A step that takes holders away, or gives a request that has one, or is new, another, and runs
\* only what was held and is not any more, leaves what is settled as it is.
SettledStays ==
  \A i \in Nat : Settled(i) => Settled(i)' /\ RunsOf(i)' = RunsOf(i)

LEMMA OutcomeTypes ==
  ASSUME NEW o \in Outcomes
  PROVE  o.status \in Statuses /\ o.error \in Errors /\ o.kind \in ResultKinds
<1>1. CASE o \in [status : {404, 500}, error : {""}, kind : {"text"}]
  <2>1. o.status \in {404, 500} /\ o.error \in {""} /\ o.kind \in {"text"}
    BY <1>1, Zenon
  <2>2. o.status \in Statuses
    BY <2>1, Zenon DEF Statuses
  <2>3. o.error \in Errors
    BY <2>1, Zenon DEF Errors
  <2>4. o.kind \in ResultKinds
    BY <2>1, Zenon DEF ResultKinds
  <2>. QED  BY <2>2, <2>3, <2>4
<1>2. CASE o \in [status : {200}, error : {"", "Handled"}, kind : {"text", "json", "teapot", "base64"}]
  <2>1. o.status \in {200} /\ o.error \in {"", "Handled"} /\ o.kind \in {"text", "json", "teapot", "base64"}
    BY <1>2, Zenon
  <2>2. o.status \in Statuses
    BY <2>1, Zenon DEF Statuses
  <2>3. o.error \in Errors
    BY <2>1, Zenon DEF Errors
  <2>4. o.kind \in ResultKinds
    BY <2>1, Zenon DEF ResultKinds
  <2>. QED  BY <2>2, <2>3, <2>4
<1>3. CASE o \in [status : {200}, error : {"Unhandled"}, kind : {"json"}]
  <2>1. o.status \in {200} /\ o.error \in {"Unhandled"} /\ o.kind \in {"json"}
    BY <1>3, Zenon
  <2>2. o.status \in Statuses
    BY <2>1, Zenon DEF Statuses
  <2>3. o.error \in Errors
    BY <2>1, Zenon DEF Errors
  <2>4. o.kind \in ResultKinds
    BY <2>1, Zenon DEF ResultKinds
  <2>. QED  BY <2>2, <2>3, <2>4
<1>. QED  BY <1>1, <1>2, <1>3, ZenonT(40) DEF Outcomes

RunSays(r, i, body, o) ==
  r \in RunRecords /\ r.id = i /\ r.body = body /\ r.status = o.status /\ r.error = o.error

LEMMA RanTypes ==
  ASSUME NEW o \in Outcomes, NEW i \in Nat, NEW s \in BOOLEAN, NEW body \in Nat
  PROVE  RunSays(Ran(i, body, o, s), i, body, o)
<1>1. Ran(i, body, o, s) = [id |-> i, body |-> body, status |-> o.status, error |-> o.error, stream |-> s]
  BY DEF Ran
<1>. QED  BY <1>1, OutcomeTypes DEF RunSays, RunRecords

AnswerSays(a, i, s, b, o) ==
  /\ a \in DoorAnswers /\ a.status = o.status
  /\ s \/ b \/ a.header = o.error
  /\ ~s => a.body = i
  /\ s /\ o.status = 200 => a.stream = i

LEMMA RespondTypes ==
  ASSUME NEW o \in Outcomes, NEW i \in Nat, NEW s \in BOOLEAN, NEW b \in BOOLEAN
  PROVE  AnswerSays(Respond(o, i, s, b), i, s, b, o)
<1>. DEFINE h == IF s \/ b THEN "" ELSE o.error
            k == IF b /\ o.status = 200 THEN "json" ELSE o.kind
            y == IF s THEN Lost ELSE i
            z == IF s /\ o.status = 200 THEN i ELSE Lost
<1>4. Respond(o, i, s, b) = [status |-> o.status, header |-> h, kind |-> k, body |-> y, stream |-> z]
  BY DEF Respond
<1>5. h \in Errors /\ (s \/ b \/ h = o.error)
  BY OutcomeTypes, Zenon DEF Errors
<1>6. k \in ResultKinds
  BY OutcomeTypes, Zenon DEF ResultKinds
<1>7. y \in Nat /\ z \in Nat /\ (~s => y = i) /\ (s /\ o.status = 200 => z = i)
  <2>1. Lost \in Nat
    BY DEF Lost
  <2>. QED  BY <2>1, Zenon
<1>8. o.status \in Nat
  BY OutcomeTypes DEF Statuses
<1>. HIDE DEF h, k, y, z
<1>. QED  BY <1>4, <1>5, <1>6, <1>7, <1>8 DEF AnswerSays, DoorAnswers

LEMMA HeldStep ==
  ASSUME DoorInv, issued' \in Nat, NEW j \in Nat,
         \A i \in Nat \ {j} : Holders(i)' \subseteq Holders(i),
         \A x, y \in Holders(j)' : x = y,
         \/ Holders(j) # {} /\ issued' = issued
         \/ j = issued + 1 /\ issued' = issued + 1,
         \/ ran' = ran
         \/ \E r \in RunRecords : r.id = j /\ ran' = ran \cup {r} /\ Holders(j)' = {}
  PROVE  OneRun' /\ SettledStays
<1>0. issued \in Nat /\ OneRun
  BY DEF DoorInv, DoorTypes
<1>1. ~Settled(j) /\ RunsOf(j) = {} /\ j <= issued'
  <2>1. ~Settled(j)
    BY <1>0 DEF Settled
  <2>2. Holders(j) # {} => j <= issued
    BY <1>0 DEF OneRun
  <2>. QED  BY <1>0, <2>1, <2>2 DEF OneRun
<1>2. ASSUME NEW i \in Nat, i # j PROVE RunsOf(i)' = RunsOf(i)
  BY <1>2 DEF RunsOf
<1>3. SettledStays
  <2>. SUFFICES ASSUME NEW i \in Nat, Settled(i) PROVE Settled(i)' /\ RunsOf(i)' = RunsOf(i)
    BY DEF SettledStays
  <2>1. i # j /\ Holders(i) = {} /\ i <= issued
    BY <1>1 DEF Settled
  <2>2. Holders(i)' = {} /\ i <= issued'
    BY <1>0, <2>1
  <2>. QED  BY <1>2, <2>1, <2>2 DEF Settled
<1>4. ASSUME NEW i \in Nat PROVE \A x, y \in Holders(i)' : x = y
  <2>1. CASE i = j
    BY <2>1
  <2>2. CASE i # j
    <3>1. Holders(i)' \subseteq Holders(i) /\ \A x, y \in Holders(i) : x = y
      BY <1>0, <2>2 DEF OneRun
    <3>. QED  BY <3>1
  <2>. QED  BY <2>1, <2>2
<1>5. ASSUME NEW i \in Nat, RunsOf(i)' # {} PROVE Settled(i)'
  <2>1. CASE i = j
    <3>1. \E r \in RunRecords : r.id = j /\ ran' = ran \cup {r} /\ Holders(j)' = {}
      BY <1>1, <1>5, <2>1 DEF RunsOf
    <3>. QED  BY <1>1, <2>1, <3>1 DEF Settled
  <2>2. CASE i # j
    <3>1. Settled(i)
      BY <1>0, <1>2, <1>5, <2>2 DEF OneRun
    <3>. QED  BY <1>3, <3>1 DEF SettledStays
  <2>. QED  BY <2>1, <2>2
<1>6. ASSUME NEW i \in Nat, i > issued' PROVE Holders(i)' = {}
  <2>1. i # j /\ i > issued
    BY <1>0, <1>1, <1>6
  <2>2. Holders(i) = {} /\ Holders(i)' \subseteq Holders(i)
    BY <1>0, <2>1 DEF OneRun
  <2>. QED  BY <2>2
<1>. QED  BY <1>3, <1>4, <1>5, <1>6 DEF OneRun

LEMMA QuietStep ==
  ASSUME DoorInv, \A i \in Nat : Holders(i)' \subseteq Holders(i), UNCHANGED <<ran, issued>>
  PROVE  OneRun' /\ SettledStays
<1>0. issued \in Nat /\ OneRun
  BY DEF DoorInv, DoorTypes
<1>1. ASSUME NEW i \in Nat PROVE RunsOf(i)' = RunsOf(i) /\ (Settled(i) => Settled(i)')
  <2>1. RunsOf(i)' = RunsOf(i)
    BY DEF RunsOf
  <2>2. Holders(i)' \subseteq Holders(i)
    OBVIOUS
  <2>. QED  BY <2>1, <2>2 DEF Settled
<1>2. SettledStays
  BY <1>1 DEF SettledStays
<1>3. ASSUME NEW i \in Nat PROVE \A x, y \in Holders(i)' : x = y
  <2>1. Holders(i)' \subseteq Holders(i) /\ \A x, y \in Holders(i) : x = y
    BY <1>0 DEF OneRun
  <2>. QED  BY <2>1
<1>4. ASSUME NEW i \in Nat, RunsOf(i)' # {} PROVE Settled(i)'
  BY <1>0, <1>1, <1>4 DEF OneRun
<1>5. ASSUME NEW i \in Nat, i > issued' PROVE Holders(i)' = {}
  <2>1. Holders(i)' \subseteq Holders(i) /\ Holders(i) = {}
    BY <1>0, <1>5 DEF OneRun
  <2>. QED  BY <2>1
<1>. QED  BY <1>2, <1>3, <1>4, <1>5 DEF OneRun

LEMMA ToldStays ==
  ASSUME DoorInv, SettledStays, UNCHANGED client
  PROVE  /\ \A d \in DoorRecords : DoorTold(d) => DoorTold(d)'
         /\ \A c \in ConnRecords : ConnTold(c) => ConnTold(c)'
<1>1. ASSUME NEW a \in DoorAnswers, NEW i \in Nat, NEW q \in BOOLEAN, Tells(a, i, q) PROVE Tells(a, i, q)'
  <2>1. Settled(i)' /\ RunsOf(i)' = RunsOf(i)
    BY <1>1 DEF Tells, SettledStays
  <2>. QED  BY <1>1, <2>1 DEF Tells
<1>2. ASSUME NEW i \in Nat, RunsOf(i) # {} PROVE RunsOf(i)' # {}
  BY <1>2 DEF DoorInv, OneRun, SettledStays
<1>3. ASSUME NEW d \in DoorRecords, DoorTold(d) PROVE DoorTold(d)'
  <2>0. d.id \in Nat /\ d.answer \in DoorAnswers /\ d.stream \in BOOLEAN /\ d.toBody \in BOOLEAN
    BY DEF DoorRecords
  <2>. DEFINE q == d.stream \/ (d.toBody /\ client = "rpc")
  <2>1. q \in BOOLEAN /\ q' = q
    BY DEF q
  <2>2. d.at = "made" => (d.stream \/ d.answer.body = d.id) /\ Tells(d.answer, d.id, q)'
    <3>1. d.at = "made" => (d.stream \/ d.answer.body = d.id) /\ Tells(d.answer, d.id, q)
      BY <1>3 DEF DoorTold
    <3>2. PICK p \in BOOLEAN : p = q
      BY <2>1
    <3>. HIDE DEF q
    <3>3. d.at = "made" => Tells(d.answer, d.id, p)'
      BY <1>1, <2>0, <3>1, <3>2
    <3>. QED  BY <2>1, <3>1, <3>2, <3>3 DEF Tells
  <2>3. d.at = "answered" /\ d.answer.status < 300 => Settled(d.id)' /\ RunsOf(d.id)' = RunsOf(d.id)
    BY <1>3, <2>0 DEF DoorTold, SettledStays
  <2>. QED  BY <1>3, <2>2, <2>3 DEF DoorTold
<1>4. ASSUME NEW c \in ConnRecords, ConnTold(c) PROVE ConnTold(c)'
  <2>0. c.id \in Nat /\ c.answer \in DoorAnswers /\ c.toBody \in BOOLEAN
    BY DEF ConnRecords
  <2>. QED  BY <1>1, <1>2, <1>4, <2>0 DEF ConnTold
<1>. QED  BY <1>3, <1>4

LEMMA DoorsAfter ==
  ASSUME DoorInv, DoorTypes', OneRun', SettledStays, Bodies', UNCHANGED client,
         \A d \in Doors : doors'[d] = doors[d] \/ DoorTold(doors[d])',
         \A k \in Conns : conns'[k] = conns[k] \/ ConnTold(conns[k])',
         \A k \in Conns : Linked(k, conns[k])'
  PROVE  DoorInv'
<1>1. ASSUME NEW d \in Doors PROVE DoorTold(doors[d])'
  <2>1. PICK e \in DoorRecords : e = doors[d]
    BY DEF DoorInv, DoorTypes
  <2>2. DoorTold(e)'
    BY <2>1, ToldStays DEF DoorInv
  <2>. QED  BY <2>1, <2>2 DEF DoorTold, Tells, Settled, RunsOf, Holders
<1>2. ASSUME NEW k \in Conns PROVE ConnTold(conns[k])'
  <2>1. PICK c \in ConnRecords : c = conns[k]
    BY DEF DoorInv, DoorTypes
  <2>2. ConnTold(c)'
    BY <2>1, ToldStays DEF DoorInv
  <2>. QED  BY <2>1, <2>2 DEF ConnTold, Tells, Settled, RunsOf, Holders
<1>. QED  BY <1>1, <1>2 DEF DoorInv

\* Every connection, door and event that holds a request after the step held it before, or is the
\* new holder t of request j.
LEMMA HoldersGain ==
  ASSUME NEW j, NEW t,
         \A k \in Conns : conns'[k].at = "do" =>
           (conns[k].at = "do" /\ conns'[k].id = conns[k].id) \/ (conns'[k].id = j /\ t = <<"conn", k>>),
         \A d \in Doors : doors'[d].at = "invoke" =>
           (doors[d].at = "invoke" /\ doors'[d].id = doors[d].id) \/ (doors'[d].id = j /\ t = <<"door", d>>),
         \A e \in events' : e \in events \/ (e.id = j /\ t = <<"event", e>>)
  PROVE  /\ \A i \in Nat \ {j} : Holders(i)' \subseteq Holders(i)
         /\ Holders(j)' \subseteq Holders(j) \cup {t}
<1>1. ASSUME NEW i, NEW x \in Holders(i)' PROVE x \in Holders(i) \/ (i = j /\ x = t)
  <2>1. CASE \E k \in Conns : x = <<"conn", k>> /\ conns'[k].at = "do" /\ conns'[k].id = i
    BY <2>1 DEF Holders
  <2>2. CASE \E e \in events' : x = <<"event", e>> /\ e.id = i
    BY <2>2 DEF Holders
  <2>3. CASE \E d \in Doors : x = <<"door", d>> /\ doors'[d].at = "invoke" /\ doors'[d].id = i
    BY <2>3 DEF Holders
  <2>. QED  BY <2>1, <2>2, <2>3 DEF Holders
<1>. QED  BY <1>1

LEMMA HoldersShrink ==
  ASSUME \A k \in Conns : conns'[k].at = "do" => conns[k].at = "do" /\ conns'[k].id = conns[k].id,
         \A d \in Doors : doors'[d].at = "invoke" => doors[d].at = "invoke" /\ doors'[d].id = doors[d].id,
         events' \subseteq events
  PROVE  \A i \in Nat : Holders(i)' \subseteq Holders(i)
<1>1. ASSUME NEW i \in Nat, NEW x \in Holders(i)' PROVE x \in Holders(i)
  <2>1. CASE \E k \in Conns : x = <<"conn", k>> /\ conns'[k].at = "do" /\ conns'[k].id = i
    BY <2>1 DEF Holders
  <2>2. CASE \E e \in events' : x = <<"event", e>> /\ e.id = i
    BY <2>2 DEF Holders
  <2>3. CASE \E d \in Doors : x = <<"door", d>> /\ doors'[d].at = "invoke" /\ doors'[d].id = i
    BY <2>3 DEF Holders
  <2>. QED  BY <2>1, <2>2, <2>3 DEF Holders
<1>. QED  BY <1>1

\* The holder that ran a request was its only one.
LEMMA HolderGone ==
  ASSUME DoorInv, NEW j \in Nat, NEW t \in Holders(j), t \notin Holders(j)', Holders(j)' \subseteq Holders(j)
  PROVE  Holders(j)' = {}
BY DEF DoorInv, OneRun

\* The context after InvokeHandler, and the goroutine it may have started.
Handled(k, i, kind, body, toBody, door, qualified) ==
  \E c \in ConnRecords :
    /\ conns' = [conns EXCEPT ![k] = c] /\ \A j \in Conns : conns'[j] = IF j = k THEN c ELSE conns[j]
    /\ c.id = i /\ c.kind = kind /\ c.body = body /\ c.toBody = toBody /\ c.door = door
    /\ c.at = "do" \/ (c.at = "answered" /\ c.answer.status \in {500, 201})
    /\ qualified /\ kind # "event" => c.at = "do"
    /\ \/ c.at = "do" /\ events' = events
       \/ c.at # "do" /\ events' = events
       \/ c.at # "do" /\ events' = events \cup {[id |-> i, body |-> body, conn |-> k]}

\* A request that was taken up by InvokeHandler, with the body it came with.
LEMMA InvokeHandlerGood ==
  ASSUME DoorInv, NEW k \in Conns, NEW i \in Nat, NEW kind \in {"common", "event", "stream"}, NEW body \in {i, Lost},
         NEW toBody \in BOOLEAN, NEW door \in Doors \cup {0}, NEW qualified \in BOOLEAN,
         InvokeHandler(k, i, kind, body, toBody, door, qualified)
  PROVE  Handled(k, i, kind, body, toBody, door, qualified)
<1>. DEFINE c0 == [at |-> "do", id |-> i, kind |-> kind, body |-> body, toBody |-> toBody, door |-> door,
                   answer |-> NoAnswer]
            says(status) == [c0 EXCEPT !.at = "answered", !.answer.status = status]
            event == qualified /\ kind = "event"
            c == IF ~qualified THEN says(500) ELSE IF event THEN says(201) ELSE c0
<1>0. conns' = [conns EXCEPT ![k] = c] /\ conns \in [Conns -> ConnRecords]
  BY DEF InvokeHandler, DoorInv, DoorTypes
<1>1. NoAnswer \in DoorAnswers /\ body \in Nat /\ kind \in InvokeTypes
  <2>1. "" \in Errors /\ "" \in ResultKinds /\ Lost \in Nat /\ kind \in InvokeTypes
    BY DEF Errors, ResultKinds, Lost, InvokeTypes
  <2>2. NoAnswer \in DoorAnswers
    BY <2>1 DEF NoAnswer, DoorAnswers
  <2>. QED  BY <2>1, <2>2
<1>2. c0 \in ConnRecords /\ c0.at = "do"
  BY <1>1 DEF ConnRecords, ConnAts
<1>3. ASSUME NEW st \in {500, 201}
      PROVE  says(st) \in ConnRecords /\ says(st).at = "answered" /\ says(st).answer.status = st
  <2>0. c0.answer = NoAnswer
    OBVIOUS
  <2>. HIDE DEF c0
  <2>1. PICK a \in DoorAnswers : a = [c0.answer EXCEPT !.status = st] /\ a.status = st
    <3>1. st \in Nat
      OBVIOUS
    <3>2. [NoAnswer EXCEPT !.status = st] \in DoorAnswers
      BY <1>1, <3>1 DEF DoorAnswers
    <3>3. [NoAnswer EXCEPT !.status = st].status = st
      BY <1>1 DEF DoorAnswers
    <3>. HIDE DEF DoorAnswers
    <3>. QED  BY <2>0, <3>2, <3>3, Zenon
  <2>2. says(st) = [[c0 EXCEPT !.at = "answered"] EXCEPT !.answer = a]
    <3>1. [c0 EXCEPT !.at = "answered"].answer = c0.answer
      BY <1>2 DEF ConnRecords
    <3>. QED  BY <2>1, <3>1
  <2>3. [c0 EXCEPT !.at = "answered"] \in ConnRecords /\ [c0 EXCEPT !.at = "answered"].at = "answered"
    BY <1>2 DEF ConnRecords, ConnAts
  <2>4. [[c0 EXCEPT !.at = "answered"] EXCEPT !.answer = a] \in ConnRecords
    BY <2>3 DEF ConnRecords
  <2>5. /\ [[c0 EXCEPT !.at = "answered"] EXCEPT !.answer = a].at = "answered"
        /\ [[c0 EXCEPT !.at = "answered"] EXCEPT !.answer = a].answer = a
    BY <2>3 DEF ConnRecords
  <2>. QED  BY <2>1, <2>2, <2>4, <2>5
<1>5. c0.id = i /\ c0.kind = kind /\ c0.body = body /\ c0.toBody = toBody /\ c0.door = door
  OBVIOUS
<1>4. ASSUME NEW st \in {500, 201}
      PROVE  says(st).id = i /\ says(st).kind = kind /\ says(st).body = body /\ says(st).toBody = toBody /\ says(st).door = door
  <2>. HIDE DEF c0
  <2>. QED  BY <1>2, <1>5 DEF ConnRecords
<1>6. events' = IF event THEN events \cup {[id |-> i, body |-> body, conn |-> k]} ELSE events
  BY DEF InvokeHandler
<1>7. (c = c0 /\ ~event /\ qualified) \/ (c = says(500) /\ ~qualified) \/ (c = says(201) /\ kind = "event")
  OBVIOUS
<1>. HIDE DEF c, c0, says
<1>8. /\ c \in ConnRecords
      /\ c.id = i /\ c.kind = kind /\ c.body = body /\ c.toBody = toBody /\ c.door = door
      /\ c.at = "do" \/ (c.at = "answered" /\ c.answer.status \in {500, 201})
      /\ qualified /\ kind # "event" => c.at = "do"
      /\ c.at = "do" => ~event
  BY <1>2, <1>3, <1>4, <1>5, <1>7
<1>9. \A j \in Conns : conns'[j] = IF j = k THEN c ELSE conns[j]
  BY <1>0
<1>. QED  BY <1>0, <1>6, <1>8, <1>9 DEF Handled

LEMMA AnswerFacts ==
  ASSUME NEW st \in Nat, NEW b \in Nat
  PROVE  /\ NoAnswer \in DoorAnswers
         /\ [NoAnswer EXCEPT !.status = st] \in DoorAnswers /\ [NoAnswer EXCEPT !.status = st].status = st
         /\ [NoAnswer EXCEPT !.status = st, !.body = b] \in DoorAnswers
         /\ [NoAnswer EXCEPT !.status = st, !.body = b].status = st
         /\ [NoAnswer EXCEPT !.status = st, !.body = b].body = b
<1>1. "" \in Errors /\ "" \in ResultKinds /\ Lost \in Nat
  BY DEF Errors, ResultKinds, Lost
<1>2. NoAnswer \in DoorAnswers
  BY <1>1 DEF NoAnswer, DoorAnswers
<1>3. [NoAnswer EXCEPT !.status = st] \in DoorAnswers /\ [NoAnswer EXCEPT !.status = st, !.body = b] \in DoorAnswers
  BY <1>2 DEF DoorAnswers
<1>4. /\ [NoAnswer EXCEPT !.status = st].status = st
      /\ [NoAnswer EXCEPT !.status = st, !.body = b].status = st
      /\ [NoAnswer EXCEPT !.status = st, !.body = b].body = b
  BY <1>2 DEF DoorAnswers
<1>. QED  BY <1>2, <1>3, <1>4

\* A context or a door that moved on, with another answer or without its caller.
ConnMoved(c, e, at, a, door) ==
  /\ e \in ConnRecords /\ e.at = at /\ e.answer = a /\ e.door = door
  /\ e.id = c.id /\ e.kind = c.kind /\ e.body = c.body /\ e.toBody = c.toBody

DoorMoved(d, e, at, a) ==
  /\ e \in DoorRecords /\ e.at = at /\ e.answer = a
  /\ e.id = d.id /\ e.stream = d.stream /\ e.toBody = d.toBody /\ e.conn = d.conn

LEMMA ConnFacts ==
  ASSUME NEW c \in ConnRecords, NEW at \in ConnAts, NEW a \in DoorAnswers
  PROVE  ConnMoved(c, [c EXCEPT !.at = at, !.answer = a], at, a, c.door)
<1>1. [c EXCEPT !.at = at, !.answer = a] \in ConnRecords
  BY DEF ConnRecords
<1>. QED  BY <1>1 DEF ConnMoved, ConnRecords

LEMMA ConnLeft ==
  ASSUME NEW c \in ConnRecords, NEW at \in ConnAts
  PROVE  /\ ConnMoved(c, [c EXCEPT !.at = at], at, c.answer, c.door)
         /\ ConnMoved(c, [c EXCEPT !.at = at, !.door = NoOne], at, c.answer, NoOne)
         /\ ConnMoved(c, [c EXCEPT !.door = NoOne], c.at, c.answer, NoOne)
<1>1. [c EXCEPT !.at = at] \in ConnRecords /\ [c EXCEPT !.at = at, !.door = NoOne] \in ConnRecords
      /\ [c EXCEPT !.door = NoOne] \in ConnRecords
  BY DEF ConnRecords, NoOne
<1>2. ConnMoved(c, [c EXCEPT !.at = at], at, c.answer, c.door)
  BY <1>1 DEF ConnMoved, ConnRecords
<1>3. ConnMoved(c, [c EXCEPT !.at = at, !.door = NoOne], at, c.answer, NoOne)
  BY <1>1 DEF ConnMoved, ConnRecords
<1>4. ConnMoved(c, [c EXCEPT !.door = NoOne], c.at, c.answer, NoOne)
  BY <1>1 DEF ConnMoved, ConnRecords
<1>. QED  BY <1>2, <1>3, <1>4

LEMMA DoorFacts ==
  ASSUME NEW d \in DoorRecords, NEW at \in DoorAts, NEW a \in DoorAnswers
  PROVE  DoorMoved(d, [d EXCEPT !.at = at, !.answer = a], at, a)
<1>1. [d EXCEPT !.at = at, !.answer = a] \in DoorRecords
  BY DEF DoorRecords
<1>. QED  BY <1>1 DEF DoorMoved, DoorRecords

LEMMA AskStep ==
  ASSUME DoorInv, NEW k \in Conns, NEW kind \in {"common", "event", "stream"}, NEW toBody \in BOOLEAN,
         NEW q \in BOOLEAN, Ask(k, kind, toBody, q)
  PROVE  DoorInv'
<1>0. /\ issued \in Nat /\ issued' = issued + 1 /\ UNCHANGED <<client, doors, ran>> /\ DoorTypes /\ OneRun
      /\ InvokeHandler(k, issued + 1, kind, issued + 1, toBody, NoOne, q)
  BY DEF Ask, Issue, DoorInv, DoorTypes
<1>1. PICK i \in Nat : i = issued + 1
  BY <1>0
<1>2. PICK c \in ConnRecords :
        /\ conns' = [conns EXCEPT ![k] = c] /\ \A j \in Conns : conns'[j] = IF j = k THEN c ELSE conns[j]
        /\ c.id = i /\ c.body = i /\ c.door = NoOne
        /\ c.at = "do" \/ (c.at = "answered" /\ c.answer.status \in {500, 201})
        /\ \/ c.at = "do" /\ events' = events
           \/ c.at # "do" /\ events' = events
           \/ c.at # "do" /\ events' = events \cup {[id |-> i, body |-> i, conn |-> k]}
  <2>1. Handled(k, i, kind, i, toBody, NoOne, q)
    <3>1. i \in {i, Lost} /\ NoOne \in Doors \cup {0}
      BY DEF NoOne
    <3>2. InvokeHandler(k, i, kind, i, toBody, NoOne, q)
      BY <1>0, <1>1
    <3>. QED  BY <3>1, <3>2, InvokeHandlerGood, Zenon
  <2>. QED  BY <2>1 DEF Handled
<1>3. PICK v \in EventRecords : v = [id |-> i, body |-> i, conn |-> k] /\ v.id = i /\ v.body = i
  <2>1. [id |-> i, body |-> i, conn |-> k] \in EventRecords
    BY DEF EventRecords
  <2>2. [id |-> i, body |-> i, conn |-> k].id = i /\ [id |-> i, body |-> i, conn |-> k].body = i
    OBVIOUS
  <2>. QED  BY <2>1, <2>2, Zenon
<1>4. DoorTypes'
  BY <1>0, <1>2, <1>3 DEF DoorTypes
<1>5. Bodies'
  <2>1. \A j \in Conns : conns'[j].body \in {conns'[j].id, Lost}
    BY <1>2 DEF DoorInv, Bodies
  <2>2. \A e \in events' : e.body \in {e.id, Lost}
    BY <1>2, <1>3 DEF DoorInv, Bodies
  <2>. QED  BY <1>0, <2>1, <2>2 DEF DoorInv, Bodies
<1>6. OneRun' /\ SettledStays
  <2>1. Holders(i) = {}
    BY <1>0, <1>1 DEF OneRun
  <2>2. PICK t : t = IF c.at = "do" THEN <<"conn", k>> ELSE <<"event", v>>
    OBVIOUS
  <2>3. /\ \A j \in Nat \ {i} : Holders(j)' \subseteq Holders(j)
        /\ Holders(i)' \subseteq Holders(i) \cup {t}
    <3>1. \A j \in Conns : conns'[j].at = "do" =>
            (conns[j].at = "do" /\ conns'[j].id = conns[j].id) \/ (conns'[j].id = i /\ t = <<"conn", j>>)
      BY <1>2, <2>2
    <3>2. \A e \in events' : e \in events \/ (e.id = i /\ t = <<"event", e>>)
      BY <1>2, <1>3, <2>2
    <3>. QED  BY <1>0, <3>1, <3>2, HoldersGain
  <2>4. \A x, y \in Holders(i)' : x = y
    BY <2>1, <2>3
  <2>5. issued' \in Nat /\ ran' = ran /\ i = issued + 1
    BY <1>0, <1>1
  <2>. QED  BY <1>0, <2>3, <2>4, <2>5, HeldStep
<1>7. \A j \in Conns : conns'[j] = conns[j] \/ ConnTold(conns[j])'
  BY <1>2 DEF ConnTold
<1>8. \A j \in Conns : Linked(j, conns[j])'
  BY <1>0, <1>2 DEF DoorInv, Linked
<1>. QED  BY <1>0, <1>4, <1>5, <1>6, <1>7, <1>8, DoorsAfter

LEMMA InvokeDoStep ==
  ASSUME DoorInv, NEW k \in Conns, NEW o \in Outcomes, InvokeDo(k, o)
  PROVE  DoorInv'
<1>. DEFINE c == conns[k]
<1>0. /\ c \in ConnRecords /\ c.id \in Nat /\ c.body \in Nat /\ c.toBody \in BOOLEAN
      /\ DoorTypes /\ OneRun /\ conns \in [Conns -> ConnRecords] /\ c.at = "do" /\ c.body \in {c.id, Lost}
      /\ ConnTold(c) /\ Linked(k, c) /\ issued \in Nat
  BY DEF DoorInv, DoorTypes, ConnRecords, InvokeDo, Bodies
<1>s. PICK s \in BOOLEAN : s = (c.kind = "stream")
  BY Zenon
<1>. DEFINE R == Respond(o, c.id, s, c.toBody)
            r == Ran(c.id, c.body, o, s)
<1>1. /\ ran' = ran \cup {r} /\ conns' = [conns EXCEPT ![k].at = "answered", ![k].answer = R]
      /\ UNCHANGED <<client, doors, events, issued>>
  BY <1>s, Zenon DEF InvokeDo
<1>a. AnswerSays(R, c.id, s, c.toBody, o) /\ RunSays(r, c.id, c.body, o)
  BY <1>0, RespondTypes, RanTypes, Zenon
<1>. HIDE DEF R, r
<1>2. /\ R \in DoorAnswers /\ R.status = o.status /\ (s \/ c.toBody \/ R.header = o.error)
      /\ ~s => R.body = c.id
      /\ s /\ o.status = 200 => R.stream = c.id
  BY <1>a DEF AnswerSays
<1>3. r \in RunRecords /\ r.id = c.id /\ r.body = c.body /\ r.status = o.status /\ r.error = o.error
  BY <1>a DEF RunSays
<1>4. PICK e \in ConnRecords :
        /\ e = [c EXCEPT !.at = "answered", !.answer = R]
        /\ e.at = "answered" /\ e.answer = R /\ e.id = c.id /\ e.kind = c.kind /\ e.body = c.body
        /\ e.toBody = c.toBody /\ e.door = c.door
  <2>1. "answered" \in ConnAts
    BY DEF ConnAts
  <2>2. ConnMoved(c, [c EXCEPT !.at = "answered", !.answer = R], "answered", R, c.door)
    BY <1>0, <1>2, <2>1, ConnFacts
  <2>. QED  BY <2>2 DEF ConnMoved
<1>5. conns' = [conns EXCEPT ![k] = e] /\ \A j \in Conns : conns'[j] = IF j = k THEN e ELSE conns[j]
  <2>1. conns' = [conns EXCEPT ![k] = e]
    BY <1>0, <1>1, <1>4
  <2>. QED  BY <1>0, <2>1
<1>6. DoorTypes'
  BY <1>0, <1>1, <1>3, <1>5 DEF DoorTypes
<1>7. Bodies'
  <2>1. \A j \in Conns : conns'[j].body \in {conns'[j].id, Lost}
    BY <1>0, <1>4, <1>5 DEF DoorInv, Bodies
  <2>2. \A x \in ran' : x.body \in {x.id, Lost}
    BY <1>0, <1>1, <1>3 DEF DoorInv, Bodies
  <2>. QED  BY <1>1, <2>1, <2>2 DEF DoorInv, Bodies
<1>8. PICK i \in Nat : i = c.id
  BY <1>0
<1>9. \A j \in Nat : Holders(j)' \subseteq Holders(j)
  <2>1. \A j \in Conns : conns'[j].at = "do" => conns[j].at = "do" /\ conns'[j].id = conns[j].id
    BY <1>4, <1>5
  <2>. QED  BY <1>1, <2>1, HoldersShrink
<1>10. <<"conn", k>> \in Holders(i) /\ Holders(i)' = {}
  <2>1. <<"conn", k>> \in Holders(i)
    BY <1>0, <1>8 DEF Holders
  <2>2. <<"conn", k>> \notin Holders(i)'
    BY <1>4, <1>5 DEF Holders
  <2>. QED  BY <1>9, <2>1, <2>2, HolderGone
<1>11. OneRun' /\ SettledStays
  <2>1. Holders(i) # {} /\ issued' = issued /\ issued' \in Nat
    BY <1>0, <1>1, <1>10
  <2>2. r.id = i /\ ran' = ran \cup {r} /\ Holders(i)' = {}
    BY <1>1, <1>3, <1>8, <1>10
  <2>3. \A x, y \in Holders(i)' : x = y
    BY <1>10
  <2>4. \E u \in RunRecords : u.id = i /\ ran' = ran \cup {u} /\ Holders(i)' = {}
    BY <1>3, <2>2
  <2>. QED  BY <1>9, <2>1, <2>3, <2>4, HeldStep
<1>12. ConnTold(e)'
  <2>1. RunsOf(i) = {}
    BY <1>10 DEF DoorInv, OneRun, Settled
  <2>2. RunsOf(i)' = {r}
    BY <1>1, <1>3, <1>8, <2>1 DEF RunsOf
  <2>3. Settled(i)'
    BY <1>11, <2>2 DEF OneRun
  <2>4. o.status = 200 => e.id \in {e.answer.body, e.answer.stream}
    BY <1>0, <1>2, <1>4
  <2>5. e.door # NoOne => ~s
    BY <1>0, <1>s, <1>4 DEF Linked
  <2>6. e.door # NoOne => Tells(e.answer, e.id, e.toBody)' /\ e.answer.body = e.id
    BY <1>2, <1>3, <1>4, <1>8, <2>2, <2>3, <2>5 DEF Tells
  <2>. QED  BY <1>2, <1>4, <1>8, <2>2, <2>4, <2>6 DEF ConnTold
<1>13. \A j \in Conns : conns'[j] = conns[j] \/ ConnTold(conns[j])'
  BY <1>5, <1>12 DEF ConnTold, Tells, Settled, RunsOf, Holders
<1>14. \A j \in Conns : Linked(j, conns[j])'
  <2>1. ASSUME NEW j \in Conns PROVE Linked(j, conns[j])'
    <3>1. Linked(j, conns[j])
      BY DEF DoorInv
    <3>2. CASE j = k
      BY <1>0, <1>1, <1>4, <1>5, <3>2 DEF Linked
    <3>3. CASE j # k
      BY <1>1, <1>5, <3>1, <3>3 DEF Linked
    <3>. QED  BY <3>2, <3>3
  <2>. QED  BY <2>1
<1>. QED  BY <1>1, <1>6, <1>7, <1>11, <1>13, <1>14, DoorsAfter

LEMMA EventDoStep ==
  ASSUME DoorInv, NEW v \in events, NEW o \in Outcomes, EventDo(v, o)
  PROVE  DoorInv'
<1>. DEFINE r == Ran(v.id, v.body, o, FALSE)
<1>0. v \in EventRecords /\ v.id \in Nat /\ v.body \in Nat /\ v.body \in {v.id, Lost} /\ DoorTypes /\ issued \in Nat
  BY DEF DoorInv, DoorTypes, Bodies, EventRecords
<1>1. ran' = ran \cup {r} /\ events' = events \ {v} /\ UNCHANGED <<client, doors, conns, issued>>
  BY DEF EventDo, EventBody
<1>a. RunSays(r, v.id, v.body, o)
  <2>1. FALSE \in BOOLEAN
    OBVIOUS
  <2>. QED  BY <1>0, <2>1, RanTypes, Zenon
<1>. HIDE DEF r
<1>2. r \in RunRecords /\ r.id = v.id /\ r.body = v.body
  BY <1>a DEF RunSays
<1>3. DoorTypes'
  BY <1>0, <1>1, <1>2 DEF DoorTypes
<1>4. Bodies'
  BY <1>0, <1>1, <1>2 DEF DoorInv, Bodies
<1>5. PICK i \in Nat : i = v.id
  BY <1>0
<1>6. \A j \in Nat : Holders(j)' \subseteq Holders(j)
  BY <1>1, HoldersShrink
<1>7. <<"event", v>> \in Holders(i) /\ Holders(i)' = {}
  <2>1. <<"event", v>> \in Holders(i)
    BY <1>0, <1>5 DEF Holders
  <2>2. <<"event", v>> \notin Holders(i)'
    BY <1>1 DEF Holders
  <2>. QED  BY <1>6, <2>1, <2>2, HolderGone
<1>8. OneRun' /\ SettledStays
  <2>1. Holders(i) # {} /\ issued' = issued /\ issued' \in Nat
    BY <1>0, <1>1, <1>7
  <2>2. \A x, y \in Holders(i)' : x = y
    BY <1>7
  <2>3. \E u \in RunRecords : u.id = i /\ ran' = ran \cup {u} /\ Holders(i)' = {}
    BY <1>1, <1>2, <1>5, <1>7
  <2>. QED  BY <1>6, <2>1, <2>2, <2>3, HeldStep
<1>9. \A j \in Conns : Linked(j, conns[j])'
  BY <1>1 DEF DoorInv, Linked
<1>. QED  BY <1>1, <1>3, <1>4, <1>8, <1>9, DoorsAfter

LEMMA TakenStep ==
  ASSUME DoorInv, NEW k \in Conns, Taken(k)
  PROVE  DoorInv'
<1>0. /\ conns[k] \in ConnRecords /\ DoorTypes /\ conns \in [Conns -> ConnRecords] /\ conns[k].door = NoOne
      /\ conns' = [conns EXCEPT ![k].at = "idle"] /\ UNCHANGED <<client, doors, events, ran, issued>>
  BY DEF DoorInv, DoorTypes, Taken
<1>1. ConnMoved(conns[k], [conns[k] EXCEPT !.at = "idle"], "idle", conns[k].answer, conns[k].door)
  <2>1. "idle" \in ConnAts
    BY DEF ConnAts
  <2>. QED  BY <1>0, <2>1, ConnLeft
<1>2. PICK e \in ConnRecords : /\ e = [conns[k] EXCEPT !.at = "idle"] /\ e.at = "idle" /\ e.id = conns[k].id
                               /\ e.body = conns[k].body /\ e.door = NoOne
  BY <1>0, <1>1 DEF ConnMoved
<1>3. conns' = [conns EXCEPT ![k] = e] /\ \A j \in Conns : conns'[j] = IF j = k THEN e ELSE conns[j]
  BY <1>0, <1>2
<1>4. DoorTypes'
  BY <1>0, <1>3 DEF DoorTypes
<1>5. Bodies'
  BY <1>0, <1>2, <1>3 DEF DoorInv, Bodies
<1>6. OneRun' /\ SettledStays
  <2>1. \A j \in Conns : conns'[j].at = "do" => conns[j].at = "do" /\ conns'[j].id = conns[j].id
    BY <1>2, <1>3
  <2>2. \A i \in Nat : Holders(i)' \subseteq Holders(i)
    BY <1>0, <2>1, HoldersShrink
  <2>. QED  BY <1>0, <2>2, QuietStep
<1>7. \A j \in Conns : conns'[j] = conns[j] \/ ConnTold(conns[j])'
  BY <1>2, <1>3 DEF ConnTold
<1>8. \A j \in Conns : Linked(j, conns[j])'
  BY <1>0, <1>2, <1>3 DEF DoorInv, Linked
<1>. QED  BY <1>0, <1>4, <1>5, <1>6, <1>7, <1>8, DoorsAfter

\* No context belongs to a door that does not wait for one.
LEMMA NotLinked ==
  ASSUME DoorInv, NEW d \in Doors, doors[d].at # "rpc",
         UNCHANGED <<client, conns>>, \A e \in Doors \ {d} : doors'[e] = doors[e]
  PROVE  \A j \in Conns : Linked(j, conns[j])'
<1>1. ASSUME NEW j \in Conns PROVE Linked(j, conns[j])'
  <2>1. Linked(j, conns[j])
    BY DEF DoorInv
  <2>. QED  BY <2>1 DEF Linked
<1>. QED  BY <1>1

LEMMA ProxyHandlerStep ==
  ASSUME DoorInv, NEW d \in Doors, NEW s \in BOOLEAN, NEW b \in BOOLEAN, ProxyHandler(d, s, b)
  PROVE  DoorInv'
<1>0. /\ DoorTypes /\ issued \in Nat /\ doors[d].at = "idle" /\ issued' = issued + 1 /\ OneRun
      /\ UNCHANGED <<client, conns, events, ran>> /\ doors \in [Doors -> DoorRecords]
      /\ doors' = [doors EXCEPT ![d] = [Closed EXCEPT !.at = "invoke", !.id = issued + 1,
                                                      !.stream = s, !.toBody = b]]
  BY DEF DoorInv, DoorTypes, ProxyHandler, Issue
<1>1. PICK i \in Nat : i = issued + 1
  BY <1>0
<1>. DEFINE e == [Closed EXCEPT !.at = "invoke", !.id = i, !.stream = s, !.toBody = b]
<1>2. Closed \in DoorRecords
  <2>1. NoAnswer \in DoorAnswers
    BY AnswerFacts
  <2>. QED  BY <2>1 DEF Closed, DoorRecords, DoorAts, NoOne
<1>3. e \in DoorRecords
  <2>1. "invoke" \in DoorAts
    BY DEF DoorAts
  <2>. QED  BY <1>2, <2>1 DEF DoorRecords
<1>4. e.at = "invoke" /\ e.id = i
  BY <1>2 DEF DoorRecords
<1>. HIDE DEF e
<1>5. doors' = [doors EXCEPT ![d] = e] /\ \A f \in Doors : doors'[f] = IF f = d THEN e ELSE doors[f]
  <2>1. doors' = [doors EXCEPT ![d] = e]
    BY <1>0, <1>1 DEF e
  <2>. QED  BY <1>0, <2>1
<1>6. DoorTypes'
  BY <1>0, <1>3, <1>5 DEF DoorTypes
<1>7. Bodies'
  BY <1>0 DEF DoorInv, Bodies
<1>8. OneRun' /\ SettledStays
  <2>1. Holders(i) = {}
    BY <1>0, <1>1 DEF OneRun
  <2>2. PICK t : t = <<"door", d>>
    OBVIOUS
  <2>3. /\ \A j \in Nat \ {i} : Holders(j)' \subseteq Holders(j)
        /\ Holders(i)' \subseteq Holders(i) \cup {t}
    <3>1. \A f \in Doors : doors'[f].at = "invoke" =>
            (doors[f].at = "invoke" /\ doors'[f].id = doors[f].id) \/ (doors'[f].id = i /\ t = <<"door", f>>)
      BY <1>4, <1>5, <2>2
    <3>. QED  BY <1>0, <3>1, HoldersGain
  <2>4. \A x, y \in Holders(i)' : x = y
    BY <2>1, <2>3
  <2>5. issued' \in Nat /\ ran' = ran /\ i = issued + 1
    BY <1>0, <1>1
  <2>. QED  BY <1>0, <2>3, <2>4, <2>5, HeldStep
<1>9. \A f \in Doors : doors'[f] = doors[f] \/ DoorTold(doors[f])'
  BY <1>4, <1>5 DEF DoorTold
<1>10. \A j \in Conns : Linked(j, conns[j])'
  BY <1>0, <1>5, NotLinked
<1>. QED  BY <1>0, <1>6, <1>7, <1>8, <1>9, <1>10, DoorsAfter

LEMMA CallInvokeStep ==
  ASSUME DoorInv, NEW d \in Doors, NEW o \in Outcomes, CallInvoke(d, o)
  PROVE  DoorInv'
<1>. DEFINE c == doors[d]
<1>0. /\ c \in DoorRecords /\ c.id \in Nat /\ c.stream \in BOOLEAN /\ c.toBody \in BOOLEAN
      /\ DoorTypes /\ OneRun /\ doors \in [Doors -> DoorRecords] /\ c.at = "invoke"
      /\ client = "call" /\ issued \in Nat
  BY DEF DoorInv, DoorTypes, DoorRecords, CallInvoke
<1>b. PICK body \in Nat : body = requestBody(c) /\ body \in {c.id, Lost}
  <2>1. Lost \in Nat
    BY DEF Lost
  <2>. QED  BY <1>0, <2>1, Zenon DEF requestBody
<1>. DEFINE R == Respond(o, c.id, c.stream, FALSE)
            r == Ran(c.id, body, o, c.stream)
<1>1. /\ ran' = ran \cup {r} /\ doors' = [doors EXCEPT ![d].at = "made", ![d].answer = R]
      /\ UNCHANGED <<client, conns, events, issued>>
  BY <1>b, Zenon DEF CallInvoke
<1>a. AnswerSays(R, c.id, c.stream, FALSE, o) /\ RunSays(r, c.id, body, o)
  <2>1. FALSE \in BOOLEAN
    OBVIOUS
  <2>2. RunSays(r, c.id, body, o)
    BY <1>0, RanTypes, Zenon
  <2>3. AnswerSays(R, c.id, c.stream, FALSE, o)
    BY <1>0, <2>1, RespondTypes, Zenon
  <2>. QED  BY <2>2, <2>3
<1>. HIDE DEF R, r
<1>2. /\ R \in DoorAnswers /\ R.status = o.status /\ (c.stream \/ R.header = o.error)
      /\ ~c.stream => R.body = c.id
  BY <1>a DEF AnswerSays
<1>3. r \in RunRecords /\ r.id = c.id /\ r.body = body /\ r.status = o.status /\ r.error = o.error
  BY <1>a DEF RunSays
<1>4. PICK e \in DoorRecords :
        /\ e = [c EXCEPT !.at = "made", !.answer = R]
        /\ e.at = "made" /\ e.answer = R /\ e.id = c.id /\ e.stream = c.stream
  <2>1. "made" \in DoorAts
    BY DEF DoorAts
  <2>2. DoorMoved(c, [c EXCEPT !.at = "made", !.answer = R], "made", R)
    BY <1>0, <1>2, <2>1, DoorFacts
  <2>. QED  BY <2>2 DEF DoorMoved
<1>5. doors' = [doors EXCEPT ![d] = e] /\ \A f \in Doors : doors'[f] = IF f = d THEN e ELSE doors[f]
  <2>1. doors' = [doors EXCEPT ![d] = e]
    BY <1>0, <1>1, <1>4
  <2>. QED  BY <1>0, <2>1
<1>6. DoorTypes'
  BY <1>0, <1>1, <1>3, <1>5 DEF DoorTypes
<1>7. Bodies'
  <2>1. \A x \in ran' : x.body \in {x.id, Lost}
    BY <1>b, <1>1, <1>3 DEF DoorInv, Bodies
  <2>. QED  BY <1>1, <2>1 DEF DoorInv, Bodies
<1>8. PICK i \in Nat : i = c.id
  BY <1>0
<1>9. \A j \in Nat : Holders(j)' \subseteq Holders(j)
  <2>1. \A f \in Doors : doors'[f].at = "invoke" => doors[f].at = "invoke" /\ doors'[f].id = doors[f].id
    BY <1>4, <1>5
  <2>. QED  BY <1>1, <2>1, HoldersShrink
<1>10. <<"door", d>> \in Holders(i) /\ Holders(i)' = {}
  <2>1. <<"door", d>> \in Holders(i)
    BY <1>0, <1>8 DEF Holders
  <2>2. <<"door", d>> \notin Holders(i)'
    BY <1>4, <1>5 DEF Holders
  <2>. QED  BY <1>9, <2>1, <2>2, HolderGone
<1>11. OneRun' /\ SettledStays
  <2>1. Holders(i) # {} /\ issued' = issued /\ issued' \in Nat
    BY <1>0, <1>1, <1>10
  <2>2. r.id = i /\ ran' = ran \cup {r} /\ Holders(i)' = {}
    BY <1>1, <1>3, <1>8, <1>10
  <2>3. \A x, y \in Holders(i)' : x = y
    BY <1>10
  <2>4. \E u \in RunRecords : u.id = i /\ ran' = ran \cup {u} /\ Holders(i)' = {}
    BY <1>3, <2>2
  <2>. QED  BY <1>9, <2>1, <2>3, <2>4, HeldStep
<1>12. DoorTold(e)'
  <2>1. RunsOf(i) = {}
    BY <1>10 DEF DoorInv, OneRun, Settled
  <2>2. RunsOf(i)' = {r}
    BY <1>1, <1>3, <1>8, <2>1 DEF RunsOf
  <2>3. Settled(i)'
    BY <1>11, <2>2 DEF OneRun
  <2>4. Tells(e.answer, e.id, e.stream \/ (e.toBody /\ client = "rpc"))'
    BY <1>2, <1>3, <1>4, <1>8, <2>2, <2>3 DEF Tells
  <2>. QED  BY <1>2, <1>4, <2>4 DEF DoorTold
<1>13. \A f \in Doors : doors'[f] = doors[f] \/ DoorTold(doors[f])'
  BY <1>5, <1>12 DEF DoorTold, Tells, Settled, RunsOf, Holders
<1>14. \A j \in Conns : Linked(j, conns[j])'
  BY <1>0, <1>1, <1>5, NotLinked
<1>. QED  BY <1>1, <1>6, <1>7, <1>11, <1>13, <1>14, DoorsAfter

LEMMA RpcInvokeStep ==
  ASSUME DoorInv, NEW d \in Doors, NEW k \in Conns, RpcInvoke(d, k)
  PROVE  DoorInv'
<1>. DEFINE c == doors[d]
<1>0. /\ c \in DoorRecords /\ c.id \in Nat /\ c.stream \in BOOLEAN /\ c.toBody \in BOOLEAN
      /\ DoorTypes /\ OneRun /\ doors \in [Doors -> DoorRecords] /\ c.at = "invoke"
      /\ client = "rpc" /\ issued \in Nat /\ conns \in [Conns -> ConnRecords]
  BY DEF DoorInv, DoorTypes, DoorRecords, RpcInvoke
<1>a. PICK i \in Nat : i = c.id
  BY <1>0
<1>b. PICK body \in {i, Lost} : body = requestBody(c)
  BY <1>a, Zenon DEF requestBody
<1>1. /\ doors' = [doors EXCEPT ![d].at = "rpc", ![d].conn = k]
      /\ InvokeHandler(k, i, "common", body, c.toBody, d, TRUE)
      /\ UNCHANGED <<client, ran, issued>>
  BY <1>a, <1>b, Zenon DEF RpcInvoke
<1>2. conns[k].at = "idle"
  BY <1>1 DEF InvokeHandler
<1>3. PICK v \in ConnRecords :
        /\ conns' = [conns EXCEPT ![k] = v] /\ \A j \in Conns : conns'[j] = IF j = k THEN v ELSE conns[j]
        /\ v.id = i /\ v.kind = "common" /\ v.body = body /\ v.toBody = c.toBody /\ v.door = d
        /\ v.at = "do" /\ events' = events
  <2>1. "common" \in {"common", "event", "stream"} /\ "common" # "event" /\ d \in Doors \cup {0} /\ TRUE \in BOOLEAN
    OBVIOUS
  <2>2. Handled(k, i, "common", body, c.toBody, d, TRUE)
    BY <1>0, <1>1, <2>1, InvokeHandlerGood, Zenon
  <2>. QED  BY <2>2 DEF Handled
<1>. DEFINE e == [[c EXCEPT !.at = "rpc"] EXCEPT !.conn = k]
<1>4. /\ e \in DoorRecords /\ e.at = "rpc" /\ e.conn = k /\ e.id = c.id /\ e.toBody = c.toBody
  BY <1>0 DEF DoorRecords, DoorAts
<1>5. doors' = [doors EXCEPT ![d] = e]
  BY <1>0, <1>1
<1>. HIDE DEF e
<1>6. \A f \in Doors : doors'[f] = IF f = d THEN e ELSE doors[f]
  BY <1>0, <1>5
<1>7. DoorTypes'
  <2>1. doors' \in [Doors -> DoorRecords] /\ conns' \in [Conns -> ConnRecords]
    <3>. HIDE DEF c
    <3>. QED  BY <1>0, <1>3, <1>4, <1>5
  <2>. QED  BY <1>0, <1>1, <1>3, <2>1 DEF DoorTypes
<1>8. Bodies'
  BY <1>1, <1>3 DEF DoorInv, Bodies
<1>9. OneRun' /\ SettledStays
  <2>1. <<"door", d>> \in Holders(i) /\ \A x \in Holders(i) : x = <<"door", d>>
    <3>1. <<"door", d>> \in Holders(i)
      BY <1>0, <1>a DEF Holders
    <3>. QED  BY <1>0, <3>1 DEF OneRun
  <2>2. PICK t : t = <<"conn", k>>
    OBVIOUS
  <2>3. /\ \A j \in Nat \ {i} : Holders(j)' \subseteq Holders(j)
        /\ Holders(i)' \subseteq Holders(i) \cup {t}
    <3>1. \A j \in Conns : conns'[j].at = "do" =>
            (conns[j].at = "do" /\ conns'[j].id = conns[j].id) \/ (conns'[j].id = i /\ t = <<"conn", j>>)
      BY <1>3, <2>2
    <3>2. \A f \in Doors : doors'[f].at = "invoke" =>
            (doors[f].at = "invoke" /\ doors'[f].id = doors[f].id) \/ (doors'[f].id = i /\ t = <<"door", f>>)
      BY <1>4, <1>6
    <3>. QED  BY <1>3, <3>1, <3>2, HoldersGain
  <2>4. <<"door", d>> \notin Holders(i)'
    BY <1>4, <1>6 DEF Holders
  <2>5. \A x, y \in Holders(i)' : x = y
    BY <2>1, <2>3, <2>4
  <2>6. issued' \in Nat /\ ran' = ran /\ Holders(i) # {} /\ issued' = issued
    BY <1>0, <1>1, <2>1
  <2>. QED  BY <2>3, <2>5, <2>6, HeldStep
<1>10. \A f \in Doors : doors'[f] = doors[f] \/ DoorTold(doors[f])'
  BY <1>4, <1>6 DEF DoorTold
<1>11. \A j \in Conns : conns'[j] = conns[j] \/ ConnTold(conns[j])'
  BY <1>3 DEF ConnTold
<1>12. ASSUME NEW j \in Conns PROVE Linked(j, conns[j])'
  <2>1. Linked(j, conns[j])
    BY DEF DoorInv
  <2>2. CASE j = k
    BY <1>0, <1>a, <1>1, <1>3, <1>4, <1>6, <2>2 DEF Linked
  <2>3. CASE j # k
    <3>1. conns'[j] = conns[j] /\ client' = client
      BY <1>1, <1>3, <2>3
    <3>2. conns[j].at # "dead" /\ conns[j].door # NoOne => conns[j].door # d
      BY <1>0, <2>1 DEF Linked
    <3>. QED  BY <1>6, <2>1, <3>1, <3>2 DEF Linked
  <2>. QED  BY <2>2, <2>3
<1>. QED  BY <1>1, <1>7, <1>8, <1>9, <1>10, <1>11, <1>12, DoorsAfter

\* The two ways in which a door stops waiting: its context belongs to no door any more.
DoorLeft(d, k, a, at, cat, e, f) ==
  /\ doors[d].at = "rpc" /\ k = doors[d].conn /\ conns[k].door = d
  /\ cat \in {conns[k].at, "idle"}
  /\ e = [doors[d] EXCEPT !.at = at, !.answer = a] /\ doors' = [doors EXCEPT ![d] = e]
  /\ ConnMoved(conns[k], f, cat, conns[k].answer, NoOne) /\ conns' = [conns EXCEPT ![k] = f]
  /\ UNCHANGED <<client, events, ran, issued>>
  /\ DoorTold(e)

LEMMA DoorLeaves ==
  ASSUME DoorInv, NEW d \in Doors, NEW k \in Conns, NEW a \in DoorAnswers, NEW at \in {"made", "answered"},
         NEW cat \in ConnAts, NEW e, NEW f, DoorLeft(d, k, a, at, cat, e, f)
  PROVE  DoorInv'
<1>. USE DEF DoorLeft
<1>0. /\ DoorTypes /\ OneRun /\ doors \in [Doors -> DoorRecords] /\ conns \in [Conns -> ConnRecords]
      /\ doors[d] \in DoorRecords /\ f \in ConnRecords /\ f.at = cat /\ f.door = NoOne /\ f.id = conns[k].id
      /\ f.body = conns[k].body /\ f.answer = conns[k].answer
  BY DEF DoorInv, DoorTypes, ConnMoved
<1>1. /\ e \in DoorRecords /\ e.at = at /\ e.answer = a /\ e.id = doors[d].id /\ e.stream = doors[d].stream
  <2>1. at \in DoorAts
    BY DEF DoorAts
  <2>2. DoorMoved(doors[d], [doors[d] EXCEPT !.at = at, !.answer = a], at, a)
    BY <1>0, <2>1, DoorFacts
  <2>. QED  BY <2>2 DEF DoorMoved
<1>2. \A g \in Doors : doors'[g] = IF g = d THEN e ELSE doors[g]
  BY <1>0
<1>3. \A j \in Conns : conns'[j] = IF j = k THEN f ELSE conns[j]
  BY <1>0
<1>4. DoorTypes'
  BY <1>0, <1>1 DEF DoorTypes
<1>5. Bodies'
  BY <1>0, <1>3 DEF DoorInv, Bodies
<1>6. OneRun' /\ SettledStays
  <2>1. \A j \in Conns : conns'[j].at = "do" => conns[j].at = "do" /\ conns'[j].id = conns[j].id
    BY <1>0, <1>3
  <2>2. \A g \in Doors : doors'[g].at = "invoke" => doors[g].at = "invoke" /\ doors'[g].id = doors[g].id
    BY <1>1, <1>2
  <2>3. \A i \in Nat : Holders(i)' \subseteq Holders(i)
    BY <2>1, <2>2, HoldersShrink
  <2>. QED  BY <2>3, QuietStep
<1>7. ASSUME NEW g \in Doors PROVE doors'[g] = doors[g] \/ DoorTold(doors[g])'
  <2>1. DoorTold(e)'
    BY <1>1, <1>6, ToldStays
  <2>2. CASE g = d
    <3>1. doors'[g] = e
      BY <1>2, <2>2
    <3>. HIDE DEF DoorLeft
    <3>. QED  BY <2>1, <3>1, SMTT(30) DEF DoorTold, Tells, Settled, RunsOf, Holders
  <2>3. CASE g # d
    BY <1>2, <2>3
  <2>. QED  BY <2>2, <2>3
<1>8. ASSUME NEW j \in Conns PROVE conns'[j] = conns[j] \/ ConnTold(conns[j])'
  <2>1. CASE j = k
    <3>1. PICK g \in ConnRecords : g = f
      BY <1>0
    <3>2. ConnTold(g)
      BY <1>0, <3>1 DEF DoorInv, ConnTold
    <3>3. ConnTold(g)'
      BY <1>6, <3>2, ToldStays
    <3>. QED  BY <1>3, <2>1, <3>1, <3>3, SMTT(30) DEF ConnTold, Tells, Settled, RunsOf, Holders
  <2>. QED  BY <1>3, <2>1
<1>9. ASSUME NEW j \in Conns PROVE Linked(j, conns[j])'
  <2>1. Linked(j, conns[j])
    BY DEF DoorInv
  <2>2. CASE j = k
    BY <1>0, <1>3, <2>2 DEF Linked
  <2>3. CASE j # k
    <3>1. conns'[j] = conns[j] /\ client' = client
      BY <1>3, <2>3
    <3>2. conns[j].at # "dead" /\ conns[j].door # NoOne => conns[j].door # d
      BY <2>1, <2>3 DEF Linked
    <3>. QED  BY <1>2, <2>1, <3>1, <3>2 DEF Linked
  <2>. QED  BY <2>2, <2>3
<1>. QED  BY <1>4, <1>5, <1>6, <1>7, <1>8, <1>9, DoorsAfter

LEMMA BadGateway ==
  [NoAnswer EXCEPT !.status = 502] \in DoorAnswers /\ [NoAnswer EXCEPT !.status = 502].status = 502
<1>1. NoAnswer \in DoorAnswers
  BY AnswerFacts
<1>. QED  BY <1>1 DEF DoorAnswers

LEMMA TriggerReturnsStep ==
  ASSUME DoorInv, NEW d \in Doors, TriggerReturns(d)
  PROVE  DoorInv'
<1>0. /\ doors[d].at = "rpc" /\ doors \in [Doors -> DoorRecords] /\ doors[d] \in DoorRecords
      /\ DoorTold(doors[d]) /\ conns \in [Conns -> ConnRecords]
  BY DEF DoorInv, DoorTypes, TriggerReturns
<1>1. PICK k \in Conns : k = doors[d].conn
  BY <1>0 DEF DoorTold
<1>2. /\ conns[k].at = "answered" /\ conns[k].door = d /\ conns[k] \in ConnRecords
      /\ ConnTold(conns[k]) /\ Linked(k, conns[k]) /\ conns[k].answer \in DoorAnswers
  BY <1>0, <1>1 DEF DoorInv, TriggerReturns, ConnRecords
<1>3. PICK failed \in BOOLEAN : failed = (conns[k].answer.status \notin 200..206)
  BY Zenon
<1>5. PICK at \in {"made", "answered"}, a \in DoorAnswers :
        /\ at = IF failed THEN "answered" ELSE "made"
        /\ a = IF failed THEN [NoAnswer EXCEPT !.status = 502] ELSE conns[k].answer
        /\ failed => a.status = 502 /\ at = "answered"
        /\ ~failed => a = conns[k].answer /\ at = "made"
  <2>1. [NoAnswer EXCEPT !.status = 502] \in DoorAnswers /\ [NoAnswer EXCEPT !.status = 502].status = 502
    BY BadGateway
  <2>. QED  BY <1>2, <2>1, ZenonT(40)
<1>. DEFINE e == [[doors[d] EXCEPT !.at = at] EXCEPT !.answer = a]
            f == [[conns[k] EXCEPT !.at = "idle"] EXCEPT !.door = NoOne]
<1>4. /\ doors' = [doors EXCEPT ![d].at = at, ![d].answer = a]
      /\ conns' = [conns EXCEPT ![k].at = "idle", ![k].door = NoOne]
      /\ UNCHANGED <<client, events, ran, issued>>
  BY <1>1, <1>3, <1>5, ZenonT(40) DEF TriggerReturns
<1>6. doors' = [doors EXCEPT ![d] = e] /\ conns' = [conns EXCEPT ![k] = f]
  BY <1>0, <1>2, <1>4
<1>7. ConnMoved(conns[k], f, "idle", conns[k].answer, NoOne) /\ "idle" \in ConnAts
  <2>1. "idle" \in ConnAts
    BY DEF ConnAts
  <2>. QED  BY <1>2, <2>1, ConnLeft
<1>8. DoorMoved(doors[d], e, at, a)
  <2>1. at \in DoorAts
    BY <1>5 DEF DoorAts
  <2>. QED  BY <1>0, <2>1, DoorFacts
<1>9. DoorTold(e)
  <2>0. /\ e.at = at /\ e.answer = a /\ e.id = doors[d].id /\ e.toBody = doors[d].toBody
    BY <1>8 DEF DoorMoved
  <2>. HIDE DEF e
  <2>1. CASE failed
    BY <1>5, <2>0, <2>1 DEF DoorTold
  <2>2. CASE ~failed
    <3>1. d # NoOne
      BY TriggerAssumption DEF NoOne
    <3>2. Tells(a, e.id, e.toBody) /\ a.body = e.id /\ client = "rpc"
      BY <1>2, <1>5, <2>0, <2>2, <3>1 DEF ConnTold, Linked
    <3>3. Tells(e.answer, e.id, e.stream \/ (e.toBody /\ client = "rpc"))
      BY <2>0, <3>2 DEF Tells
    <3>. QED  BY <1>5, <2>0, <2>2, <3>2, <3>3 DEF DoorTold
  <2>. QED  BY <2>1, <2>2
<1>10. PICK x, y : x = e /\ y = f
  OBVIOUS
<1>. HIDE DEF e, f
<1>11. x = [doors[d] EXCEPT !.at = at, !.answer = a] /\ doors' = [doors EXCEPT ![d] = x] /\ DoorTold(x)
  BY <1>6, <1>9, <1>10 DEF e
<1>12. ConnMoved(conns[k], y, "idle", conns[k].answer, NoOne) /\ conns' = [conns EXCEPT ![k] = y]
  BY <1>6, <1>7, <1>10
<1>13. DoorLeft(d, k, a, at, "idle", x, y)
  BY <1>0, <1>1, <1>2, <1>4, <1>11, <1>12 DEF DoorLeft
<1>. QED  BY <1>7, <1>13, DoorLeaves, Zenon

LEMMA RpcBreaksStep ==
  ASSUME DoorInv, NEW d \in Doors, RpcBreaks(d)
  PROVE  DoorInv'
<1>0. /\ doors[d].at = "rpc" /\ doors \in [Doors -> DoorRecords] /\ doors[d] \in DoorRecords
      /\ DoorTold(doors[d]) /\ conns \in [Conns -> ConnRecords]
  BY DEF DoorInv, DoorTypes, RpcBreaks
<1>1. PICK k \in Conns : k = doors[d].conn
  BY <1>0 DEF DoorTold
<1>2. conns[k].door = d /\ conns[k] \in ConnRecords /\ conns[k].at \in ConnAts
  BY <1>0, <1>1 DEF RpcBreaks, ConnRecords
<1>b. PICK a : a = [NoAnswer EXCEPT !.status = 502]
  OBVIOUS
<1>3. a \in DoorAnswers /\ a.status = 502
  BY <1>b, BadGateway
<1>. DEFINE e == [[doors[d] EXCEPT !.at = "answered"] EXCEPT !.answer = a]
            f == [conns[k] EXCEPT !.door = NoOne]
<1>4. /\ doors' = [doors EXCEPT ![d].at = "answered", ![d].answer = a]
      /\ conns' = [conns EXCEPT ![k].door = NoOne]
      /\ UNCHANGED <<client, events, ran, issued>>
  BY <1>b, <1>1, Zenon DEF RpcBreaks
<1>5. doors' = [doors EXCEPT ![d] = e] /\ conns' = [conns EXCEPT ![k] = f]
  BY <1>0, <1>2, <1>4
<1>6. ConnMoved(conns[k], f, conns[k].at, conns[k].answer, NoOne)
  BY <1>2, ConnLeft
<1>7. DoorMoved(doors[d], e, "answered", a)
  <2>1. "answered" \in DoorAts
    BY DEF DoorAts
  <2>2. a \in DoorAnswers /\ doors[d] \in DoorRecords
    BY <1>0, <1>3
  <2>. QED  BY <2>1, <2>2, DoorFacts, Zenon
<1>8. DoorTold(e)
  <2>1. e.at = "answered" /\ e.answer = a
    BY <1>7 DEF DoorMoved
  <2>. HIDE DEF e
  <2>. QED  BY <1>3, <2>1 DEF DoorTold
<1>9. PICK x, y, at, cat : x = e /\ y = f /\ at = "answered" /\ cat = conns[k].at
  OBVIOUS
<1>. HIDE DEF e, f
<1>10. x = [doors[d] EXCEPT !.at = at, !.answer = a] /\ doors' = [doors EXCEPT ![d] = x] /\ DoorTold(x)
  BY <1>5, <1>8, <1>9 DEF e
<1>11. ConnMoved(conns[k], y, cat, conns[k].answer, NoOne) /\ conns' = [conns EXCEPT ![k] = y]
  BY <1>5, <1>6, <1>9
<1>12. at \in {"made", "answered"} /\ cat \in ConnAts /\ cat \in {conns[k].at, "idle"}
  BY <1>2, <1>9
<1>13. DoorLeft(d, k, a, at, cat, x, y)
  BY <1>0, <1>1, <1>2, <1>4, <1>10, <1>11, <1>12 DEF DoorLeft
<1>. QED  BY <1>3, <1>12, <1>13, DoorLeaves, Zenon

\* A success of makeResponse is one of the controller without an unhandled error.
ResponseSays(m, resp) ==
  /\ m.status \in Nat /\ m.body \in Nat
  /\ m.status < 300 => resp.status = 200 /\ resp.header # "Unhandled" /\ m.body = resp.body

LEMMA MakeResponse ==
  ASSUME NEW resp \in DoorAnswers, resp.status \in Statuses, NEW s \in BOOLEAN
  PROVE  ResponseSays(makeResponse(resp, s), resp)
<1>0. resp.status \in Nat /\ resp.body \in Nat /\ Lost \in Nat
  BY DEF DoorAnswers, Lost
<1>1. CASE resp.status = 500
  <2>1. makeResponse(resp, s) = [status |-> 502, body |-> Lost]
    BY <1>1 DEF makeResponse
  <2>. QED  BY <1>0, <2>1 DEF ResponseSays
<1>2. CASE resp.status = 404
  <2>1. makeResponse(resp, s) = [status |-> resp.status, body |-> resp.body]
    BY <1>2 DEF makeResponse
  <2>. QED  BY <1>0, <1>2, <2>1 DEF ResponseSays
<1>3. CASE resp.status = 200 /\ resp.header = "Unhandled"
  <2>1. makeResponse(resp, s) =
          IF resp.body # Lost THEN [status |-> 500, body |-> resp.body] ELSE [status |-> 502, body |-> Lost]
    BY <1>3 DEF makeResponse
  <2>. QED  BY <1>0, <2>1 DEF ResponseSays
<1>4. CASE resp.status = 200 /\ resp.header # "Unhandled"
  <2>1. PICK st : st = IF ~s /\ resp.kind = "teapot" THEN 418 ELSE 200
    OBVIOUS
  <2>2. st \in Nat
    BY <2>1
  <2>3. makeResponse(resp, s) = [status |-> st, body |-> resp.body]
    BY <1>4, <2>1 DEF makeResponse
  <2>. QED  BY <1>0, <1>4, <2>2, <2>3 DEF ResponseSays
<1>. QED  BY <1>1, <1>2, <1>3, <1>4 DEF Statuses

LEMMA RequestControllerStep ==
  ASSUME DoorInv, NEW d \in Doors, RequestController(d)
  PROVE  DoorInv'
<1>. DEFINE c == doors[d]
            m == makeResponse(c.answer, c.stream)
<1>0. /\ c \in DoorRecords /\ c.id \in Nat /\ c.stream \in BOOLEAN /\ c.answer \in DoorAnswers
      /\ c.answer.stream \in Nat
      /\ DoorTypes /\ OneRun /\ doors \in [Doors -> DoorRecords] /\ c.at = "made" /\ DoorTold(c)
  BY DEF DoorInv, DoorTypes, DoorRecords, DoorAnswers, RequestController
<1>1. Tells(c.answer, c.id, c.stream \/ (c.toBody /\ client = "rpc")) /\ (c.stream \/ c.answer.body = c.id)
  BY <1>0 DEF DoorTold
<1>2. c.answer.status \in Statuses
  BY <1>0, <1>1 DEF Tells, DoorTypes, RunsOf, RunRecords
<1>3. ResponseSays(m, c.answer)
  BY <1>0, <1>2, MakeResponse
<1>. HIDE DEF m
<1>4. PICK st \in Nat, body \in Nat : st = m.status /\ body = IF c.stream THEN c.answer.stream ELSE m.body
  BY <1>0, <1>3 DEF ResponseSays
<1>5. PICK a : a = [NoAnswer EXCEPT !.status = st, !.body = body]
  OBVIOUS
<1>6. a \in DoorAnswers /\ a.status = st /\ a.body = body
  BY <1>5, AnswerFacts
<1>7. /\ doors' = [doors EXCEPT ![d].at = "answered", ![d].answer = a]
      /\ UNCHANGED <<client, conns, events, ran, issued>>
  BY <1>4, <1>5, Zenon DEF RequestController, Response, m
<1>. DEFINE e == [[c EXCEPT !.at = "answered"] EXCEPT !.answer = a]
<1>8. DoorMoved(c, e, "answered", a)
  <2>1. "answered" \in DoorAts
    BY DEF DoorAts
  <2>2. a \in DoorAnswers /\ c \in DoorRecords
    BY <1>0, <1>6
  <2>. QED  BY <2>1, <2>2, DoorFacts, Zenon
<1>9. doors' = [doors EXCEPT ![d] = e]
  BY <1>0, <1>7
<1>. HIDE DEF e
<1>10. e \in DoorRecords /\ e.at = "answered" /\ e.answer = a /\ e.id = c.id /\ e.stream = c.stream /\ e.toBody = c.toBody
  BY <1>8 DEF DoorMoved
<1>11. \A f \in Doors : doors'[f] = IF f = d THEN e ELSE doors[f]
  BY <1>0, <1>9
<1>12. DoorTypes'
  <2>1. doors' \in [Doors -> DoorRecords]
    BY <1>0, <1>9, <1>10
  <2>. QED  BY <1>0, <1>7, <2>1 DEF DoorTypes
<1>13. OneRun' /\ SettledStays
  <2>1. \A f \in Doors : doors'[f].at = "invoke" => doors[f].at = "invoke" /\ doors'[f].id = doors[f].id
    BY <1>10, <1>11
  <2>2. \A i \in Nat : Holders(i)' \subseteq Holders(i)
    BY <1>7, <2>1, HoldersShrink
  <2>. QED  BY <1>7, <2>2, QuietStep
<1>14. DoorTold(e)
  <2>1. st < 300 => c.answer.status = 200 /\ c.answer.header # "Unhandled" /\ m.body = c.answer.body
    BY <1>3, <1>4 DEF ResponseSays
  <2>2. st < 300 => c.stream \/ body = c.id
    BY <1>1, <1>4, <2>1
  <2>3. Settled(c.id) /\ RunsOf(c.id) # {}
    BY <1>1 DEF Tells
  <2>4. st < 300 => \/ c.stream \/ (c.toBody /\ client = "rpc")
                    \/ \A r \in RunsOf(c.id) : r.status = 200 /\ r.error # "Unhandled"
    BY <1>1, <2>1 DEF Tells
  <2>. QED  BY <1>6, <1>10, <2>2, <2>3, <2>4 DEF DoorTold
<1>15. \A f \in Doors : doors'[f] = doors[f] \/ DoorTold(doors[f])'
  <2>1. PICK f \in DoorRecords : f = e
    BY <1>10
  <2>2. DoorTold(f)'
    BY <1>7, <1>13, <1>14, <2>1, ToldStays
  <2>. QED  BY <1>11, <2>1, <2>2 DEF DoorTold, Tells, Settled, RunsOf, Holders
<1>16. \A j \in Conns : Linked(j, conns[j])'
  BY <1>0, <1>7, <1>11, NotLinked
<1>17. Bodies'
  BY <1>7 DEF DoorInv, Bodies
<1>. QED  BY <1>7, <1>12, <1>13, <1>15, <1>16, <1>17, DoorsAfter

LEMMA ReadStep ==
  ASSUME DoorInv, NEW d \in Doors, Read(d)
  PROVE  DoorInv'
<1>0. /\ DoorTypes /\ doors \in [Doors -> DoorRecords] /\ doors[d].at = "answered"
      /\ doors' = [doors EXCEPT ![d] = Closed] /\ UNCHANGED <<client, conns, events, ran, issued>>
  BY DEF DoorInv, DoorTypes, Read
<1>1. Closed \in DoorRecords /\ Closed.at = "idle"
  <2>1. NoAnswer \in DoorAnswers
    BY AnswerFacts
  <2>. QED  BY <2>1 DEF Closed, DoorRecords, DoorAts, NoOne
<1>2. \A f \in Doors : doors'[f] = IF f = d THEN Closed ELSE doors[f]
  BY <1>0
<1>3. DoorTypes'
  BY <1>0, <1>1 DEF DoorTypes
<1>4. OneRun' /\ SettledStays
  <2>1. \A f \in Doors : doors'[f].at = "invoke" => doors[f].at = "invoke" /\ doors'[f].id = doors[f].id
    BY <1>1, <1>2
  <2>2. \A i \in Nat : Holders(i)' \subseteq Holders(i)
    BY <1>0, <2>1, HoldersShrink
  <2>. QED  BY <1>0, <2>2, QuietStep
<1>5. \A f \in Doors : doors'[f] = doors[f] \/ DoorTold(doors[f])'
  BY <1>1, <1>2 DEF DoorTold
<1>6. \A j \in Conns : Linked(j, conns[j])'
  BY <1>0, <1>2, NotLinked
<1>7. Bodies'
  BY <1>0 DEF DoorInv, Bodies
<1>. QED  BY <1>0, <1>3, <1>4, <1>5, <1>6, <1>7, DoorsAfter

LEMMA PanicStep ==
  ASSUME DoorInv, NEW d \in Doors, Panic(d)
  PROVE  DoorInv'
<1>0. /\ DoorTypes /\ doors \in [Doors -> DoorRecords] /\ conns \in [Conns -> ConnRecords]
      /\ doors' = [e \in Doors |-> [doors[e] EXCEPT !.at = "dead"]] /\ UNCHANGED <<client, ran, issued>>
      /\ \/ conns' = [k \in Conns |-> [conns[k] EXCEPT !.at = "dead"]] /\ events' = {}
         \/ conns' = [k \in Conns |-> [conns[k] EXCEPT !.door = NoOne]] /\ events' = events
  BY DEF DoorInv, DoorTypes, Panic
<1>1. ASSUME NEW e \in Doors PROVE doors'[e] \in DoorRecords /\ doors'[e].at = "dead"
  BY <1>0 DEF DoorRecords, DoorAts
<1>2. ASSUME NEW k \in Conns
      PROVE  \/ ConnMoved(conns[k], conns'[k], "dead", conns[k].answer, conns[k].door)
             \/ ConnMoved(conns[k], conns'[k], conns[k].at, conns[k].answer, NoOne)
  <2>1. conns[k] \in ConnRecords /\ "dead" \in ConnAts
    BY <1>0 DEF ConnAts
  <2>2. conns'[k] = [conns[k] EXCEPT !.at = "dead"] \/ conns'[k] = [conns[k] EXCEPT !.door = NoOne]
    BY <1>0
  <2>. QED  BY <2>1, <2>2, ConnLeft
<1>3. ASSUME NEW k \in Conns
      PROVE  /\ conns'[k] \in ConnRecords /\ conns'[k].at \in {"dead", conns[k].at}
             /\ conns'[k].at = "dead" \/ conns'[k].door = NoOne
             /\ conns'[k].id = conns[k].id /\ conns'[k].body = conns[k].body /\ conns'[k].answer = conns[k].answer
  BY <1>2 DEF ConnMoved
<1>4. DoorTypes'
  <2>1. doors' \in [Doors -> DoorRecords]
    BY <1>0, <1>1
  <2>2. conns' \in [Conns -> ConnRecords]
    BY <1>0, <1>3
  <2>3. events' \subseteq EventRecords
    BY <1>0 DEF DoorTypes
  <2>. QED  BY <1>0, <2>1, <2>2, <2>3 DEF DoorTypes
<1>5. OneRun' /\ SettledStays
  <2>1. \A k \in Conns : conns'[k].at = "do" => conns[k].at = "do" /\ conns'[k].id = conns[k].id
    BY <1>3
  <2>2. \A e \in Doors : doors'[e].at = "invoke" => doors[e].at = "invoke" /\ doors'[e].id = doors[e].id
    BY <1>1
  <2>3. events' \subseteq events
    BY <1>0
  <2>4. \A i \in Nat : Holders(i)' \subseteq Holders(i)
    BY <2>1, <2>2, <2>3, HoldersShrink
  <2>. QED  BY <1>0, <2>4, QuietStep
<1>6. Bodies'
  BY <1>0, <1>3 DEF DoorInv, Bodies
<1>7. \A e \in Doors : DoorTold(doors[e])'
  BY <1>1 DEF DoorTold
<1>8. ASSUME NEW k \in Conns PROVE ConnTold(conns[k])'
  <2>1. PICK c \in ConnRecords : c = conns'[k]
    BY <1>3
  <2>2. ConnTold(c)
    BY <1>3, <2>1 DEF DoorInv, ConnTold
  <2>3. ConnTold(c)'
    BY <1>0, <1>5, <2>2, ToldStays
  <2>. QED  BY <2>1, <2>3 DEF ConnTold, Tells, Settled, RunsOf, Holders
<1>9. \A k \in Conns : Linked(k, conns[k])'
  BY <1>3 DEF Linked
<1>. QED  BY <1>4, <1>5, <1>6, <1>7, <1>8, <1>9 DEF DoorInv

LEMMA DoorsStart == TriggerInit => DoorInv
<1>. SUFFICES ASSUME TriggerInit PROVE DoorInv
  OBVIOUS
<1>0. NoAnswer \in DoorAnswers
  BY AnswerFacts
<1>1. Closed \in DoorRecords /\ Closed.at = "idle"
  BY <1>0 DEF Closed, DoorRecords, DoorAts, NoOne
<1>2. IdleConn.at = "idle" /\ IdleConn.id = 0 /\ IdleConn.body = Lost /\ IdleConn.door = NoOne
  BY DEF IdleConn
<1>3. IdleConn \in ConnRecords
  BY <1>0 DEF IdleConn, ConnRecords, ConnAts, InvokeTypes, NoOne, Lost
<1>4. DoorTypes /\ Bodies
  BY <1>1, <1>2, <1>3 DEF TriggerInit, DoorTypes, Bodies
<1>5. \A i \in Nat : Holders(i) = {} /\ RunsOf(i) = {}
  BY <1>1, <1>2 DEF TriggerInit, Holders, RunsOf
<1>6. OneRun
  BY <1>5 DEF OneRun
<1>7. \A d \in Doors : DoorTold(doors[d])
  BY <1>1 DEF TriggerInit, DoorTold
<1>8. \A k \in Conns : ConnTold(conns[k]) /\ Linked(k, conns[k])
  BY <1>2 DEF TriggerInit, ConnTold, Linked
<1>. QED  BY <1>4, <1>6, <1>7, <1>8 DEF DoorInv

LEMMA DoorsStutter == DoorInv /\ UNCHANGED triggerVars => DoorInv'
BY DEF DoorInv, triggerVars, DoorTypes, OneRun, Bodies, DoorTold, ConnTold, Linked, Tells, Settled, RunsOf, Holders

\* The doors keep requests apart and failures visible, for any number of connections of either
\* kind and any sequence of requests on them, although contexts are reused and calls break.
THEOREM DoorsAlways == TriggerInit /\ [][TriggerNext]_triggerVars => []DoorsSound
<1>1. DoorInv /\ [TriggerNext]_triggerVars => DoorInv'
  BY AskStep, InvokeDoStep, TakenStep, EventDoStep, ProxyHandlerStep, CallInvokeStep, RpcInvokeStep,
     TriggerReturnsStep, RpcBreaksStep, RequestControllerStep, PanicStep, ReadStep, DoorsStutter
     DEF TriggerNext
<1>2. DoorInv => DoorsSound
  <2>. SUFFICES ASSUME DoorInv PROVE DoorsSound
    OBVIOUS
  <2>1. OwnBody
    BY DEF OwnBody, DoorInv, Bodies
  <2>2. ASSUME NEW d \in Doors, doors[d].at = "answered", doors[d].answer.status < 300
        PROVE  /\ \E r \in ran : r.id = doors[d].id
               /\ doors[d].answer.body = doors[d].id \/ doors[d].stream
               /\ ~doors[d].stream /\ ~(doors[d].toBody /\ client = "rpc") =>
                    \A r \in ran : r.id = doors[d].id => r.status = 200 /\ r.error # "Unhandled"
    BY <2>2 DEF DoorInv, DoorTold, RunsOf
  <2>3. OwnAnswer
    BY <2>2 DEF DoorInv, ConnTold, RunsOf, OwnAnswer
  <2>4. FailureShown
    BY <2>2 DEF FailureShown
  <2>. QED  BY <2>1, <2>3, <2>4 DEF DoorsSound
<1>. QED  BY <1>1, <1>2, DoorsStart, PTL

-----------------------------------------------------------------------------
(* The stub api server *)

LEMMA Generated ==
  ASSUME NEW u, NEW f, NEW q
  PROVE  /\ GenerateFuncBrnString(u, f, "") = <<"brn", "cloud", "faas", "bj", u, "function", f>>
         /\ q # "" => GenerateFuncBrnString(u, f, q) = <<"brn", "cloud", "faas", "bj", u, "function", f, q>>
<1>1. <<"brn", "cloud", "faas", "bj">> \o <<u, "function", f>> = <<"brn", "cloud", "faas", "bj", u, "function", f>>
  BY FourAndThree
<1>2. PICK w : w = <<"brn", "cloud", "faas", "bj", u, "function", f>>
  OBVIOUS
<1>3. w \o <<>> = w
  <2>1. PICK S : S = {"brn", "cloud", "faas", "bj", u, "function", f}
    OBVIOUS
  <2>2. w \in Seq(S)
    BY <1>2, <2>1
  <2>. QED  BY <2>2, ConcatEmptySeq
<1>4. w \o <<q>> = <<"brn", "cloud", "faas", "bj", u, "function", f, q>>
  BY <1>2, SevenAndOne
<1>5. GenerateFuncBrnString(u, f, "") = w \o <<>>
  BY <1>1, <1>2 DEF GenerateFuncBrnString, Prefix
<1>6. q # "" => GenerateFuncBrnString(u, f, q) = w \o <<q>>
  BY <1>1, <1>2 DEF GenerateFuncBrnString, Prefix
<1>. QED  BY <1>2, <1>3, <1>4, <1>5, <1>6

Stored(q) == IF q \in StoredVersions THEN q ELSE "$LATEST"

DealSays(deal, r) ==
  /\ deal.name = r.f
  /\ r.q \in StoredVersions => deal.version = r.q
  /\ r.q \notin StoredVersions => deal.version = ""

LEMMA DealtRight ==
  ASSUME NEW r, NEW va, r.q \in StoredVersions => va.version = r.q, r.q \notin StoredVersions => va.version = ""
  PROVE  DealSays(Dealt(r.f, va), r)
<1>1. Dealt(r.f, va).name = r.f /\ Dealt(r.f, va).version = va.version
  BY DEF Dealt
<1>. QED  BY <1>1 DEF DealSays

\* Every form of a name is taken for the function and the version that are meant.
LEMMA FormDeal ==
  ASSUME NEW r \in References, NEW name \in Forms(r)
  PROVE  DealSays(DealFName(r.hash, name), r)
<1>0. /\ r.hash \in Hashes /\ r.f \in Functions /\ r.q \in {"", "$LATEST", "1", "dev"} /\ r.f # r.hash
      /\ r.f \in Words /\ r.hash \in Words /\ (r.q # "" => r.q \in NameQualifiers)
  BY StoreAssumption DEF References, Words, NameQualifiers, Aliases
<1>1. /\ r.q \in StoredVersions => GetVersionAndAlias(r.q).version = r.q
      /\ r.q \notin StoredVersions => GetVersionAndAlias(r.q).version = ""
  BY DEF GetVersionAndAlias
<1>2. NoQualifier.version = "" /\ "" \notin StoredVersions
  BY DEF NoQualifier, StoredVersions
<1>3. CASE r.q = ""
  <2>1. Forms(r) = {<<r.f>>, <<r.hash>> \o <<r.f>>, GenerateFuncBrnString(r.hash, r.f, "")}
    BY <1>3 DEF Forms
  <2>2. <<r.hash>> \o <<r.f>> = <<r.hash, r.f>>
    BY OneAndOne
  <2>3. CASE name = <<r.f>>
    <3>1. Len(name) = 1 /\ name[1] = r.f
      BY <2>3
    <3>2. ~regBrn(name) /\ regPartialBrn(name)
      <4>1. ~(Len(name) \in {7, 8})
        BY <3>1
      <4>2. name[1] \in Words
        BY <1>0, <3>1
      <4>. QED  BY <3>1, <4>1, <4>2 DEF regBrn, regPartialBrn
    <3>3. DealFName(r.hash, name) = Dealt(r.f, NoQualifier)
      BY <3>1, <3>2 DEF DealFName, DealPartial
    <3>. QED  BY <1>2, <1>3, <3>3, DealtRight
  <2>4. CASE name = <<r.hash, r.f>>
    <3>1. Len(name) = 2 /\ name[1] = r.hash /\ name[2] = r.f
      BY <2>4
    <3>2. ~regBrn(name) /\ regPartialBrn(name)
      <4>1. ~(Len(name) \in {7, 8})
        BY <3>1
      <4>2. name[1] \in Words /\ name[2] \in NameQualifiers
        BY <1>0, <3>1 DEF NameQualifiers
      <4>. QED  BY <3>1, <4>1, <4>2 DEF regBrn, regPartialBrn
    <3>3. DealFName(r.hash, name) = Dealt(r.f, NoQualifier)
      BY <3>1, <3>2 DEF DealFName, DealPartial
    <3>. QED  BY <1>2, <1>3, <3>3, DealtRight
  <2>5. CASE name = GenerateFuncBrnString(r.hash, r.f, "")
    <3>1. name = <<"brn", "cloud", "faas", "bj", r.hash, "function", r.f>>
      BY <2>5, Generated
    <3>2. Len(name) = 7 /\ name[5] = r.hash /\ name[6] = "function" /\ name[7] = r.f /\ SubSeq(name, 1, 4) = Prefix
      <4>1. name[1] = "brn" /\ name[2] = "cloud" /\ name[3] = "faas" /\ name[4] = "bj"
        BY <3>1
      <4>2. SubSeq(name, 1, 4) = Prefix
        BY <4>1, FirstFour DEF Prefix
      <4>. QED  BY <3>1, <4>2
    <3>3. regBrn(name)
      <4>1. Len(name) \in {7, 8} /\ Len(name) # 8
        BY <3>2
      <4>. QED  BY <1>0, <3>2, <4>1, Zenon DEF regBrn
    <3>4. DealFName(r.hash, name) = Dealt(r.f, NoQualifier)
      BY <3>2, <3>3 DEF DealFName, ParseFunction
    <3>. QED  BY <1>2, <1>3, <3>4, DealtRight
  <2>. QED  BY <2>1, <2>2, <2>3, <2>4, <2>5
<1>4. CASE r.q # ""
  <2>1. Forms(r) = {<<r.f, r.q>>, <<r.hash>> \o <<r.f, r.q>>, GenerateFuncBrnString(r.hash, r.f, r.q)}
    BY <1>4 DEF Forms
  <2>2. <<r.hash>> \o <<r.f, r.q>> = <<r.hash, r.f, r.q>>
    BY OneAndTwo
  <2>3. CASE name = <<r.f, r.q>>
    <3>1. Len(name) = 2 /\ name[1] = r.f /\ name[2] = r.q /\ name[1] # r.hash
      BY <1>0, <2>3
    <3>2. ~regBrn(name) /\ regPartialBrn(name)
      <4>1. ~(Len(name) \in {7, 8})
        BY <3>1
      <4>2. name[1] \in Words /\ name[2] \in NameQualifiers
        BY <1>0, <1>4, <3>1
      <4>. QED  BY <3>1, <4>1, <4>2 DEF regBrn, regPartialBrn
    <3>3. DealFName(r.hash, name) = Dealt(r.f, GetVersionAndAlias(r.q))
      BY <3>1, <3>2 DEF DealFName, DealPartial
    <3>. QED  BY <1>1, <3>3, DealtRight
  <2>4. CASE name = <<r.hash, r.f, r.q>>
    <3>1. Len(name) = 3 /\ name[1] = r.hash /\ name[2] = r.f /\ name[3] = r.q
      BY <2>4
    <3>2. ~regBrn(name) /\ regPartialBrn(name)
      <4>1. ~(Len(name) \in {7, 8})
        BY <3>1
      <4>2. name[1] \in Hashes /\ name[2] \in Words /\ name[3] \in NameQualifiers
        BY <1>0, <1>4, <3>1
      <4>. QED  BY <3>1, <4>1, <4>2 DEF regBrn, regPartialBrn
    <3>3. DealFName(r.hash, name) = Dealt(r.f, GetVersionAndAlias(r.q))
      BY <3>1, <3>2 DEF DealFName, DealPartial
    <3>. QED  BY <1>1, <3>3, DealtRight
  <2>5. CASE name = GenerateFuncBrnString(r.hash, r.f, r.q)
    <3>1. name = <<"brn", "cloud", "faas", "bj", r.hash, "function", r.f, r.q>>
      BY <1>4, <2>5, Generated
    <3>2. /\ Len(name) = 8 /\ name[5] = r.hash /\ name[6] = "function" /\ name[7] = r.f /\ name[8] = r.q
          /\ SubSeq(name, 1, 4) = Prefix
      <4>1. name[1] = "brn" /\ name[2] = "cloud" /\ name[3] = "faas" /\ name[4] = "bj"
        BY <3>1
      <4>2. SubSeq(name, 1, 4) = Prefix
        BY <4>1, FirstFour DEF Prefix
      <4>. QED  BY <3>1, <4>2
    <3>3. regBrn(name)
      <4>1. Len(name) \in {7, 8}
        BY <3>2
      <4>. QED  BY <1>0, <1>4, <3>2, <4>1, Zenon DEF regBrn
    <3>4. DealFName(r.hash, name) = Dealt(r.f, GetVersionAndAlias(r.q))
      BY <3>2, <3>3 DEF DealFName, ParseFunction
    <3>. QED  BY <1>1, <3>4, DealtRight
  <2>. QED  BY <2>1, <2>2, <2>3, <2>4, <2>5
<1>. QED  BY <1>3, <1>4

StoreVersions == StoredVersions \cup (ArgVersions \ {""})

LEMMA ArnFacts ==
  /\ \A f \in Functions, v \in StoreVersions :
       /\ GenerateFuncBrnString(StubHash, f, v) \in Arns
       /\ GenerateFuncBrnString(StubHash, f, v)[7] = f /\ GenerateFuncBrnString(StubHash, f, v)[8] = v
  /\ \A a \in Arns : \E f \in Functions, v \in StoreVersions :
       a = <<"brn", "cloud", "faas", "bj", StubHash, "function", f, v>>
<1>1. "" \notin StoreVersions
  BY DEF StoreVersions, StoredVersions
<1>2. ASSUME NEW f \in Functions, NEW v \in StoreVersions
      PROVE  GenerateFuncBrnString(StubHash, f, v) = <<"brn", "cloud", "faas", "bj", StubHash, "function", f, v>>
  BY <1>1, Generated
<1>3. \A a : a \in Arns <=> \E f \in Functions, v \in StoreVersions : a = GenerateFuncBrnString(StubHash, f, v)
  BY DEF Arns, StoreVersions
<1>4. ASSUME NEW f \in Functions, NEW v \in StoreVersions
      PROVE  GenerateFuncBrnString(StubHash, f, v)[7] = f /\ GenerateFuncBrnString(StubHash, f, v)[8] = v
  BY <1>2
<1>. QED  BY <1>2, <1>3, <1>4

\* What a name is looked up under, if it is a directory: the function, and the version or $LATEST.
LEMMA LookUpRight ==
  ASSUME NEW r \in References, NEW name \in Forms(r)
  PROVE  /\ r.q \notin StoredVersions => LookUp(r, name) = GenerateFuncBrnString(StubHash, r.f, "$LATEST")
         /\ r.q \in StoredVersions => LookUp(r, name) = name
         /\ LookUp(r, name) \in Arns => LookUp(r, name)[7] = r.f /\ LookUp(r, name)[8] = Stored(r.q)
<1>0. r.hash \in Hashes /\ r.f \in Functions /\ "" \notin StoredVersions /\ "$LATEST" \in StoreVersions
  BY DEF References, StoredVersions, StoreVersions
<1>1. r.q \notin StoredVersions => LookUp(r, name) = GenerateFuncBrnString(StubHash, r.f, "$LATEST")
  BY FormDeal DEF LookUp, DealSays
<1>2. r.q \in StoredVersions => LookUp(r, name) = name
  BY <1>0, FormDeal DEF LookUp, DealSays
<1>3. ASSUME r.q \notin StoredVersions PROVE LookUp(r, name)[7] = r.f /\ LookUp(r, name)[8] = Stored(r.q)
  <2>1. /\ GenerateFuncBrnString(StubHash, r.f, "$LATEST")[7] = r.f
        /\ GenerateFuncBrnString(StubHash, r.f, "$LATEST")[8] = "$LATEST"
    BY <1>0, ArnFacts
  <2>2. Stored(r.q) = "$LATEST"
    BY <1>3 DEF Stored
  <2>. QED  BY <1>1, <1>3, <2>1, <2>2
<1>4. ASSUME r.q \in StoredVersions, name \in Arns PROVE name[7] = r.f /\ name[8] = Stored(r.q)
  <2>1. PICK f \in Functions, v \in StoreVersions : name = <<"brn", "cloud", "faas", "bj", StubHash, "function", f, v>>
    BY <1>4, ArnFacts
  <2>2. Len(name) = 8
    BY <2>1
  <2>3. r.q # ""
    BY <1>0, <1>4
  <2>4. name \in {<<r.f, r.q>>, <<r.hash, r.f, r.q>>, GenerateFuncBrnString(r.hash, r.f, r.q)}
    BY <2>3, OneAndTwo DEF Forms
  <2>5. name # <<r.f, r.q>> /\ name # <<r.hash, r.f, r.q>>
    BY <2>2
  <2>6. name = <<"brn", "cloud", "faas", "bj", r.hash, "function", r.f, r.q>>
    BY <2>3, <2>4, <2>5, Generated
  <2>7. name[7] = r.f /\ name[8] = r.q
    BY <2>6
  <2>. QED  BY <1>4, <2>7 DEF Stored
<1>. QED  BY <1>1, <1>2, <1>3, <1>4

\* The full name of a stored function is its directory, in the stub's account.
LEMMA FullName ==
  ASSUME NEW r \in References, NEW name \in Forms(r), Len(name) = 8
  PROVE  r.q # "" /\ name = GenerateFuncBrnString(r.hash, r.f, r.q)
<1>1. CASE r.q = ""
  <2>1. name \in {<<r.f>>, <<r.hash, r.f>>, GenerateFuncBrnString(r.hash, r.f, "")}
    BY <1>1, OneAndOne DEF Forms
  <2>2. name # <<r.f>> /\ name # <<r.hash, r.f>>
    OBVIOUS
  <2>3. name = <<"brn", "cloud", "faas", "bj", r.hash, "function", r.f>>
    BY <2>1, <2>2, Generated
  <2>4. Len(name) = 7
    BY <2>3
  <2>5. 7 # 8
    OBVIOUS
  <2>. QED  BY <2>4, <2>5
<1>2. ASSUME r.q # "" PROVE name = GenerateFuncBrnString(r.hash, r.f, r.q)
  <2>1. name \in {<<r.f, r.q>>, <<r.hash, r.f, r.q>>, GenerateFuncBrnString(r.hash, r.f, r.q)}
    BY <1>2, OneAndTwo DEF Forms
  <2>2. name # <<r.f, r.q>> /\ name # <<r.hash, r.f, r.q>>
    OBVIOUS
  <2>. QED  BY <2>1, <2>2
<1>. QED  BY <1>1, <1>2

CreatorAts == {"idle", "code", "code2", "meta", "meta2", "done"}

\* A creator c that has begun, with the directory of its function's version.
CreatorGood(c) ==
  c.at # "idle" =>
    /\ c.ref \in References /\ c.name \in Forms(c.ref) /\ c.code \in Codes /\ c.version \in StoreVersions
    /\ c.ref.q \in StoredVersions => c.version = c.ref.q
    /\ c.arn = GenerateFuncBrnString(StubHash, c.ref.f, c.version)
    /\ c.at = "done" => disk[c.arn].meta # "none"

GetterGood(g) ==
  /\ g.at = "open" => g.ref \in References /\ g.name \in Forms(g.ref) /\ g.arn = LookUp(g.ref, g.name)
  /\ g.at = "idle" /\ g.code \in Codes => g.arn = <<g.ref.f, Stored(g.ref.q)>>

StoreTypes ==
  /\ \E V : /\ disk \in [Arns -> [code : V, meta : Codes \cup {"none", "part"}, f : V, version : V]]
            /\ creator \in [Creators -> [at : CreatorAts, ref : V, name : V, arn : V, code : V, version : V]]
            /\ getter \in [Getters -> [at : {"idle", "open"}, ref : V, name : V, arn : V, code : V, version : V]]

StoreInv ==
  /\ StoreTypes
  /\ \A c \in Creators : CreatorGood(creator[c])
  /\ \A g \in Getters : GetterGood(getter[g])
  /\ \A a \in Arns : disk[a].meta \in Codes => disk[a].f = a[7] /\ disk[a].version = a[8]

LEMMA CreatorArn ==
  ASSUME NEW c, CreatorGood(c), c.at # "idle"
  PROVE  c.arn \in Arns /\ c.arn[7] = c.ref.f /\ c.arn[8] = c.version /\ c.code \in Codes
<1>1. PICK r \in References : r = c.ref
  BY DEF CreatorGood
<1>2. PICK v \in StoreVersions : v = c.version
  BY DEF CreatorGood
<1>3. r.f \in Functions
  BY DEF References
<1>4. PICK f \in Functions : f = r.f
  BY <1>3
<1>5. c.arn = GenerateFuncBrnString(StubHash, f, v) /\ c.code \in Codes
  BY <1>1, <1>2, <1>4 DEF CreatorGood
<1>6. /\ GenerateFuncBrnString(StubHash, f, v) \in Arns
      /\ GenerateFuncBrnString(StubHash, f, v)[7] = f /\ GenerateFuncBrnString(StubHash, f, v)[8] = v
  BY ArnFacts
<1>. QED  BY <1>1, <1>2, <1>4, <1>5, <1>6

LEMMA NotCodes == "part" \notin Codes /\ "none" \notin Codes /\ "404" \notin Codes /\ "" \notin Codes
BY StoreAssumption

LEMMA CreateStep ==
  ASSUME StoreInv, NEW c \in Creators, NEW r \in References, NEW name \in Forms(r), NEW code \in Codes,
         NEW v \in ArgVersions, createFunctionMeta(c, r, name, code, v)
  PROVE  StoreInv'
<1>. DEFINE deal == DealFName(r.hash, name)
<1>1. PICK version : version = IF deal.version # "" THEN deal.version ELSE IF v # "" THEN v ELSE "$LATEST"
  OBVIOUS
<1>2. DealSays(deal, r)
  BY FormDeal
<1>. HIDE DEF deal
<1>3. deal.name = r.f /\ version \in StoreVersions /\ (r.q \in StoredVersions => version = r.q)
  <2>1. "" \notin StoredVersions /\ "$LATEST" \in StoreVersions
    BY DEF StoredVersions, StoreVersions
  <2>. QED  BY <1>1, <1>2, <2>1 DEF DealSays, StoreVersions
<1>4. PICK new : new = [at |-> "code", ref |-> r, name |-> name, code |-> code, version |-> version,
                        arn |-> GenerateFuncBrnString(StubHash, r.f, version)]
  OBVIOUS
<1>5. creator' = [creator EXCEPT ![c] = new] /\ disk' = disk /\ getter' = getter
  BY <1>1, <1>3, <1>4, Zenon DEF createFunctionMeta, deal
<1>6. PICK V : /\ disk \in [Arns -> [code : V, meta : Codes \cup {"none", "part"}, f : V, version : V]]
               /\ creator \in [Creators -> [at : CreatorAts, ref : V, name : V, arn : V, code : V, version : V]]
               /\ getter \in [Getters -> [at : {"idle", "open"}, ref : V, name : V, arn : V, code : V, version : V]]
  BY DEF StoreInv, StoreTypes
<1>7. /\ new.at = "code" /\ new.ref = r /\ new.name = name /\ new.code = code /\ new.version = version
      /\ new.arn = GenerateFuncBrnString(StubHash, r.f, version)
  BY <1>4
<1>8. \A d \in Creators : creator'[d] = IF d = c THEN new ELSE creator[d]
  BY <1>5, <1>6
<1>9. StoreTypes'
  <2>1. PICK W : W = V \cup {r, name, code, version, GenerateFuncBrnString(StubHash, r.f, version)}
    OBVIOUS
  <2>2. new \in [at : CreatorAts, ref : W, name : W, arn : W, code : W, version : W]
    BY <1>4, <2>1 DEF CreatorAts
  <2>3. creator' \in [Creators -> [at : CreatorAts, ref : W, name : W, arn : W, code : W, version : W]]
    <3>1. creator \in [Creators -> [at : CreatorAts, ref : W, name : W, arn : W, code : W, version : W]]
      BY <1>6, <2>1
    <3>. QED  BY <1>5, <2>2, <3>1
  <2>4. /\ disk' \in [Arns -> [code : W, meta : Codes \cup {"none", "part"}, f : W, version : W]]
        /\ getter' \in [Getters -> [at : {"idle", "open"}, ref : W, name : W, arn : W, code : W, version : W]]
    BY <1>5, <1>6, <2>1
  <2>. QED  BY <2>3, <2>4 DEF StoreTypes
<1>10. ASSUME NEW d \in Creators PROVE CreatorGood(creator[d])'
  <2>1. CASE d = c
    BY <1>3, <1>5, <1>7, <1>8, <2>1 DEF CreatorGood
  <2>2. CASE d # c
    BY <1>5, <1>8, <2>2 DEF StoreInv, CreatorGood
  <2>. QED  BY <2>1, <2>2
<1>. QED  BY <1>5, <1>9, <1>10 DEF StoreInv, GetterGood

LEMMA WriteStep ==
  ASSUME StoreInv, NEW c \in Creators, WriteFile(c)
  PROVE  StoreInv'
<1>1. PICK V : /\ disk \in [Arns -> [code : V, meta : Codes \cup {"none", "part"}, f : V, version : V]]
               /\ creator \in [Creators -> [at : CreatorAts, ref : V, name : V, arn : V, code : V, version : V]]
               /\ getter \in [Getters -> [at : {"idle", "open"}, ref : V, name : V, arn : V, code : V, version : V]]
  BY DEF StoreInv, StoreTypes
<1>2. PICK r : r = creator[c]
  OBVIOUS
<1>3. /\ r \in [at : CreatorAts, ref : V, name : V, arn : V, code : V, version : V] /\ r.at # "idle" /\ CreatorGood(r)
  BY <1>1, <1>2 DEF WriteFile, StoreInv
<1>4. /\ r.arn \in Arns /\ r.code \in Codes /\ r.arn[7] = r.ref.f /\ r.arn[8] = r.version /\ "part" \notin Codes
      /\ "none" \notin Codes
  BY <1>3, CreatorArn, NotCodes
<1>5. PICK a \in Arns : a = r.arn
  BY <1>4
<1>6. PICK old : old = disk[a]
  OBVIOUS
<1>7. old \in [code : V, meta : Codes \cup {"none", "part"}, f : V, version : V]
  BY <1>1, <1>6
<1>8. PICK at, new :
        /\ at \in CreatorAts /\ creator' = [creator EXCEPT ![c].at = at] /\ disk' = [disk EXCEPT ![a] = new]
        /\ getter' = getter
        /\ \/ r.at = "code" /\ at = "code2" /\ new = [old EXCEPT !.code = "part"]
           \/ r.at = "code2" /\ at = "meta" /\ new = [old EXCEPT !.code = r.code]
           \/ r.at = "meta" /\ at = "meta2" /\ new = [old EXCEPT !.meta = "part"]
           \/ r.at = "meta2" /\ at = "done"
              /\ new = [old EXCEPT !.meta = r.code, !.f = r.arn[7], !.version = r.version]
  <2>1. /\ "code2" \in CreatorAts /\ "meta" \in CreatorAts /\ "meta2" \in CreatorAts /\ "done" \in CreatorAts
    BY DEF CreatorAts
  <2>. QED  BY <1>2, <1>5, <1>6, <2>1, Zenon DEF WriteFile
<1>9. PICK W : W = V \cup {"part", r.code, r.arn[7], r.version}
  OBVIOUS
<1>10. /\ new \in [code : W, meta : Codes \cup {"none", "part"}, f : W, version : W]
       /\ \/ new.meta = old.meta /\ new.f = old.f /\ new.version = old.version /\ at # "done"
          \/ new.meta = "part" /\ at # "done"
          \/ new.meta = r.code /\ new.f = r.arn[7] /\ new.version = r.version
  BY <1>4, <1>7, <1>8, <1>9
<1>11. PICK s : s = [r EXCEPT !.at = at]
  OBVIOUS
<1>12. /\ s \in [at : CreatorAts, ref : V, name : V, arn : V, code : V, version : V]
       /\ s.at = at /\ s.ref = r.ref /\ s.name = r.name /\ s.arn = r.arn /\ s.code = r.code /\ s.version = r.version
  <2>1. at \in CreatorAts
    BY <1>8
  <2>. QED  BY <1>3, <1>11, <2>1
<1>13. creator' = [creator EXCEPT ![c] = s] /\ \A d \in Creators : creator'[d] = IF d = c THEN s ELSE creator[d]
  BY <1>1, <1>2, <1>8, <1>11
<1>14. \A b \in Arns : disk'[b] = IF b = a THEN new ELSE disk[b]
  BY <1>1, <1>8
<1>15. StoreTypes'
  <2>1. creator' \in [Creators -> [at : CreatorAts, ref : V, name : V, arn : V, code : V, version : V]]
    BY <1>1, <1>12, <1>13
  <2>2. creator' \in [Creators -> [at : CreatorAts, ref : W, name : W, arn : W, code : W, version : W]]
    BY <1>9, <2>1
  <2>3. disk \in [Arns -> [code : W, meta : Codes \cup {"none", "part"}, f : W, version : W]]
    BY <1>1, <1>9
  <2>4. disk' \in [Arns -> [code : W, meta : Codes \cup {"none", "part"}, f : W, version : W]]
    BY <1>8, <1>10, <2>3
  <2>5. getter' \in [Getters -> [at : {"idle", "open"}, ref : W, name : W, arn : W, code : W, version : W]]
    BY <1>1, <1>8, <1>9
  <2>. QED  BY <2>2, <2>4, <2>5 DEF StoreTypes
<1>16. ASSUME NEW b \in Arns, disk[b].meta # "none" PROVE disk'[b].meta # "none"
  BY <1>4, <1>6, <1>10, <1>14, <1>16
<1>17. ASSUME NEW d \in Creators PROVE CreatorGood(creator[d])'
  <2>1. CASE d # c
    <3>1. creator'[d] = creator[d] /\ CreatorGood(creator[d])
      BY <1>13, <2>1 DEF StoreInv
    <3>2. creator[d].at = "done" => creator[d].arn \in Arns
      BY <3>1, CreatorArn
    <3>. QED  BY <1>16, <3>1, <3>2 DEF CreatorGood
  <2>2. CASE d = c
    <3>1. at = "done" => disk'[a].meta # "none"
      BY <1>4, <1>10, <1>14
    <3>2. r.at # "idle" /\ at # "idle" /\ creator'[d] = s
      BY <1>3, <1>8, <1>13, <2>2
    <3>. QED  BY <1>3, <1>5, <1>12, <3>1, <3>2 DEF CreatorGood
  <2>. QED  BY <2>1, <2>2
<1>18. ASSUME NEW b \in Arns, disk'[b].meta \in Codes PROVE disk'[b].f = b[7] /\ disk'[b].version = b[8]
  BY <1>4, <1>5, <1>6, <1>10, <1>14, <1>18 DEF StoreInv
<1>. QED  BY <1>8, <1>15, <1>17, <1>18 DEF StoreInv, GetterGood

LEMMA AgainStep ==
  ASSUME StoreInv, NEW c \in Creators, Again(c)
  PROVE  StoreInv'
<1>1. PICK V : /\ disk \in [Arns -> [code : V, meta : Codes \cup {"none", "part"}, f : V, version : V]]
               /\ creator \in [Creators -> [at : CreatorAts, ref : V, name : V, arn : V, code : V, version : V]]
               /\ getter \in [Getters -> [at : {"idle", "open"}, ref : V, name : V, arn : V, code : V, version : V]]
  BY DEF StoreInv, StoreTypes
<1>2. creator' = [creator EXCEPT ![c] = NoRequestYet] /\ disk' = disk /\ getter' = getter
  BY DEF Again
<1>3. PICK W : W = V \cup {[f |-> "", q |-> ""], <<>>, ""}
  OBVIOUS
<1>4. NoRequestYet \in [at : CreatorAts, ref : W, name : W, arn : W, code : W, version : W] /\ NoRequestYet.at = "idle"
  BY <1>3 DEF NoRequestYet, CreatorAts
<1>5. \A d \in Creators : creator'[d] = IF d = c THEN NoRequestYet ELSE creator[d]
  BY <1>1, <1>2
<1>6. StoreTypes'
  <2>1. creator \in [Creators -> [at : CreatorAts, ref : W, name : W, arn : W, code : W, version : W]]
    BY <1>1, <1>3
  <2>2. creator' \in [Creators -> [at : CreatorAts, ref : W, name : W, arn : W, code : W, version : W]]
    BY <1>2, <1>4, <2>1
  <2>3. /\ disk' \in [Arns -> [code : W, meta : Codes \cup {"none", "part"}, f : W, version : W]]
        /\ getter' \in [Getters -> [at : {"idle", "open"}, ref : W, name : W, arn : W, code : W, version : W]]
    BY <1>1, <1>2, <1>3
  <2>. QED  BY <2>2, <2>3 DEF StoreTypes
<1>7. ASSUME NEW d \in Creators PROVE CreatorGood(creator[d])'
  BY <1>2, <1>4, <1>5 DEF StoreInv, CreatorGood
<1>. QED  BY <1>2, <1>6, <1>7 DEF StoreInv, GetterGood

LEMMA GetStep ==
  ASSUME StoreInv, NEW g \in Getters, NEW r \in References, NEW name \in Forms(r), GetFunction(g, r, name)
  PROVE  StoreInv'
<1>1. PICK V : /\ disk \in [Arns -> [code : V, meta : Codes \cup {"none", "part"}, f : V, version : V]]
               /\ creator \in [Creators -> [at : CreatorAts, ref : V, name : V, arn : V, code : V, version : V]]
               /\ getter \in [Getters -> [at : {"idle", "open"}, ref : V, name : V, arn : V, code : V, version : V]]
  BY DEF StoreInv, StoreTypes
<1>2. PICK old : old = getter[g]
  OBVIOUS
<1>3. PICK arn : arn = LookUp(r, name)
  OBVIOUS
<1>4. PICK new : new = [old EXCEPT !.at = "open", !.ref = r, !.name = name, !.arn = arn]
  OBVIOUS
<1>5. getter' = [getter EXCEPT ![g] = new] /\ disk' = disk /\ creator' = creator
  BY <1>2, <1>3, <1>4 DEF GetFunction
<1>6. PICK W : W = V \cup {r, name, arn}
  OBVIOUS
<1>7. /\ new \in [at : {"idle", "open"}, ref : W, name : W, arn : W, code : W, version : W]
      /\ new.at = "open" /\ new.ref = r /\ new.name = name /\ new.arn = arn
  BY <1>1, <1>2, <1>4, <1>6
<1>8. \A h \in Getters : getter'[h] = IF h = g THEN new ELSE getter[h]
  BY <1>1, <1>5
<1>9. StoreTypes'
  <2>1. getter \in [Getters -> [at : {"idle", "open"}, ref : W, name : W, arn : W, code : W, version : W]]
    BY <1>1, <1>6
  <2>2. getter' \in [Getters -> [at : {"idle", "open"}, ref : W, name : W, arn : W, code : W, version : W]]
    BY <1>5, <1>7, <2>1
  <2>3. /\ disk' \in [Arns -> [code : W, meta : Codes \cup {"none", "part"}, f : W, version : W]]
        /\ creator' \in [Creators -> [at : CreatorAts, ref : W, name : W, arn : W, code : W, version : W]]
    BY <1>1, <1>5, <1>6
  <2>. QED  BY <2>2, <2>3 DEF StoreTypes
<1>10. ASSUME NEW h \in Getters PROVE GetterGood(getter[h])'
  BY <1>3, <1>7, <1>8 DEF StoreInv, GetterGood
<1>. QED  BY <1>5, <1>9, <1>10 DEF StoreInv, CreatorGood

LEMMA ReadMetaStep ==
  ASSUME StoreInv, NEW g \in Getters, ReadMeta(g)
  PROVE  StoreInv'
<1>1. PICK V : /\ disk \in [Arns -> [code : V, meta : Codes \cup {"none", "part"}, f : V, version : V]]
               /\ creator \in [Creators -> [at : CreatorAts, ref : V, name : V, arn : V, code : V, version : V]]
               /\ getter \in [Getters -> [at : {"idle", "open"}, ref : V, name : V, arn : V, code : V, version : V]]
  BY DEF StoreInv, StoreTypes
<1>2. PICK old : old = getter[g]
  OBVIOUS
<1>3. /\ old \in [at : {"idle", "open"}, ref : V, name : V, arn : V, code : V, version : V]
      /\ old.ref \in References /\ old.name \in Forms(old.ref) /\ old.arn = LookUp(old.ref, old.name)
  BY <1>1, <1>2 DEF ReadMeta, StoreInv, GetterGood
<1>4. PICK a : a = old.arn
  OBVIOUS
<1>5. PICK dir : dir = disk[a]
  OBVIOUS
<1>6. PICK r \in References : r = old.ref
  BY <1>3
<1>7. PICK name \in Forms(r) : name = old.name
  BY <1>3, <1>6
<1>8. a \in Arns => a[7] = r.f /\ a[8] = Stored(r.q)
  BY <1>3, <1>4, <1>6, <1>7, LookUpRight
<1>9. PICK new : new = IF a \in Arns /\ dir.meta # "none"
                       THEN [old EXCEPT !.at = "idle", !.code = dir.meta, !.arn = <<dir.f, dir.version>>]
                       ELSE [old EXCEPT !.at = "idle", !.code = "404"]
  OBVIOUS
<1>10. getter' = [getter EXCEPT ![g] = new] /\ disk' = disk /\ creator' = creator
  BY <1>2, <1>4, <1>5, <1>9, Zenon DEF ReadMeta
<1>11. PICK W : W = V \cup {"404", <<dir.f, dir.version>>, dir.meta}
  OBVIOUS
<1>12. ASSUME a \in Arns /\ dir.meta # "none"
       PROVE  new \in [at : {"idle", "open"}, ref : W, name : W, arn : W, code : W, version : W] /\ GetterGood(new)
  <2>1. new = [old EXCEPT !.at = "idle", !.code = dir.meta, !.arn = <<dir.f, dir.version>>]
    BY <1>9, <1>12
  <2>2. /\ new \in [at : {"idle", "open"}, ref : W, name : W, arn : W, code : W, version : W]
        /\ new.at = "idle" /\ new.ref = r /\ new.code = dir.meta /\ new.arn = <<dir.f, dir.version>>
    BY <1>3, <1>6, <1>11, <2>1
  <2>3. dir.meta \in Codes => dir.f = r.f /\ dir.version = Stored(r.q)
    BY <1>5, <1>8, <1>12 DEF StoreInv
  <2>4. GetterGood(new)
    BY <2>2, <2>3 DEF GetterGood
  <2>. QED  BY <2>2, <2>4
<1>13. ASSUME ~(a \in Arns /\ dir.meta # "none")
       PROVE  new \in [at : {"idle", "open"}, ref : W, name : W, arn : W, code : W, version : W] /\ GetterGood(new)
  <2>1. new = [old EXCEPT !.at = "idle", !.code = "404"]
    BY <1>9, <1>13
  <2>2. /\ new \in [at : {"idle", "open"}, ref : W, name : W, arn : W, code : W, version : W]
        /\ new.at = "idle" /\ new.code = "404"
    BY <1>3, <1>11, <2>1
  <2>3. GetterGood(new)
    BY <2>2, NotCodes DEF GetterGood
  <2>. QED  BY <2>2, <2>3
<1>14. new \in [at : {"idle", "open"}, ref : W, name : W, arn : W, code : W, version : W] /\ GetterGood(new)
  BY <1>12, <1>13
<1>15. \A h \in Getters : getter'[h] = IF h = g THEN new ELSE getter[h]
  BY <1>1, <1>10
<1>16. StoreTypes'
  <2>1. getter \in [Getters -> [at : {"idle", "open"}, ref : W, name : W, arn : W, code : W, version : W]]
    BY <1>1, <1>11
  <2>2. getter' \in [Getters -> [at : {"idle", "open"}, ref : W, name : W, arn : W, code : W, version : W]]
    BY <1>10, <1>14, <2>1
  <2>3. /\ disk' \in [Arns -> [code : W, meta : Codes \cup {"none", "part"}, f : W, version : W]]
        /\ creator' \in [Creators -> [at : CreatorAts, ref : W, name : W, arn : W, code : W, version : W]]
    BY <1>1, <1>10, <1>11
  <2>. QED  BY <2>2, <2>3 DEF StoreTypes
<1>17. ASSUME NEW h \in Getters PROVE GetterGood(getter[h])'
  BY <1>14, <1>15 DEF StoreInv, GetterGood
<1>. QED  BY <1>10, <1>16, <1>17 DEF StoreInv, CreatorGood

LEMMA StoreStart == StoreInit => StoreInv
<1>. SUFFICES ASSUME StoreInit PROVE StoreInv
  OBVIOUS
<1>1. PICK V : V = {[f |-> "", q |-> ""], <<>>, "", "none"}
  OBVIOUS
<1>2. NoRequestYet \in [at : CreatorAts, ref : V, name : V, arn : V, code : V, version : V] /\ NoRequestYet.at = "idle"
  BY <1>1 DEF NoRequestYet, CreatorAts
<1>3. PICK n : n = [NoRequestYet EXCEPT !.code = "none"]
  OBVIOUS
<1>4. /\ n \in [at : {"idle", "open"}, ref : V, name : V, arn : V, code : V, version : V]
      /\ n.at = "idle" /\ n.code = "none"
  <2>1. NoRequestYet \in [at : {"idle", "open"}, ref : V, name : V, arn : V, code : V, version : V]
    BY <1>1 DEF NoRequestYet
  <2>. QED  BY <1>1, <1>2, <1>3, <2>1
<1>5. NoDirectory \in [code : V, meta : Codes \cup {"none", "part"}, f : V, version : V] /\ NoDirectory.meta = "none"
  BY <1>1 DEF NoDirectory
<1>6. StoreTypes
  <2>1. /\ disk \in [Arns -> [code : V, meta : Codes \cup {"none", "part"}, f : V, version : V]]
        /\ creator \in [Creators -> [at : CreatorAts, ref : V, name : V, arn : V, code : V, version : V]]
    BY <1>2, <1>5 DEF StoreInit
  <2>2. getter \in [Getters -> [at : {"idle", "open"}, ref : V, name : V, arn : V, code : V, version : V]]
    BY <1>3, <1>4 DEF StoreInit
  <2>. QED  BY <2>1, <2>2 DEF StoreTypes
<1>7. \A c \in Creators : CreatorGood(creator[c])
  BY <1>2 DEF StoreInit, CreatorGood
<1>8. \A g \in Getters : GetterGood(getter[g])
  BY <1>3, <1>4, NotCodes DEF StoreInit, GetterGood
<1>9. \A a \in Arns : disk[a].meta \notin Codes
  BY <1>5, NotCodes DEF StoreInit
<1>. QED  BY <1>6, <1>7, <1>8, <1>9 DEF StoreInv

LEMMA StoreNextStep == StoreInv /\ [StoreNext]_storeVars => StoreInv'
<1>. SUFFICES ASSUME StoreInv, [StoreNext]_storeVars PROVE StoreInv'
  OBVIOUS
<1>1. ASSUME NEW c \in Creators, WriteFile(c) \/ Again(c) PROVE StoreInv'
  BY <1>1, WriteStep, AgainStep
<1>2. ASSUME NEW c \in Creators, NEW r \in References, NEW code \in Codes, NEW v \in ArgVersions, NEW name \in Forms(r),
             createFunctionMeta(c, r, name, code, v)
      PROVE  StoreInv'
  BY <1>2, CreateStep
<1>3. ASSUME NEW g \in Getters, ReadMeta(g) PROVE StoreInv'
  BY <1>3, ReadMetaStep
<1>4. ASSUME NEW g \in Getters, NEW r \in References, NEW name \in Forms(r), GetFunction(g, r, name) PROVE StoreInv'
  BY <1>4, GetStep
<1>5. CASE UNCHANGED storeVars
  BY <1>5 DEF storeVars, StoreInv, StoreTypes, CreatorGood, GetterGood
<1>. QED  BY <1>1, <1>2, <1>3, <1>4, <1>5 DEF StoreNext

LEMMA StoreIsSound == StoreInv => StoreSound
<1>. SUFFICES ASSUME StoreInv PROVE StoreSound
  OBVIOUS
<1>1. GetIsRight
  BY DEF StoreInv, GetterGood, GetIsRight, Stored
<1>2. ASSUME NEW g \in Getters, NEW c \in Creators,
             creator[c].at = "done", getter[g].at = "open",
             getter[g].name = creator[c].name, getter[g].ref = creator[c].ref,
             \/ creator[c].ref.q \notin StoredVersions /\ creator[c].version = "$LATEST"
             \/ Len(creator[c].name) = 8 /\ creator[c].ref.hash = StubHash /\ creator[c].ref.q \in StoredVersions
      PROVE  getter[g].arn \in Arns /\ disk[getter[g].arn].meta # "none"
  <2>1. CreatorGood(creator[c]) /\ GetterGood(getter[g])
    BY DEF StoreInv
  <2>2. PICK r \in References : r = creator[c].ref
    BY <1>2, <2>1 DEF CreatorGood
  <2>3. PICK name \in Forms(r) : name = creator[c].name
    BY <1>2, <2>1, <2>2 DEF CreatorGood
  <2>4. /\ getter[g].arn = LookUp(r, name) /\ creator[c].arn = GenerateFuncBrnString(StubHash, r.f, creator[c].version)
        /\ disk[creator[c].arn].meta # "none" /\ (r.q \in StoredVersions => creator[c].version = r.q)
    BY <1>2, <2>1, <2>2, <2>3 DEF CreatorGood, GetterGood
  <2>5. creator[c].arn \in Arns
    BY <1>2, <2>1, CreatorArn
  <2>6. getter[g].arn = creator[c].arn
    <3>1. CASE r.q \notin StoredVersions /\ creator[c].version = "$LATEST"
      BY <2>4, <3>1, LookUpRight
    <3>2. CASE Len(name) = 8 /\ r.hash = StubHash /\ r.q \in StoredVersions
      <4>1. LookUp(r, name) = name
        BY <3>2, LookUpRight
      <4>2. name = GenerateFuncBrnString(StubHash, r.f, r.q)
        BY <3>2, FullName
      <4>. QED  BY <2>4, <3>2, <4>1, <4>2
    <3>. QED  BY <1>2, <2>2, <2>3, <3>1, <3>2
  <2>. QED  BY <2>4, <2>5, <2>6
<1>3. CreatedIsFound
  BY <1>2 DEF CreatedIsFound
<1>. QED  BY <1>1, <1>3 DEF StoreSound

\* The stub api server (stubs/apiserver.go): whatever creators and getters run at the same
\* time, on directories that are only partly written, a function that is found is the one
\* that was asked for, and one that has been created is found under the name it was created
\* by. The names are those of the model, for every set of functions and accounts.
THEOREM StoreAlways == StoreInit /\ [][StoreNext]_storeVars => []StoreSound
BY StoreStart, StoreNextStep, StoreIsSound, PTL
=============================================================================
