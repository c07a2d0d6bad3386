-------------------------- MODULE InvocationProofs --------------------------
(***************************************************************************)
(* Theorems about Invocation, for every set of requests, any capacity of   *)
(* the channels, any number of sessions and deaths, in both modes.         *)
(*                                                                         *)
(* The invariant is stated request by request. GoodRequest relates the     *)
(* client's place in InvokeFunction, its RequestInfo and its presence in   *)
(* requestMap; GoodStep adds what a step may do to a request that others   *)
(* still point to. Each update the code makes is shown to be a GoodStep    *)
(* once, as a fact about records; the actions then only say which update   *)
(* they apply to which request.                                            *)
(***************************************************************************)
EXTENDS Invocation, TLAPS

\* Whether a request is in requestMap, as a value.
Mapped(q, map) == IF q \in map THEN "yes" ELSE "no"

Pending(c) == c.pc \in {"send", "await"}

\* A request that has been in requestMap, so that a loop may still point to it.
Sent(c, i) == c.pc \notin {"new", "wait", "store"} /\ i.status # "normal"

GoodRequest(c, i, mapped) ==
    /\ mapped = "yes" => c.pc \in {"send", "await", "write", "cleanup"}
    /\ c.pc \in {"new", "wait"} => i.status = "normal"
    /\ c.pc = "store" => i.status = "running"
    /\ c.pc \in {"send", "await", "write", "cleanup"} => i.status # "normal"
    /\ i.sync => i.status \notin {"normal", "running"}
    /\ Pending(c) /\ i.status # "running" => getFuncResult(i) # "none"
    /\ c.pc = "cleanup" /\ ~c.message => getFuncResult(i) # "none"
    /\ c.pc = "build" => getFuncResult(i) # "none"
    /\ c.pc = "done" => i.reply # "none"

GoodStep(c, i, mapped, d, j, mapped2) ==
    /\ d \in Clients /\ j \in RequestInfos
    /\ GoodRequest(d, j, mapped2)
    /\ Sent(c, i) => /\ Sent(d, j)
                     /\ Pending(d) => Pending(c) /\ (i.sync => j.sync)
    /\ mapped = "yes" /\ mapped2 = "no" /\ Pending(d) => j.sync

\* What the loops and stopRuntime hold.
Loops ==
    /\ requestMap \subseteq Requests
    /\ requestChan \in Seq(Requests)
    /\ resps \in Seq(Requests)
    /\ snd \in Senders
    /\ rcv \in Receivers
    /\ stopping \in Stoppers
    /\ snd.pc \in {"write", "loop", "do"} =>
           snd.req \in Requests /\ Sent(client[snd.req], info[snd.req])
    /\ rcv.pc = "write" =>
           rcv.req \in Requests /\ Sent(client[rcv.req], info[rcv.req])
    /\ stopping.pc = "write" =>
           stopping.req \in Requests /\ Sent(client[stopping.req], info[stopping.req])

\* Who has been notified while Range goes on and afterwards.
Notified ==
    /\ \A q \in stopping.begin \cup stopping.seen : Sent(client[q], info[q])
    /\ stopping.pc \in {"range", "write"} =>
           \A q \in stopping.seen \cup (stopping.begin \ requestMap) :
               Pending(client[q]) => info[q].sync
    /\ stopping.pc = "wait" =>
           \A q \in stopping.begin : Pending(client[q]) => info[q].sync

IInv ==
    /\ client \in [Requests -> Clients]
    /\ info \in [Requests -> RequestInfos]
    /\ \A q \in Requests : GoodRequest(client[q], info[q], Mapped(q, requestMap))
    /\ Loops
    /\ Notified

-----------------------------------------------------------------------------
(* The updates of one request are good steps. *)

LEMMA Same ==
    ASSUME NEW c \in Clients, NEW i \in RequestInfos, NEW mapped \in {"yes", "no"},
           GoodRequest(c, i, mapped)
    PROVE  GoodStep(c, i, mapped, c, i, mapped)
  BY DEF GoodStep

\* The client's own steps, one after the other.
LEMMA ClientUpdates ==
    ASSUME NEW c \in Clients, NEW i \in RequestInfos, NEW mapped \in {"yes", "no"},
           NEW b \in BOOLEAN,
           GoodRequest(c, i, mapped)
    PROVE  /\ c.pc = "new" => GoodStep(c, i, mapped, At(c, "wait"), i, mapped)
           /\ c.pc = "wait" => GoodStep(c, i, mapped, At(c, "store"),
                                        [i EXCEPT !.status = "running"], mapped)
           /\ c.pc = "wait" => GoodStep(c, i, mapped, At(c, "build"),
                                        WithMessage(i, TRUE), mapped)
           /\ c.pc = "store" => GoodStep(c, i, mapped, At(c, "send"), i, "yes")
           /\ c.pc = "send" => GoodStep(c, i, mapped, At(c, "await"), i, mapped)
           /\ c.pc = "send" => GoodStep(c, i, mapped,
                                 [pc |-> "cleanup", message |-> TRUE], i, mapped)
           /\ c.pc = "await" /\ i.sync =>
                  GoodStep(c, i, mapped, At(c, "cleanup"), Received(i), mapped)
           /\ c.pc = "await" => GoodStep(c, i, mapped, At(c, "write"), i, mapped)
           /\ c.pc = "await" => GoodStep(c, i, mapped,
                  [pc |-> "cleanup", message |-> TRUE], Timeout(i, b), mapped)
           /\ c.pc = "write" => GoodStep(c, i, mapped,
                  [pc |-> "cleanup", message |-> TRUE],
                  Timeout(InvokeResult(i, "timeout", "Invoke timeout."), b), mapped)
           /\ c.pc = "cleanup" => GoodStep(c, i, mapped, At(c, "build"),
                                           WithMessage(i, c.message), "no")
           /\ c.pc = "build" => GoodStep(c, i, mapped, At(c, "done"),
                                 [i EXCEPT !.reply = Response(i)], mapped)
<1> USE DEF GoodStep, GoodRequest, Clients, RequestInfos, Pending, Sent, At
<1>1. c.pc = "new" => GoodStep(c, i, mapped, At(c, "wait"), i, mapped)
  OBVIOUS
<1>2. c.pc = "wait" => GoodStep(c, i, mapped, At(c, "store"),
                                [i EXCEPT !.status = "running"], mapped)
  BY DEF getFuncResult
<1>3. c.pc = "wait" => GoodStep(c, i, mapped, At(c, "build"),
                                WithMessage(i, TRUE), mapped)
  BY DEF getFuncResult, WithMessage
<1>4. c.pc = "store" => GoodStep(c, i, mapped, At(c, "send"), i, "yes")
  OBVIOUS
<1>5. c.pc = "send" => GoodStep(c, i, mapped, At(c, "await"), i, mapped)
  OBVIOUS
<1>6. c.pc = "send" => GoodStep(c, i, mapped, [pc |-> "cleanup", message |-> TRUE], i,
                                mapped)
  OBVIOUS
<1>7. c.pc = "await" /\ i.sync =>
          GoodStep(c, i, mapped, At(c, "cleanup"), Received(i), mapped)
  BY DEF getFuncResult, Received
<1>8. c.pc = "await" => GoodStep(c, i, mapped, At(c, "write"), i, mapped)
  OBVIOUS
<1>9. c.pc = "await" => GoodStep(c, i, mapped, [pc |-> "cleanup", message |-> TRUE],
                                 Timeout(i, b), mapped)
  BY DEF Timeout
<1>10. c.pc = "write" => GoodStep(c, i, mapped, [pc |-> "cleanup", message |-> TRUE],
           Timeout(InvokeResult(i, "timeout", "Invoke timeout."), b), mapped)
  BY DEF Timeout, InvokeResult
<1>11. c.pc = "cleanup" => GoodStep(c, i, mapped, At(c, "build"),
                                    WithMessage(i, c.message), "no")
  BY DEF getFuncResult, WithMessage
<1>12. c.pc = "build" => GoodStep(c, i, mapped, At(c, "done"),
                                  [i EXCEPT !.reply = Response(i)], mapped)
  BY ZenonT(40) DEF getFuncResult, Response
<1>. QED
  BY <1>1, <1>2, <1>3, <1>4, <1>5, <1>6, <1>7, <1>8, <1>9, <1>10, <1>11, <1>12

\* What the loops and stopRuntime do to a request they point to. A write is
\* followed by a notification, or its request has left requestMap.
LEMMA LoopUpdates ==
    ASSUME NEW c \in Clients, NEW i \in RequestInfos, NEW mapped \in {"yes", "no"},
           GoodRequest(c, i, mapped), Sent(c, i),
           NEW status \in {"success", "failed", "timeout"},
           NEW text \in {"answer", "function", "exited", "not alive"},
           status = "success" <=> text = "answer"
    PROVE  /\ i.status # "running" =>
                  /\ GoodStep(c, i, mapped, c, Notify(i), mapped)
                  /\ GoodStep(c, i, mapped, c, Notify(i), "no")
           /\ GoodStep(c, i, mapped, c, Notify(InvokeResult(i, status, text)), mapped)
           /\ GoodStep(c, i, mapped, c, Notify(InvokeResult(i, status, text)), "no")
           /\ GoodStep(c, i, "no", c, InvokeResult(i, status, text), "no")
           /\ GoodStep(c, i, mapped, c, Timeout(i, FALSE), mapped)
<1> USE DEF GoodStep, GoodRequest, Clients, RequestInfos, Pending, Sent
<1>1. i.status # "running" =>
          /\ GoodStep(c, i, mapped, c, Notify(i), mapped)
          /\ GoodStep(c, i, mapped, c, Notify(i), "no")
  BY DEF getFuncResult, Notify
<1>2. /\ GoodStep(c, i, mapped, c, Notify(InvokeResult(i, status, text)), mapped)
      /\ GoodStep(c, i, mapped, c, Notify(InvokeResult(i, status, text)), "no")
  <2>1. ASSUME NEW j \in RequestInfos, j.status \notin {"normal", "running"},
               j.reply = i.reply, getFuncResult(j) # "none"
        PROVE  GoodStep(c, i, mapped, c, Notify(j), mapped)
               /\ GoodStep(c, i, mapped, c, Notify(j), "no")
    <3>1. /\ Notify(j) \in RequestInfos
          /\ Notify(j).status = j.status
          /\ Notify(j).sync
          /\ Notify(j).reply = j.reply
      BY <2>1 DEF Notify
    <3>2. getFuncResult(Notify(j)) = getFuncResult(j)
      BY <2>1 DEF getFuncResult, Notify
    <3>. QED  BY <2>1, <3>1, <3>2
  <2>2. /\ InvokeResult(i, status, text) \in RequestInfos
        /\ InvokeResult(i, status, text).status \notin {"normal", "running"}
        /\ InvokeResult(i, status, text).reply = i.reply
        /\ getFuncResult(InvokeResult(i, status, text)) # "none"
    BY DEF getFuncResult, InvokeResult
  <2>. QED  BY <2>1, <2>2
<1>3. GoodStep(c, i, "no", c, InvokeResult(i, status, text), "no")
  BY ZenonT(40) DEF getFuncResult, InvokeResult
<1>4. GoodStep(c, i, mapped, c, Timeout(i, FALSE), mapped)
  <2>1. /\ Timeout(i, FALSE) \in RequestInfos
        /\ Timeout(i, FALSE).status = i.status
        /\ Timeout(i, FALSE).sync = i.sync
        /\ Timeout(i, FALSE).reply = i.reply
    BY DEF Timeout
  <2>2. getFuncResult(Timeout(i, FALSE)) = getFuncResult(i)
    BY DEF getFuncResult, Timeout
  <2>. QED  BY <2>1, <2>2, ZenonT(40)
<1>. QED  BY <1>1, <1>2, <1>3, <1>4

-----------------------------------------------------------------------------
(* From the requests to the whole state. *)

Requests2 ==
    /\ client' \in [Requests -> Clients]
    /\ info' \in [Requests -> RequestInfos]
    /\ requestMap' \subseteq Requests
    /\ \A x \in Requests : GoodStep(client[x], info[x], Mapped(x, requestMap),
                                    client'[x], info'[x], Mapped(x, requestMap'))

LEMMA MappedValue ==
    ASSUME NEW q, NEW map
    PROVE  /\ Mapped(q, map) \in {"yes", "no"}
           /\ Mapped(q, map) = "yes" <=> q \in map
  BY DEF Mapped

LEMMA RequestFacts ==
    ASSUME IInv, NEW x \in Requests
    PROVE  /\ client[x] \in Clients /\ info[x] \in RequestInfos
           /\ Mapped(x, requestMap) \in {"yes", "no"}
           /\ GoodRequest(client[x], info[x], Mapped(x, requestMap))
           /\ GoodStep(client[x], info[x], Mapped(x, requestMap),
                       client[x], info[x], Mapped(x, requestMap))
<1>1. /\ client[x] \in Clients /\ info[x] \in RequestInfos
      /\ Mapped(x, requestMap) \in {"yes", "no"}
      /\ GoodRequest(client[x], info[x], Mapped(x, requestMap))
  BY MappedValue DEF IInv
<1>. QED  BY <1>1, Same

\* A step that changes one request in a good way.
LEMMA OneRequest ==
    ASSUME IInv, NEW q \in Requests, NEW c, NEW i, NEW mapped,
           client' = [client EXCEPT ![q] = c], info' = [info EXCEPT ![q] = i],
           requestMap' = IF mapped = "yes" THEN requestMap \cup {q} ELSE requestMap \ {q},
           mapped \in {"yes", "no"},
           GoodStep(client[q], info[q], Mapped(q, requestMap), c, i, mapped)
    PROVE  Requests2
<1>1. c \in Clients /\ i \in RequestInfos
  BY DEF GoodStep
<1>2. /\ client' \in [Requests -> Clients] /\ info' \in [Requests -> RequestInfos]
      /\ requestMap' \subseteq Requests
  BY <1>1 DEF IInv, Loops
<1>3. ASSUME NEW x \in Requests
      PROVE  GoodStep(client[x], info[x], Mapped(x, requestMap),
                      client'[x], info'[x], Mapped(x, requestMap'))
  <2>1. CASE x = q
    <3>1. client'[x] = c /\ info'[x] = i
      BY <2>1 DEF IInv
    <3>2. Mapped(x, requestMap') = mapped
      BY <2>1 DEF Mapped
    <3>. QED  BY <2>1, <3>1, <3>2
  <2>2. CASE x # q
    <3>1. client'[x] = client[x] /\ info'[x] = info[x]
      BY <2>2 DEF IInv
    <3>2. Mapped(x, requestMap') = Mapped(x, requestMap)
      BY <2>2 DEF Mapped
    <3>. QED  BY <3>1, <3>2, RequestFacts
  <2>. QED  BY <2>1, <2>2
<1>. QED  BY <1>2, <1>3 DEF Requests2

LEMMA NoRequestChanges ==
    ASSUME IInv, client' = client, info' = info, requestMap' = requestMap
    PROVE  Requests2
  BY RequestFacts DEF Requests2, IInv, Loops

\* What the loops hold after the step, if they hold only requests that were sent
\* before it.
LEMMA LoopsKept ==
    ASSUME IInv, Requests2,
           requestChan' \in Seq(Requests), resps' \in Seq(Requests),
           snd' \in Senders, rcv' \in Receivers, stopping' \in Stoppers,
           snd'.pc \in {"write", "loop", "do"} =>
               snd'.req \in Requests /\ Sent(client[snd'.req], info[snd'.req]),
           rcv'.pc = "write" =>
               rcv'.req \in Requests /\ Sent(client[rcv'.req], info[rcv'.req]),
           stopping'.pc = "write" =>
               /\ stopping'.req \in Requests
               /\ Sent(client[stopping'.req], info[stopping'.req])
    PROVE  Loops'
<1>1. \A x \in Requests : Sent(client[x], info[x]) => Sent(client'[x], info'[x])
  BY DEF Requests2, GoodStep
<1>. QED  BY <1>1 DEF Loops, Requests2

LEMMA NotifiedKept ==
    ASSUME IInv, Requests2, stopping' = stopping
    PROVE  Notified'
<1>1. stopping.begin \subseteq Requests /\ stopping.seen \subseteq Requests
  BY DEF IInv, Loops, Stoppers
<1>2. \A x \in Requests : Sent(client[x], info[x]) => Sent(client'[x], info'[x])
  BY DEF Requests2, GoodStep
<1>3. \A x \in Requests :
          Sent(client[x], info[x]) /\ Pending(client'[x]) =>
              /\ Pending(client[x])
              /\ info[x].sync => info'[x].sync
              /\ x \in requestMap \ requestMap' => info'[x].sync
  BY MappedValue DEF Requests2, GoodStep
<1>. QED  BY <1>1, <1>2, <1>3 DEF IInv, Notified

LEMMA Combined ==
    ASSUME IInv, Requests2, Loops', Notified'
    PROVE  IInv'
  BY DEF IInv, Requests2, GoodStep

-----------------------------------------------------------------------------
(* The actions. *)

LEMMA IdleLoops ==
    /\ SendIdle("off") \in Senders /\ SendIdle("off").pc = "off"
    /\ SendIdle("idle") \in Senders /\ SendIdle("idle").pc = "idle"
    /\ RecvIdle("read") \in Receivers /\ RecvIdle("read").pc = "read"
  BY DEF SendIdle, Senders, RecvIdle, Receivers

\* A request in requestMap has been sent.
LEMMA MapSent ==
    ASSUME IInv, NEW q \in requestMap
    PROVE  q \in Requests /\ Sent(client[q], info[q])
<1>1. q \in Requests
  BY DEF IInv, Loops
<1>2. GoodRequest(client[q], info[q], "yes")
  BY <1>1 DEF IInv, Mapped
<1>. QED  BY <1>1, <1>2 DEF GoodRequest, Sent

\* A step of a loop or of stopRuntime that writes to one RequestInfo.
LEMMA OneInfo ==
    ASSUME IInv, NEW q \in Requests, NEW i, NEW mapped \in {"yes", "no"},
           client' = client, info' = [info EXCEPT ![q] = i],
           requestMap' = IF mapped = "yes" THEN requestMap \cup {q} ELSE requestMap \ {q},
           GoodStep(client[q], info[q], Mapped(q, requestMap), client[q], i, mapped)
    PROVE  Requests2
<1>1. client' = [client EXCEPT ![q] = client[q]]
  BY DEF IInv
<1>. QED  BY <1>1, OneRequest

\* Such a step that leaves requestMap alone.
LEMMA OneInfoOnly ==
    ASSUME IInv, NEW q \in Requests, Sent(client[q], info[q]), NEW i,
           client' = client, info' = [info EXCEPT ![q] = i], requestMap' = requestMap,
           \/ i = Notify(info[q]) /\ ~Running(q)
           \/ i = Notify(InvokeResult(info[q], "failed", "exited"))
           \/ i = Notify(InvokeResult(info[q], "timeout", "not alive"))
           \/ i = Timeout(info[q], FALSE)
    PROVE  Requests2
<1> DEFINE mapped == Mapped(q, requestMap)
<1>1. /\ client[q] \in Clients /\ info[q] \in RequestInfos /\ mapped \in {"yes", "no"}
      /\ GoodRequest(client[q], info[q], mapped)
  BY RequestFacts
<1>2. requestMap' = IF mapped = "yes" THEN requestMap \cup {q} ELSE requestMap \ {q}
  BY MappedValue
<1> HIDE DEF mapped
<1>3. /\ info[q].status # "running" =>
             GoodStep(client[q], info[q], mapped, client[q], Notify(info[q]), mapped)
      /\ GoodStep(client[q], info[q], mapped, client[q], Timeout(info[q], FALSE), mapped)
      /\ GoodStep(client[q], info[q], mapped, client[q],
                  Notify(InvokeResult(info[q], "failed", "exited")), mapped)
  <2>1. /\ "failed" \in {"success", "failed", "timeout"}
        /\ "exited" \in {"answer", "function", "exited", "not alive"}
        /\ "failed" = "success" <=> "exited" = "answer"
    OBVIOUS
  <2>. QED  BY <1>1, <2>1, LoopUpdates
<1>4. GoodStep(client[q], info[q], mapped, client[q],
               Notify(InvokeResult(info[q], "timeout", "not alive")), mapped)
  <2>1. /\ "timeout" \in {"success", "failed", "timeout"}
        /\ "not alive" \in {"answer", "function", "exited", "not alive"}
        /\ "timeout" = "success" <=> "not alive" = "answer"
    OBVIOUS
  <2>. QED  BY <1>1, <2>1, LoopUpdates
<1>5. GoodStep(client[q], info[q], mapped, client[q], i, mapped)
  BY <1>3, <1>4 DEF Running
<1>. QED  BY <1>1, <1>2, <1>5, OneInfo DEF mapped

\* The steps of an invocation: one request changes, the loops do not.
LEMMA ClientStep ==
    ASSUME IInv, NEW q \in Requests, Arrive(q) \/ InvokeFunction(q)
    PROVE  IInv'
<1> DEFINE mapped == Mapped(q, requestMap)
<1>1. /\ client[q] \in Clients /\ info[q] \in RequestInfos /\ mapped \in {"yes", "no"}
      /\ GoodRequest(client[q], info[q], mapped) /\ Stream \in BOOLEAN
      /\ "yes" \in {"yes", "no"} /\ "no" \in {"yes", "no"}
  BY RequestFacts DEF Stream
<1>2. /\ info = [info EXCEPT ![q] = info[q]]
      /\ requestMap = IF mapped = "yes" THEN requestMap \cup {q} ELSE requestMap \ {q}
  BY MappedValue DEF IInv
<1> HIDE DEF mapped
<1>3. Requests2
  <2>1. CASE Arrive(q)
    <3>1. /\ client' = [client EXCEPT ![q] = At(client[q], "wait")]
          /\ info' = [info EXCEPT ![q] = info[q]]
          /\ requestMap' = IF mapped = "yes" THEN requestMap \cup {q} ELSE requestMap \ {q}
      BY <2>1, <1>1, <1>2, MappedValue DEF Arrive, Go
    <3>2. GoodStep(client[q], info[q], mapped, At(client[q], "wait"), info[q], mapped)
      BY <2>1, <1>1, ClientUpdates DEF Arrive
    <3>. QED  BY <1>1, <3>1, <3>2, OneRequest DEF mapped
  <2>2. CASE WaitRuntime(q)
    <3>1. /\ client' = [client EXCEPT ![q] = At(client[q], "store")]
          /\ info' = [info EXCEPT ![q] = [info[q] EXCEPT !.status = "running"]]
          /\ requestMap' = IF mapped = "yes" THEN requestMap \cup {q} ELSE requestMap \ {q}
      BY <2>2, <1>1, <1>2, MappedValue DEF WaitRuntime, Go
    <3>2. GoodStep(client[q], info[q], mapped, At(client[q], "store"), [info[q] EXCEPT !.status = "running"], mapped)
      BY <2>2, <1>1, ClientUpdates DEF WaitRuntime
    <3>. QED  BY <1>1, <3>1, <3>2, OneRequest DEF mapped
  <2>3. CASE WaitRuntimeFails(q)
    <3>1. /\ client' = [client EXCEPT ![q] = At(client[q], "build")]
          /\ info' = [info EXCEPT ![q] = WithMessage(info[q], TRUE)]
          /\ requestMap' = IF mapped = "yes" THEN requestMap \cup {q} ELSE requestMap \ {q}
      BY <2>3, <1>1, <1>2, MappedValue DEF WaitRuntimeFails, Go
    <3>2. GoodStep(client[q], info[q], mapped, At(client[q], "build"), WithMessage(info[q], TRUE), mapped)
      BY <2>3, <1>1, ClientUpdates DEF WaitRuntimeFails
    <3>. QED  BY <1>1, <3>1, <3>2, OneRequest DEF mapped
  <2>4. CASE StoreRequest(q)
    <3>1. /\ client' = [client EXCEPT ![q] = At(client[q], "send")]
          /\ info' = [info EXCEPT ![q] = info[q]]
          /\ requestMap' = IF "yes" = "yes" THEN requestMap \cup {q} ELSE requestMap \ {q}
      BY <2>4, <1>1, <1>2, MappedValue DEF StoreRequest, Go
    <3>2. GoodStep(client[q], info[q], mapped, At(client[q], "send"), info[q], "yes")
      BY <2>4, <1>1, ClientUpdates DEF StoreRequest
    <3>. QED  BY <1>1, <3>1, <3>2, OneRequest DEF mapped
  <2>5. CASE EnqueueRequest(q) /\ Len(requestChan) < ChanCap
    <3>1. /\ client' = [client EXCEPT ![q] = At(client[q], "await")]
          /\ info' = [info EXCEPT ![q] = info[q]]
          /\ requestMap' = IF mapped = "yes" THEN requestMap \cup {q} ELSE requestMap \ {q}
      BY <2>5, <1>1, <1>2, MappedValue DEF EnqueueRequest, Go
    <3>2. GoodStep(client[q], info[q], mapped, At(client[q], "await"), info[q], mapped)
      BY <2>5, <1>1, ClientUpdates DEF EnqueueRequest
    <3>. QED  BY <1>1, <3>1, <3>2, OneRequest DEF mapped
  <2>6. CASE EnqueueRequest(q) /\ ~(Len(requestChan) < ChanCap)
    <3>1. /\ client' = [client EXCEPT ![q] = [pc |-> "cleanup", message |-> TRUE]]
          /\ info' = [info EXCEPT ![q] = info[q]]
          /\ requestMap' = IF mapped = "yes" THEN requestMap \cup {q} ELSE requestMap \ {q}
      BY <2>6, <1>1, <1>2, MappedValue DEF EnqueueRequest, Failed
    <3>2. GoodStep(client[q], info[q], mapped, [pc |-> "cleanup", message |-> TRUE], info[q], mapped)
      BY <2>6, <1>1, ClientUpdates DEF EnqueueRequest
    <3>. QED  BY <1>1, <3>1, <3>2, OneRequest DEF mapped
  <2>7. CASE Woken(q)
    <3>1. /\ client' = [client EXCEPT ![q] = At(client[q], "cleanup")]
          /\ info' = [info EXCEPT ![q] = Received(info[q])]
          /\ requestMap' = IF mapped = "yes" THEN requestMap \cup {q} ELSE requestMap \ {q}
      BY <2>7, <1>1, <1>2, MappedValue DEF Woken, Go
    <3>2. GoodStep(client[q], info[q], mapped, At(client[q], "cleanup"), Received(info[q]), mapped)
      BY <2>7, <1>1, ClientUpdates DEF Woken
    <3>. QED  BY <1>1, <3>1, <3>2, OneRequest DEF mapped
  <2>8. CASE TimerFires(q) /\ Running(q)
    <3>1. /\ client' = [client EXCEPT ![q] = At(client[q], "write")]
          /\ info' = [info EXCEPT ![q] = info[q]]
          /\ requestMap' = IF mapped = "yes" THEN requestMap \cup {q} ELSE requestMap \ {q}
      BY <2>8, <1>1, <1>2, MappedValue DEF TimerFires, Go
    <3>2. GoodStep(client[q], info[q], mapped, At(client[q], "write"), info[q], mapped)
      BY <2>8, <1>1, ClientUpdates DEF TimerFires
    <3>. QED  BY <1>1, <3>1, <3>2, OneRequest DEF mapped
  <2>9. CASE TimerFires(q) /\ ~Running(q)
    <3>1. /\ client' = [client EXCEPT ![q] = [pc |-> "cleanup", message |-> TRUE]]
          /\ info' = [info EXCEPT ![q] = Timeout(info[q], Stream)]
          /\ requestMap' = IF mapped = "yes" THEN requestMap \cup {q} ELSE requestMap \ {q}
      BY <2>9, <1>1, <1>2, MappedValue DEF TimerFires, Failed
    <3>2. GoodStep(client[q], info[q], mapped, [pc |-> "cleanup", message |-> TRUE], Timeout(info[q], Stream), mapped)
      BY <2>9, <1>1, ClientUpdates DEF TimerFires
    <3>. QED  BY <1>1, <3>1, <3>2, OneRequest DEF mapped
  <2>10. CASE TimerWrites(q)
    <3>1. /\ client' = [client EXCEPT ![q] = [pc |-> "cleanup", message |-> TRUE]]
          /\ info' = [info EXCEPT ![q] = Timeout(InvokeResult(info[q], "timeout", "Invoke timeout."), Stream)]
          /\ requestMap' = IF mapped = "yes" THEN requestMap \cup {q} ELSE requestMap \ {q}
      BY <2>10, <1>1, <1>2, MappedValue DEF TimerWrites, Failed
    <3>2. GoodStep(client[q], info[q], mapped, [pc |-> "cleanup", message |-> TRUE], Timeout(InvokeResult(info[q], "timeout", "Invoke timeout."), Stream), mapped)
      BY <2>10, <1>1, ClientUpdates DEF TimerWrites
    <3>. QED  BY <1>1, <3>1, <3>2, OneRequest DEF mapped
  <2>11. CASE Cleanup(q)
    <3>1. /\ client' = [client EXCEPT ![q] = At(client[q], "build")]
          /\ info' = [info EXCEPT ![q] = WithMessage(info[q], client[q].message)]
          /\ requestMap' = IF "no" = "yes" THEN requestMap \cup {q} ELSE requestMap \ {q}
      BY <2>11, <1>1, <1>2, MappedValue DEF Cleanup, Go
    <3>2. GoodStep(client[q], info[q], mapped, At(client[q], "build"), WithMessage(info[q], client[q].message), "no")
      BY <2>11, <1>1, ClientUpdates DEF Cleanup
    <3>. QED  BY <1>1, <3>1, <3>2, OneRequest DEF mapped
  <2>12. CASE PutRuntime(q)
    <3>1. /\ client' = [client EXCEPT ![q] = At(client[q], "done")]
          /\ info' = [info EXCEPT ![q] = [info[q] EXCEPT !.reply = Response(info[q])]]
          /\ requestMap' = IF mapped = "yes" THEN requestMap \cup {q} ELSE requestMap \ {q}
      BY <2>12, <1>1, <1>2, MappedValue DEF PutRuntime, Go
    <3>2. GoodStep(client[q], info[q], mapped, At(client[q], "done"), [info[q] EXCEPT !.reply = Response(info[q])], mapped)
      BY <2>12, <1>1, ClientUpdates DEF PutRuntime
    <3>. QED  BY <1>1, <3>1, <3>2, OneRequest DEF mapped
  <2>. QED
    BY <2>1, <2>2, <2>3, <2>4, <2>5, <2>6, <2>7, <2>8, <2>9, <2>10, <2>11, <2>12
       DEF InvokeFunction
<1>4. snd' = snd /\ rcv' = rcv /\ stopping' = stopping /\ resps' = resps
  BY DEF Arrive, InvokeFunction, WaitRuntime, WaitRuntimeFails, StoreRequest,
         EnqueueRequest, Woken, TimerFires, TimerWrites, Cleanup, PutRuntime
<1>5. requestChan' \in Seq(Requests)
  <2>1. requestChan \in Seq(Requests)
    BY DEF IInv, Loops
  <2>2. requestChan' = requestChan \/ requestChan' = Append(requestChan, q)
    BY DEF Arrive, InvokeFunction, WaitRuntime, WaitRuntimeFails, StoreRequest,
           EnqueueRequest, Woken, TimerFires, TimerWrites, Cleanup, PutRuntime
  <2>. QED  BY <2>1, <2>2
<1>6. Loops'
  BY <1>3, <1>4, <1>5, LoopsKept DEF IInv, Loops
<1>. QED  BY <1>3, <1>4, <1>6, NotifiedKept, Combined

\* The send loop and what it waits for.
LEMMA SendStep ==
    ASSUME IInv, SendLoop \/ RetryDeadline \/ DoReturns \/ DoFails
    PROVE  IInv'
<1>1. /\ requestChan \in Seq(Requests) /\ resps \in Seq(Requests)
      /\ snd \in Senders /\ rcv \in Receivers /\ stopping \in Stoppers
      /\ snd.pc \in {"write", "loop", "do"} =>
             snd.req \in Requests /\ Sent(client[snd.req], info[snd.req])
  BY DEF IInv, Loops
<1>2. requestChan # << >> =>
          Head(requestChan) \in Requests /\ Tail(requestChan) \in Seq(Requests)
  BY <1>1
<1>3. ASSUME NEW q \in Requests, Sent(client[q], info[q]), SendOutcome(q),
             UNCHANGED <<client, requestMap>>
      PROVE  /\ Requests2
             /\ snd' \in Senders
             /\ snd'.pc \in {"write", "loop", "do"} =>
                    snd'.req \in Requests /\ Sent(client[snd'.req], info[snd'.req])
  <2>1. CASE Running(q)
    <3>1. snd' = [snd EXCEPT !.pc = "write", !.req = q] /\ info' = info
      BY <1>3, <2>1 DEF SendOutcome
    <3>. QED  BY <1>1, <1>3, <3>1, NoRequestChanges DEF Senders
  <2>2. CASE ~Running(q)
    <3>1. snd' = SendIdle("idle") /\ info' = [info EXCEPT ![q] = Notify(info[q])]
      BY <1>3, <2>2 DEF SendOutcome
    <3>. QED  BY <1>3, <2>2, <3>1, OneInfoOnly DEF Senders, SendIdle
  <2>. QED  BY <2>1, <2>2
<1>4. CASE SendRequest
  <2>1. Requests2
    BY <1>4, NoRequestChanges DEF SendRequest
  <2>2. Loops'
    BY <1>1, <1>2, <1>4, <2>1, LoopsKept DEF SendRequest, IInv, Loops
  <2>. QED  BY <1>4, <2>1, <2>2, NotifiedKept, Combined DEF SendRequest
<1>5. CASE SendFails
  <2>1. /\ Requests2
        /\ snd' \in Senders
        /\ snd'.pc \in {"write", "loop", "do"} =>
               snd'.req \in Requests /\ Sent(client[snd'.req], info[snd'.req])
    <3>1. CASE Head(requestChan) \in requestMap
      BY <1>3, <1>5, <3>1, MapSent DEF SendFails
    <3>2. CASE Head(requestChan) \notin requestMap
      BY <1>1, <1>5, <3>2, NoRequestChanges DEF SendFails
    <3>. QED  BY <3>1, <3>2
  <2>2. Loops'
    BY <1>1, <1>2, <1>5, <2>1, LoopsKept DEF SendFails, IInv, Loops
  <2>. QED  BY <1>5, <2>1, <2>2, NotifiedKept, Combined DEF SendFails
<1>6. CASE SendWrites
  <2>1. Requests2
    <3>1. snd.req \in Requests /\ Sent(client[snd.req], info[snd.req])
      BY <1>1, <1>6 DEF SendWrites
    <3>2. PICK i : /\ info' = [info EXCEPT ![snd.req] = i]
                   /\ \/ i = Notify(InvokeResult(info[snd.req], "failed", "exited"))
                      \/ i = Notify(InvokeResult(info[snd.req], "timeout", "not alive"))
      BY <1>6 DEF SendWrites
    <3>. QED  BY <1>6, <3>1, <3>2, OneInfoOnly DEF SendWrites
  <2>2. snd' \in Senders /\ snd'.pc = "idle"
    BY <1>6 DEF SendWrites, SendIdle, Senders
  <2>3. Loops'
    BY <1>1, <1>6, <2>1, <2>2, LoopsKept DEF SendWrites, IInv, Loops
  <2>. QED  BY <1>6, <2>1, <2>3, NotifiedKept, Combined DEF SendWrites
<1>7. CASE TakeHTTPRequest
  <2>1. Requests2
    BY <1>7, NoRequestChanges DEF TakeHTTPRequest
  <2>2. /\ snd' \in Senders
        /\ snd'.pc \in {"write", "loop", "do"} =>
               snd'.req \in Requests /\ Sent(client[snd'.req], info[snd'.req])
    BY <1>2, <1>7, MapSent DEF TakeHTTPRequest, Senders
  <2>3. Loops'
    BY <1>1, <1>2, <1>7, <2>1, <2>2, LoopsKept DEF TakeHTTPRequest, IInv, Loops
  <2>. QED  BY <1>7, <2>1, <2>3, NotifiedKept, Combined DEF TakeHTTPRequest
<1>8. CASE StartDo \/ DoFails \/ SendLoopStops \/ DoReturns
  <2>1. Requests2
    BY <1>8, NoRequestChanges DEF StartDo, DoFails, SendLoopStops, DoReturns
  <2>2. /\ snd' \in Senders
        /\ snd'.pc \in {"write", "loop", "do"} =>
               snd'.req \in Requests /\ Sent(client[snd'.req], info[snd'.req])
    <3>1. CASE StartDo \/ DoFails
      <4>1. /\ snd' \in Senders /\ snd'.req = snd.req
            /\ snd.pc \in {"write", "loop", "do"}
        BY <1>1, <3>1 DEF StartDo, DoFails, Senders
      <4>. QED  BY <1>1, <4>1
    <3>2. CASE SendLoopStops \/ DoReturns
      <4>1. snd' = SendIdle("off") \/ snd' = SendIdle("idle")
        BY <3>2 DEF SendLoopStops, DoReturns
      <4>. QED  BY <4>1, IdleLoops
    <3>. QED  BY <1>8, <3>1, <3>2
  <2>3. resps' \in Seq(Requests)
    <3>1. resps' = resps \/ (resps' = Append(resps, snd.req) /\ snd.pc = "do")
      BY <1>8 DEF StartDo, DoFails, SendLoopStops, DoReturns
    <3>. QED  BY <1>1, <3>1
  <2>4. UNCHANGED <<requestChan, rcv, stopping>>
    BY <1>8 DEF StartDo, DoFails, SendLoopStops, DoReturns
  <2>5. Loops'
    BY <1>1, <2>1, <2>2, <2>3, <2>4, LoopsKept DEF IInv, Loops
  <2>. QED  BY <2>1, <2>4, <2>5, NotifiedKept, Combined
<1>9. CASE RetryDeadline
  <2>1. /\ Requests2
        /\ snd' \in Senders
        /\ snd'.pc \in {"write", "loop", "do"} =>
               snd'.req \in Requests /\ Sent(client[snd'.req], info[snd'.req])
    BY <1>1, <1>3, <1>9 DEF RetryDeadline
  <2>2. Loops'
    BY <1>1, <1>9, <2>1, LoopsKept DEF RetryDeadline, IInv, Loops
  <2>. QED  BY <1>9, <2>1, <2>2, NotifiedKept, Combined DEF RetryDeadline
<1>10. CASE CancelRequest
  <2>1. Requests2
    <3>1. /\ snd.req \in Requests /\ Sent(client[snd.req], info[snd.req])
          /\ info' = [info EXCEPT ![snd.req] = Timeout(info[snd.req], FALSE)]
      BY <1>1, <1>10 DEF CancelRequest
    <3>. QED  BY <1>10, <3>1, OneInfoOnly DEF CancelRequest
  <2>2. snd' \in Senders /\ snd'.pc = "idle"
    BY <1>10 DEF CancelRequest, SendIdle, Senders
  <2>3. Loops'
    BY <1>1, <1>10, <2>1, <2>2, LoopsKept DEF CancelRequest, IInv, Loops
  <2>. QED  BY <1>10, <2>1, <2>3, NotifiedKept, Combined DEF CancelRequest
<1>11. CASE SendLoopDrains
  <2>1. Requests2
    BY <1>11, NoRequestChanges DEF SendLoopDrains
  <2>2. /\ snd' \in Senders /\ snd'.pc = "off"
        /\ stopping' \in Stoppers /\ stopping'.pc = "lock"
        /\ stopping'.begin = {} /\ stopping'.seen = {}
    BY <1>11 DEF SendLoopDrains, SendIdle, Senders, StopIdle, Stoppers
  <2>3. Loops'
    BY <1>1, <1>11, <2>1, <2>2, LoopsKept DEF SendLoopDrains, IInv, Loops
  <2>4. Notified'
    BY <2>2 DEF Notified
  <2>. QED  BY <2>1, <2>3, <2>4, Combined
<1>. QED
  BY <1>4, <1>5, <1>6, <1>7, <1>8, <1>9, <1>10, <1>11 DEF SendLoop

\* The receive loop. InvokeDone notifies the request unless it has left
\* requestMap, and takes it out.
LEMMA RecvStep ==
    ASSUME IInv, RecvLoop \/ RecvGarbage
    PROVE  IInv'
<1>1. /\ requestChan \in Seq(Requests) /\ resps \in Seq(Requests)
      /\ snd \in Senders /\ rcv \in Receivers /\ stopping \in Stoppers
      /\ rcv.pc = "write" => rcv.req \in Requests /\ Sent(client[rcv.req], info[rcv.req])
  BY DEF IInv, Loops
<1>2. resps # << >> => Head(resps) \in Requests /\ Tail(resps) \in Seq(Requests)
  BY <1>1
<1>3. ASSUME NEW q \in Requests, Sent(client[q], info[q]), client' = client,
             NEW status \in {"success", "failed", "timeout"},
             NEW text \in {"answer", "function", "exited", "not alive"},
             status = "success" <=> text = "answer",
             \/ InvokeDone(q, InvokeResult(info[q], status, text))
             \/ q \in requestMap /\ ~Running(q) /\ InvokeDone(q, info[q])
      PROVE  Requests2
  <2> DEFINE mapped == Mapped(q, requestMap)
  <2>1. /\ client[q] \in Clients /\ info[q] \in RequestInfos /\ mapped \in {"yes", "no"}
        /\ GoodRequest(client[q], info[q], mapped)
        /\ "no" \in {"yes", "no"}
        /\ requestMap' = IF "no" = "yes" THEN requestMap \cup {q} ELSE requestMap \ {q}
    BY <1>3, RequestFacts DEF InvokeDone
  <2>2. q \in requestMap <=> mapped = "yes"
    BY MappedValue
  <2> HIDE DEF mapped
  <2>3. /\ info[q].status # "running" =>
               GoodStep(client[q], info[q], mapped, client[q], Notify(info[q]), "no")
        /\ GoodStep(client[q], info[q], mapped, client[q],
                    Notify(InvokeResult(info[q], status, text)), "no")
        /\ GoodStep(client[q], info[q], "no", client[q],
                    InvokeResult(info[q], status, text), "no")
    BY <1>3, <2>1, LoopUpdates
  <2>4. PICK i : /\ info' = [info EXCEPT ![q] = i]
                 /\ GoodStep(client[q], info[q], mapped, client[q], i, "no")
    <3>1. CASE q \in requestMap /\ ~Running(q) /\ InvokeDone(q, info[q])
      BY <3>1, <2>3 DEF InvokeDone, Running
    <3>2. CASE InvokeDone(q, InvokeResult(info[q], status, text)) /\ q \in requestMap
      BY <3>2, <2>3 DEF InvokeDone
    <3>3. CASE InvokeDone(q, InvokeResult(info[q], status, text)) /\ q \notin requestMap
      <4>1. mapped = "no"
        BY <2>1, <2>2, <3>3
      <4>. QED  BY <3>3, <4>1, <2>3 DEF InvokeDone
    <3>. QED  BY <1>3, <3>1, <3>2, <3>3
  <2>. QED  BY <1>3, <2>1, <2>4, OneInfo DEF mapped
<1>4. CASE RecvResponse
  <2> DEFINE q == Head(resps)
  <2>1. /\ Requests2
        /\ rcv' \in Receivers
        /\ rcv'.pc = "write" =>
               rcv'.req \in Requests /\ Sent(client[rcv'.req], info[rcv'.req])
    <3>1. CASE q \notin requestMap
      <4>1. /\ client' = client /\ info' = info /\ requestMap' = requestMap
            /\ rcv' = rcv \/ rcv' = RecvIdle("panic")
            /\ rcv.pc = "read"
        BY <1>4, <3>1 DEF RecvResponse
      <4>2. rcv' \in Receivers /\ rcv'.pc # "write"
        BY <1>1, <4>1 DEF Receivers, RecvIdle
      <4>. QED  BY <4>1, <4>2, NoRequestChanges
    <3>2. CASE q \in requestMap /\ Running(q)
      <4>1. /\ client' = client /\ info' = info /\ requestMap' = requestMap
            /\ rcv' = [pc |-> "write", req |-> q]
        BY <1>4, <3>2 DEF RecvResponse
      <4>2. q \in Requests /\ Sent(client[q], info[q])
        BY <3>2, MapSent
      <4>. QED  BY <4>1, <4>2, NoRequestChanges DEF Receivers
    <3>3. CASE q \in requestMap /\ ~Running(q)
      <4>1. client' = client /\ InvokeDone(q, info[q]) /\ rcv' = rcv
        BY <1>4, <3>3 DEF RecvResponse
      <4>2. q \in Requests /\ Sent(client[q], info[q])
        BY <3>3, MapSent
      <4>3. /\ "failed" \in {"success", "failed", "timeout"}
            /\ "exited" \in {"answer", "function", "exited", "not alive"}
            /\ "failed" = "success" <=> "exited" = "answer"
        OBVIOUS
      <4>4. Requests2
        BY <1>3, <3>3, <4>1, <4>2, <4>3
      <4>5. rcv.pc = "read"
        BY <1>4 DEF RecvResponse
      <4>. QED  BY <1>1, <4>1, <4>4, <4>5
    <3>. QED  BY <3>1, <3>2, <3>3
  <2>2. Loops'
    BY <1>1, <1>2, <1>4, <2>1, LoopsKept DEF RecvResponse, IInv, Loops
  <2>. QED  BY <1>4, <2>1, <2>2, NotifiedKept, Combined DEF RecvResponse
<1>5. CASE RecvWrites
  <2>1. Requests2
    <3>1. /\ rcv.req \in Requests /\ Sent(client[rcv.req], info[rcv.req])
          /\ client' = client
      BY <1>1, <1>5 DEF RecvWrites
    <3>2. CASE rcv.req \in Succeeds
      <4>1. InvokeDone(rcv.req, InvokeResult(info[rcv.req], "success", "answer"))
        BY <1>5, <3>2 DEF RecvWrites, ResponseOutcome
      <4>2. /\ "success" \in {"success", "failed", "timeout"}
            /\ "answer" \in {"answer", "function", "exited", "not alive"}
            /\ "success" = "success" <=> "answer" = "answer"
        OBVIOUS
      <4>. QED  BY <1>3, <3>1, <4>1, <4>2
    <3>3. CASE rcv.req \notin Succeeds
      <4>1. InvokeDone(rcv.req, InvokeResult(info[rcv.req], "failed", "function"))
        BY <1>5, <3>3 DEF RecvWrites, ResponseOutcome
      <4>2. /\ "failed" \in {"success", "failed", "timeout"}
            /\ "function" \in {"answer", "function", "exited", "not alive"}
            /\ "failed" = "success" <=> "function" = "answer"
        OBVIOUS
      <4>. QED  BY <1>3, <3>1, <4>1, <4>2
    <3>. QED  BY <3>2, <3>3
  <2>2. rcv' \in Receivers /\ rcv'.pc = "read"
    BY <1>5 DEF RecvWrites, RecvIdle, Receivers
  <2>3. Loops'
    BY <1>1, <1>5, <2>1, <2>2, LoopsKept DEF RecvWrites, IInv, Loops
  <2>. QED  BY <1>5, <2>1, <2>3, NotifiedKept, Combined DEF RecvWrites
<1>6. CASE RecvLoopEnds
  <2>1. Requests2
    BY <1>6, NoRequestChanges DEF RecvLoopEnds
  <2>2. /\ rcv' \in Receivers /\ rcv'.pc = "off"
        /\ stopping' \in Stoppers /\ stopping'.pc = "lock"
        /\ stopping'.begin = {} /\ stopping'.seen = {}
    BY <1>6 DEF RecvLoopEnds, RecvIdle, Receivers, StopIdle, Stoppers
  <2>3. Loops'
    BY <1>1, <1>6, <2>1, <2>2, LoopsKept DEF RecvLoopEnds, IInv, Loops
  <2>4. Notified'
    BY <2>2 DEF Notified
  <2>. QED  BY <2>1, <2>3, <2>4, Combined
<1>7. CASE RecvLoopStops
  <2>1. Requests2
    BY <1>7, NoRequestChanges DEF RecvLoopStops
  <2>2. rcv' \in Receivers /\ rcv'.pc = "off"
    BY <1>7 DEF RecvLoopStops, RecvIdle, Receivers
  <2>3. Loops'
    BY <1>1, <1>7, <2>1, <2>2, LoopsKept DEF RecvLoopStops, IInv, Loops
  <2>. QED  BY <1>7, <2>1, <2>3, NotifiedKept, Combined DEF RecvLoopStops
<1>. QED
  BY <1>4, <1>5, <1>6, <1>7 DEF RecvLoop, RecvEOF, RecvGarbage

\* stopRuntime. Its last step but one drops the whole map: a request stored after
\* Range began may go without a notification, one that was there before may not.
LEMMA StopStep ==
    ASSUME IInv, Stopper
    PROVE  IInv'
<1>1. /\ requestMap \subseteq Requests
      /\ requestChan \in Seq(Requests) /\ resps \in Seq(Requests)
      /\ snd \in Senders /\ rcv \in Receivers /\ stopping \in Stoppers
      /\ stopping.begin \subseteq Requests /\ stopping.seen \subseteq Requests
      /\ stopping.pc = "write" =>
             stopping.req \in Requests /\ Sent(client[stopping.req], info[stopping.req])
  BY DEF IInv, Loops, Stoppers
<1>2. ASSUME Requests2, requestMap' = requestMap, stopping' \in Stoppers,
             stopping.pc \in {"range", "write"}, stopping'.pc \in {"range", "write"},
             stopping'.begin = stopping.begin,
             NEW q \in Requests, Sent(client[q], info[q]),
             \/ stopping'.seen = stopping.seen
             \/ stopping'.seen = stopping.seen \cup {q} /\ info'[q].sync
      PROVE  Notified'
  <2>1. \A x \in Requests : Sent(client[x], info[x]) => Sent(client'[x], info'[x])
    BY <1>2 DEF Requests2, GoodStep
  <2>2. \A x \in Requests :
            Sent(client[x], info[x]) /\ Pending(client'[x]) =>
                Pending(client[x]) /\ (info[x].sync => info'[x].sync)
    BY <1>2 DEF Requests2, GoodStep
  <2>3. \A x \in stopping'.begin \cup stopping'.seen : Sent(client'[x], info'[x])
    BY <1>1, <1>2, <2>1 DEF IInv, Notified
  <2>4. \A x \in stopping'.seen \cup (stopping'.begin \ requestMap') :
            Pending(client'[x]) => info'[x].sync
    BY <1>1, <1>2, <2>2 DEF IInv, Notified
  <2>. QED  BY <1>2, <2>3, <2>4 DEF Notified
<1>3. CASE StopRuntime
  <2>1. Requests2
    BY <1>3, NoRequestChanges DEF StopRuntime
  <2>2. /\ stopping' \in Stoppers /\ stopping'.pc = "range"
        /\ stopping'.begin = requestMap /\ stopping'.seen = {}
    BY <1>1, <1>3 DEF StopRuntime, StopIdle, Stoppers
  <2>3. Loops'
    BY <1>1, <1>3, <2>1, <2>2, LoopsKept DEF StopRuntime, IInv, Loops
  <2>4. Notified'
    <3>1. \A x \in requestMap : Sent(client[x], info[x])
      BY MapSent
    <3>2. client' = client /\ info' = info /\ requestMap' = requestMap
      BY <1>3 DEF StopRuntime
    <3>. QED  BY <2>2, <3>1, <3>2 DEF Notified
  <2>. QED  BY <2>1, <2>3, <2>4, Combined
<1>4. ASSUME NEW q \in Requests, StopVisits(q)
      PROVE  IInv'
  <2>1. /\ q \in requestMap /\ Sent(client[q], info[q]) /\ stopping.pc = "range"
        /\ client' = client /\ requestMap' = requestMap
    BY <1>4, MapSent DEF StopVisits
  <2>2. /\ Requests2 /\ stopping' \in Stoppers
        /\ stopping'.pc \in {"range", "write"} /\ stopping'.begin = stopping.begin
        /\ \/ stopping'.seen = stopping.seen
           \/ stopping'.seen = stopping.seen \cup {q} /\ info'[q].sync
        /\ stopping'.pc = "write" => stopping'.req = q
    <3>1. CASE Running(q)
      <4>1. stopping' = [stopping EXCEPT !.pc = "write", !.req = q] /\ info' = info
        BY <1>4, <3>1 DEF StopVisits
      <4>2. /\ stopping' \in Stoppers
            /\ stopping'.pc = "write" /\ stopping'.begin = stopping.begin
            /\ stopping'.seen = stopping.seen /\ stopping'.req = q
        BY <1>1, <1>4, <4>1 DEF Stoppers
      <4>. QED  BY <2>1, <4>1, <4>2, NoRequestChanges
    <3>2. CASE ~Running(q)
      <4>1. /\ stopping' = [stopping EXCEPT !.seen = stopping.seen \cup {q}]
            /\ info' = [info EXCEPT ![q] = Notify(info[q])]
        BY <1>4, <3>2 DEF StopVisits
      <4>2. /\ stopping' \in Stoppers
            /\ stopping'.pc = "range" /\ stopping'.begin = stopping.begin
            /\ stopping'.seen = stopping.seen \cup {q}
        BY <1>1, <1>4, <2>1, <4>1 DEF Stoppers
      <4>3. info'[q].sync
        <5>1. info[q] \in RequestInfos /\ info'[q] = Notify(info[q])
          BY <4>1 DEF IInv
        <5>. QED  BY <5>1 DEF Notify, RequestInfos
      <4>4. Requests2
        BY <2>1, <3>2, <4>1, OneInfoOnly
      <4>. QED  BY <4>2, <4>3, <4>4
    <3>. QED  BY <3>1, <3>2
  <2>3. Loops'
    <3>1. UNCHANGED <<requestChan, resps, snd, rcv>>
      BY <1>4 DEF StopVisits
    <3>. QED  BY <1>1, <2>1, <2>2, <3>1, LoopsKept DEF IInv, Loops
  <2>4. Notified'
    BY <1>2, <2>1, <2>2
  <2>. QED  BY <2>2, <2>3, <2>4, Combined
<1>5. CASE StopWrites
  <2> DEFINE q == stopping.req
  <2>1. /\ q \in Requests /\ Sent(client[q], info[q]) /\ stopping.pc = "write"
        /\ client' = client /\ requestMap' = requestMap
        /\ info' = [info EXCEPT ![q] =
                       Notify(InvokeResult(info[q], "failed", "exited"))]
    BY <1>1, <1>5 DEF StopWrites
  <2>2. /\ stopping' \in Stoppers /\ stopping'.pc = "range"
        /\ stopping'.begin = stopping.begin /\ stopping'.seen = stopping.seen \cup {q}
    BY <1>1, <1>5, <2>1 DEF StopWrites, Stoppers
  <2>3. Requests2
    BY <2>1, OneInfoOnly
  <2>4. info'[q].sync
    <3>1. info[q] \in RequestInfos
          /\ info'[q] = Notify(InvokeResult(info[q], "failed", "exited"))
      BY <2>1 DEF IInv
    <3>. QED  BY <3>1 DEF Notify, InvokeResult, RequestInfos
  <2>5. Loops'
    <3>1. UNCHANGED <<requestChan, resps, snd, rcv>>
      BY <1>5 DEF StopWrites
    <3>. QED  BY <1>1, <2>2, <2>3, <3>1, LoopsKept DEF IInv, Loops
  <2>6. Notified'
    BY <1>2, <2>1, <2>2, <2>3, <2>4
  <2>. QED  BY <2>3, <2>5, <2>6, Combined
<1>6. CASE StopCloses
  <2>1. /\ UNCHANGED <<requestChan, resps, snd, rcv, client, info>>
        /\ requestMap' = {} /\ stopping.pc = "range"
        /\ stopping.begin \cap requestMap \subseteq stopping.seen
    BY <1>6 DEF StopCloses
  <2>2. /\ stopping' \in Stoppers /\ stopping'.pc = "wait"
        /\ stopping'.begin = stopping.begin /\ stopping'.seen = stopping.seen
    BY <1>1, <1>6 DEF StopCloses, Stoppers
  <2>3. \A x \in Requests : GoodRequest(client'[x], info'[x], Mapped(x, requestMap'))
    <3>1. \A x \in Requests : GoodRequest(client[x], info[x], "no")
      BY DEF IInv, GoodRequest
    <3>2. \A x \in Requests : Mapped(x, requestMap') = "no"
      BY <2>1 DEF Mapped
    <3>. QED  BY <2>1, <3>1, <3>2
  <2>4. Loops'
    BY <2>1, <2>2 DEF IInv, Loops
  <2>5. Notified'
    BY <1>1, <2>1, <2>2 DEF IInv, Notified
  <2>. QED  BY <2>1, <2>3, <2>4, <2>5 DEF IInv
<1>7. CASE StopReturns
  <2>1. Requests2
    BY <1>7, NoRequestChanges DEF StopReturns
  <2>2. /\ stopping' \in Stoppers /\ stopping'.pc = "off"
        /\ stopping'.begin = {} /\ stopping'.seen = {}
    BY <1>7 DEF StopReturns, StopIdle, Stoppers
  <2>3. Loops'
    BY <1>1, <1>7, <2>1, <2>2, LoopsKept DEF StopReturns, IInv, Loops
  <2>4. Notified'
    BY <2>2 DEF Notified
  <2>. QED  BY <2>1, <2>3, <2>4, Combined
<1>. QED  BY <1>3, <1>4, <1>5, <1>6, <1>7 DEF Stopper

\* Sessions and the process: no request changes and no loop points to another.
LEMMA SessionStep ==
    ASSUME IInv, StartSession \/ CoolDown \/ Reborn \/ Reset \/ Die
                 \/ \E q \in Requests : Respond(q)
    PROVE  IInv'
<1>1. UNCHANGED <<client, info, requestMap, stopping>>
  BY DEF StartSession, CoolDown, Reborn, Reset, Die, Respond
<1>2. Requests2
  BY <1>1, NoRequestChanges
<1>3. requestChan' \in Seq(Requests) /\ resps' \in Seq(Requests)
  <2>1. requestChan \in Seq(Requests) /\ resps \in Seq(Requests)
    BY DEF IInv, Loops
  <2>2. /\ requestChan' = requestChan \/ requestChan' = << >>
        /\ resps' = resps \/ resps' = << >> \/ \E q \in Requests : resps' = Append(resps, q)
    BY DEF StartSession, CoolDown, Reborn, Reset, Die, Respond
  <2>3. << >> \in Seq(Requests)
    OBVIOUS
  <2>4. \A q \in Requests : Append(resps, q) \in Seq(Requests)
    BY <2>1
  <2>. QED  BY <2>1, <2>2, <2>3, <2>4, Zenon
<1>4. /\ snd' = snd \/ snd' = SendIdle("idle")
      /\ rcv' = rcv \/ rcv' = RecvIdle("read")
  BY DEF StartSession, CoolDown, Reborn, Reset, Die, Respond
<1>5. /\ snd' \in Senders /\ rcv' \in Receivers
      /\ snd'.pc \in {"write", "loop", "do"} => snd' = snd
      /\ rcv'.pc = "write" => rcv' = rcv
  BY <1>4, IdleLoops DEF IInv, Loops
<1>6. Loops'
  BY <1>1, <1>2, <1>3, <1>5, LoopsKept DEF IInv, Loops
<1>. QED  BY <1>1, <1>2, <1>6, NotifiedKept, Combined

-----------------------------------------------------------------------------

LEMMA Initially ==
    Init => IInv
<1> SUFFICES ASSUME Init PROVE IInv
  OBVIOUS
<1>1. /\ NewRequestInfo \in RequestInfos
      /\ [pc |-> "new", message |-> FALSE] \in Clients
      /\ GoodRequest([pc |-> "new", message |-> FALSE], NewRequestInfo, "no")
  BY DEF NewRequestInfo, RequestInfos, Clients, GoodRequest, Pending
<1>2. \A q \in Requests : Mapped(q, requestMap) = "no"
  BY DEF Init, Mapped
<1>3. /\ snd = SendIdle("off") /\ snd \in Senders /\ snd.pc = "off"
      /\ rcv \in Receivers /\ rcv.pc = "off"
  BY DEF Init, SendIdle, Senders, RecvIdle, Receivers
<1>4. /\ stopping \in Stoppers /\ stopping.pc = "off"
      /\ stopping.begin = {} /\ stopping.seen = {}
  BY DEF Init, StopIdle, Stoppers
<1>5. Loops
  BY <1>3, <1>4 DEF Init, Loops
<1>6. Notified
  BY <1>4 DEF Notified
<1>7. /\ client \in [Requests -> Clients]
      /\ info \in [Requests -> RequestInfos]
      /\ \A q \in Requests : GoodRequest(client[q], info[q], Mapped(q, requestMap))
  BY <1>1, <1>2 DEF Init
<1>. QED  BY <1>5, <1>6, <1>7 DEF IInv

\* Every step of the sessions keeps the invariant.
LEMMA Inductive ==
    IInv /\ [Next]_vars => IInv'
<1> SUFFICES ASSUME IInv, [Next]_vars PROVE IInv'
  OBVIOUS
<1>1. CASE Next
  BY <1>1, ClientStep, SendStep, RecvStep, StopStep, SessionStep DEF Next, Process
<1>2. CASE UNCHANGED vars
  <2>1. UNCHANGED <<client, info, requestMap, requestChan, resps, snd, rcv, stopping>>
    BY <1>2 DEF vars
  <2>2. Requests2
    BY <2>1, NoRequestChanges
  <2>3. Loops'
    BY <2>1, <2>2, LoopsKept DEF IInv, Loops
  <2>. QED  BY <2>1, <2>2, <2>3, NotifiedKept, Combined
<1>. QED  BY <1>1, <1>2

LEMMA InvariantAlways ==
    Spec => []IInv
  BY Initially, Inductive, PTL DEF Spec

\* No caller of InvokeFunction gets a response without a body: the unlocked test
\* and write of InvokeResult by the timer, the loops and stopRuntime never leave
\* an output that was neither written nor given an errorMessage.
THEOREM NoEmptyReplyAlways == Spec => []NoEmptyReply
<1>1. IInv => NoEmptyReply
  BY DEF IInv, GoodRequest, NoEmptyReply
<1>. QED  BY <1>1, InvariantAlways, PTL

\* When stopRuntime replaces requestMap, every request that Range had to visit and
\* that still waits has been notified, although the map shrinks during Range.
THEOREM StopNotifiesAlways == Spec => []StopNotifies
<1>1. IInv => StopNotifies
  BY DEF IInv, Notified, Pending, StopNotifies
<1>. QED  BY <1>1, InvariantAlways, PTL

\* A finished invocation is not in requestMap, for any number of requests and of
\* sessions that share the map.
THEOREM NothingLeakedAlways == Spec => []NothingLeaked
<1>1. ASSUME IInv PROVE NothingLeaked
  BY <1>1, MappedValue DEF IInv, GoodRequest, NothingLeaked
<1>. QED  BY <1>1, InvariantAlways, PTL

-----------------------------------------------------------------------------
(* Types *)

\* What TypeOK says and the invariant above does not.
SessionTypes ==
    /\ sess \in Sessions
    /\ concurrency \in Nat
    /\ Len(requestChan) <= ChanCap
    /\ wire \subseteq Requests
    /\ failures \in [sessions : Nat, deaths : Nat]

LEMMA SessionUpdates ==
    ASSUME NEW s \in Sessions, NEW f \in [sessions : Nat, deaths : Nat]
    PROVE  /\ [s EXCEPT !.stop = TRUE] \in Sessions
           /\ [s EXCEPT !.alive = FALSE] \in Sessions
           /\ \A x \in {"cold", "stopped"} : [s EXCEPT !.state = x] \in Sessions
           /\ [s EXCEPT !.state = "stopping", !.drain = TRUE] \in Sessions
           /\ [s EXCEPT !.state = "warm", !.alive = TRUE, !.stop = FALSE, !.drain = FALSE] \in Sessions
           /\ [f EXCEPT !.sessions = @ + 1] \in [sessions : Nat, deaths : Nat]
           /\ [f EXCEPT !.deaths = @ + 1] \in [sessions : Nat, deaths : Nat]
<1>1. [s EXCEPT !.stop = TRUE] \in Sessions
  BY DEF Sessions
<1>2. [s EXCEPT !.alive = FALSE] \in Sessions
  BY DEF Sessions
<1>3. ASSUME NEW x \in {"cold", "stopped"} PROVE [s EXCEPT !.state = x] \in Sessions
  BY DEF Sessions
<1>4. [s EXCEPT !.state = "stopping", !.drain = TRUE] \in Sessions
  BY DEF Sessions
<1>5. [s EXCEPT !.state = "warm", !.alive = TRUE, !.stop = FALSE, !.drain = FALSE] \in Sessions
  BY DEF Sessions
<1>6. /\ [f EXCEPT !.sessions = @ + 1] \in [sessions : Nat, deaths : Nat]
      /\ [f EXCEPT !.deaths = @ + 1] \in [sessions : Nat, deaths : Nat]
  OBVIOUS
<1>. QED  BY <1>1, <1>2, <1>3, <1>4, <1>5, <1>6

\* The request channel after a request is taken from it or put into it.
LEMMA ChannelUpdates ==
    ASSUME NEW s \in Seq(Requests), Len(s) <= ChanCap
    PROVE  /\ s # << >> => Len(Tail(s)) <= ChanCap /\ Head(s) \in Requests
           /\ \A q \in Requests : Len(s) < ChanCap => Len(Append(s, q)) <= ChanCap
<1>1. ChanCap \in Nat /\ Len(s) \in Nat
  BY InvocationAssumption
<1>2. ASSUME s # << >> PROVE Len(Tail(s)) <= ChanCap /\ Head(s) \in Requests
  <2>1. Len(s) > 0
    BY <1>1, <1>2
  <2>2. Len(Tail(s)) = Len(s) - 1 /\ Head(s) \in Requests
    BY <2>1
  <2>. QED  BY <1>1, <2>2
<1>3. ASSUME NEW q \in Requests, Len(s) < ChanCap PROVE Len(Append(s, q)) <= ChanCap
  <2>1. Len(Append(s, q)) = Len(s) + 1
    OBVIOUS
  <2>. QED  BY <1>1, <1>3, <2>1
<1>. QED  BY <1>2, <1>3

LEMMA TypesStep ==
    ASSUME IInv, SessionTypes, [Next]_vars
    PROVE  SessionTypes'
<1>1. requestChan \in Seq(Requests) /\ ChanCap \in Nat
  BY InvocationAssumption DEF IInv, Loops
<1>2. Len(<< >>) <= ChanCap
  BY <1>1
<1>3. ASSUME NEW q \in Requests, Arrive(q) \/ InvokeFunction(q)
      PROVE  SessionTypes'
  <2>1. UNCHANGED <<sess, wire, failures>>
    BY <1>3 DEF Arrive, InvokeFunction, WaitRuntime, WaitRuntimeFails, StoreRequest, EnqueueRequest,
                Woken, TimerFires, TimerWrites, Cleanup, PutRuntime
  <2>2. concurrency' \in Nat
    <3>1. \/ concurrency' = concurrency \/ concurrency' = concurrency + 1
          \/ concurrency' = IF concurrency = 0 THEN 0 ELSE concurrency - 1
      BY <1>3 DEF Arrive, InvokeFunction, WaitRuntime, WaitRuntimeFails, StoreRequest, EnqueueRequest,
                  Woken, TimerFires, TimerWrites, Cleanup, PutRuntime
    <3>. QED  BY <3>1 DEF SessionTypes
  <2>3. Len(requestChan') <= ChanCap
    <3>1. requestChan' = requestChan \/ (Len(requestChan) < ChanCap /\ requestChan' = Append(requestChan, q))
      BY <1>3 DEF Arrive, InvokeFunction, WaitRuntime, WaitRuntimeFails, StoreRequest, EnqueueRequest,
                  Woken, TimerFires, TimerWrites, Cleanup, PutRuntime
    <3>. QED  BY <1>1, <3>1, ChannelUpdates DEF SessionTypes
  <2>. QED  BY <2>1, <2>2, <2>3 DEF SessionTypes
<1>4. CASE SendLoop \/ RetryDeadline \/ DoReturns \/ DoFails
  <2>1. UNCHANGED <<sess, concurrency, failures>>
    BY <1>4 DEF SendLoop, SendRequest, SendFails, SendWrites, TakeHTTPRequest, StartDo, CancelRequest,
                SendLoopStops, SendLoopDrains, RetryDeadline, DoReturns, DoFails
  <2>2. requestChan' = requestChan \/ (requestChan # << >> /\ requestChan' = Tail(requestChan))
    BY <1>4 DEF SendLoop, SendRequest, SendFails, SendWrites, TakeHTTPRequest, StartDo, CancelRequest,
                SendLoopStops, SendLoopDrains, RetryDeadline, DoReturns, DoFails
  <2>3. \/ wire' \subseteq wire
        \/ requestChan # << >> /\ wire' = wire \cup {Head(requestChan)}
        \/ snd.pc = "loop" /\ wire' = wire \cup {snd.req}
    BY <1>4 DEF SendLoop, SendRequest, SendFails, SendWrites, TakeHTTPRequest, StartDo, CancelRequest,
                SendLoopStops, SendLoopDrains, RetryDeadline, DoReturns, DoFails
  <2>4. snd.pc = "loop" => snd.req \in Requests
    BY DEF IInv, Loops
  <2>5. Len(requestChan') <= ChanCap
    BY <1>1, <2>2, ChannelUpdates DEF SessionTypes
  <2>6. wire' \subseteq Requests
    BY <1>1, <2>3, <2>4, ChannelUpdates DEF SessionTypes
  <2>. QED  BY <2>1, <2>5, <2>6 DEF SessionTypes
<1>5. CASE RecvLoop \/ RecvGarbage
  <2>1. /\ UNCHANGED <<sess, concurrency, requestChan, wire>>
        /\ failures' = failures \/ failures' = [failures EXCEPT !.deaths = @ + 1]
    BY <1>5 DEF RecvLoop, RecvResponse, RecvWrites, RecvEOF, RecvLoopStops, RecvGarbage, RecvLoopEnds
  <2>2. failures' \in [sessions : Nat, deaths : Nat]
    BY <2>1, SessionUpdates DEF SessionTypes
  <2>. QED  BY <2>1, <2>2 DEF SessionTypes
<1>6. CASE Stopper
  <2>1. /\ UNCHANGED <<requestChan, wire, failures>>
        /\ concurrency' \in {0, concurrency}
        /\ sess' \in {sess, [sess EXCEPT !.stop = TRUE], [sess EXCEPT !.state = "stopped"]}
    BY <1>6 DEF Stopper, StopRuntime, StopWrites, StopCloses, StopReturns, StopVisits
  <2>2. sess' \in Sessions
    BY <2>1, SessionUpdates DEF SessionTypes
  <2>. QED  BY <2>1, <2>2 DEF SessionTypes
<1>7. CASE StartSession \/ CoolDown \/ Reborn \/ Reset \/ Die
  <2>1. /\ concurrency' = concurrency
        /\ requestChan' \in {requestChan, << >>} /\ wire' \in {wire, {}}
        /\ failures' \in {failures, [failures EXCEPT !.sessions = @ + 1], [failures EXCEPT !.deaths = @ + 1]}
    BY <1>7 DEF StartSession, CoolDown, Reborn, Reset, Die
  <2>2. sess' \in {[sess EXCEPT !.state = "warm", !.alive = TRUE, !.stop = FALSE, !.drain = FALSE],
                   [sess EXCEPT !.state = "stopping", !.drain = TRUE], [sess EXCEPT !.state = "cold"],
                   [sess EXCEPT !.alive = FALSE]}
    BY <1>7 DEF StartSession, CoolDown, Reborn, Reset, Die
  <2>3. sess' \in Sessions /\ failures' \in [sessions : Nat, deaths : Nat]
    BY <2>1, <2>2, SessionUpdates DEF SessionTypes
  <2>. QED  BY <1>2, <2>1, <2>3 DEF SessionTypes
<1>8. ASSUME NEW q \in Requests, Respond(q) PROVE SessionTypes'
  BY <1>8 DEF Respond, SessionTypes
<1>9. CASE UNCHANGED vars
  BY <1>9 DEF vars, SessionTypes
<1>. QED  BY <1>3, <1>4, <1>5, <1>6, <1>7, <1>8, <1>9 DEF Next, Process

\* Every state of the sessions is of the declared types: the channel of requests stays
\* within its capacity, Release never makes Concurrency negative, and the loops and
\* stopRuntime point to requests.
THEOREM TypesAlways == Spec => []TypeOK
<1>1. ASSUME Init PROVE SessionTypes
  <2>1. sess \in Sessions
    BY <1>1 DEF Init, Sessions
  <2>2. Len(requestChan) <= ChanCap
    BY <1>1, InvocationAssumption DEF Init
  <2>. QED  BY <1>1, <2>1, <2>2 DEF Init, SessionTypes
<1>2. IInv /\ SessionTypes /\ [Next]_vars => SessionTypes'
  BY TypesStep
<1>3. IInv /\ SessionTypes => TypeOK
  BY DEF IInv, Loops, SessionTypes, TypeOK
<1>. QED  BY <1>1, <1>2, <1>3, InvariantAlways, PTL DEF Spec
=============================================================================
