-------------------------- MODULE RuntimePoolProofs --------------------------
(***************************************************************************)
(* Proofs about RuntimePool, for any number of runtimes and requests and   *)
(* any memory sizes and quotas. The first part holds for any combination   *)
(* of Faults: types, the code a runtime serves, the counts of reboots. The *)
(* second part is about a prompt environment (Faults = {}), in spite of    *)
(* crashes and failing calls: Concurrency counts the requests, quotas      *)
(* hold, nobody is given a container that is being reset, and the Marked   *)
(* and Used memory of the node is what runtimes and requests stand for.    *)
(***************************************************************************)
EXTENDS RuntimePool, DataLemmas, FiniteSetTheorems, TLAPS

(* The events keep the record a RuntimeInfo.                               *)

LEMMA IncrementType == \A c \in Uint : Increment(c) \in Uint
  BY UintSpanAssumption, SMT DEF Uint, Increment

LEMMA DecrementType == \A c \in Uint : Decrement(c) \in Uint
  BY UintSpanAssumption, SMT DEF Uint, Decrement

LEMMA NewRuntimeInfoType ==
  \A mem \in Nat : NewRuntimeInfo(FALSE, mem) \in RuntimeInfos
  BY UintSpanAssumption, ModeAssumption
     DEF NewRuntimeInfo, RuntimeInfos, RuntimeStates, Uint

LEMMA RequestEventTypes ==
  ASSUME NEW i \in RuntimeInfos, NEW f \in Functions, NEW mem \in Nat
  PROVE  /\ opMarkSet(i) \in RuntimeInfos
         /\ opOccupySet(i, f, mem) \in RuntimeInfos
         /\ opMergedSet(i, f) \in RuntimeInfos
         /\ opRollbackSet(i) \in RuntimeInfos
         /\ Release(i) \in RuntimeInfos
         /\ Invalidate(i) \in RuntimeInfos
<1>1. i.conc \in Uint
  BY DEF RuntimeInfos
<1>2. Increment(i.conc) \in Uint /\ Decrement(i.conc) \in Uint
  BY <1>1, IncrementType, DecrementType
<1>3. i.conc # 0 => i.conc - 1 \in Uint
  BY <1>1, UintSpanAssumption DEF Uint
<1>4. opMarkSet(i) \in RuntimeInfos
  BY <1>2 DEF opMarkSet, RuntimeInfos
<1>5. opOccupySet(i, f, mem) \in RuntimeInfos
  BY <1>2 DEF opOccupySet, RuntimeInfos, RuntimeStates
<1>6. opMergedSet(i, f) \in RuntimeInfos
  BY DEF opMergedSet, RuntimeInfos, RuntimeStates
<1>7. opRollbackSet(i) \in RuntimeInfos
  BY <1>1, <1>2 DEF opRollbackSet, RuntimeInfos, RuntimeStates
<1>8. Release(i) \in RuntimeInfos
  BY <1>1, <1>3 DEF Release, RuntimeInfos
<1>9. Invalidate(i) \in RuntimeInfos
  BY DEF Invalidate, RuntimeInfos
<1>. QED  BY <1>4, <1>5, <1>6, <1>7, <1>8, <1>9

LEMMA CronEventTypes ==
  ASSUME NEW i \in RuntimeInfos
  PROVE  /\ opRetrieveSet(i) \in RuntimeInfos
         /\ opStopSet(i) \in RuntimeInfos
         /\ opResetSet(i) \in RuntimeInfos
<1>1. 0 \in Uint /\ DefaultConcurrentMode \in BOOLEAN
  BY UintSpanAssumption, ModeAssumption DEF Uint
<1>2. opRetrieveSet(i) \in RuntimeInfos
  BY <1>1 DEF opRetrieveSet, RuntimeInfos, RuntimeStates
<1>3. opStopSet(i) \in RuntimeInfos
  BY <1>1 DEF opStopSet, RuntimeInfos, RuntimeStates
<1>4. opResetSet(i) \in RuntimeInfos
  BY <1>1 DEF opResetSet, RuntimeInfos, RuntimeStates
<1>. QED  BY <1>2, <1>3, <1>4

LEMMA ConnectionEventTypes ==
  ASSUME NEW i \in RuntimeInfos, NEW f \in Functions, NEW concurrent \in BOOLEAN
  PROVE  /\ initRunnerSet(i) \in RuntimeInfos
         /\ initRuntimeSet(i, f, concurrent) \in RuntimeInfos
         /\ stopRuntimeSet(i) \in RuntimeInfos
         /\ stopRunnerSet(i) \in RuntimeInfos
<1>1. i.cmode \in BOOLEAN
  BY DEF RuntimeInfos
<1>2. (i.cmode /\ concurrent) \in BOOLEAN
  BY <1>1
<1>3. initRuntimeSet(i, f, concurrent) \in RuntimeInfos
  BY <1>2 DEF initRuntimeSet, RuntimeInfos, RuntimeStates
<1>4. 0 \in Uint
  BY UintSpanAssumption DEF Uint
<1>5. initRunnerSet(i) \in RuntimeInfos
  BY DEF initRunnerSet, RuntimeInfos, RuntimeStates
<1>6. stopRuntimeSet(i) \in RuntimeInfos
  BY <1>4 DEF stopRuntimeSet, RuntimeInfos, RuntimeStates
<1>7. stopRunnerSet(i) \in RuntimeInfos
  BY DEF stopRunnerSet, RuntimeInfos, RuntimeStates
<1>. QED  BY <1>3, <1>5, <1>6, <1>7

-----------------------------------------------------------------------------
(* The type invariant.                                                     *)

LEMMA PendingType ==
  ASSUME NEW c \in Conns, NEW f \in Functions \cup {NoCommit}, NEW d \in BOOLEAN
  PROVE  [c EXCEPT !.pend = f, !.dead = d] \in Conns
  BY DEF Conns

LEMMA KilledType ==
  ASSUME NEW c \in Conns, NEW k \in Killed(c)
  PROVE  k \in Conns
  BY ZenonT(40) DEF Killed, Conns

LEMMA FirstRuntime == 1 \in Runtimes
  BY PoolAssumption DEF Runtimes

LEMMA AttemptType ==
  ASSUME NEW n \in Nat
  PROVE  /\ Attempt(n) \in Reqs
         /\ [Attempt(n) EXCEPT !.pc = "done"] \in Reqs
<1>1. << >> \in Seq(Runtimes) /\ 0 \in 0 .. NumRuntimes
  BY PoolAssumption
<1>. QED  BY <1>1, FirstRuntime DEF Attempt, Reqs

LEMMA NextTryType ==
  ASSUME TypeOK, NEW q \in Requests
  PROVE  NextTry(q) \in Reqs
<1>1. req[q].try \in Nat
  BY DEF TypeOK, Reqs
<1>2. req[q].try + 1 \in Nat
  BY <1>1
<1>. QED  BY <1>1, <1>2, AttemptType DEF NextTry

LEMMA CronIdleType ==
  ASSUME NEW pc \in {"idle", "sync", "write", "synced", "cool", "reborn", "scan", "boot", "rpc"}
  PROVE  CronIdle(pc) \in Crons
  BY FirstRuntime DEF CronIdle, Crons

LEMMA TypeInit == Init => TypeOK
<1>. SUFFICES ASSUME Init PROVE TypeOK
  OBVIOUS
<1>1. rt \in [Runtimes -> RuntimeInfos]
  <2>1. BaseMemory \in Nat
    BY PoolAssumption
  <2>2. NewRuntimeInfo(FALSE, BaseMemory) \in RuntimeInfos
    BY <2>1, NewRuntimeInfoType
  <2>. QED  BY <2>2 DEF Init
<1>2. NewConn \in Conns
  BY DEF NewConn, Conns
<1>3. req \in [Requests -> Reqs]
  <2>1. Attempt(1) \in Reqs
    BY AttemptType
  <2>. QED  BY <2>1 DEF Init
<1>4. cron \in [Runtimes -> Crons]
  <2>1. CronIdle("idle") \in Crons
    BY CronIdleType
  <2>. QED  BY <2>1 DEF Init
<1>5. resource \in [marked : Int, used : Int] /\ reboot \in [Runtimes -> Int]
  BY DEF Init
<1>6. failures \in [crashes : Nat, errors : Nat]
  BY DEF Init
<1>7. conn \in [Runtimes -> Conns]
  BY <1>2 DEF Init
<1>. QED  BY <1>1, <1>3, <1>4, <1>5, <1>6, <1>7 DEF TypeOK

LEMMA RequestStepType ==
  ASSUME TypeOK, NEW q \in Requests, RequestStep(q)
  PROVE  TypeOK'
<1>f. Fn(q) \in Functions /\ Mem(q) \in Nat
  BY PoolAssumption DEF Fn, Mem
<1>i. /\ req[q] \in Reqs
      /\ req[q].idx \in Runtimes
      /\ req[q].idx < NumRuntimes => req[q].idx + 1 \in Runtimes
      /\ req[q].idx \in 0 .. NumRuntimes
      /\ req[q].try \in Nat
      /\ req[q].merged \in Seq(Runtimes)
  BY PoolAssumption, SMTT(30) DEF TypeOK, Reqs, Runtimes
<1>u. ASSUME NEW x \in Reqs
      PROVE  [req EXCEPT ![q] = x] \in [Requests -> Reqs]
  BY DEF TypeOK
<1>t. \A i \in Runtimes : rt[i] \in RuntimeInfos
  BY DEF TypeOK
<1>1. CASE FindWarm(q)
  <2>1. /\ [req[q] EXCEPT !.pc = "wait", !.rt = req[q].idx, !.idx = 1] \in Reqs
        /\ req[q].idx < NumRuntimes => [req[q] EXCEPT !.idx = req[q].idx + 1] \in Reqs
        /\ [req[q] EXCEPT !.pc = "check", !.idx = 1] \in Reqs
    BY <1>i, FirstRuntime DEF Reqs
  <2>2. req' \in [Requests -> Reqs]
    BY <1>1, <1>u, <2>1 DEF FindWarm, TypeOK
  <2>3. opMarkSet(rt[req[q].idx]) \in RuntimeInfos
    BY <1>f, <1>i, <1>t, RequestEventTypes
  <2>4. rt' \in [Runtimes -> RuntimeInfos]
    BY <1>1, <2>3 DEF FindWarm, TypeOK
  <2>. QED  BY <1>1, <2>2, <2>4 DEF FindWarm, TypeOK
<1>2. CASE CheckResource(q)
  <2>1. NextTry(q) \in Reqs
    BY NextTryType
  <2>2. [req[q] EXCEPT !.pc = "mark"] \in Reqs
    BY <1>i DEF Reqs
  <2>. QED  BY <1>2, <1>u, <2>1, <2>2 DEF CheckResource, TypeOK
<1>3. CASE MarkResource(q)
  <2>1. [req[q] EXCEPT !.pc = "occupy"] \in Reqs
    BY <1>i DEF Reqs
  <2>2. resource' \in [marked : Int, used : Int]
    BY <1>3, <1>f DEF MarkResource, TypeOK
  <2>. QED  BY <1>3, <1>u, <2>1, <2>2 DEF MarkResource, TypeOK
<1>4. CASE Occupy(q)
  <2>1. /\ \A pc \in {"merge", "warmup"} :
             [req[q] EXCEPT !.pc = pc, !.rt = req[q].idx, !.idx = 1] \in Reqs
        /\ req[q].idx < NumRuntimes => [req[q] EXCEPT !.idx = req[q].idx + 1] \in Reqs
        /\ [req[q] EXCEPT !.pc = "unmark", !.idx = 1] \in Reqs
    BY <1>i, FirstRuntime DEF Reqs
  <2>2. req' \in [Requests -> Reqs]
    BY <1>4, <1>u, <2>1 DEF Occupy, TypeOK
  <2>3. opOccupySet(rt[req[q].idx], Fn(q), Mem(q)) \in RuntimeInfos
    BY <1>f, <1>i, <1>t, RequestEventTypes
  <2>4. rt' \in [Runtimes -> RuntimeInfos]
    BY <1>4, <2>3 DEF Occupy, TypeOK
  <2>. QED  BY <1>4, <2>2, <2>4 DEF Occupy, TypeOK
<1>5. CASE Merge(q)
  <2>. DEFINE i == req[q].idx
              merged == IF opMergedCheck(rt[i]) THEN Append(req[q].merged, i) ELSE req[q].merged
  <2>1. merged \in Seq(Runtimes)
    BY <1>i
  <2>2. /\ [req[q] EXCEPT !.pc = "warmup", !.idx = 1, !.merged = merged] \in Reqs
        /\ i < NumRuntimes => [req[q] EXCEPT !.idx = i + 1, !.merged = merged] \in Reqs
        /\ [req[q] EXCEPT !.pc = "rollback", !.idx = 1, !.merged = merged] \in Reqs
    <3>. HIDE DEF merged
    <3>. QED  BY <1>i, <2>1, FirstRuntime DEF Reqs
  <2>3. req' \in [Requests -> Reqs]
    BY <1>5, <1>u, <2>2 DEF Merge, TypeOK
  <2>4. opMergedSet(rt[i], Fn(q)) \in RuntimeInfos
    BY <1>f, <1>i, <1>t, RequestEventTypes
  <2>5. rt' \in [Runtimes -> RuntimeInfos]
    BY <1>5, <2>4 DEF Merge, TypeOK
  <2>. QED  BY <1>5, <2>3, <2>5 DEF Merge, TypeOK
<1>6. CASE Rollback(q)
  <2>. DEFINE m == req[q].merged
              i == IF m = << >> THEN req[q].rt ELSE m[Len(m)]
  <2>1. m # << >> => SubSeq(m, 1, Len(m) - 1) \in Seq(Runtimes)
    BY <1>i
  <2>2. /\ [req[q] EXCEPT !.pc = "unmark", !.rt = 0] \in Reqs
        /\ m # << >> => [req[q] EXCEPT !.merged = SubSeq(m, 1, Len(m) - 1)] \in Reqs
    <3>1. 0 \in 0 .. NumRuntimes
      BY PoolAssumption
    <3>2. ASSUME NEW n \in Seq(Runtimes) PROVE [req[q] EXCEPT !.merged = n] \in Reqs
      BY <1>i DEF Reqs
    <3>3. [req[q] EXCEPT !.pc = "unmark", !.rt = 0] \in Reqs
      BY <1>i, <3>1 DEF Reqs
    <3>. QED  BY <2>1, <3>2, <3>3
  <2>3. req' \in [Requests -> Reqs]
    BY <1>6, <1>u, <2>2 DEF Rollback, TypeOK
  <2>4. ASSUME NEW j \in Runtimes PROVE opRollbackSet(rt[j]) \in RuntimeInfos
    BY <1>f, <1>t, RequestEventTypes
  <2>5. rt' = rt \/ rt' = [rt EXCEPT ![i] = opRollbackSet(rt[i])]
    BY <1>6 DEF Rollback
  <2>6. rt' \in [Runtimes -> RuntimeInfos]
    <3>. HIDE DEF i
    <3>. QED  BY <2>4, <2>5 DEF TypeOK
  <2>. QED  BY <1>6, <2>3, <2>6 DEF Rollback, TypeOK
<1>7. CASE UnmarkResource(q)
  BY <1>7, <1>f, NextTryType DEF UnmarkResource, TypeOK
<1>8. CASE WarmUp(q)
  <2>. DEFINE i == req[q].rt
  <2>1. ASSUME NEW j \in Runtimes
        PROVE  /\ [conn[j] EXCEPT !.pend = Fn(q), !.dead = FALSE] \in Conns
               /\ [rt[j] EXCEPT !.cmode = FALSE] \in RuntimeInfos
    <3>1. conn[j] \in Conns /\ rt[j] \in RuntimeInfos
      BY DEF TypeOK
    <3>2. [rt[j] EXCEPT !.cmode = FALSE] \in RuntimeInfos
      BY <3>1 DEF RuntimeInfos
    <3>. QED  BY <1>f, <3>1, <3>2, PendingType
  <2>2. /\ conn' = [conn EXCEPT ![i] = [conn[i] EXCEPT !.pend = Fn(q), !.dead = FALSE]]
        /\ rt' = rt \/ rt' = [rt EXCEPT ![i] = [rt[i] EXCEPT !.cmode = FALSE]]
    BY <1>8 DEF WarmUp
  <2>3. conn' \in [Runtimes -> Conns] /\ rt' \in [Runtimes -> RuntimeInfos]
    <3>. HIDE DEF i
    <3>1. conn' \in [Runtimes -> Conns]
      <4>. DEFINE x == [conn[i] EXCEPT !.pend = Fn(q), !.dead = FALSE]
      <4>1. i \in Runtimes => x \in Conns
        BY <2>1
      <4>2. conn' = conn \/ conn' = [conn EXCEPT ![i] = x]
        BY <2>2
      <4>. HIDE DEF x
      <4>. QED  BY <4>1, <4>2 DEF TypeOK
    <3>2. rt' \in [Runtimes -> RuntimeInfos]
      <4>. DEFINE x == [rt[i] EXCEPT !.cmode = FALSE]
      <4>1. i \in Runtimes => x \in RuntimeInfos
        BY <2>1
      <4>2. rt' = rt \/ rt' = [rt EXCEPT ![i] = x]
        BY <2>2
      <4>. HIDE DEF x
      <4>. QED  BY <4>1, <4>2 DEF TypeOK
    <3>. QED  BY <3>1, <3>2
  <2>4. [req[q] EXCEPT !.pc = "wait", !.merged = << >>] \in Reqs
    <3>1. << >> \in Seq(Runtimes)
      OBVIOUS
    <3>. QED  BY <1>i, <3>1 DEF Reqs
  <2>. QED  BY <1>8, <1>u, <2>3, <2>4 DEF WarmUp, TypeOK
<1>9. CASE WarmUpFails(q)
  <2>. DEFINE i == req[q].rt
              started == [conn EXCEPT ![i] = [conn[i] EXCEPT !.pend = Fn(q), !.dead = FALSE]]
  <2>1. ASSUME NEW j \in Runtimes
        PROVE  /\ [conn[j] EXCEPT !.pend = Fn(q), !.dead = FALSE] \in Conns
               /\ Invalidate(rt[j]) \in RuntimeInfos
    <3>1. conn[j] \in Conns
      BY DEF TypeOK
    <3>. QED  BY <1>f, <1>t, <3>1, RequestEventTypes, PendingType
  <2>2. conn' = conn \/ conn' = started
    BY <1>9 DEF WarmUpFails
  <2>3. rt' = [rt EXCEPT ![i] = Invalidate(rt[i])]
    BY <1>9 DEF WarmUpFails
  <2>4. conn' \in [Runtimes -> Conns] /\ rt' \in [Runtimes -> RuntimeInfos]
    <3>. HIDE DEF i
    <3>1. conn' \in [Runtimes -> Conns]
      <4>. DEFINE x == [conn[i] EXCEPT !.pend = Fn(q), !.dead = FALSE]
      <4>1. i \in Runtimes => x \in Conns
        BY <2>1
      <4>2. conn' = conn \/ conn' = [conn EXCEPT ![i] = x]
        BY <2>2
      <4>. HIDE DEF x
      <4>. QED  BY <4>1, <4>2 DEF TypeOK
    <3>2. rt' \in [Runtimes -> RuntimeInfos]
      BY <2>1, <2>3 DEF TypeOK
    <3>. QED  BY <3>1, <3>2
  <2>5. [req[q] EXCEPT !.pc = "drop"] \in Reqs
    BY <1>i DEF Reqs
  <2>6. failures' \in [crashes : Nat, errors : Nat]
    BY <1>9 DEF WarmUpFails, TypeOK
  <2>. QED  BY <1>9, <1>u, <2>4, <2>5, <2>6 DEF WarmUpFails, TypeOK
<1>10. CASE Drop(q)
  BY <1>10, <1>f, RequestEventTypes, NextTryType DEF Drop, TypeOK
<1>11. CASE StartInvoke(q)
  BY <1>11, ZenonT(40) DEF StartInvoke, TypeOK, Reqs
<1>12. CASE GiveUp(q)
  BY <1>12, ZenonT(40) DEF GiveUp, TypeOK, Reqs
<1>13. CASE FinishInvoke(q)
  BY <1>13, ZenonT(40) DEF FinishInvoke, TypeOK, Reqs
<1>14. CASE PutRuntime(q)
  BY <1>14, <1>f, <1>i, RequestEventTypes, AttemptType DEF PutRuntime, TypeOK
<1>. QED
  BY <1>1, <1>2, <1>3, <1>4, <1>5, <1>6, <1>7, <1>8, <1>9, <1>10, <1>11, <1>12, <1>13,
     <1>14 DEF RequestStep

LEMMA BeginType ==
  ASSUME TypeOK, NEW r \in Runtimes, NEW job \in {"cool", "reborn"}
  PROVE  Begin(r, job) \in Crons
<1>1. rt[r].mem \in Nat
  BY DEF TypeOK, RuntimeInfos
<1>. QED  BY <1>1, FirstRuntime DEF Begin, CronIdle, Crons

LEMMA CronStepType ==
  ASSUME TypeOK, NEW r \in Runtimes, CronStep(r)
  PROVE  TypeOK'
<1>c. /\ cron[r] \in Crons
      /\ cron[r].idx \in Runtimes
      /\ cron[r].idx < NumRuntimes => cron[r].idx + 1 \in Runtimes
      /\ cron[r].mem \in Nat
      /\ cron[r].resets \in SUBSET Runtimes
      /\ cron[r].did \in SUBSET Runtimes
  <2>1. cron[r] \in Crons
    BY DEF TypeOK
  <2>2. cron[r].idx \in Runtimes => (cron[r].idx < NumRuntimes => cron[r].idx + 1 \in Runtimes)
    BY PoolAssumption DEF Runtimes
  <2>. QED  BY <2>1, <2>2 DEF Crons
<1>u. ASSUME NEW x \in Crons
      PROVE  [cron EXCEPT ![r] = x] \in [Runtimes -> Crons]
  BY DEF TypeOK
<1>t. \A i \in Runtimes : rt[i] \in RuntimeInfos
  BY DEF TypeOK
<1>f. \A job : Finished(job) \in Crons
  BY CronIdleType DEF Finished
<1>1. CASE SyncCheck(r)
  <2>1. \A pc \in {"synced", "write"} : [cron[r] EXCEPT !.pc = pc] \in Crons
    BY <1>c DEF Crons
  <2>. QED  BY <1>1, <1>u, <2>1 DEF SyncCheck, TypeOK
<1>2. CASE SyncWrite(r)
  <2>1. [cron[r] EXCEPT !.pc = "synced"] \in Crons
    BY <1>c DEF Crons
  <2>2. [rt[r] EXCEPT !.mem = BaseMemory] \in RuntimeInfos
    <3>1. BaseMemory \in Nat
      BY PoolAssumption
    <3>. QED  BY <1>t, <3>1 DEF RuntimeInfos
  <2>3. rt' = [rt EXCEPT ![r] = [rt[r] EXCEPT !.mem = BaseMemory]]
    BY <1>2 DEF SyncWrite
  <2>4. rt' \in [Runtimes -> RuntimeInfos]
    BY <2>2, <2>3 DEF TypeOK
  <2>. QED  BY <1>2, <1>u, <2>1, <2>4 DEF SyncWrite, TypeOK
<1>3. CASE CoolDown(r)
  <2>1. Begin(r, "cool") \in Crons
    BY BeginType
  <2>. QED  BY <1>3, <1>t, <1>u, <2>1, CronEventTypes DEF CoolDown, TypeOK
<1>4. CASE Reborn(r)
  <2>1. Begin(r, "reborn") \in Crons
    BY BeginType
  <2>. QED  BY <1>4, <1>t, <1>u, <2>1, CronEventTypes DEF Reborn, TypeOK
<1>5. CASE Retrieve(r)
  <2>. DEFINE c == cron[r]
              fits == c.idx # r /\ opRetrieveCheck(rt[c.idx])
              found == IF fits THEN c.resets \cup {c.idx} ELSE c.resets
  <2>1. found \in SUBSET Runtimes
    BY <1>c
  <2>2. ASSUME NEW S \in SUBSET Runtimes
        PROVE  /\ [c EXCEPT !.pc = "boot", !.idx = 1, !.resets = S] \in Crons
               /\ c.idx < NumRuntimes => [c EXCEPT !.idx = @ + 1, !.resets = S] \in Crons
    BY <1>c, FirstRuntime DEF Crons
  <2>3. \/ cron' = [cron EXCEPT ![r] = [c EXCEPT !.pc = "boot", !.idx = 1, !.resets = found]]
        \/ /\ c.idx < NumRuntimes
           /\ cron' = [cron EXCEPT ![r] = [c EXCEPT !.idx = @ + 1, !.resets = found]]
        \/ cron' = [cron EXCEPT ![r] = [c EXCEPT !.pc = "boot", !.idx = 1, !.resets = {}]]
    BY <1>5 DEF Retrieve
  <2>4. cron' \in [Runtimes -> Crons]
    <3>. HIDE DEF c, found
    <3>. QED  BY <1>u, <2>1, <2>2, <2>3, ZenonT(40)
  <2>5. opRetrieveSet(rt[c.idx]) \in RuntimeInfos
    BY <1>c, <1>t, CronEventTypes
  <2>6. rt' \in [Runtimes -> RuntimeInfos]
    BY <1>5, <2>5 DEF Retrieve, TypeOK
  <2>. QED  BY <1>5, <2>4, <2>6 DEF Retrieve, TypeOK
<1>6. CASE EndRound(r)
  BY <1>6, <1>u, <1>f DEF EndRound, TypeOK
<1>7. CASE RebootBegin(r)
  <2>1. [cron[r] EXCEPT !.pc = "rpc", !.mem = rt[r].mem, !.used = rt[r].used,
                        !.marked = rt[r].marked] \in Crons
    BY <1>c, <1>t DEF Crons, RuntimeInfos
  <2>2. reboot' \in [Runtimes -> Int]
    BY <1>7 DEF RebootBegin, TypeOK
  <2>. QED  BY <1>7, <1>u, <2>1, <2>2 DEF RebootBegin, TypeOK
<1>8. CASE FuncletReturns(r)
  <2>1. resource' \in [marked : Int, used : Int]
    <3>1. resource' = [used |-> resource.used - (IF cron[r].used THEN cron[r].mem ELSE 0),
                       marked |-> resource.marked - (IF cron[r].marked THEN cron[r].mem ELSE 0)]
      BY <1>8 DEF FuncletReturns
    <3>2. resource.used \in Int /\ resource.marked \in Int
      BY DEF TypeOK
    <3>. QED  BY <3>1, <3>2, <1>c
  <2>2. reboot' \in [Runtimes -> Int]
    <3>1. RebootEnd(r)
      BY <1>8 DEF FuncletReturns
    <3>. QED  BY <3>1 DEF RebootEnd, TypeOK
  <2>3. failures' \in [crashes : Nat, errors : Nat]
    <3>1. failures' = failures \/ failures' = [failures EXCEPT !.errors = @ + 1]
      BY <1>8 DEF FuncletReturns
    <3>. QED  BY <3>1 DEF TypeOK
  <2>4. rt' \in [Runtimes -> RuntimeInfos]
    <3>1. ASSUME NEW i \in Runtimes, NEW u \in BOOLEAN, NEW m \in BOOLEAN
          PROVE  [rt[i] EXCEPT !.used = u, !.marked = m] \in RuntimeInfos
      BY <1>t DEF RuntimeInfos
    <3>2. \A i \in Runtimes : Invalidate(rt[i]) \in RuntimeInfos
      BY <1>t DEF Invalidate, RuntimeInfos
    <3>3. [rt[r] EXCEPT !.used = @ /\ ~cron[r].used, !.marked = @ /\ ~cron[r].marked]
             \in RuntimeInfos
      BY <3>1
    <3>. QED  BY <1>8, <1>t, <3>2, <3>3 DEF FuncletReturns
  <2>. QED  BY <1>8, <1>u, <1>f, <2>1, <2>2, <2>3, <2>4 DEF FuncletReturns, TypeOK
<1>9. CASE FuncletFails(r)
  <2>1. reboot' \in [Runtimes -> Int]
    BY <1>9 DEF FuncletFails, RebootEnd, TypeOK
  <2>2. failures' \in [crashes : Nat, errors : Nat]
    BY <1>9 DEF FuncletFails, TypeOK
  <2>3. rt' \in [Runtimes -> RuntimeInfos]
    <3>1. \A i \in Runtimes : Invalidate(rt[i]) \in RuntimeInfos
      BY <1>t DEF Invalidate, RuntimeInfos
    <3>. QED  BY <1>9, <1>t, <3>1 DEF FuncletFails
  <2>. QED  BY <1>9, <1>u, <1>f, <2>1, <2>2, <2>3 DEF FuncletFails, TypeOK
<1>10. ASSUME NEW i \in Runtimes, FuncletReset(r, i) PROVE TypeOK'
  <2>1. PICK k \in Killed(conn[i]) : conn' = [conn EXCEPT ![i] = [k EXCEPT !.dial = "dialing"]]
    BY <1>10 DEF FuncletReset
  <2>2. k \in Conns
    BY KilledType DEF TypeOK
  <2>3. [k EXCEPT !.dial = "dialing"] \in Conns
    BY <2>2 DEF Conns
  <2>4. conn' \in [Runtimes -> Conns]
    BY <2>1, <2>3 DEF TypeOK
  <2>5. [cron[r] EXCEPT !.did = @ \cup {i}] \in Crons
    BY <1>c DEF Crons
  <2>. QED  BY <1>10, <1>u, <2>4, <2>5 DEF FuncletReset, TypeOK
<1>. QED
  BY <1>1, <1>2, <1>3, <1>4, <1>5, <1>6, <1>7, <1>8, <1>9, <1>10 DEF CronStep

LEMMA ConnStepType ==
  ASSUME TypeOK, NEW i \in Runtimes, ConnStep(i)
  PROVE  TypeOK'
<1>c. conn[i] \in Conns
  BY DEF TypeOK
<1>t. rt[i] \in RuntimeInfos
  BY DEF TypeOK
<1>u. ASSUME NEW x \in Conns
      PROVE  [conn EXCEPT ![i] = x] \in [Runtimes -> Conns]
  BY DEF TypeOK
<1>r. ASSUME NEW x \in RuntimeInfos
      PROVE  [rt EXCEPT ![i] = x] \in [Runtimes -> RuntimeInfos]
  BY DEF TypeOK
<1>s. ASSUME NEW x \in RuntimeInfos, NEW stale \in BOOLEAN
      PROVE  [x EXCEPT !.stale = stale] \in RuntimeInfos
  BY DEF RuntimeInfos
<1>1. CASE RebootWait(i)
  <2>1. [conn[i] EXCEPT !.dial = "waited"] \in Conns
    BY <1>c DEF Conns
  <2>. QED  BY <1>1, <1>u, <2>1 DEF RebootWait, TypeOK
<1>2. CASE InitRunner(i)
  <2>1. [conn[i] EXCEPT !.dial = "none"] \in Conns
    BY <1>c DEF Conns
  <2>2. [conn[i] EXCEPT !.dial = "none", !.runner = "live"] \in Conns
    BY <1>c DEF Conns
  <2>3. conn' \in [Runtimes -> Conns]
    BY <1>2, <1>u, <2>1, <2>2 DEF InitRunner
  <2>4. initRunnerSet(rt[i]) \in RuntimeInfos
    BY <1>t DEF initRunnerSet, RuntimeInfos, RuntimeStates
  <2>5. rt[i].stale \in BOOLEAN
    BY <1>t DEF RuntimeInfos
  <2>6. rt' \in [Runtimes -> RuntimeInfos]
    <3>1. CASE rt[i].state = "closed"
      <4>1. PICK stale \in {FALSE} \cup ({rt[i].stale} \cap {"silent" \in Faults}) :
               rt' = [rt EXCEPT ![i] = [initRunnerSet(rt[i]) EXCEPT !.stale = stale]]
        BY <1>2, <3>1 DEF InitRunner
      <4>2. stale \in BOOLEAN
        BY <2>5, <4>1
      <4>. QED  BY <1>r, <1>s, <2>4, <4>1, <4>2
    <3>2. CASE rt[i].state # "closed"
      BY <1>2, <3>2 DEF InitRunner, TypeOK
    <3>. QED  BY <3>1, <3>2
  <2>. QED  BY <1>2, <2>3, <2>6 DEF InitRunner, TypeOK
<1>3. CASE RunnerUpdate(i)
  BY <1>3, <1>t, <1>r, <1>s DEF RunnerUpdate, TypeOK
<1>4. CASE StopRunnerWait(i)
  <2>1. [conn[i] EXCEPT !.runner = "waited"] \in Conns
    BY <1>c DEF Conns
  <2>. QED  BY <1>4, <1>u, <2>1 DEF StopRunnerWait, TypeOK
<1>5. CASE StopRunner(i)
  <2>1. [conn[i] EXCEPT !.runner = "none"] \in Conns
    BY <1>c DEF Conns
  <2>2. stopRunnerSet(rt[i]) \in RuntimeInfos
    BY <1>t DEF stopRunnerSet, RuntimeInfos, RuntimeStates
  <2>. QED  BY <1>5, <1>u, <1>r, <2>1, <2>2 DEF StopRunner, TypeOK
<1>6. CASE InitRuntime(i)
  <2>. DEFINE f == conn[i].pend
              c == [conn[i] EXCEPT !.pend = NoCommit, !.dead = FALSE,
                                   !.session = IF conn[i].dead THEN "eof" ELSE "live", !.code = f]
  <2>1. f \in Functions
    BY <1>6, <1>c DEF InitRuntime, Conns
  <2>2. c \in Conns
    BY <1>c, <2>1 DEF Conns
  <2>3. [c EXCEPT !.incs = @ + 1] \in Conns
    <3>1. c.incs \in Nat
      BY <2>2 DEF Conns
    <3>. HIDE DEF c
    <3>. QED  BY <2>2, <3>1 DEF Conns
  <2>4. conn' = [conn EXCEPT ![i] = c] \/ conn' = [conn EXCEPT ![i] = [c EXCEPT !.incs = @ + 1]]
    BY <1>6 DEF InitRuntime
  <2>5. conn' \in [Runtimes -> Conns]
    <3>. HIDE DEF c
    <3>. QED  BY <1>u, <2>2, <2>3, <2>4
  <2>6. PICK concurrent \in BOOLEAN : rt' = [rt EXCEPT ![i] = initRuntimeSet(rt[i], f, concurrent)]
    BY <1>6 DEF InitRuntime
  <2>7. initRuntimeSet(rt[i], f, concurrent) \in RuntimeInfos
    BY <1>t, <2>1, ConnectionEventTypes
  <2>8. rt' \in [Runtimes -> RuntimeInfos]
    BY <1>r, <2>6, <2>7
  <2>9. resource' \in [marked : Int, used : Int]
    <3>1. resource' = resource \/ resource' = [resource EXCEPT !.used = @ + rt[i].mem]
      BY <1>6 DEF InitRuntime
    <3>2. rt[i].mem \in Nat
      BY <1>t DEF RuntimeInfos
    <3>. QED  BY <3>1, <3>2 DEF TypeOK
  <2>. QED  BY <1>6, <2>5, <2>8, <2>9 DEF InitRuntime, TypeOK
<1>7. CASE RefuseRuntime(i)
  <2>1. [conn[i] EXCEPT !.pend = NoCommit, !.dead = FALSE] \in Conns
    BY <1>c, PendingType
  <2>. QED  BY <1>7, <1>u, <2>1 DEF RefuseRuntime, TypeOK
<1>8. CASE IncreaseUsed(i)
  <2>1. conn[i].incs \in Nat /\ conn[i].incs > 0
    BY <1>8, <1>c DEF IncreaseUsed, Conns
  <2>2. [conn[i] EXCEPT !.incs = @ - 1] \in Conns
    BY <1>c, <2>1 DEF Conns
  <2>3. resource' \in [marked : Int, used : Int]
    <3>1. rt[i].mem \in Nat
      BY <1>t DEF RuntimeInfos
    <3>. QED  BY <1>8, <3>1 DEF IncreaseUsed, TypeOK
  <2>. QED  BY <1>8, <1>u, <2>2, <2>3 DEF IncreaseUsed, TypeOK
<1>9. CASE StopRuntime(i)
  <2>1. [conn[i] EXCEPT !.session = "none", !.code = NoCommit] \in Conns
    BY <1>c DEF Conns
  <2>2. stopRuntimeSet(rt[i]) \in RuntimeInfos
    <3>1. 0 \in Uint
      BY UintSpanAssumption DEF Uint
    <3>. QED  BY <1>t, <3>1 DEF stopRuntimeSet, RuntimeInfos, RuntimeStates
  <2>. QED  BY <1>9, <1>u, <1>r, <2>1, <2>2 DEF StopRuntime, TypeOK
<1>. QED
  BY <1>1, <1>2, <1>3, <1>4, <1>5, <1>6, <1>7, <1>8, <1>9 DEF ConnStep

LEMMA EnvStepType ==
  ASSUME TypeOK, NEW i \in Runtimes, EnvStep(i)
  PROVE  TypeOK'
<1>c. conn[i] \in Conns
  BY DEF TypeOK
<1>t. rt[i] \in RuntimeInfos
  BY DEF TypeOK
<1>u. ASSUME NEW x \in Conns
      PROVE  [conn EXCEPT ![i] = x] \in [Runtimes -> Conns]
  BY DEF TypeOK
<1>r. ASSUME NEW x \in RuntimeInfos
      PROVE  [rt EXCEPT ![i] = x] \in [Runtimes -> RuntimeInfos]
  BY DEF TypeOK
<1>f. [failures EXCEPT !.crashes = @ + 1] \in [crashes : Nat, errors : Nat]
  BY DEF TypeOK
<1>1. CASE Crash(i)
  <2>1. PICK k \in Killed(conn[i]) : conn' = [conn EXCEPT ![i] = k]
    BY <1>1 DEF Crash
  <2>2. conn' \in [Runtimes -> Conns]
    BY <1>c, <1>u, <2>1, KilledType
  <2>. QED  BY <1>1, <1>f, <2>2 DEF Crash, TypeOK
<1>2. CASE ProcessExit(i)
  <2>1. [conn[i] EXCEPT !.session = "eof"] \in Conns
    BY <1>c DEF Conns
  <2>. QED  BY <1>2, <1>u, <1>f, <2>1 DEF ProcessExit, TypeOK
<1>3. CASE GoStale(i)
  <2>1. [rt[i] EXCEPT !.stale = TRUE] \in RuntimeInfos
    BY <1>t DEF RuntimeInfos
  <2>. QED  BY <1>3, <1>r, <2>1 DEF GoStale, TypeOK
<1>4. CASE GoIdle(i)
  <2>1. [rt[i] EXCEPT !.idle = TRUE] \in RuntimeInfos
    BY <1>t DEF RuntimeInfos
  <2>. QED  BY <1>4, <1>r, <2>1 DEF GoIdle, TypeOK
<1>5. CASE ResetAges(i)
  <2>1. [rt[i] EXCEPT !.resetOld = TRUE] \in RuntimeInfos
    BY <1>t DEF RuntimeInfos
  <2>. QED  BY <1>5, <1>r, <2>1 DEF ResetAges, TypeOK
<1>. QED
  BY <1>1, <1>2, <1>3, <1>4, <1>5 DEF EnvStep

LEMMA TypeNext == TypeOK /\ [Next]_vars => TypeOK'
<1>. SUFFICES ASSUME TypeOK, [Next]_vars PROVE TypeOK'
  OBVIOUS
<1>1. ASSUME NEW q \in Requests, RequestStep(q) PROVE TypeOK'
  BY <1>1, RequestStepType
<1>2. CASE StartRound
  <2>1. CronIdle("sync") \in Crons /\ CronIdle("cool") \in Crons
    BY CronIdleType
  <2>. QED  BY <1>2, <2>1 DEF StartRound, TypeOK
<1>3. CASE StartRuntimeTask
  <2>1. CronIdle("cool") \in Crons
    BY CronIdleType
  <2>. QED  BY <1>3, <2>1 DEF StartRuntimeTask, TypeOK
<1>4. ASSUME NEW r \in Runtimes, CronStep(r) PROVE TypeOK'
  BY <1>4, CronStepType
<1>5. ASSUME NEW r \in Runtimes, ConnStep(r) PROVE TypeOK'
  BY <1>5, ConnStepType
<1>6. ASSUME NEW r \in Runtimes, EnvStep(r) PROVE TypeOK'
  BY <1>6, EnvStepType
<1>7. CASE UNCHANGED vars
  BY <1>7 DEF vars, TypeOK
<1>. QED  BY <1>1, <1>2, <1>3, <1>4, <1>5, <1>6, <1>7 DEF Next

\* Whatever the environment does, every variable keeps its type; in particular a
\* scan of rtArray stays within its bounds and Concurrency within a uint64.
THEOREM TypeCorrect == Spec => []TypeOK
<1>1. Init => TypeOK
  BY TypeInit
<1>2. TypeOK /\ [Next]_vars => TypeOK'
  BY TypeNext
<1>. QED  BY <1>1, <1>2, PTL DEF Spec

-----------------------------------------------------------------------------
(* RightCode is inductive. Only initRuntime makes a runtime warm and only  *)
(* stopRuntime ends a session; every other step is "quiet": it makes no    *)
(* runtime warm, gives no warm runtime another commit, ends no session and *)
(* replaces no process.                                                    *)

NoWarmer(i, j) ==
  j.state = "warm" => i.state = "warm" /\ j.commit \in {i.commit, NoCommit}

SameSession(c, d) == d.code = c.code /\ (c.session # "none" => d.session # "none")

RtQuiet == \A r \in Runtimes : NoWarmer(rt[r], rt'[r])
ConnQuiet == \A r \in Runtimes : SameSession(conn[r], conn'[r])

LEMMA QuietStep ==
  ASSUME RightCode, RtQuiet, ConnQuiet
  PROVE  RightCode'
  BY DEF RightCode, RtQuiet, ConnQuiet, NoWarmer, SameSession

LEMMA QuietRequestEvents ==
  ASSUME NEW i \in RuntimeInfos, NEW f, NEW mem
  PROVE  /\ NoWarmer(i, opMarkSet(i))
         /\ NoWarmer(i, opOccupySet(i, f, mem))
         /\ NoWarmer(i, opMergedSet(i, f))
         /\ NoWarmer(i, opRollbackSet(i))
         /\ NoWarmer(i, Release(i))
         /\ NoWarmer(i, Invalidate(i))
  BY DEF NoWarmer, RuntimeInfos, opMarkSet, opOccupySet, opMergedSet, opRollbackSet,
         Release, Invalidate

LEMMA QuietOtherEvents ==
  ASSUME NEW i \in RuntimeInfos
  PROVE  /\ NoWarmer(i, i)
         /\ NoWarmer(i, opRetrieveSet(i))
         /\ NoWarmer(i, opStopSet(i))
         /\ NoWarmer(i, opResetSet(i))
         /\ NoWarmer(i, initRunnerSet(i))
         /\ NoWarmer(i, stopRunnerSet(i))
  BY DEF NoWarmer, RuntimeInfos, opRetrieveSet, opStopSet, opResetSet,
         initRunnerSet, stopRunnerSet

LEMMA QuietKill ==
  ASSUME NEW c \in Conns, NEW k \in Killed(c)
  PROVE  SameSession(c, k) /\ SameSession(c, [k EXCEPT !.dial = "dialing"])
  BY DEF Killed, Conns, SameSession

\* A step that replaces the record of one runtime by one that is no warmer.
LEMMA QuietRt ==
  ASSUME TypeOK, NEW i, NEW x, i \in Runtimes => NoWarmer(rt[i], x),
         rt' = rt \/ rt' = [rt EXCEPT ![i] = x]
  PROVE  RtQuiet
  BY DEF TypeOK, RtQuiet, NoWarmer

LEMMA QuietConn ==
  ASSUME TypeOK, NEW i, NEW x, i \in Runtimes => SameSession(conn[i], x),
         conn' = conn \/ conn' = [conn EXCEPT ![i] = x]
  PROVE  ConnQuiet
  BY DEF TypeOK, ConnQuiet, SameSession

LEMMA RightCodeRequest ==
  ASSUME TypeOK, RightCode, NEW q \in Requests, RequestStep(q)
  PROVE  RightCode'
<1>t. \A i \in Runtimes : rt[i] \in RuntimeInfos /\ conn[i] \in Conns
  BY DEF TypeOK
<1>e. ASSUME NEW i \in Runtimes, NEW f, NEW mem
      PROVE  /\ NoWarmer(rt[i], opMarkSet(rt[i]))
             /\ NoWarmer(rt[i], opOccupySet(rt[i], f, mem))
             /\ NoWarmer(rt[i], opMergedSet(rt[i], f))
             /\ NoWarmer(rt[i], opRollbackSet(rt[i]))
             /\ NoWarmer(rt[i], Release(rt[i]))
             /\ NoWarmer(rt[i], Invalidate(rt[i]))
  BY <1>t, QuietRequestEvents
<1>w. ASSUME NEW i \in Runtimes
      PROVE  /\ SameSession(conn[i], [conn[i] EXCEPT !.pend = Fn(q), !.dead = FALSE])
             /\ NoWarmer(rt[i], [rt[i] EXCEPT !.cmode = FALSE])
  BY <1>t DEF SameSession, Conns, NoWarmer, RuntimeInfos
<1>rt. RtQuiet
  <2>1. CASE rt' = rt
    BY <2>1 DEF RtQuiet, NoWarmer
  <2>2. CASE FindWarm(q)
    <3>1. rt' = rt \/ rt' = [rt EXCEPT ![req[q].idx] = opMarkSet(rt[req[q].idx])]
      BY <2>2 DEF FindWarm
    <3>. QED  BY <1>e, <3>1, QuietRt
  <2>3. CASE Occupy(q)
    <3>1. \/ rt' = rt
          \/ rt' = [rt EXCEPT ![req[q].idx] = opOccupySet(rt[req[q].idx], Fn(q), Mem(q))]
      BY <2>3 DEF Occupy
    <3>. QED  BY <1>e, <3>1, QuietRt
  <2>4. CASE Merge(q)
    <3>1. rt' = rt \/ rt' = [rt EXCEPT ![req[q].idx] = opMergedSet(rt[req[q].idx], Fn(q))]
      BY <2>4 DEF Merge
    <3>. QED  BY <1>e, <3>1, QuietRt
  <2>5. CASE Rollback(q)
    <3>1. \E i : rt' = rt \/ rt' = [rt EXCEPT ![i] = opRollbackSet(rt[i])]
      BY <2>5 DEF Rollback
    <3>. QED  BY <1>e, <3>1, QuietRt
  <2>6. CASE WarmUp(q)
    <3>1. rt' = rt \/ rt' = [rt EXCEPT ![req[q].rt] = [rt[req[q].rt] EXCEPT !.cmode = FALSE]]
      BY <2>6 DEF WarmUp
    <3>. QED  BY <1>w, <3>1, QuietRt
  <2>7. CASE WarmUpFails(q)
    <3>1. rt' = [rt EXCEPT ![req[q].rt] = Invalidate(rt[req[q].rt])]
      BY <2>7 DEF WarmUpFails
    <3>. QED  BY <1>e, <3>1, QuietRt
  <2>8. CASE Drop(q) \/ PutRuntime(q)
    <3>1. rt' = [rt EXCEPT ![req[q].rt] = Release(rt[req[q].rt])]
      BY <2>8 DEF Drop, PutRuntime
    <3>. QED  BY <1>e, <3>1, QuietRt
  <2>. QED
    BY <2>1, <2>2, <2>3, <2>4, <2>5, <2>6, <2>7, <2>8
       DEF RequestStep, CheckResource, MarkResource, UnmarkResource, StartInvoke, GiveUp,
           FinishInvoke
<1>conn. ConnQuiet
  <2>1. CASE conn' = conn
    BY <2>1 DEF ConnQuiet, SameSession
  <2>2. CASE WarmUp(q) \/ WarmUpFails(q)
    <3>1. \/ conn' = conn
          \/ conn' = [conn EXCEPT ![req[q].rt] = [conn[req[q].rt] EXCEPT !.pend = Fn(q), !.dead = FALSE]]
      BY <2>2 DEF WarmUp, WarmUpFails
    <3>. QED  BY <1>w, <3>1, QuietConn
  <2>. QED
    BY <2>1, <2>2
       DEF RequestStep, FindWarm, CheckResource, MarkResource, Occupy, Merge, Rollback,
           UnmarkResource, Drop, StartInvoke, GiveUp, FinishInvoke, PutRuntime
<1>. QED  BY <1>rt, <1>conn, QuietStep

LEMMA RightCodeCron ==
  ASSUME TypeOK, RightCode, NEW r \in Runtimes, CronStep(r)
  PROVE  RightCode'
<1>t. \A i \in Runtimes : rt[i] \in RuntimeInfos /\ conn[i] \in Conns
  BY DEF TypeOK
<1>e. ASSUME NEW i \in Runtimes
      PROVE  /\ NoWarmer(rt[i], rt[i])
             /\ NoWarmer(rt[i], opRetrieveSet(rt[i]))
             /\ NoWarmer(rt[i], opStopSet(rt[i]))
             /\ NoWarmer(rt[i], opResetSet(rt[i]))
             /\ NoWarmer(rt[i], Invalidate(rt[i]))
             /\ NoWarmer(rt[i], [rt[i] EXCEPT !.mem = BaseMemory])
             /\ \A u, m : NoWarmer(rt[i], [rt[i] EXCEPT !.used = u, !.marked = m])
  <2>1. /\ NoWarmer(rt[i], [rt[i] EXCEPT !.mem = BaseMemory])
        /\ \A u, m : NoWarmer(rt[i], [rt[i] EXCEPT !.used = u, !.marked = m])
    BY <1>t DEF NoWarmer, RuntimeInfos
  <2>. QED  BY <1>t, <2>1, QuietOtherEvents, QuietRequestEvents
<1>rt. RtQuiet
  <2>1. CASE rt' = rt
    BY <2>1 DEF RtQuiet, NoWarmer
  <2>2. CASE SyncWrite(r)
    <3>1. rt' = [rt EXCEPT ![r] = [rt[r] EXCEPT !.mem = BaseMemory]]
      BY <2>2 DEF SyncWrite
    <3>. QED  BY <1>e, <3>1, QuietRt
  <2>3. CASE CoolDown(r)
    BY <1>e, <2>3, QuietRt DEF CoolDown
  <2>4. CASE Reborn(r)
    BY <1>e, <2>4, QuietRt DEF Reborn
  <2>5. CASE Retrieve(r)
    <3>1. rt' = rt \/ rt' = [rt EXCEPT ![cron[r].idx] = opRetrieveSet(rt[cron[r].idx])]
      BY <2>5 DEF Retrieve
    <3>. QED  BY <1>e, <3>1, QuietRt
  <2>6. CASE FuncletReturns(r)
    <3>1. \A i \in Runtimes :
             \/ rt'[i] = rt[i] \/ rt'[i] = Invalidate(rt[i])
             \/ \E u, m : rt'[i] = [rt[i] EXCEPT !.used = u, !.marked = m]
      BY <2>6 DEF FuncletReturns
    <3>2. ASSUME NEW i \in Runtimes PROVE NoWarmer(rt[i], rt'[i])
      <4>1. CASE \E u, m : rt'[i] = [rt[i] EXCEPT !.used = u, !.marked = m]
        <5>1. PICK u, m : rt'[i] = [rt[i] EXCEPT !.used = u, !.marked = m]
          BY <4>1
        <5>. QED  BY <1>t, <5>1 DEF NoWarmer, RuntimeInfos
      <4>. QED  BY <1>e, <3>1, <4>1
    <3>. QED  BY <3>2 DEF RtQuiet
  <2>7. CASE FuncletFails(r)
    <3>1. \A i \in Runtimes : rt'[i] = rt[i] \/ rt'[i] = Invalidate(rt[i])
      BY <2>7 DEF FuncletFails
    <3>. QED  BY <1>e, <3>1 DEF RtQuiet
  <2>. QED
    BY <2>1, <2>2, <2>3, <2>4, <2>5, <2>6, <2>7
       DEF CronStep, SyncCheck, EndRound, RebootBegin, FuncletReset
<1>conn. ConnQuiet
  <2>1. CASE conn' = conn
    BY <2>1 DEF ConnQuiet, SameSession
  <2>2. ASSUME NEW i \in Runtimes, FuncletReset(r, i) PROVE ConnQuiet
    <3>1. PICK k \in Killed(conn[i]) : conn' = [conn EXCEPT ![i] = [k EXCEPT !.dial = "dialing"]]
      BY <2>2 DEF FuncletReset
    <3>2. SameSession(conn[i], [k EXCEPT !.dial = "dialing"])
      BY <1>t, QuietKill
    <3>. QED  BY <3>1, <3>2, QuietConn
  <2>. QED
    BY <2>1, <2>2
       DEF CronStep, SyncCheck, SyncWrite, CoolDown, Reborn, Retrieve, EndRound, RebootBegin,
           FuncletReturns, FuncletFails
<1>. QED  BY <1>rt, <1>conn, QuietStep

LEMMA RightCodeConn ==
  ASSUME TypeOK, RightCode, NEW i \in Runtimes, ConnStep(i)
  PROVE  RightCode'
<1>t. rt[i] \in RuntimeInfos /\ conn[i] \in Conns
  BY DEF TypeOK
<1>e. /\ NoWarmer(rt[i], rt[i]) /\ NoWarmer(rt[i], stopRunnerSet(rt[i]))
      /\ \A stale : NoWarmer(rt[i], [initRunnerSet(rt[i]) EXCEPT !.stale = stale])
      /\ NoWarmer(rt[i], [rt[i] EXCEPT !.stale = FALSE])
  BY <1>t DEF NoWarmer, RuntimeInfos, stopRunnerSet, initRunnerSet
<1>1. CASE InitRuntime(i)
  <2>. DEFINE f == conn[i].pend
  <2>1. PICK concurrent \in BOOLEAN : rt' = [rt EXCEPT ![i] = initRuntimeSet(rt[i], f, concurrent)]
    BY <1>1 DEF InitRuntime
  <2>2. initRuntimeSet(rt[i], f, concurrent).commit = f
    <3>1. rt[i].commit \in {NoCommit, f}
      BY <1>1 DEF InitRuntime, initRuntimeCheck
    <3>. HIDE DEF f
    <3>. QED  BY <1>t, <3>1 DEF initRuntimeSet, RuntimeInfos
  <2>3. conn'[i].session # "none" /\ conn'[i].code = f
    <3>. DEFINE c == [conn[i] EXCEPT !.pend = NoCommit, !.dead = FALSE,
                                     !.session = IF conn[i].dead THEN "eof" ELSE "live", !.code = f]
    <3>1. conn'[i] = c \/ conn'[i] = [c EXCEPT !.incs = @ + 1]
      BY <1>1 DEF InitRuntime, TypeOK
    <3>2. c.session # "none" /\ c.code = f
      BY <1>t DEF Conns
    <3>3. [c EXCEPT !.incs = @ + 1].session = c.session /\ [c EXCEPT !.incs = @ + 1].code = c.code
      BY <1>t DEF Conns
    <3>. HIDE DEF c
    <3>. QED  BY <3>1, <3>2, <3>3
  <2>4. \A r \in Runtimes \ {i} : rt'[r] = rt[r] /\ conn'[r] = conn[r]
    BY <1>1, <2>1 DEF InitRuntime, TypeOK
  <2>5. rt'[i].commit = f
    BY <2>1, <2>2 DEF TypeOK
  <2>. QED  BY <2>3, <2>4, <2>5 DEF RightCode
<1>2. CASE StopRuntime(i)
  <2>1. rt'[i].state = "stopped"
    BY <1>2, <1>t DEF StopRuntime, stopRuntimeSet, RuntimeInfos, TypeOK
  <2>2. \A r \in Runtimes \ {i} : rt'[r] = rt[r] /\ conn'[r] = conn[r]
    BY <1>2 DEF StopRuntime, TypeOK
  <2>. QED  BY <2>1, <2>2 DEF RightCode
<1>3. CASE ~InitRuntime(i) /\ ~StopRuntime(i)
  <2>rt. RtQuiet
    <3>1. CASE rt' = rt
      BY <3>1 DEF RtQuiet, NoWarmer
    <3>2. CASE InitRunner(i)
      <4>1. \/ rt' = rt
            \/ \E stale : rt' = [rt EXCEPT ![i] = [initRunnerSet(rt[i]) EXCEPT !.stale = stale]]
        BY <3>2 DEF InitRunner
      <4>. QED  BY <1>e, <4>1, <3>1, QuietRt
    <3>3. CASE RunnerUpdate(i)
      BY <1>e, <3>3, QuietRt DEF RunnerUpdate
    <3>4. CASE StopRunner(i)
      BY <1>e, <3>4, QuietRt DEF StopRunner
    <3>. QED
      BY <1>3, <3>1, <3>2, <3>3, <3>4
         DEF ConnStep, RebootWait, StopRunnerWait, RefuseRuntime, IncreaseUsed
  <2>conn. ConnQuiet
    <3>1. CASE conn' = conn
      BY <3>1 DEF ConnQuiet, SameSession
    <3>2. ASSUME conn' # conn PROVE SameSession(conn[i], conn'[i])
      <4>1. /\ conn'[i].code = conn[i].code
            /\ conn'[i].session = conn[i].session
        <5>1. CASE RebootWait(i)
          BY <5>1, <1>t DEF RebootWait, TypeOK, Conns
        <5>2. CASE InitRunner(i)
          <6>1. \/ conn'[i] = [conn[i] EXCEPT !.dial = "none"]
                \/ conn'[i] = [conn[i] EXCEPT !.dial = "none", !.runner = "live"]
            BY <5>2 DEF InitRunner, TypeOK
          <6>. QED  BY <6>1, <1>t DEF Conns
        <5>3. CASE StopRunnerWait(i) \/ StopRunner(i)
          BY <5>3, <1>t DEF StopRunnerWait, StopRunner, TypeOK, Conns
        <5>4. CASE RefuseRuntime(i)
          BY <5>4, <1>t DEF RefuseRuntime, TypeOK, Conns
        <5>5. CASE IncreaseUsed(i)
          BY <5>5, <1>t DEF IncreaseUsed, TypeOK, Conns
        <5>. QED
          BY <1>3, <3>2, <5>1, <5>2, <5>3, <5>4, <5>5 DEF ConnStep, RunnerUpdate
      <4>. QED  BY <4>1 DEF SameSession
    <3>3. \A r \in Runtimes \ {i} : conn'[r] = conn[r]
      BY <1>3
         DEF ConnStep, RebootWait, InitRunner, RunnerUpdate, StopRunnerWait, StopRunner,
             RefuseRuntime, IncreaseUsed, TypeOK
    <3>. QED  BY <3>1, <3>2, <3>3 DEF ConnQuiet, SameSession
  <2>. QED  BY <2>rt, <2>conn, QuietStep
<1>. QED  BY <1>1, <1>2, <1>3

LEMMA RightCodeEnv ==
  ASSUME TypeOK, RightCode, NEW i \in Runtimes, EnvStep(i)
  PROVE  RightCode'
<1>t. rt[i] \in RuntimeInfos /\ conn[i] \in Conns
  BY DEF TypeOK
<1>1. CASE Crash(i)
  <2>1. PICK k \in Killed(conn[i]) : conn' = [conn EXCEPT ![i] = k]
    BY <1>1 DEF Crash
  <2>2. ConnQuiet
    BY <1>t, <2>1, QuietKill, QuietConn
  <2>3. RtQuiet
    BY <1>1 DEF Crash, RtQuiet, NoWarmer
  <2>. QED  BY <2>2, <2>3, QuietStep
<1>2. CASE ProcessExit(i)
  <2>1. SameSession(conn[i], [conn[i] EXCEPT !.session = "eof"])
    BY <1>t DEF SameSession, Conns
  <2>2. ConnQuiet
    BY <1>2, <2>1, QuietConn DEF ProcessExit
  <2>3. RtQuiet
    BY <1>2 DEF ProcessExit, RtQuiet, NoWarmer
  <2>. QED  BY <2>2, <2>3, QuietStep
<1>3. CASE GoStale(i) \/ GoIdle(i) \/ ResetAges(i)
  <2>1. /\ NoWarmer(rt[i], [rt[i] EXCEPT !.stale = TRUE])
        /\ NoWarmer(rt[i], [rt[i] EXCEPT !.idle = TRUE])
        /\ NoWarmer(rt[i], [rt[i] EXCEPT !.resetOld = TRUE])
    BY <1>t DEF NoWarmer, RuntimeInfos
  <2>2. RtQuiet
    BY <1>3, <2>1, QuietRt DEF GoStale, GoIdle, ResetAges
  <2>3. ConnQuiet
    BY <1>3 DEF GoStale, GoIdle, ResetAges, ConnQuiet, SameSession
  <2>. QED  BY <2>2, <2>3, QuietStep
<1>. QED  BY <1>1, <1>2, <1>3 DEF EnvStep

\* A warm runtime has a session and answers for the commit that runs in it, under
\* every combination of crashes, failed calls, late handlers and silent runners:
\* no request that waitRuntime lets through reaches another function's process.
THEOREM RightCodeAlways == Spec => []RightCode
<1>1. Init => RightCode
  BY DEF Init, RightCode, NewRuntimeInfo
<1>2. TypeOK /\ RightCode /\ [Next]_vars => RightCode'
  <2>. SUFFICES ASSUME TypeOK, RightCode, [Next]_vars PROVE RightCode'
    OBVIOUS
  <2>1. ASSUME NEW q \in Requests, RequestStep(q) PROVE RightCode'
    BY <2>1, RightCodeRequest
  <2>2. CASE StartRound \/ StartRuntimeTask \/ UNCHANGED vars
    BY <2>2 DEF StartRound, StartRuntimeTask, vars, RightCode
  <2>3. ASSUME NEW r \in Runtimes, CronStep(r) PROVE RightCode'
    BY <2>3, RightCodeCron
  <2>4. ASSUME NEW r \in Runtimes, ConnStep(r) PROVE RightCode'
    BY <2>4, RightCodeConn
  <2>5. ASSUME NEW r \in Runtimes, EnvStep(r) PROVE RightCode'
    BY <2>5, RightCodeEnv
  <2>. QED  BY <2>1, <2>2, <2>3, <2>4, <2>5 DEF Next
<1>. QED  BY <1>1, <1>2, TypeCorrect, PTL DEF Spec

-----------------------------------------------------------------------------
(* RebootCounts is inductive. A step that neither starts nor ends a        *)
(* funclet call leaves the calls that hold a container as they are.        *)

Calls(i) == {r \in Runtimes : cron[r].pc = "rpc" /\ i \in Targets(r)}

LEMMA CallsFinite == \A i : IsFiniteSet(Calls(i)) /\ IsFiniteSet(Calls(i)')
<1>1. IsFiniteSet(Runtimes)
  BY PoolAssumption, FS_Interval DEF Runtimes
<1>2. \A i : Calls(i) \subseteq Runtimes /\ Calls(i)' \subseteq Runtimes
  BY DEF Calls
<1>. QED  BY <1>1, <1>2, FS_Subset

LEMMA RebootQuiet ==
  ASSUME RebootCounts, reboot' = reboot, \A i \in Runtimes : Calls(i)' = Calls(i)
  PROVE  RebootCounts'
  BY DEF RebootCounts, Calls

\* No call is made or ended when only the record of r changes, in a step from
\* and to something else than a call.
LEMMA CallsKept ==
  ASSUME TypeOK, NEW r \in Runtimes, NEW x, cron' = [cron EXCEPT ![r] = x],
         \/ cron[r].pc # "rpc" /\ x.pc # "rpc"
         \/ x.pc = cron[r].pc /\ x.resets = cron[r].resets
  PROVE  \A i \in Runtimes : Calls(i)' = Calls(i)
<1>. SUFFICES ASSUME NEW i \in Runtimes, NEW s \in Runtimes
              PROVE  (cron'[s].pc = "rpc" /\ i \in Targets(s)') <=> (cron[s].pc = "rpc" /\ i \in Targets(s))
  BY DEF Calls
<1>1. CASE s = r
  BY <1>1 DEF TypeOK, Targets
<1>2. CASE s # r
  BY <1>2 DEF TypeOK, Targets
<1>. QED  BY <1>1, <1>2

LEMMA RebootCountsCron ==
  ASSUME TypeOK, RebootCounts, NEW r \in Runtimes, CronStep(r)
  PROVE  RebootCounts'
<1>c. cron[r] \in Crons
  BY DEF TypeOK
<1>f. \A job : Finished(job).pc # "rpc"
  BY DEF Finished, CronIdle
<1>b. \A job : Begin(r, job).pc # "rpc"
  BY DEF Begin, CronIdle
<1>1. CASE SyncCheck(r)
  <2>1. \E pc \in {"synced", "write"} : cron' = [cron EXCEPT ![r] = [cron[r] EXCEPT !.pc = pc]]
    BY <1>1 DEF SyncCheck
  <2>2. cron[r].pc # "rpc" /\ \A pc : [cron[r] EXCEPT !.pc = pc].pc = pc
    BY <1>1, <1>c DEF SyncCheck, Crons
  <2>. QED  BY <1>1, <2>1, <2>2, CallsKept, RebootQuiet DEF SyncCheck
<1>2. CASE SyncWrite(r)
  <2>1. cron' = [cron EXCEPT ![r] = [cron[r] EXCEPT !.pc = "synced"]]
    BY <1>2 DEF SyncWrite
  <2>2. cron[r].pc # "rpc" /\ [cron[r] EXCEPT !.pc = "synced"].pc = "synced"
    BY <1>2, <1>c DEF SyncWrite, Crons
  <2>. QED  BY <1>2, <2>1, <2>2, CallsKept, RebootQuiet DEF SyncWrite
<1>3. CASE CoolDown(r) \/ Reborn(r)
  <2>1. \E job : cron' = [cron EXCEPT ![r] = Begin(r, job)]
    BY <1>3 DEF CoolDown, Reborn
  <2>2. cron[r].pc # "rpc"
    BY <1>3 DEF CoolDown, Reborn, CooledDown
  <2>. QED  BY <1>3, <1>b, <2>1, <2>2, CallsKept, RebootQuiet DEF CoolDown, Reborn
<1>4. CASE EndRound(r)
  <2>1. cron' = [cron EXCEPT ![r] = Finished("reborn")] /\ cron[r].pc # "rpc"
    BY <1>4 DEF EndRound, CooledDown
  <2>. QED  BY <1>4, <1>f, <2>1, CallsKept, RebootQuiet DEF EndRound
<1>5. CASE Retrieve(r)
  <2>1. \E S, n : \/ cron' = [cron EXCEPT ![r] = [cron[r] EXCEPT !.pc = "boot", !.idx = 1, !.resets = S]]
                 \/ cron' = [cron EXCEPT ![r] = [cron[r] EXCEPT !.idx = n, !.resets = S]]
    BY <1>5 DEF Retrieve
  <2>2. /\ cron[r].pc = "scan"
        /\ \A S : [cron[r] EXCEPT !.pc = "boot", !.idx = 1, !.resets = S].pc = "boot"
        /\ \A S, n : [cron[r] EXCEPT !.idx = n, !.resets = S].pc = "scan"
    BY <1>5, <1>c DEF Retrieve, Crons
  <2>. QED  BY <1>5, <2>1, <2>2, CallsKept, RebootQuiet DEF Retrieve
<1>6. CASE RebootBegin(r)
  <2>1. cron[r].pc = "boot" /\ cron'[r].pc = "rpc" /\ cron'[r].resets = cron[r].resets
    BY <1>6, <1>c DEF RebootBegin, TypeOK, Crons
  <2>2. \A s \in Runtimes \ {r} : cron'[s] = cron[s]
    BY <1>6 DEF RebootBegin, TypeOK
  <2>3. ASSUME NEW i \in Runtimes PROVE reboot'[i] = Cardinality(Calls(i)')
    <3>1. r \notin Calls(i)
      BY <2>1 DEF Calls
    <3>2. Targets(r)' = Targets(r)
      BY <2>1 DEF Targets
    <3>3. Calls(i)' = IF i \in Targets(r) THEN Calls(i) \cup {r} ELSE Calls(i)
      BY <2>1, <2>2, <3>2 DEF Calls, Targets
    <3>4. reboot'[i] = IF i \in Targets(r) THEN reboot[i] + 1 ELSE reboot[i]
      BY <1>6 DEF RebootBegin
    <3>5. Cardinality(Calls(i) \cup {r}) = Cardinality(Calls(i)) + 1
      BY <3>1, CallsFinite, FS_AddElement
    <3>. QED  BY <3>3, <3>4, <3>5 DEF RebootCounts, Calls
  <2>. QED  BY <2>3 DEF RebootCounts, Calls
<1>7. CASE FuncletReturns(r) \/ FuncletFails(r)
  <2>1. RebootEnd(r) /\ cron[r].pc = "rpc" /\ cron' = [cron EXCEPT ![r] = Finished(cron[r].job)]
    BY <1>7 DEF FuncletReturns, FuncletFails
  <2>2. cron'[r].pc # "rpc" /\ \A s \in Runtimes \ {r} : cron'[s] = cron[s]
    BY <1>f, <2>1 DEF TypeOK
  <2>3. ASSUME NEW i \in Runtimes PROVE reboot'[i] = Cardinality(Calls(i)')
    <3>1. r \in Calls(i) <=> i \in Targets(r)
      BY <2>1 DEF Calls
    <3>2. Calls(i)' = Calls(i) \ {r}
      BY <2>2 DEF Calls, Targets
    <3>3. reboot'[i] = IF i \in Targets(r) THEN reboot[i] - 1 ELSE reboot[i]
      BY <2>1 DEF RebootEnd
    <3>4. Cardinality(Calls(i) \ {r}) =
             IF r \in Calls(i) THEN Cardinality(Calls(i)) - 1 ELSE Cardinality(Calls(i))
      BY CallsFinite, FS_RemoveElement
    <3>. QED  BY <3>1, <3>2, <3>3, <3>4 DEF RebootCounts, Calls
  <2>. QED  BY <2>3 DEF RebootCounts, Calls
<1>8. ASSUME NEW i \in Runtimes, FuncletReset(r, i) PROVE RebootCounts'
  <2>1. cron' = [cron EXCEPT ![r] = [cron[r] EXCEPT !.did = @ \cup {i}]]
    BY <1>8 DEF FuncletReset
  <2>2. /\ [cron[r] EXCEPT !.did = @ \cup {i}].pc = cron[r].pc
        /\ [cron[r] EXCEPT !.did = @ \cup {i}].resets = cron[r].resets
    BY <1>c DEF Crons
  <2>. QED  BY <1>8, <2>1, <2>2, CallsKept, RebootQuiet DEF FuncletReset
<1>. QED
  BY <1>1, <1>2, <1>3, <1>4, <1>5, <1>6, <1>7, <1>8 DEF CronStep

\* rebootWaitGroup of a container is the number of funclet calls under way that
\* reset it, however the cron goroutines of all runtimes interleave: RebootEnd
\* never panics and initRunner waits for exactly the resets of its container.
THEOREM RebootCountsAlways == Spec => []RebootCounts
<1>1. Init => RebootCounts
  <2>. SUFFICES ASSUME Init PROVE RebootCounts
    OBVIOUS
  <2>1. \A i \in Runtimes : Calls(i) = {}
    BY DEF Init, Calls, CronIdle
  <2>. QED  BY <2>1, FS_EmptySet DEF RebootCounts, Calls, Init
<1>2. TypeOK /\ RebootCounts /\ [Next]_vars => RebootCounts'
  <2>. SUFFICES ASSUME TypeOK, RebootCounts, [Next]_vars PROVE RebootCounts'
    OBVIOUS
  <2>1. CASE cron' = cron /\ reboot' = reboot
    BY <2>1, RebootQuiet DEF Calls, Targets
  <2>2. CASE StartRound \/ StartRuntimeTask
    <3>1. \A i \in Runtimes : Calls(i) = {} /\ Calls(i)' = {}
      BY <2>2 DEF StartRound, StartRuntimeTask, Calls, CronIdle
    <3>. QED  BY <2>2, <3>1, RebootQuiet DEF StartRound, StartRuntimeTask
  <2>3. ASSUME NEW r \in Runtimes, CronStep(r) PROVE RebootCounts'
    BY <2>3, RebootCountsCron
  <2>4. ASSUME NEW q \in Requests, RequestStep(q) PROVE cron' = cron /\ reboot' = reboot
    BY <2>4
       DEF RequestStep, FindWarm, CheckResource, MarkResource, Occupy, Merge, Rollback,
           UnmarkResource, WarmUp, WarmUpFails, Drop, StartInvoke, GiveUp, FinishInvoke, PutRuntime
  <2>5. ASSUME NEW r \in Runtimes, ConnStep(r) \/ EnvStep(r) PROVE cron' = cron /\ reboot' = reboot
    BY <2>5
       DEF ConnStep, EnvStep, RebootWait, InitRunner, RunnerUpdate, StopRunnerWait, StopRunner,
           InitRuntime, RefuseRuntime, IncreaseUsed, StopRuntime, Crash, ProcessExit, GoStale,
           GoIdle, ResetAges
  <2>6. CASE UNCHANGED vars
    BY <2>1, <2>6 DEF vars
  <2>. QED  BY <2>1, <2>2, <2>3, <2>4, <2>5, <2>6 DEF Next
<1>. QED  BY <1>1, <1>2, TypeCorrect, PTL DEF Spec

-----------------------------------------------------------------------------
(* A prompt environment *)

Prompt == Faults = {}

Resetting == {"scan", "boot", "rpc"}
Job(r) == cron[r].pc \in Resetting

\* States in which a container may be reset, and a new runner be on its way.
Leaving == {"warmup", "stopping", "stopped", "closed", "reclaiming"}

\* How the record of a runtime, its connections and the cron task's work on it fit together.
Shape(i, c, pc) ==
  /\ c.runner # "waited" /\ c.dial # "waited" /\ c.dead = FALSE /\ c.incs = 0
  /\ c.session # "none" => i.state \in {"warm", "stopping"}
  /\ i.state = "warm" => c.session # "none" /\ i.commit # NoCommit /\ ~i.abnormal
  /\ c.pend # NoCommit => /\ i.state = "warmup" /\ i.commit = c.pend /\ ~i.abnormal
                          /\ c.runner = "live"
  /\ c.runner = "live" => /\ i.state # "closed" /\ (i.stale => i.state = "reclaiming")
                          /\ i.state = "warmup" => i.commit # NoCommit
  /\ i.state = "cold" => i.commit = NoCommit /\ ~i.abnormal
  /\ i.state = "merged" => ~i.abnormal
  /\ i.state = "reclaiming" => i.commit = NoCommit
  /\ i.state \in {"stopping", "stopped", "reclaiming"} => i.conc = 0
  /\ c.dial # "none" \/ pc \in Resetting => i.commit = NoCommit /\ i.conc = 0 /\ i.state \in Leaving
  /\ i.cmode => DefaultConcurrentMode

-----------------------------------------------------------------------------
(* The invariant *)

Holding == {"merge", "rollback", "warmup", "drop", "wait", "run", "put"}
Owning == {"merge", "rollback", "warmup"}
Scaling == {"merge", "rollback"}

\* Requests that Concurrency can be compared with: those of runtimes that serve a function, or
\* can be given to one.
Exact(i) == InUse(i) \/ i.state \in {"cold", "merged"}

\* What QuotaRespected allows.
MaxOf(f) == IF QuotaOf[f] = 0 \/ ~DefaultConcurrentMode THEN 1 ELSE QuotaOf[f]
HoldersOf(r, f) == {q \in Holders(r) : Fn(q) = f}

\* Concurrency, and the room that the quotas leave.
Counts(r) ==
  /\ Exact(rt[r]) => rt[r].conc = Cardinality(Holders(r))
  /\ \A f \in Functions :
       /\ Cardinality(HoldersOf(r, f)) <= MaxOf(f)
       /\ rt[r].state \in {"cold", "merged"} => Cardinality(HoldersOf(r, f)) < MaxOf(f)

\* The request that occupied a container has it alone until WarmUp, although others may
\* have marked it, and although it may crash and be reset.
Owner(q, i, c) ==
  /\ i.state \in {"warmup", "closed"} /\ c.pend = NoCommit
  /\ c.runner = "live" => i.commit = Fn(q)
  /\ i.state = "warmup" => i.commit \in {NoCommit, Fn(q)} /\ (i.commit = Fn(q) => ~i.abnormal)

Owned(q) ==
  req[q].pc \in Owning =>
    /\ Owner(q, rt[req[q].rt], conn[req[q].rt])
    /\ \A f \in Functions \ {Fn(q)} : Cardinality(HoldersOf(req[q].rt, f)) < MaxOf(f)

\* Merged containers wait for the rollback of their list, unless the cron task retrieved them.
Listed(q) ==
  req[q].pc \in Scaling => \A k \in 1..Len(req[q].merged) : rt[req[q].merged[k]].state \in {"merged", "reclaiming"}

Apart ==
  /\ \A p, q \in Requests : p # q /\ req[p].pc \in Owning /\ req[q].pc \in Owning => req[p].rt # req[q].rt
  /\ \A p, q \in Requests : req[p].pc \in Scaling /\ req[q].pc \in Scaling =>
       \A j \in 1..Len(req[p].merged), k \in 1..Len(req[q].merged) :
         req[p].merged[j] = req[q].merged[k] => p = q /\ j = k

Held ==
  \A q \in Requests : /\ req[q].rt # 0 <=> req[q].pc \in Holding
                      /\ req[q].pc \in {"find", "check", "mark", "occupy"} => req[q].merged = << >>

\* What the scan of coolDown and reborn has retrieved stays retrieved.
Retrieved == \A r \in Runtimes : Job(r) => \A i \in cron[r].resets : rt[i].state = "reclaiming"

Shapes == \A r \in Runtimes : Shape(rt[r], conn[r], cron[r].pc)

PoolInv ==
  /\ Shapes /\ Retrieved /\ Held /\ Apart
  /\ \A r \in Runtimes : Counts(r)
  /\ \A q \in Requests : Owned(q) /\ Listed(q)

\* Enough values of Concurrency for all requests.
FewRequests == IsFiniteSet(Requests) /\ Cardinality(Requests) < UintSpan

LEMMA HoldersFinite ==
  ASSUME FewRequests, NEW r, NEW f
  PROVE  /\ IsFiniteSet(Holders(r)) /\ IsFiniteSet(HoldersOf(r, f))
         /\ Cardinality(Holders(r)) \in Nat /\ Cardinality(HoldersOf(r, f)) \in Nat
         /\ Cardinality(HoldersOf(r, f)) <= Cardinality(Holders(r))
<1>1. Holders(r) \subseteq Requests /\ HoldersOf(r, f) \subseteq Holders(r)
  BY DEF Holders, HoldersOf
<1>2. IsFiniteSet(Holders(r))
  BY <1>1, FS_Subset DEF FewRequests
<1>. QED  BY <1>1, <1>2, FS_Subset, FS_CardinalityType

\* What leaves Counts true.
Even(i, j) ==
  /\ Exact(j) => Exact(i) /\ j.conc = i.conc
  /\ j.state \in {"cold", "merged"} => i.state \in {"cold", "merged"}

\* What leaves Owned and Listed true.
Still(i, j, c, d) ==
  /\ i.state = "merged" => j.state \in {"merged", "reclaiming"}
  /\ i.state = "reclaiming" => j.state = "reclaiming"
  /\ d.pend \in {c.pend, NoCommit}
  /\ i.state \in {"warmup", "closed"} /\ c.pend = NoCommit =>
       /\ j.state \in {"warmup", "closed"}
       /\ d.runner = "live" => c.runner = "live" /\ j.commit = i.commit
       /\ j.state = "warmup" => /\ i.state = "warmup" /\ j.commit \in {i.commit, NoCommit}
                                /\ j.commit # NoCommit => j.abnormal = i.abnormal

\* A step of another process may do this to a runtime, whoever holds it.
Calm(i, j, c, d) == Even(i, j) /\ Still(i, j, c, d)

LEMMA HeldRuntime ==
  ASSUME TypeOK, PoolInv, NEW q \in Requests, req[q].pc \in Holding
  PROVE  req[q].rt \in Runtimes /\ q \in Holders(req[q].rt)
<1>1. req[q].rt # 0
  BY DEF PoolInv, Held
<1>2. req[q].rt \in 0 .. NumRuntimes /\ NumRuntimes \in Nat
  BY PoolAssumption DEF TypeOK, Reqs
<1>. QED  BY <1>1, <1>2 DEF Runtimes, Holders

LEMMA FunctionsOfRequests == \A q \in Requests : Fn(q) \in Functions /\ Fn(q) # NoCommit
  BY PoolAssumption, NoCommitAssumption DEF Fn

LEMMA CountsStep ==
  ASSUME NEW r \in Runtimes, PoolInv, Even(rt[r], rt'[r]), Holders(r)' = Holders(r)
  PROVE  Counts(r)'
<1>1. \A f : HoldersOf(r, f)' = HoldersOf(r, f)
  BY DEF HoldersOf, Fn
<1>2. Counts(r)
  BY DEF PoolInv
<1>. QED  BY <1>1, <1>2 DEF Counts, Even

LEMMA OwnedStep ==
  ASSUME TypeOK, PoolInv, NEW q \in Requests, NEW r, r = req[q].rt,
         req'[q].rt = r, req'[q].pc \in Owning => req[q].pc \in Owning,
         req[q].pc \in Owning =>
           /\ Still(rt[r], rt'[r], conn[r], conn'[r])
           /\ \A f \in Functions \ {Fn(q)} : Cardinality(HoldersOf(r, f)') < MaxOf(f)
  PROVE  Owned(q)'
<1>. SUFFICES ASSUME req[q].pc \in Owning PROVE Owned(q)'
  BY DEF Owned
<1>1. Owner(q, rt[r], conn[r])
  BY DEF PoolInv, Owned
<1>2. Owner(q, rt'[r], conn'[r])
  BY <1>1, FunctionsOfRequests DEF Owner, Still
<1>. QED  BY <1>2 DEF Owned, Owner, Fn

\* Nothing moves for the owner.
LEMMA OwnedKept ==
  ASSUME TypeOK, PoolInv, NEW q \in Requests, NEW r, r = req[q].rt,
         req'[q].rt = r, req'[q].pc \in Owning => req[q].pc \in Owning,
         req[q].pc \in Owning =>
           Still(rt[r], rt'[r], conn[r], conn'[r]) /\ Holders(r)' = Holders(r)
  PROVE  Owned(q)'
<1>. SUFFICES ASSUME req[q].pc \in Owning PROVE Owned(q)'
  BY DEF Owned
<1>1. \A f : HoldersOf(r, f)' = HoldersOf(r, f)
  BY DEF HoldersOf, Fn
<1>2. \A f \in Functions \ {Fn(q)} : Cardinality(HoldersOf(r, f)') < MaxOf(f)
  BY <1>1 DEF PoolInv, Owned
<1>. QED  BY <1>2, OwnedStep

LEMMA ListedStep ==
  ASSUME TypeOK, PoolInv, NEW q \in Requests, req'[q].merged = req[q].merged,
         req'[q].pc \in Scaling => req[q].pc \in Scaling,
         \A r \in Runtimes : rt[r].state \in {"merged", "reclaiming"} => rt'[r].state \in {"merged", "reclaiming"}
  PROVE  Listed(q)'
<1>. SUFFICES ASSUME req[q].pc \in Scaling, NEW k \in 1..Len(req[q].merged)
              PROVE  rt'[req[q].merged[k]].state \in {"merged", "reclaiming"}
  BY DEF Listed
<1>1. req[q].merged[k] \in Runtimes
  BY DEF TypeOK, Reqs
<1>2. rt[req[q].merged[k]].state \in {"merged", "reclaiming"}
  BY DEF PoolInv, Listed
<1>. QED  BY <1>1, <1>2

LEMMA CalmStep ==
  ASSUME TypeOK, PoolInv, req' = req,
         \A r \in Runtimes : Calm(rt[r], rt'[r], conn[r], conn'[r])
  PROVE  /\ Held' /\ Apart'
         /\ \A r \in Runtimes : Counts(r)'
         /\ \A q \in Requests : Owned(q)' /\ Listed(q)'
<1>1. \A r : Holders(r)' = Holders(r)
  BY DEF Holders
<1>2. \A r \in Runtimes : Counts(r)'
  BY <1>1, CountsStep DEF Calm
<1>3. ASSUME NEW q \in Requests PROVE Owned(q)'
  <2>1. req[q].pc \in Owning => req[q].rt \in Runtimes
    BY HeldRuntime DEF Owning, Holding
  <2>2. req[q].pc \in Owning => Still(rt[req[q].rt], rt'[req[q].rt], conn[req[q].rt], conn'[req[q].rt])
    BY <2>1 DEF Calm
  <2>. QED  BY <1>1, <2>2, OwnedKept
<1>4. ASSUME NEW q \in Requests PROVE Listed(q)'
  <2>1. \A r \in Runtimes : rt[r].state \in {"merged", "reclaiming"} => rt'[r].state \in {"merged", "reclaiming"}
    BY DEF Calm, Still
  <2>. QED  BY <2>1, ListedStep
<1>. QED  BY <1>2, <1>3, <1>4 DEF PoolInv, Held, Apart

\* What the environment and the handlers of connections do to a runtime.
ConnectionEvent(i, j, c, d) ==
  \/ j = i /\ d = [c EXCEPT !.dial = "none"]
  \/ j \in {[i EXCEPT !.stale = FALSE], [i EXCEPT !.idle = TRUE], [i EXCEPT !.resetOld = TRUE]} /\ d = c
  \/ /\ j = [i EXCEPT !.stale = TRUE] /\ d = c
     /\ IsRunnerDefunct(j) /\ (c.runner # "live" \/ i.state \in {"merged", "reclaiming"})
  \/ j = stopRunnerSet(i) /\ d = [c EXCEPT !.runner = "none"] /\ c.runner = "eof" /\ c.session = "none"
  \/ j = stopRuntimeSet(i) /\ d = [c EXCEPT !.session = "none", !.code = NoCommit] /\ c.session = "eof"
  \/ j = i /\ d = [c EXCEPT !.pend = NoCommit, !.dead = FALSE]
  \/ /\ \E concurrent \in BOOLEAN : j = initRuntimeSet(i, c.pend, concurrent)
     /\ d = [c EXCEPT !.pend = NoCommit, !.dead = FALSE, !.session = IF c.dead THEN "eof" ELSE "live", !.code = c.pend]
     /\ c.pend # NoCommit
  \/ j = i /\ d \in Killed(c)
  \/ j = i /\ d = [c EXCEPT !.session = "eof"] /\ c.session = "live"

LEMMA ConnectionEvents ==
  ASSUME Prompt, NEW i \in RuntimeInfos, NEW c \in Conns, NEW pc, Shape(i, c, pc), NEW j, NEW d,
         ConnectionEvent(i, j, c, d)
  PROVE  Shape(j, d, pc) /\ Calm(i, j, c, d)
<1>0. "straggler" \notin Faults
  BY DEF Prompt
<1>1. CASE j = i /\ d = [c EXCEPT !.dial = "none"]
  BY <1>1 DEF Shape, Calm, Even, Still, Conns, Leaving, Resetting
<1>2. CASE j \in {[i EXCEPT !.stale = FALSE], [i EXCEPT !.idle = TRUE], [i EXCEPT !.resetOld = TRUE]} /\ d = c
  BY <1>2 DEF Shape, Calm, Even, Still, RuntimeInfos, Exact, InUse, Leaving, Resetting
<1>3. CASE /\ j = [i EXCEPT !.stale = TRUE] /\ d = c
           /\ IsRunnerDefunct(j) /\ (c.runner # "live" \/ i.state \in {"merged", "reclaiming"})
  BY <1>3 DEF Shape, Calm, Even, Still, IsRunnerDefunct, RuntimeInfos, Exact, InUse, Leaving, Resetting
<1>4. CASE j = stopRunnerSet(i) /\ d = [c EXCEPT !.runner = "none"] /\ c.runner = "eof" /\ c.session = "none"
  BY <1>4 DEF Shape, Calm, Even, Still, stopRunnerSet, RuntimeInfos, Conns, Exact, InUse, Leaving, Resetting
<1>5. CASE j = stopRuntimeSet(i) /\ d = [c EXCEPT !.session = "none", !.code = NoCommit] /\ c.session = "eof"
  BY <1>5 DEF Shape, Calm, Even, Still, stopRuntimeSet, RuntimeInfos, Conns, Exact, InUse, Leaving, Resetting
<1>6. CASE j = i /\ d = [c EXCEPT !.pend = NoCommit, !.dead = FALSE]
  BY <1>6 DEF Shape, Calm, Even, Still, Conns, Leaving, Resetting
<1>7. ASSUME NEW concurrent \in BOOLEAN, j = initRuntimeSet(i, c.pend, concurrent), c.pend # NoCommit,
             d = [c EXCEPT !.pend = NoCommit, !.dead = FALSE, !.session = IF c.dead THEN "eof" ELSE "live", !.code = c.pend]
      PROVE  Shape(j, d, pc) /\ Calm(i, j, c, d)
  BY <1>7 DEF Shape, Calm, Even, Still, initRuntimeSet, RuntimeInfos, Conns, Exact, InUse, Leaving, Resetting
<1>8. CASE j = i /\ d \in Killed(c)
  BY <1>0, <1>8, ZenonT(40) DEF Shape, Calm, Even, Still, Killed, Conns, Leaving, Resetting
<1>9. CASE j = i /\ d = [c EXCEPT !.session = "eof"] /\ c.session = "live"
  BY <1>9 DEF Shape, Calm, Even, Still, Conns, Leaving, Resetting
<1>. QED  BY <1>1, <1>2, <1>3, <1>4, <1>5, <1>6, <1>7, <1>8, <1>9 DEF ConnectionEvent

\* What the cron task and funclet do; the target of the cron task is at p afterwards.
CronEvent(i, j, c, d, pc, p) ==
  \/ j = i /\ d = c /\ (p \in Resetting => pc \in Resetting)
  \/ opStopCheck(i) /\ j = opStopSet(i) /\ d = c
  \/ opResetCheck(i) /\ j = opResetSet(i) /\ d = c
  \/ opRetrieveCheck(i) /\ j = opRetrieveSet(i) /\ d = c /\ p = pc
  \/ \E mem : j = [i EXCEPT !.mem = mem] /\ d = c /\ (p \in Resetting => pc \in Resetting)
  \/ \E u, m : j = [i EXCEPT !.used = u, !.marked = m] /\ d = c /\ (p \in Resetting => pc \in Resetting)
  \/ /\ j = Invalidate(i) /\ d = c /\ (p \in Resetting => pc \in Resetting)
     /\ i.state = "reclaiming" \/ pc \in Resetting
  \/ /\ j = i /\ (\E k \in Killed(c) : d = [k EXCEPT !.dial = "dialing"]) /\ p = pc
     /\ i.state = "reclaiming" \/ pc \in Resetting

LEMMA CronEvents ==
  ASSUME Prompt, NEW i \in RuntimeInfos, NEW c \in Conns, NEW pc, Shape(i, c, pc), NEW j, NEW d, NEW p,
         CronEvent(i, j, c, d, pc, p)
  PROVE  Shape(j, d, p) /\ Calm(i, j, c, d)
<1>0. "straggler" \notin Faults
  BY DEF Prompt
<1>1. CASE j = i /\ d = c /\ (p \in Resetting => pc \in Resetting)
  BY <1>1 DEF Shape, Calm, Even, Still
<1>2. CASE opStopCheck(i) /\ j = opStopSet(i) /\ d = c
  BY <1>2 DEF Shape, Calm, Even, Still, opStopCheck, opStopSet, RuntimeInfos, Exact, InUse, Leaving
<1>3. CASE opResetCheck(i) /\ j = opResetSet(i) /\ d = c
  BY <1>3 DEF Shape, Calm, Even, Still, opResetCheck, IsRunnerDefunct, opResetSet, RuntimeInfos, RuntimeStates, Exact, InUse, Leaving
<1>4. CASE opRetrieveCheck(i) /\ j = opRetrieveSet(i) /\ d = c /\ p = pc
  BY <1>4 DEF Shape, Calm, Even, Still, opRetrieveCheck, opRetrieveSet, RuntimeInfos, Exact, InUse, Leaving
<1>5. ASSUME NEW mem, j = [i EXCEPT !.mem = mem], d = c, p \in Resetting => pc \in Resetting
      PROVE  Shape(j, d, p) /\ Calm(i, j, c, d)
  BY <1>5 DEF Shape, Calm, Even, Still, RuntimeInfos, Exact, InUse
<1>6. ASSUME NEW u, NEW m, j = [i EXCEPT !.used = u, !.marked = m], d = c, p \in Resetting => pc \in Resetting
      PROVE  Shape(j, d, p) /\ Calm(i, j, c, d)
  BY <1>6 DEF Shape, Calm, Even, Still, RuntimeInfos, Exact, InUse
<1>7. ASSUME j = Invalidate(i), d = c, p \in Resetting => pc \in Resetting, i.state = "reclaiming" \/ pc \in Resetting
      PROVE  Shape(j, d, p) /\ Calm(i, j, c, d)
  BY <1>7 DEF Shape, Calm, Even, Still, Invalidate, RuntimeInfos, Exact, InUse, Leaving
<1>8. ASSUME j = i, NEW k \in Killed(c), d = [k EXCEPT !.dial = "dialing"], p = pc, i.state = "reclaiming" \/ pc \in Resetting
      PROVE  Shape(j, d, p) /\ Calm(i, j, c, d)
  BY <1>0, <1>8 DEF Shape, Calm, Even, Still, Killed, Conns, Leaving
<1>. QED  BY <1>1, <1>2, <1>3, <1>4, <1>5, <1>6, <1>7, <1>8 DEF CronEvent

\* As long as nothing is retrieved, what was retrieved stays so.
LEMMA StaysRetrieved ==
  ASSUME TypeOK, PoolInv, \A r \in Runtimes : rt[r].state = "reclaiming" => rt'[r].state = "reclaiming",
         \A r \in Runtimes : Job(r)' => cron'[r].resets = {} \/ (Job(r) /\ cron'[r].resets = cron[r].resets)
  PROVE  Retrieved'
<1>1. \A r \in Runtimes : cron[r].resets \subseteq Runtimes
  BY DEF TypeOK, Crons
<1>. QED  BY <1>1 DEF PoolInv, Retrieved

\* Everything but requests, new runners and the cron task.
Background(i) ==
  \/ RunnerUpdate(i) \/ StopRunner(i) \/ InitRuntime(i) \/ RefuseRuntime(i) \/ StopRuntime(i)
  \/ Crash(i) \/ ProcessExit(i) \/ GoStale(i) \/ GoIdle(i) \/ ResetAges(i)

LEMMA BackgroundEvent ==
  ASSUME Prompt, TypeOK, PoolInv, NEW i \in Runtimes, Background(i)
  PROVE  ConnectionEvent(rt[i], rt'[i], conn[i], conn'[i])
<1>0. /\ rt[i] \in RuntimeInfos /\ conn[i] \in Conns /\ Shape(rt[i], conn[i], cron[i].pc)
      /\ "straggler" \notin Faults /\ "silent" \notin Faults
  BY DEF TypeOK, PoolInv, Shapes, Prompt
<1>1. CASE RunnerUpdate(i)
  BY <1>1 DEF RunnerUpdate, ConnectionEvent, TypeOK
<1>2. CASE StopRunner(i)
  <2>1. conn[i].runner = "eof" /\ conn[i].session = "none"
    BY <1>0, <1>2 DEF StopRunner, Shape
  <2>. QED  BY <1>2, <2>1 DEF StopRunner, ConnectionEvent, TypeOK
<1>3. CASE InitRuntime(i)
  <2>1. \E concurrent \in BOOLEAN : rt' = [rt EXCEPT ![i] = initRuntimeSet(rt[i], conn[i].pend, concurrent)]
    BY <1>3 DEF InitRuntime
  <2>2. \E concurrent \in BOOLEAN : rt'[i] = initRuntimeSet(rt[i], conn[i].pend, concurrent)
    BY <2>1 DEF TypeOK
  <2>3. /\ conn[i].pend # NoCommit
        /\ conn'[i] = [conn[i] EXCEPT !.pend = NoCommit, !.dead = FALSE,
                                      !.session = IF conn[i].dead THEN "eof" ELSE "live", !.code = conn[i].pend]
    BY <1>0, <1>3 DEF InitRuntime, TypeOK
  <2>. QED  BY <2>2, <2>3 DEF ConnectionEvent
<1>4. CASE RefuseRuntime(i)
  BY <1>4 DEF RefuseRuntime, ConnectionEvent, TypeOK
<1>5. CASE StopRuntime(i)
  BY <1>5 DEF StopRuntime, ConnectionEvent, TypeOK
<1>6. CASE Crash(i)
  BY <1>6 DEF Crash, ConnectionEvent, TypeOK
<1>7. CASE ProcessExit(i)
  BY <1>7 DEF ProcessExit, ConnectionEvent, TypeOK
<1>8. CASE GoStale(i)
  BY <1>0, <1>8 DEF GoStale, ConnectionEvent, TypeOK
<1>9. CASE GoIdle(i)
  BY <1>9 DEF GoIdle, ConnectionEvent, TypeOK
<1>10. CASE ResetAges(i)
  BY <1>10 DEF ResetAges, ConnectionEvent, TypeOK
<1>. QED  BY <1>1, <1>2, <1>3, <1>4, <1>5, <1>6, <1>7, <1>8, <1>9, <1>10 DEF Background

LEMMA ConnectionStep ==
  ASSUME Prompt, TypeOK, PoolInv, NEW i \in Runtimes, ConnectionEvent(rt[i], rt'[i], conn[i], conn'[i]),
         cron' = cron, req' = req, \A r \in Runtimes \ {i} : rt'[r] = rt[r] /\ conn'[r] = conn[r]
  PROVE  PoolInv'
<1>0. rt[i] \in RuntimeInfos /\ conn[i] \in Conns /\ \A r \in Runtimes : Shape(rt[r], conn[r], cron[r].pc)
  BY DEF TypeOK, PoolInv, Shapes
<1>3. Shape(rt'[i], conn'[i], cron[i].pc) /\ Calm(rt[i], rt'[i], conn[i], conn'[i])
  BY <1>0, ConnectionEvents
<1>4. ASSUME NEW r \in Runtimes PROVE Shape(rt'[r], conn'[r], cron'[r].pc) /\ Calm(rt[r], rt'[r], conn[r], conn'[r])
  <2>1. CASE r = i
    BY <1>3, <2>1
  <2>2. CASE r # i
    <3>1. Calm(rt[r], rt[r], conn[r], conn[r])
      BY DEF Calm, Even, Still
    <3>. QED  BY <1>0, <2>2, <3>1
  <2>. QED  BY <2>1, <2>2
<1>5. Retrieved'
  <2>1. \A r \in Runtimes : rt[r].state = "reclaiming" => rt'[r].state = "reclaiming"
    BY <1>4 DEF Calm, Still
  <2>. QED  BY <2>1, StaysRetrieved DEF Job
<1>. QED  BY <1>4, <1>5, CalmStep DEF PoolInv, Shapes

LEMMA BackgroundStep ==
  ASSUME Prompt, TypeOK, PoolInv, NEW i \in Runtimes, Background(i)
  PROVE  PoolInv'
<1>1. cron' = cron /\ req' = req
  BY DEF Background, RunnerUpdate, StopRunner, InitRuntime, RefuseRuntime, StopRuntime, Crash, ProcessExit, GoStale,
         GoIdle, ResetAges
<1>2. \A r \in Runtimes \ {i} : rt'[r] = rt[r] /\ conn'[r] = conn[r]
  BY DEF Background, RunnerUpdate, StopRunner, InitRuntime, RefuseRuntime, StopRuntime, Crash, ProcessExit, GoStale,
         GoIdle, ResetAges, TypeOK
<1>. QED  BY <1>1, <1>2, BackgroundEvent, ConnectionStep

-----------------------------------------------------------------------------
(* Steps of the cron task *)

LEMMA CronMoves ==
  ASSUME Prompt, TypeOK, PoolInv, req' = req,
         \A i \in Runtimes : CronEvent(rt[i], rt'[i], conn[i], conn'[i], cron[i].pc, cron'[i].pc),
         \/ Retrieved'
         \/ \A r \in Runtimes : Job(r)' => cron'[r].resets = {} \/ (Job(r) /\ cron'[r].resets = cron[r].resets)
  PROVE  PoolInv'
<1>1. ASSUME NEW r \in Runtimes PROVE Shape(rt'[r], conn'[r], cron'[r].pc) /\ Calm(rt[r], rt'[r], conn[r], conn'[r])
  <2>1. rt[r] \in RuntimeInfos /\ conn[r] \in Conns /\ Shape(rt[r], conn[r], cron[r].pc)
    BY DEF TypeOK, PoolInv, Shapes
  <2>. QED  BY <2>1, CronEvents
<1>2. \A r \in Runtimes : rt[r].state = "reclaiming" => rt'[r].state = "reclaiming"
  BY <1>1 DEF Calm, Even, Still
<1>3. Retrieved'
  BY <1>2, StaysRetrieved
<1>. QED  BY <1>1, <1>3, CalmStep DEF PoolInv, Shapes

\* Actions that only move the cron task from or to something that resets nothing.
LEMMA QuietCron ==
  ASSUME Prompt, TypeOK, PoolInv, req' = req, conn' = conn, rt' = rt,
         \A r \in Runtimes : /\ Job(r)' => Job(r) /\ cron'[r].resets = cron[r].resets
  PROVE  PoolInv'
<1>1. \A i \in Runtimes : CronEvent(rt[i], rt'[i], conn[i], conn'[i], cron[i].pc, cron'[i].pc)
  BY DEF CronEvent, Job
<1>. QED  BY <1>1, CronMoves

LEMMA PoolRounds ==
  ASSUME Prompt, TypeOK, PoolInv, StartRound \/ StartRuntimeTask
  PROVE  PoolInv'
<1>1. \A r \in Runtimes : ~Job(r)'
  BY DEF StartRound, StartRuntimeTask, CronIdle, Job, Resetting
<1>2. req' = req /\ conn' = conn /\ rt' = rt
  BY DEF StartRound, StartRuntimeTask
<1>. QED  BY <1>1, <1>2, QuietCron

\* The record of one goroutine of the cron task is replaced.
LEMMA CronUpdate ==
  ASSUME TypeOK, NEW r \in Runtimes, NEW x, cron' = [cron EXCEPT ![r] = x]
  PROVE  cron'[r] = x /\ \A i \in Runtimes \ {r} : cron'[i] = cron[i]
  BY DEF TypeOK

LEMMA PoolSync ==
  ASSUME Prompt, TypeOK, PoolInv, NEW r \in Runtimes, SyncCheck(r) \/ SyncWrite(r) \/ EndRound(r)
  PROVE  PoolInv'
<1>1. ~Job(r)' /\ \A i \in Runtimes \ {r} : cron'[i] = cron[i]
  BY DEF SyncCheck, SyncWrite, EndRound, Finished, CronIdle, Job, Resetting, TypeOK, Crons
<1>2. req' = req /\ conn' = conn
  BY DEF SyncCheck, SyncWrite, EndRound
<1>3. rt' = rt \/ rt' = [rt EXCEPT ![r].mem = BaseMemory]
  BY DEF SyncCheck, SyncWrite, EndRound
<1>4. \A i \in Runtimes : CronEvent(rt[i], rt'[i], conn[i], conn'[i], cron[i].pc, cron'[i].pc)
  <2>. SUFFICES ASSUME NEW i \in Runtimes
                PROVE  CronEvent(rt[i], rt'[i], conn[i], conn'[i], cron[i].pc, cron'[i].pc)
    OBVIOUS
  <2>1. cron'[i].pc \in Resetting => cron[i].pc \in Resetting
    BY <1>1 DEF Job
  <2>2. rt'[i] = rt[i] \/ rt'[i] = [rt[i] EXCEPT !.mem = BaseMemory]
    BY <1>3 DEF TypeOK
  <2>. QED  BY <1>2, <2>1, <2>2 DEF CronEvent
<1>5. \A i \in Runtimes : Job(i)' => Job(i) /\ cron'[i].resets = cron[i].resets
  BY <1>1 DEF Job
<1>. QED  BY <1>2, <1>4, <1>5, CronMoves

LEMMA PoolCondemn ==
  ASSUME Prompt, TypeOK, PoolInv, NEW r \in Runtimes, CoolDown(r) \/ Reborn(r)
  PROVE  PoolInv'
<1>1. /\ cron'[r].resets = {} /\ \A i \in Runtimes \ {r} : cron'[i] = cron[i]
      /\ req' = req /\ conn' = conn
  <2>1. PICK job : cron' = [cron EXCEPT ![r] = Begin(r, job)]
    BY DEF CoolDown, Reborn
  <2>2. Begin(r, job).resets = {}
    BY DEF Begin, CronIdle
  <2>3. cron'[r].resets = {} /\ \A i \in Runtimes \ {r} : cron'[i] = cron[i]
    BY <2>1, <2>2 DEF TypeOK
  <2>. QED  BY <2>3 DEF CoolDown, Reborn
<1>2. \A i \in Runtimes \ {r} : rt'[i] = rt[i]
  BY DEF CoolDown, Reborn, TypeOK
<1>3. (opStopCheck(rt[r]) /\ rt'[r] = opStopSet(rt[r])) \/ (opResetCheck(rt[r]) /\ rt'[r] = opResetSet(rt[r]))
  BY DEF CoolDown, Reborn, TypeOK
<1>4. \A i \in Runtimes : CronEvent(rt[i], rt'[i], conn[i], conn'[i], cron[i].pc, cron'[i].pc)
  BY <1>1, <1>2, <1>3 DEF CronEvent
<1>5. \A i \in Runtimes : Job(i)' => cron'[i].resets = {} \/ (Job(i) /\ cron'[i].resets = cron[i].resets)
  BY <1>1 DEF Job
<1>. QED  BY <1>1, <1>4, <1>5, CronMoves

LEMMA PoolRetrieve ==
  ASSUME Prompt, TypeOK, PoolInv, NEW r \in Runtimes, Retrieve(r)
  PROVE  PoolInv'
<1>. DEFINE n == cron[r].idx
            fits == n # r /\ opRetrieveCheck(rt[n])
<1>1. n \in Runtimes /\ cron[r].resets \subseteq Runtimes /\ cron[r] \in Crons /\ cron[r].pc = "scan"
  BY DEF TypeOK, Crons, Retrieve
<1>2. /\ cron'[r].pc \in {"scan", "boot"} /\ \A i \in Runtimes \ {r} : cron'[i] = cron[i]
      /\ cron'[r].resets \subseteq IF fits THEN cron[r].resets \cup {n} ELSE cron[r].resets
  BY <1>1 DEF Retrieve, TypeOK, Crons
<1>3. /\ \A i \in Runtimes \ {n} : rt'[i] = rt[i]
      /\ rt'[n] = IF fits THEN opRetrieveSet(rt[n]) ELSE rt[n]
  BY <1>1 DEF Retrieve, TypeOK
<1>4. req' = req /\ conn' = conn
  BY DEF Retrieve
<1>5. \A i \in Runtimes : CronEvent(rt[i], rt'[i], conn[i], conn'[i], cron[i].pc, cron'[i].pc)
  <2>. SUFFICES ASSUME NEW i \in Runtimes
                PROVE  CronEvent(rt[i], rt'[i], conn[i], conn'[i], cron[i].pc, cron'[i].pc)
    OBVIOUS
  <2>1. cron'[i].pc \in Resetting => cron[i].pc \in Resetting
    BY <1>1, <1>2 DEF Resetting
  <2>2. CASE i = n /\ fits
    <3>1. cron'[i].pc = cron[i].pc
      BY <1>2, <2>2
    <3>. QED  BY <1>3, <1>4, <2>2, <3>1 DEF CronEvent
  <2>3. CASE ~(i = n /\ fits)
    <3>1. rt'[i] = rt[i]
      BY <1>3, <2>3
    <3>. QED  BY <1>4, <2>1, <3>1 DEF CronEvent
  <2>. QED  BY <2>2, <2>3
<1>6. Retrieved'
  <2>1. ASSUME NEW i \in Runtimes, rt[i].state = "reclaiming" PROVE rt'[i].state = "reclaiming"
    <3>1. rt[i] \in RuntimeInfos
      BY DEF TypeOK
    <3>2. opRetrieveSet(rt[i]).state = "reclaiming"
      BY <3>1 DEF opRetrieveSet, RuntimeInfos
    <3>. QED  BY <1>3, <2>1, <3>2
  <2>2. fits => rt'[n].state = "reclaiming"
    BY <1>1, <1>3 DEF opRetrieveSet, TypeOK, RuntimeInfos
  <2>3. ASSUME NEW s \in Runtimes, Job(s)', NEW i \in cron'[s].resets PROVE rt'[i].state = "reclaiming"
    <3>1. CASE s = r
      <4>1. Job(r)
        BY <1>1 DEF Job, Resetting
      <4>2. \A k \in cron[r].resets : rt[k].state = "reclaiming"
        BY <4>1 DEF PoolInv, Retrieved
      <4>. QED  BY <1>1, <1>2, <2>1, <2>2, <2>3, <3>1, <4>2
    <3>2. CASE s # r
      <4>1. cron[s].resets \subseteq Runtimes
        BY DEF TypeOK, Crons
      <4>. QED  BY <1>2, <2>1, <2>3, <3>2, <4>1 DEF PoolInv, Retrieved, Job
    <3>. QED  BY <3>1, <3>2
  <2>. QED  BY <2>3 DEF Retrieved
<1>. QED  BY <1>4, <1>5, <1>6, CronMoves

LEMMA PoolCall ==
  ASSUME Prompt, TypeOK, PoolInv, NEW r \in Runtimes, RebootBegin(r) \/ \E i \in Runtimes : FuncletReset(r, i)
  PROVE  PoolInv'
<1>1. CASE RebootBegin(r)
  <2>1. /\ cron'[r].pc = "rpc" /\ cron[r].pc = "boot" /\ cron'[r].resets = cron[r].resets
        /\ \A i \in Runtimes \ {r} : cron'[i] = cron[i]
    BY <1>1 DEF RebootBegin, TypeOK, Crons
  <2>2. \A i \in Runtimes : Job(i)' => Job(i) /\ cron'[i].resets = cron[i].resets
    BY <2>1 DEF Job, Resetting
  <2>3. req' = req /\ conn' = conn /\ rt' = rt
    BY <1>1 DEF RebootBegin
  <2>. QED  BY <2>2, <2>3, QuietCron
<1>2. ASSUME NEW n \in Runtimes, FuncletReset(r, n) PROVE PoolInv'
  <2>1. /\ \A i \in Runtimes : cron'[i].pc = cron[i].pc /\ cron'[i].resets = cron[i].resets
        /\ req' = req /\ rt' = rt
    BY <1>2 DEF FuncletReset, TypeOK, Crons
  <2>2. /\ \A i \in Runtimes \ {n} : conn'[i] = conn[i]
        /\ \E k \in Killed(conn[n]) : conn'[n] = [k EXCEPT !.dial = "dialing"]
    BY <1>2 DEF FuncletReset, TypeOK
  <2>3. rt[n].state = "reclaiming" \/ cron[n].pc \in Resetting
    BY <1>2 DEF FuncletReset, Targets, PoolInv, Retrieved, Job, Resetting
  <2>4. \A i \in Runtimes : CronEvent(rt[i], rt'[i], conn[i], conn'[i], cron[i].pc, cron'[i].pc)
    BY <2>1, <2>2, <2>3 DEF CronEvent
  <2>. QED  BY <2>1, <2>4, CronMoves DEF Job
<1>. QED  BY <1>1, <1>2

LEMMA PoolCallEnds ==
  ASSUME Prompt, TypeOK, PoolInv, NEW r \in Runtimes, FuncletReturns(r) \/ FuncletFails(r)
  PROVE  PoolInv'
<1>1. /\ cron[r].pc = "rpc" /\ ~Job(r)' /\ \A i \in Runtimes \ {r} : cron'[i] = cron[i]
      /\ req' = req /\ conn' = conn
  <2>1. \E job : cron' = [cron EXCEPT ![r] = Finished(job)]
    BY DEF FuncletReturns, FuncletFails
  <2>2. \A job : Finished(job).pc \notin Resetting
    BY DEF Finished, CronIdle, Resetting
  <2>. QED  BY <2>1, <2>2, CronUpdate DEF FuncletReturns, FuncletFails, Job
<1>2. \A i \in cron[r].resets : rt[i].state = "reclaiming"
  BY <1>1 DEF PoolInv, Retrieved, Job, Resetting
<1>3. ASSUME NEW i \in Runtimes
      PROVE  \/ rt'[i] = rt[i]
             \/ \E u, m : rt'[i] = [rt[i] EXCEPT !.used = u, !.marked = m]
             \/ rt'[i] = Invalidate(rt[i]) /\ i \in cron[r].resets \cup {r}
  <2>1. CASE FuncletReturns(r)
    <3>1. CASE i = r
      <4>1. rt'[i] = [rt[i] EXCEPT !.used = @ /\ ~cron[r].used, !.marked = @ /\ ~cron[r].marked]
        BY <2>1, <3>1 DEF FuncletReturns
      <4>. QED  BY <4>1
    <3>2. CASE i # r
      BY <2>1, <3>2 DEF FuncletReturns
    <3>. QED  BY <3>1, <3>2
  <2>2. CASE FuncletFails(r)
    BY <2>2 DEF FuncletFails
  <2>. QED  BY <2>1, <2>2
<1>4. ASSUME NEW i \in Runtimes
      PROVE  CronEvent(rt[i], rt'[i], conn[i], conn'[i], cron[i].pc, cron'[i].pc)
  <2>1. cron'[i].pc \in Resetting => cron[i].pc \in Resetting
    BY <1>1 DEF Job
  <2>2. i = r => cron[i].pc \in Resetting
    BY <1>1 DEF Resetting
  <2>3. conn'[i] = conn[i]
    BY <1>1
  <2>4. CASE rt'[i] = rt[i]
    BY <2>1, <2>3, <2>4 DEF CronEvent
  <2>5. CASE \E u, m : rt'[i] = [rt[i] EXCEPT !.used = u, !.marked = m]
    BY <2>1, <2>3, <2>5 DEF CronEvent
  <2>6. CASE rt'[i] = Invalidate(rt[i]) /\ i \in cron[r].resets \cup {r}
    BY <1>2, <2>1, <2>2, <2>3, <2>6 DEF CronEvent
  <2>. QED  BY <1>3, <2>4, <2>5, <2>6
<1>5. \A i \in Runtimes : Job(i)' => Job(i) /\ cron'[i].resets = cron[i].resets
  BY <1>1 DEF Job
<1>. QED  BY <1>1, <1>4, <1>5, CronMoves

LEMMA PoolCron ==
  ASSUME Prompt, TypeOK, PoolInv, NEW r \in Runtimes, CronStep(r)
  PROVE  PoolInv'
  BY PoolSync, PoolCondemn, PoolRetrieve, PoolCall, PoolCallEnds DEF CronStep

-----------------------------------------------------------------------------
(* Holders come and go *)

LEMMA MaxPositive == \A f \in Functions : MaxOf(f) \in Nat /\ MaxOf(f) >= 1
  BY PoolAssumption DEF MaxOf

LEMMA OneMore ==
  ASSUME NEW S, NEW T, NEW x, IsFiniteSet(S), x \notin S, T = S \cup {x}
  PROVE  Cardinality(T) = Cardinality(S) + 1
  BY FS_AddElement

LEMMA OneLess ==
  ASSUME NEW S, NEW T, NEW x, IsFiniteSet(S), x \in S, T = S \ {x}
  PROVE  Cardinality(T) = Cardinality(S) - 1 /\ Cardinality(S) \in Nat /\ Cardinality(S) >= 1
<1>1. Cardinality(T) = Cardinality(S) - 1 /\ IsFiniteSet(T)
  BY FS_RemoveElement
<1>. QED  BY <1>1, FS_CardinalityType

LEMMA HoldersUpdate ==
  ASSUME TypeOK, NEW q \in Requests, NEW x, req' = [req EXCEPT ![q] = x], NEW r, NEW f
  PROVE  /\ Holders(r)' = (IF x.rt = r THEN Holders(r) \cup {q} ELSE Holders(r) \ {q})
         /\ x.rt # r => HoldersOf(r, f)' = HoldersOf(r, f) \ {q}
         /\ Fn(q) # f => HoldersOf(r, f)' = HoldersOf(r, f) \ {q}
         /\ x.rt = r /\ Fn(q) = f => HoldersOf(r, f)' = HoldersOf(r, f) \cup {q}
<1>1. Holders(r)' = IF x.rt = r THEN Holders(r) \cup {q} ELSE Holders(r) \ {q}
  BY DEF Holders, TypeOK
<1>2. HoldersOf(r, f)' = {p \in Holders(r)' : Fn(p) = f}
  BY DEF HoldersOf, Fn
<1>. QED  BY <1>1, <1>2 DEF HoldersOf

\* A request takes runtime n.
LEMMA HolderJoins ==
  ASSUME FewRequests, TypeOK, NEW q \in Requests, NEW n \in Runtimes, NEW x, req' = [req EXCEPT ![q] = x],
         req[q].rt = 0, x.rt = n
  PROVE  /\ Cardinality(Holders(n)') = Cardinality(Holders(n)) + 1
         /\ Cardinality(Holders(n)) + 1 < UintSpan
         /\ Cardinality(HoldersOf(n, Fn(q))') = Cardinality(HoldersOf(n, Fn(q))) + 1
         /\ \A f : f # Fn(q) => HoldersOf(n, f)' = HoldersOf(n, f)
         /\ \A r \in Runtimes \ {n} : Holders(r)' = Holders(r)
<1>1. \A r \in Runtimes : \A f : q \notin Holders(r) /\ q \notin HoldersOf(r, f)
  BY DEF Holders, HoldersOf, Runtimes
<1>2. Holders(n)' = Holders(n) \cup {q} /\ HoldersOf(n, Fn(q))' = HoldersOf(n, Fn(q)) \cup {q}
  BY HoldersUpdate
<1>9. IsFiniteSet(Holders(n)) /\ IsFiniteSet(HoldersOf(n, Fn(q)))
  BY HoldersFinite
<1>3. Cardinality(Holders(n)') = Cardinality(Holders(n)) + 1
  BY <1>1, <1>2, <1>9, OneMore
<1>4. Cardinality(HoldersOf(n, Fn(q))') = Cardinality(HoldersOf(n, Fn(q))) + 1
  BY <1>1, <1>2, <1>9, OneMore
<1>5. Cardinality(Holders(n)') <= Cardinality(Requests)
  <2>1. Holders(n)' \subseteq Requests
    BY DEF Holders
  <2>. QED  BY <2>1, FS_Subset DEF FewRequests
<1>6. Cardinality(Requests) \in Nat /\ Cardinality(Requests) < UintSpan /\ Cardinality(Holders(n)) \in Nat
  BY HoldersFinite, FS_CardinalityType DEF FewRequests
<1>7. ASSUME NEW f, f # Fn(q) PROVE HoldersOf(n, f)' = HoldersOf(n, f)
  <2>1. HoldersOf(n, f)' = HoldersOf(n, f) \ {q}
    BY <1>7, HoldersUpdate
  <2>. QED  BY <1>1, <1>7, <2>1
<1>8. ASSUME NEW r \in Runtimes \ {n} PROVE Holders(r)' = Holders(r)
  <2>1. x.rt # r
    BY DEF Runtimes
  <2>2. Holders(r)' = Holders(r) \ {q}
    BY <2>1, HoldersUpdate
  <2>. QED  BY <1>1, <2>2
<1>. QED  BY <1>3, <1>4, <1>5, <1>6, <1>7, <1>8, UintSpanAssumption

\* A request lets go of runtime n.
LEMMA HolderLeaves ==
  ASSUME FewRequests, TypeOK, NEW q \in Requests, NEW n \in Runtimes, NEW x, req' = [req EXCEPT ![q] = x],
         req[q].rt = n, x.rt = 0
  PROVE  /\ Cardinality(Holders(n)') = Cardinality(Holders(n)) - 1
         /\ Cardinality(Holders(n)) >= 1
         /\ Cardinality(HoldersOf(n, Fn(q))') = Cardinality(HoldersOf(n, Fn(q))) - 1
         /\ \A f : f # Fn(q) => HoldersOf(n, f)' = HoldersOf(n, f)
         /\ \A r \in Runtimes \ {n} : Holders(r)' = Holders(r)
<1>1. /\ q \in Holders(n) /\ q \in HoldersOf(n, Fn(q)) /\ 0 \notin Runtimes
      /\ \A r \in Runtimes \ {n} : q \notin Holders(r)
      /\ \A f : f # Fn(q) => q \notin HoldersOf(n, f)
  BY DEF Holders, HoldersOf, Runtimes
<1>2. Holders(n)' = Holders(n) \ {q} /\ HoldersOf(n, Fn(q))' = HoldersOf(n, Fn(q)) \ {q}
  <2>1. x.rt # n
    BY <1>1
  <2>2. Holders(n)' = Holders(n) \ {q}
    BY <2>1, HoldersUpdate
  <2>3. HoldersOf(n, Fn(q))' = {p \in Holders(n)' : Fn(p) = Fn(q)}
    BY DEF HoldersOf, Fn
  <2>4. HoldersOf(n, Fn(q))' = HoldersOf(n, Fn(q)) \ {q}
    BY <2>2, <2>3 DEF HoldersOf
  <2>. QED  BY <2>2, <2>4
<1>9. IsFiniteSet(Holders(n)) /\ IsFiniteSet(HoldersOf(n, Fn(q)))
  BY HoldersFinite
<1>3. Cardinality(Holders(n)') = Cardinality(Holders(n)) - 1 /\ Cardinality(Holders(n)) >= 1
  BY <1>1, <1>2, <1>9, OneLess
<1>4. Cardinality(HoldersOf(n, Fn(q))') = Cardinality(HoldersOf(n, Fn(q))) - 1
  BY <1>1, <1>2, <1>9, OneLess
<1>7. ASSUME NEW f, f # Fn(q) PROVE HoldersOf(n, f)' = HoldersOf(n, f)
  <2>1. HoldersOf(n, f)' = HoldersOf(n, f) \ {q}
    BY <1>7, HoldersUpdate
  <2>. QED  BY <1>1, <1>7, <2>1
<1>8. ASSUME NEW r \in Runtimes \ {n} PROVE Holders(r)' = Holders(r)
  <2>1. x.rt # r
    BY DEF Runtimes
  <2>2. Holders(r)' = Holders(r) \ {q}
    BY <2>1, HoldersUpdate
  <2>. QED  BY <1>1, <2>2
<1>. QED  BY <1>3, <1>4, <1>7, <1>8

LEMMA HoldersStay ==
  ASSUME TypeOK, NEW q \in Requests, NEW x, req' = [req EXCEPT ![q] = x], x.rt = req[q].rt
  PROVE  \A r : Holders(r)' = Holders(r)
  BY DEF Holders, TypeOK

-----------------------------------------------------------------------------
(* A new runner *)

LEMMA PoolInitRunner ==
  ASSUME Prompt, TypeOK, RebootCounts, PoolInv, NEW i \in Runtimes, InitRunner(i)
  PROVE  PoolInv'
<1>t. rt[i] \in RuntimeInfos /\ conn[i] \in Conns /\ Shape(rt[i], conn[i], cron[i].pc)
  BY DEF TypeOK, PoolInv, Shapes
<1>1. conn[i].dial = "dialing" /\ reboot[i] = 0 /\ Holders(i) = {} /\ cron[i].pc \notin {"scan", "boot"}
  BY <1>t DEF InitRunner, Prompt, Shape
<1>2. cron[i].pc \notin Resetting
  <2>1. reboot[i] = Cardinality(Calls(i))
    BY DEF RebootCounts, Calls
  <2>2. Calls(i) = {}
    BY <1>1, <2>1, CallsFinite, FS_EmptySet
  <2>3. i \in Targets(i)
    BY DEF Targets
  <2>. QED  BY <1>1, <2>2, <2>3 DEF Calls, Resetting
<1>3. cron' = cron /\ req' = req
  BY DEF InitRunner
<1>4. \A r \in Runtimes \ {i} : rt'[r] = rt[r] /\ conn'[r] = conn[r]
  BY DEF InitRunner, TypeOK
<1>5. CASE rt[i].state # "closed"
  <2>1. rt'[i] = rt[i] /\ conn'[i] = [conn[i] EXCEPT !.dial = "none"]
    BY <1>5 DEF InitRunner, TypeOK
  <2>2. ConnectionEvent(rt[i], rt'[i], conn[i], conn'[i])
    BY <2>1 DEF ConnectionEvent
  <2>. QED  BY <1>3, <1>4, <2>2, ConnectionStep
<1>6. CASE rt[i].state = "closed"
  <2>1. /\ rt'[i].state = "cold" /\ rt'[i].commit = rt[i].commit /\ rt'[i].conc = rt[i].conc
        /\ rt'[i].abnormal = FALSE /\ rt'[i].stale = FALSE /\ rt'[i].cmode = rt[i].cmode
    <3>1. PICK stale \in {FALSE} \cup ({rt[i].stale} \cap {"silent" \in Faults}) :
              rt' = [rt EXCEPT ![i] = [initRunnerSet(rt[i]) EXCEPT !.stale = stale]]
      BY <1>6 DEF InitRunner
    <3>2. stale = FALSE
      BY <1>t DEF Prompt, RuntimeInfos
    <3>3. rt'[i] = [initRunnerSet(rt[i]) EXCEPT !.stale = FALSE]
      BY <3>1, <3>2 DEF TypeOK
    <3>. QED  BY <1>t, <3>3 DEF initRunnerSet, RuntimeInfos
  <2>2. conn'[i] = [conn[i] EXCEPT !.dial = "none", !.runner = "live"]
    BY <1>6 DEF InitRunner, TypeOK
  <2>3. /\ conn'[i].dial = "none" /\ conn'[i].runner = "live" /\ conn'[i].session = conn[i].session
        /\ conn'[i].pend = conn[i].pend /\ conn'[i].dead = conn[i].dead /\ conn'[i].incs = conn[i].incs
    BY <1>t, <2>2 DEF Conns
  <2>4. rt[i].commit = NoCommit /\ rt[i].conc = 0 /\ conn[i].session = "none" /\ conn[i].pend = NoCommit
    BY <1>t, <1>1, <1>6 DEF Shape
  <2>5. Shape(rt'[i], conn'[i], cron'[i].pc)
    BY <1>t, <1>2, <1>3, <2>1, <2>3, <2>4 DEF Shape
  <2>6. Shapes'
    BY <1>3, <1>4, <2>5 DEF PoolInv, Shapes
  <2>7. Retrieved'
    BY <1>3, <1>4, <1>6, StaysRetrieved DEF Job
  <2>8. ASSUME NEW r \in Runtimes PROVE Counts(r)'
    <3>1. Holders(r)' = Holders(r)
      BY <1>3 DEF Holders
    <3>2. CASE r # i
      BY <1>4, <3>1, <3>2, CountsStep DEF Even
    <3>3. CASE r = i
      <4>1. Holders(i)' = {} /\ \A f : HoldersOf(i, f)' = {}
        BY <1>1, <3>1, <3>3 DEF HoldersOf
      <4>2. Cardinality({}) = 0
        BY FS_EmptySet
      <4>. QED  BY <2>1, <2>4, <3>3, <4>1, <4>2, MaxPositive DEF Counts, MaxOf
    <3>. QED  BY <3>2, <3>3
  <2>9. ASSUME NEW q \in Requests PROVE Owned(q)'
    <3>1. req[q].pc \in Owning => req[q].rt \in Runtimes \ {i}
      BY <1>1, HeldRuntime DEF Owning, Holding
    <3>2. req[q].pc \in Owning => Still(rt[req[q].rt], rt'[req[q].rt], conn[req[q].rt], conn'[req[q].rt])
      BY <1>4, <3>1 DEF Still
    <3>3. \A r : Holders(r)' = Holders(r)
      BY <1>3 DEF Holders
    <3>. QED  BY <1>3, <3>2, <3>3, OwnedKept
  <2>10. ASSUME NEW q \in Requests PROVE Listed(q)'
    BY <1>3, <1>4, <1>6, ListedStep
  <2>. QED  BY <1>3, <2>6, <2>7, <2>8, <2>9, <2>10 DEF PoolInv, Held, Apart
<1>. QED  BY <1>5, <1>6

-----------------------------------------------------------------------------
(* Steps of requests *)

\* What the record of a request says of its place in the code.
Placed(x) ==
  /\ x.rt # 0 <=> x.pc \in Holding
  /\ x.pc \in {"find", "check", "mark", "occupy"} => x.merged = << >>

LEMMA RequestUpdate ==
  ASSUME TypeOK, NEW q \in Requests, NEW x, req' = [req EXCEPT ![q] = x]
  PROVE  req'[q] = x /\ \A p \in Requests \ {q} : req'[p] = req[p]
  BY DEF TypeOK

LEMMA HeldStep ==
  ASSUME TypeOK, PoolInv, NEW q \in Requests, NEW x, req' = [req EXCEPT ![q] = x], Placed(x)
  PROVE  Held'
<1>1. req'[q] = x /\ \A p \in Requests \ {q} : req'[p] = req[p]
  BY RequestUpdate
<1>. QED  BY <1>1 DEF PoolInv, Held, Placed

\* The list of a request may become shorter; only a runtime that nobody owns gets a new owner.
LEMMA ApartStep ==
  ASSUME TypeOK, PoolInv, NEW q \in Requests, NEW x, req' = [req EXCEPT ![q] = x],
         x.pc \in Owning => \A p \in Requests \ {q} : req[p].pc \in Owning => req[p].rt # x.rt,
         x.pc \in Scaling => \A k \in 1..Len(x.merged) :
            req[q].pc \in Scaling /\ k \in 1..Len(req[q].merged) /\ x.merged[k] = req[q].merged[k]
  PROVE  Apart'
<1>1. req'[q] = x /\ \A p \in Requests \ {q} : req'[p] = req[p]
  BY RequestUpdate
<1>2. ASSUME NEW p \in Requests, NEW s \in Requests, p # s, req'[p].pc \in Owning, req'[s].pc \in Owning
      PROVE  req'[p].rt # req'[s].rt
  BY <1>1, <1>2 DEF PoolInv, Apart
<1>3. ASSUME NEW p \in Requests, req'[p].pc \in Scaling, NEW k \in 1..Len(req'[p].merged)
      PROVE  req[p].pc \in Scaling /\ k \in 1..Len(req[p].merged) /\ req'[p].merged[k] = req[p].merged[k]
  BY <1>1, <1>3
<1>4. ASSUME NEW p \in Requests, NEW s \in Requests, req'[p].pc \in Scaling, req'[s].pc \in Scaling,
             NEW j \in 1..Len(req'[p].merged), NEW k \in 1..Len(req'[s].merged), req'[p].merged[j] = req'[s].merged[k]
      PROVE  p = s /\ j = k
  <2>1. req[p].pc \in Scaling /\ j \in 1..Len(req[p].merged) /\ req'[p].merged[j] = req[p].merged[j]
    BY <1>3, <1>4
  <2>2. req[s].pc \in Scaling /\ k \in 1..Len(req[s].merged) /\ req'[s].merged[k] = req[s].merged[k]
    BY <1>3, <1>4
  <2>. QED  BY <1>4, <2>1, <2>2 DEF PoolInv, Apart
<1>. QED  BY <1>2, <1>4 DEF Apart

LEMMA OthersListed ==
  ASSUME TypeOK, PoolInv, NEW q \in Requests, NEW x, req' = [req EXCEPT ![q] = x],
         \A r \in Runtimes : rt[r].state \in {"merged", "reclaiming"} => rt'[r].state \in {"merged", "reclaiming"}
  PROVE  \A p \in Requests \ {q} : Listed(p)'
<1>1. \A p \in Requests \ {q} : req'[p] = req[p]
  BY RequestUpdate
<1>. QED  BY <1>1, ListedStep

\* Only runtime n changes.
LEMMA OneRuntime ==
  ASSUME TypeOK, PoolInv, cron' = cron, NEW n \in Runtimes,
         \A r \in Runtimes \ {n} : rt'[r] = rt[r] /\ conn'[r] = conn[r],
         Shape(rt'[n], conn'[n], cron[n].pc), rt[n].state = "reclaiming" => rt'[n].state = "reclaiming"
  PROVE  Shapes' /\ Retrieved'
<1>1. Shapes'
  BY DEF PoolInv, Shapes
<1>2. Retrieved'
  BY StaysRetrieved DEF Job
<1>. QED  BY <1>1, <1>2

\* Steps that neither get nor release a runtime.
LEMMA RequestMoves ==
  ASSUME TypeOK, PoolInv, NEW q \in Requests, NEW x, req' = [req EXCEPT ![q] = x],
         rt' = rt, conn' = conn, cron' = cron, x.rt = req[q].rt, Placed(x), x.pc \notin Owning
  PROVE  PoolInv'
<1>1. req'[q] = x /\ \A p \in Requests \ {q} : req'[p] = req[p]
  BY RequestUpdate
<1>2. \A r : Holders(r)' = Holders(r)
  BY HoldersStay
<1>3. Shapes' /\ Retrieved'
  BY DEF PoolInv, Shapes, Retrieved, Job
<1>4. x.pc \notin Scaling
  BY DEF Owning, Scaling
<1>5. Held' /\ Apart'
  BY <1>4, HeldStep, ApartStep
<1>6. \A r \in Runtimes : Counts(r)'
  BY <1>2, CountsStep DEF Even
<1>7. ASSUME NEW p \in Requests PROVE Owned(p)'
  <2>1. req'[p].rt = req[p].rt /\ (req'[p].pc \in Owning => req[p].pc \in Owning)
    BY <1>1
  <2>2. \A r : Still(rt[r], rt'[r], conn[r], conn'[r])
    BY DEF Still
  <2>. QED  BY <1>2, <2>1, <2>2, OwnedKept
<1>8. ASSUME NEW p \in Requests PROVE Listed(p)'
  <2>1. CASE p = q
    BY <1>1, <1>4, <2>1 DEF Listed
  <2>2. CASE p # q
    BY <2>2, OthersListed
  <2>. QED  BY <2>1, <2>2
<1>. QED  BY <1>3, <1>5, <1>6, <1>7, <1>8 DEF PoolInv

LEMMA NextTryPlace ==
  ASSUME NEW q \in Requests
  PROVE  /\ NextTry(q).rt = 0 /\ NextTry(q).pc \in {"find", "done"} /\ NextTry(q).merged = << >>
         /\ Placed(NextTry(q))
<1>1. NextTry(q).rt = 0 /\ NextTry(q).pc \in {"find", "done"} /\ NextTry(q).merged = << >>
  BY DEF NextTry, Attempt
<1>. QED  BY <1>1 DEF Placed, Holding

LEMMA PlaceOf ==
  ASSUME TypeOK, PoolInv, NEW q \in Requests
  PROVE  req[q] \in Reqs /\ Placed(req[q])
  BY DEF TypeOK, PoolInv, Held, Placed

LEMMA PoolResources ==
  ASSUME TypeOK, PoolInv, NEW q \in Requests, CheckResource(q) \/ MarkResource(q) \/ UnmarkResource(q)
  PROVE  PoolInv'
<1>1. rt' = rt /\ conn' = conn /\ cron' = cron
  BY DEF CheckResource, MarkResource, UnmarkResource
<1>2. req[q] \in Reqs /\ Placed(req[q]) /\ req[q].pc \in {"check", "mark", "unmark"}
  BY PlaceOf DEF CheckResource, MarkResource, UnmarkResource
<1>3. req[q].rt = 0
  BY <1>2 DEF Placed, Holding
<1>4. CASE req' = [req EXCEPT ![q] = NextTry(q)]
  <2>1. NextTry(q).pc \notin Owning
    BY NextTryPlace DEF Owning
  <2>. QED  BY <1>1, <1>3, <1>4, <2>1, NextTryPlace, RequestMoves
<1>5. ASSUME NEW pc \in {"mark", "occupy"}, req' = [req EXCEPT ![q] = [req[q] EXCEPT !.pc = pc]],
             req[q].pc \in {"check", "mark"}
      PROVE  PoolInv'
  <2>. DEFINE x == [req[q] EXCEPT !.pc = pc]
  <2>1. x.rt = 0 /\ x.pc = pc /\ x.merged = req[q].merged
    BY <1>2, <1>3 DEF Reqs
  <2>2. Placed(x) /\ x.pc \notin Owning
    BY <1>2, <1>5, <2>1 DEF Placed, Holding, Owning
  <2>. HIDE DEF x
  <2>. QED  BY <1>1, <1>3, <1>5, <2>1, <2>2, RequestMoves DEF x
<1>6. \/ req' = [req EXCEPT ![q] = NextTry(q)]
      \/ \E pc \in {"mark", "occupy"} : req' = [req EXCEPT ![q] = [req[q] EXCEPT !.pc = pc]] /\ req[q].pc \in {"check", "mark"}
  BY DEF CheckResource, MarkResource, UnmarkResource
<1>. QED  BY <1>4, <1>5, <1>6

LEMMA PoolInvoke ==
  ASSUME TypeOK, PoolInv, NEW q \in Requests, StartInvoke(q) \/ GiveUp(q) \/ FinishInvoke(q)
  PROVE  PoolInv'
<1>1. rt' = rt /\ conn' = conn /\ cron' = cron
  BY DEF StartInvoke, GiveUp, FinishInvoke
<1>2. req[q] \in Reqs /\ Placed(req[q]) /\ req[q].pc \in {"wait", "run"}
  BY PlaceOf DEF StartInvoke, GiveUp, FinishInvoke
<1>3. PICK pc \in {"run", "put"} : req' = [req EXCEPT ![q] = [req[q] EXCEPT !.pc = pc]]
  BY DEF StartInvoke, GiveUp, FinishInvoke
<1>. DEFINE x == [req[q] EXCEPT !.pc = pc]
<1>4. x.rt = req[q].rt /\ x.pc = pc
  BY <1>2 DEF Reqs
<1>5. Placed(x) /\ x.pc \notin Owning
  BY <1>2, <1>4 DEF Placed, Holding, Owning
<1>. HIDE DEF x
<1>. QED  BY <1>1, <1>3, <1>4, <1>5, RequestMoves DEF x

\* Concurrency goes up by one without wrapping around.
LEMMA IncrementExact ==
  ASSUME NEW c \in Nat, c + 1 < UintSpan
  PROVE  Increment(c) = c + 1
  BY UintSpanAssumption DEF Increment

LEMMA MarkEvent ==
  ASSUME NEW i \in RuntimeInfos, NEW c \in Conns, NEW pc, Shape(i, c, pc), NEW f \in Functions, NEW quota,
         opMarkCheck(i, f, quota), NEW j, j = opMarkSet(i)
  PROVE  /\ Shape(j, c, pc) /\ Still(i, j, c, c)
         /\ InUse(i) /\ InUse(j) /\ i.commit = f /\ j.conc = Increment(i.conc) /\ j.state = i.state
<1>1. f # NoCommit
  BY NoCommitAssumption
<1>2. /\ j.state = i.state /\ j.commit = i.commit /\ j.conc = Increment(i.conc) /\ j.abnormal = i.abnormal
      /\ j.cmode = i.cmode /\ j.stale = i.stale
  BY DEF opMarkSet, RuntimeInfos
<1>3. i.state \in {"warmup", "warm"} /\ i.commit = f
  BY DEF opMarkCheck
<1>. QED  BY <1>1, <1>2, <1>3 DEF Shape, Still, InUse, Leaving

LEMMA PoolFindWarm ==
  ASSUME FewRequests, TypeOK, PoolInv, NEW q \in Requests, FindWarm(q)
  PROVE  PoolInv'
<1>1. req[q] \in Reqs /\ Placed(req[q]) /\ req[q].pc = "find" /\ req[q].idx \in Runtimes
  BY PlaceOf DEF FindWarm, Reqs
<1>2. req[q].rt = 0 /\ req[q].merged = << >>
  BY <1>1 DEF Placed, Holding
<1>3. conn' = conn /\ cron' = cron
  BY DEF FindWarm
<1>n. PICK n \in Runtimes : n = req[q].idx
  BY <1>1
<1>4. CASE ~opMarkCheck(rt[n], Fn(q), QuotaOf[Fn(q)])
  <2>. DEFINE x == IF n < NumRuntimes THEN [req[q] EXCEPT !.idx = n + 1] ELSE [req[q] EXCEPT !.pc = "check", !.idx = 1]
  <2>1. req' = [req EXCEPT ![q] = x] /\ rt' = rt
    BY <1>4, <1>n DEF FindWarm
  <2>2. x.rt = 0 /\ x.pc \in {"find", "check"} /\ x.merged = << >>
    BY <1>1, <1>2 DEF Reqs
  <2>. HIDE DEF x
  <2>3. Placed(x) /\ x.pc \notin Owning
    BY <2>2 DEF Placed, Holding, Owning
  <2>. QED  BY <1>2, <1>3, <2>1, <2>2, <2>3, RequestMoves
<1>5. CASE opMarkCheck(rt[n], Fn(q), QuotaOf[Fn(q)])
  <2>. DEFINE x == [req[q] EXCEPT !.pc = "wait", !.rt = n, !.idx = 1]
  <2>1. req' = [req EXCEPT ![q] = x] /\ rt' = [rt EXCEPT ![n] = opMarkSet(rt[n])]
    BY <1>5, <1>n DEF FindWarm
  <2>2. x.rt = n /\ x.pc = "wait"
    BY <1>1 DEF Reqs
  <2>. HIDE DEF x
  <2>3. rt'[n] = opMarkSet(rt[n]) /\ \A r \in Runtimes \ {n} : rt'[r] = rt[r]
    BY <1>1, <2>1 DEF TypeOK
  <2>4. rt[n] \in RuntimeInfos /\ conn[n] \in Conns /\ Shape(rt[n], conn[n], cron[n].pc) /\ Counts(n)
    BY <1>1 DEF TypeOK, PoolInv, Shapes
  <2>5. /\ Shape(rt'[n], conn[n], cron[n].pc) /\ Still(rt[n], rt'[n], conn[n], conn[n])
        /\ InUse(rt[n]) /\ InUse(rt'[n]) /\ rt[n].commit = Fn(q)
        /\ rt'[n].conc = Increment(rt[n].conc) /\ rt'[n].state = rt[n].state
    BY <1>5, <2>3, <2>4, MarkEvent, FunctionsOfRequests
  <2>6. /\ Cardinality(Holders(n)') = Cardinality(Holders(n)) + 1 /\ Cardinality(Holders(n)) + 1 < UintSpan
        /\ Cardinality(HoldersOf(n, Fn(q))') = Cardinality(HoldersOf(n, Fn(q))) + 1
        /\ \A f : f # Fn(q) => HoldersOf(n, f)' = HoldersOf(n, f)
        /\ \A r \in Runtimes \ {n} : Holders(r)' = Holders(r)
    BY <1>1, <1>2, <2>1, <2>2, HolderJoins
  <2>7. Placed(x) /\ x.pc \notin Owning /\ x.pc \notin Scaling
    BY <1>1, <2>2 DEF Placed, Holding, Owning, Scaling, Runtimes
  <2>8. Shapes' /\ Retrieved'
    BY <1>1, <1>3, <2>3, <2>5, OneRuntime
  <2>9. Held' /\ Apart'
    BY <2>1, <2>7, HeldStep, ApartStep
  <2>10. Counts(n)'
    <3>1. /\ Cardinality(Holders(n)) \in Nat /\ Cardinality(HoldersOf(n, Fn(q))) \in Nat
          /\ Cardinality(HoldersOf(n, Fn(q))) <= Cardinality(Holders(n))
      BY HoldersFinite
    <3>2. rt[n].conc = Cardinality(Holders(n))
      BY <2>4, <2>5 DEF Counts, Exact
    <3>3. rt'[n].conc = Cardinality(Holders(n)')
      BY <2>5, <2>6, <3>1, <3>2, IncrementExact
    <3>4. MaxOf(Fn(q)) \in Nat /\ MaxOf(Fn(q)) >= 1 /\ Fn(q) \in Functions /\ QuotaOf[Fn(q)] \in Nat
      BY MaxPositive, FunctionsOfRequests, PoolAssumption
    <3>5. rt[n].cmode => DefaultConcurrentMode
      BY <2>4 DEF Shape
    <3>6. Cardinality(HoldersOf(n, Fn(q))) + 1 <= MaxOf(Fn(q))
      <4>1. CASE rt[n].conc = 0
        BY <3>1, <3>2, <3>4, <4>1
      <4>2. CASE rt[n].cmode /\ rt[n].conc < QuotaOf[Fn(q)]
        BY <3>1, <3>2, <3>4, <3>5, <4>2 DEF MaxOf
      <4>. QED  BY <1>5, <4>1, <4>2 DEF opMarkCheck
    <3>7. ASSUME NEW f \in Functions PROVE Cardinality(HoldersOf(n, f)') <= MaxOf(f)
      <4>1. CASE f = Fn(q)
        BY <2>6, <3>6, <4>1
      <4>2. CASE f # Fn(q)
        BY <2>4, <2>6, <4>2 DEF Counts
      <4>. QED  BY <4>1, <4>2
    <3>8. rt'[n].state \notin {"cold", "merged"}
      BY <2>5 DEF InUse
    <3>. QED  BY <3>3, <3>7, <3>8 DEF Counts, MaxOf
  <2>11. \A r \in Runtimes \ {n} : Counts(r)'
    BY <2>3, <2>6, CountsStep DEF Even
  <2>12. ASSUME NEW p \in Requests PROVE Owned(p)'
    <3>1. CASE p = q
      BY <2>1, <2>7, <3>1, RequestUpdate DEF Owned
    <3>2. CASE p # q
      <4>. SUFFICES ASSUME req[p].pc \in Owning PROVE Owned(p)'
        BY <2>1, <3>2, RequestUpdate DEF Owned
      <4>r. PICK r \in Runtimes : r = req[p].rt
        BY HeldRuntime DEF Owning, Holding
      <4>1. req'[p] = req[p]
        BY <2>1, <3>2, HeldRuntime, RequestUpdate DEF Owning, Holding
      <4>2. Still(rt[r], rt'[r], conn[r], conn'[r])
        BY <1>3, <2>3, <2>5, <4>1 DEF Still
      <4>3. CASE r # n
        BY <2>6, <4>r, <4>1, <4>2, <4>3, OwnedKept
      <4>4. CASE r = n
        <5>1. rt[n].commit \in {NoCommit, Fn(p)}
          BY <2>5, <4>r, <4>4 DEF PoolInv, Owned, Owner, InUse
        <5>2. Fn(p) = Fn(q)
          BY <2>5, <5>1, FunctionsOfRequests
        <5>3. \A f \in Functions \ {Fn(p)} : Cardinality(HoldersOf(n, f)') < MaxOf(f)
          BY <2>6, <4>r, <4>4, <5>2 DEF PoolInv, Owned
        <5>. QED  BY <4>r, <4>1, <4>2, <4>4, <5>3, OwnedStep
      <4>. QED  BY <4>3, <4>4
    <3>. QED  BY <3>1, <3>2
  <2>13. ASSUME NEW p \in Requests PROVE Listed(p)'
    <3>1. CASE p = q
      BY <2>1, <2>7, <3>1, RequestUpdate, ZenonT(40) DEF Listed
    <3>2. CASE p # q
      <4>1. \A r \in Runtimes : rt[r].state \in {"merged", "reclaiming"} => rt'[r].state \in {"merged", "reclaiming"}
        BY <2>3, <2>5
      <4>. QED  BY <2>1, <3>2, <4>1, OthersListed
    <3>. QED  BY <3>1, <3>2
  <2>. QED  BY <2>8, <2>9, <2>10, <2>11, <2>12, <2>13 DEF PoolInv
<1>. QED  BY <1>4, <1>5

LEMMA OccupyEvent ==
  ASSUME NEW i \in RuntimeInfos, NEW c \in Conns, NEW pc, Shape(i, c, pc), NEW f \in Functions, NEW mem,
         opOccupyCheck(i), NEW j, j = opOccupySet(i, f, mem)
  PROVE  /\ Shape(j, c, pc) /\ Still(i, j, c, c) /\ i.state = "cold" /\ c.pend = NoCommit
         /\ j.state = "warmup" /\ j.commit = f /\ ~j.abnormal /\ j.conc = Increment(i.conc)
<1>1. f # NoCommit
  BY NoCommitAssumption
<1>2. /\ j.state = "warmup" /\ j.commit = f /\ j.conc = Increment(i.conc) /\ j.abnormal = i.abnormal
      /\ j.cmode = i.cmode /\ j.stale = i.stale
  BY DEF opOccupySet, RuntimeInfos
<1>3. i.state = "cold" /\ ~i.abnormal
  BY DEF opOccupyCheck, available
<1>. QED  BY <1>1, <1>2, <1>3 DEF Shape, Still, Leaving

LEMMA PoolOccupy ==
  ASSUME FewRequests, TypeOK, PoolInv, NEW q \in Requests, Occupy(q)
  PROVE  PoolInv'
<1>1. req[q] \in Reqs /\ Placed(req[q]) /\ req[q].pc = "occupy" /\ req[q].idx \in Runtimes
  BY PlaceOf DEF Occupy, Reqs
<1>2. req[q].rt = 0 /\ req[q].merged = << >>
  BY <1>1 DEF Placed, Holding
<1>3. conn' = conn /\ cron' = cron
  BY DEF Occupy
<1>n. PICK n \in Runtimes : n = req[q].idx
  BY <1>1
<1>4. CASE ~opOccupyCheck(rt[n])
  <2>. DEFINE x == IF n < NumRuntimes THEN [req[q] EXCEPT !.idx = n + 1] ELSE [req[q] EXCEPT !.pc = "unmark", !.idx = 1]
  <2>1. req' = [req EXCEPT ![q] = x] /\ rt' = rt
    BY <1>4, <1>n DEF Occupy
  <2>2. x.rt = 0 /\ x.pc \in {"occupy", "unmark"} /\ x.merged = << >>
    BY <1>1, <1>2 DEF Reqs
  <2>. HIDE DEF x
  <2>3. Placed(x) /\ x.pc \notin Owning
    BY <2>2 DEF Placed, Holding, Owning
  <2>. QED  BY <1>2, <1>3, <2>1, <2>2, <2>3, RequestMoves
<1>5. CASE opOccupyCheck(rt[n])
  <2>. DEFINE x == [req[q] EXCEPT !.pc = IF isNeedScale(Mem(q)) /\ scaleCount(Mem(q)) > 0 THEN "merge" ELSE "warmup",
                                  !.rt = n, !.idx = 1]
  <2>1. req' = [req EXCEPT ![q] = x] /\ rt' = [rt EXCEPT ![n] = opOccupySet(rt[n], Fn(q), Mem(q))]
    BY <1>5, <1>n DEF Occupy
  <2>2. x.rt = n /\ x.pc \in {"merge", "warmup"} /\ x.merged = << >>
    BY <1>1, <1>2 DEF Reqs
  <2>. HIDE DEF x
  <2>3. rt'[n] = opOccupySet(rt[n], Fn(q), Mem(q)) /\ \A r \in Runtimes \ {n} : rt'[r] = rt[r]
    BY <2>1 DEF TypeOK
  <2>4. rt[n] \in RuntimeInfos /\ conn[n] \in Conns /\ Shape(rt[n], conn[n], cron[n].pc) /\ Counts(n)
    BY DEF TypeOK, PoolInv, Shapes
  <2>5. /\ Shape(rt'[n], conn[n], cron[n].pc) /\ Still(rt[n], rt'[n], conn[n], conn[n])
        /\ rt[n].state = "cold" /\ conn[n].pend = NoCommit /\ rt'[n].state = "warmup" /\ rt'[n].commit = Fn(q)
        /\ ~rt'[n].abnormal /\ rt'[n].conc = Increment(rt[n].conc)
    BY <1>5, <2>3, <2>4, OccupyEvent, FunctionsOfRequests
  <2>6. /\ Cardinality(Holders(n)') = Cardinality(Holders(n)) + 1 /\ Cardinality(Holders(n)) + 1 < UintSpan
        /\ Cardinality(HoldersOf(n, Fn(q))') = Cardinality(HoldersOf(n, Fn(q))) + 1
        /\ \A f : f # Fn(q) => HoldersOf(n, f)' = HoldersOf(n, f)
        /\ \A r \in Runtimes \ {n} : Holders(r)' = Holders(r)
    BY <1>2, <2>1, <2>2, HolderJoins
  <2>7. Placed(x)
    BY <2>2 DEF Placed, Holding, Runtimes
  <2>8. Shapes' /\ Retrieved'
    BY <1>3, <2>3, <2>5, OneRuntime
  <2>9. \A p \in Requests : req[p].pc \in Owning => req[p].rt # n
    BY <2>5 DEF PoolInv, Owned, Owner
  <2>10. Held' /\ Apart'
    <3>1. \A k \in 1..Len(x.merged) : FALSE
      BY <2>2
    <3>. QED  BY <2>1, <2>2, <2>7, <2>9, <3>1, HeldStep, ApartStep
  <2>11. Counts(n)' /\ \A f \in Functions \ {Fn(q)} : Cardinality(HoldersOf(n, f)') < MaxOf(f)
    <3>1. Cardinality(Holders(n)) \in Nat /\ Cardinality(HoldersOf(n, Fn(q))) \in Nat
      BY HoldersFinite
    <3>2. rt[n].conc = Cardinality(Holders(n)) /\ \A f \in Functions : Cardinality(HoldersOf(n, f)) < MaxOf(f)
      BY <2>4, <2>5 DEF Counts, Exact
    <3>3. rt'[n].conc = Cardinality(Holders(n)')
      BY <2>5, <2>6, <3>1, <3>2, IncrementExact
    <3>4. MaxOf(Fn(q)) \in Nat /\ Fn(q) \in Functions
      BY MaxPositive, FunctionsOfRequests
    <3>5. \A f \in Functions \ {Fn(q)} : Cardinality(HoldersOf(n, f)') < MaxOf(f)
      BY <2>6, <3>2
    <3>6. ASSUME NEW f \in Functions PROVE Cardinality(HoldersOf(n, f)') <= MaxOf(f)
      <4>1. CASE f = Fn(q)
        BY <2>6, <3>1, <3>2, <3>4, <4>1
      <4>2. CASE f # Fn(q)
        BY <2>4, <2>6, <4>2 DEF Counts
      <4>. QED  BY <4>1, <4>2
    <3>. QED  BY <2>5, <3>3, <3>5, <3>6 DEF Counts, MaxOf
  <2>12. \A r \in Runtimes \ {n} : Counts(r)'
    BY <2>3, <2>6, CountsStep DEF Even
  <2>13. ASSUME NEW p \in Requests PROVE Owned(p)'
    <3>1. CASE p = q
      <4>1. req'[q] = x
        BY <2>1, RequestUpdate
      <4>2. Owner(q, rt'[n], conn[n])
        BY <2>5 DEF Owner
      <4>. QED  BY <1>3, <2>2, <2>11, <3>1, <4>1, <4>2 DEF Owned, Owner, Fn, MaxOf
    <3>2. CASE p # q
      <4>. SUFFICES ASSUME req[p].pc \in Owning PROVE Owned(p)'
        BY <2>1, <3>2, RequestUpdate DEF Owned
      <4>r. PICK r \in Runtimes : r = req[p].rt
        BY HeldRuntime DEF Owning, Holding
      <4>1. req'[p] = req[p] /\ r # n
        BY <2>1, <2>9, <3>2, <4>r, RequestUpdate
      <4>2. Still(rt[r], rt'[r], conn[r], conn'[r])
        BY <1>3, <2>3, <4>1 DEF Still
      <4>. QED  BY <2>6, <4>r, <4>1, <4>2, OwnedKept
    <3>. QED  BY <3>1, <3>2
  <2>14. ASSUME NEW p \in Requests PROVE Listed(p)'
    <3>1. CASE p = q
      <4>1. req'[q] = x
        BY <2>1, RequestUpdate
      <4>2. \A k \in 1..Len(x.merged) : FALSE
        BY <2>2
      <4>. QED  BY <3>1, <4>1, <4>2 DEF Listed
    <3>2. CASE p # q
      <4>1. \A r \in Runtimes : rt[r].state \in {"merged", "reclaiming"} => rt'[r].state \in {"merged", "reclaiming"}
        BY <2>3, <2>5
      <4>. QED  BY <2>1, <3>2, <4>1, OthersListed
    <3>. QED  BY <3>1, <3>2
  <2>. QED  BY <2>8, <2>10, <2>11, <2>12, <2>13, <2>14 DEF PoolInv
<1>. QED  BY <1>4, <1>5

-----------------------------------------------------------------------------

LEMMA ReleaseEvent ==
  ASSUME NEW i \in RuntimeInfos, NEW c, NEW pc, Shape(i, c, pc), NEW j, j = Release(i)
  PROVE  /\ Shape(j, c, pc) /\ Still(i, j, c, c) /\ j.state = i.state /\ Exact(j) = Exact(i)
         /\ j.conc = IF i.conc = 0 THEN 0 ELSE i.conc - 1
<1>1. /\ j.state = i.state /\ j.commit = i.commit /\ j.abnormal = i.abnormal /\ j.cmode = i.cmode /\ j.stale = i.stale
      /\ j.conc = IF i.conc = 0 THEN 0 ELSE i.conc - 1
  BY DEF Release, RuntimeInfos
<1>. QED  BY <1>1 DEF Shape, Still, Exact, InUse

LEMMA PoolRelease ==
  ASSUME FewRequests, TypeOK, PoolInv, NEW q \in Requests, Drop(q) \/ PutRuntime(q)
  PROVE  PoolInv'
<1>1. req[q].pc \in {"drop", "put"} /\ conn' = conn /\ cron' = cron
  BY DEF Drop, PutRuntime
<1>n. PICK n \in Runtimes : n = req[q].rt
  BY <1>1, HeldRuntime DEF Holding
<1>2. rt' = [rt EXCEPT ![n] = Release(rt[n])]
  BY <1>n DEF Drop, PutRuntime
<1>3. \E x : req' = [req EXCEPT ![q] = x] /\ x.rt = 0 /\ x.pc \in {"find", "done"} /\ Placed(x)
  <2>1. [Attempt(req[q].try) EXCEPT !.pc = "done"].rt = 0 /\ [Attempt(req[q].try) EXCEPT !.pc = "done"].pc = "done"
    BY DEF Attempt
  <2>2. Placed([Attempt(req[q].try) EXCEPT !.pc = "done"])
    BY <2>1 DEF Placed, Holding
  <2>. QED  BY <2>1, <2>2, NextTryPlace DEF Drop, PutRuntime
<1>x. PICK x : req' = [req EXCEPT ![q] = x] /\ x.rt = 0 /\ x.pc \in {"find", "done"} /\ Placed(x)
  BY <1>3
<1>4. rt'[n] = Release(rt[n]) /\ \A r \in Runtimes \ {n} : rt'[r] = rt[r]
  BY <1>2 DEF TypeOK
<1>5. rt[n] \in RuntimeInfos /\ Shape(rt[n], conn[n], cron[n].pc) /\ Counts(n)
  BY DEF TypeOK, PoolInv, Shapes
<1>6. /\ Shape(rt'[n], conn[n], cron[n].pc) /\ Still(rt[n], rt'[n], conn[n], conn[n])
      /\ rt'[n].state = rt[n].state /\ Exact(rt'[n]) = Exact(rt[n])
      /\ rt'[n].conc = IF rt[n].conc = 0 THEN 0 ELSE rt[n].conc - 1
  BY <1>4, <1>5, ReleaseEvent
<1>7. /\ Cardinality(Holders(n)') = Cardinality(Holders(n)) - 1 /\ Cardinality(Holders(n)) >= 1
      /\ Cardinality(HoldersOf(n, Fn(q))') = Cardinality(HoldersOf(n, Fn(q))) - 1
      /\ \A f : f # Fn(q) => HoldersOf(n, f)' = HoldersOf(n, f)
      /\ \A r \in Runtimes \ {n} : Holders(r)' = Holders(r)
  BY <1>n, <1>x, HolderLeaves
<1>8. \A f \in Functions : Cardinality(HoldersOf(n, f)') <= Cardinality(HoldersOf(n, f)) /\ MaxOf(f) \in Nat
  BY <1>7, HoldersFinite, MaxPositive
<1>c. \A f : Cardinality(HoldersOf(n, f)) \in Nat
  BY HoldersFinite
<1>d. \A f \in Functions : Cardinality(HoldersOf(n, f)') \in Nat
  <2>1. ASSUME NEW f \in Functions PROVE IsFiniteSet(HoldersOf(n, f)')
    <3>1. HoldersOf(n, f)' \subseteq Requests
      BY DEF HoldersOf, Holders
    <3>. QED  BY <3>1, FS_Subset DEF FewRequests
  <2>. QED  BY <2>1, FS_CardinalityType
<1>9. Shapes' /\ Retrieved'
  BY <1>1, <1>4, <1>6, OneRuntime
<1>10. x.pc \notin Owning /\ x.pc \notin Scaling
  BY <1>x DEF Owning, Scaling
<1>11. Held' /\ Apart'
  BY <1>x, <1>10, HeldStep, ApartStep
<1>12. Counts(n)'
  <2>1. Exact(rt'[n]) => rt'[n].conc = Cardinality(Holders(n)')
    BY <1>5, <1>6, <1>7, HoldersFinite DEF Counts
  <2>2. \A f \in Functions : /\ Cardinality(HoldersOf(n, f)') <= MaxOf(f)
                             /\ rt'[n].state \in {"cold", "merged"} => Cardinality(HoldersOf(n, f)') < MaxOf(f)
    BY <1>5, <1>6, <1>8, <1>c, <1>d DEF Counts
  <2>. QED  BY <2>1, <2>2 DEF Counts, MaxOf
<1>13. \A r \in Runtimes \ {n} : Counts(r)'
  BY <1>4, <1>7, CountsStep DEF Even
<1>14. ASSUME NEW p \in Requests PROVE Owned(p)'
  <2>1. CASE p = q
    BY <1>x, <1>10, <2>1, RequestUpdate DEF Owned
  <2>2. CASE p # q
    <3>. SUFFICES ASSUME req[p].pc \in Owning PROVE Owned(p)'
      BY <1>x, <2>2, RequestUpdate DEF Owned
    <3>r. PICK r \in Runtimes : r = req[p].rt
      BY HeldRuntime DEF Owning, Holding
    <3>1. req'[p] = req[p]
      BY <1>x, <2>2, RequestUpdate
    <3>2. Still(rt[r], rt'[r], conn[r], conn'[r])
      BY <1>1, <1>4, <1>6 DEF Still
    <3>3. CASE r # n
      BY <1>7, <3>r, <3>1, <3>2, <3>3, OwnedKept
    <3>4. CASE r = n
      <4>1. \A f \in Functions \ {Fn(p)} : Cardinality(HoldersOf(n, f)) < MaxOf(f)
        BY <3>r, <3>4 DEF PoolInv, Owned
      <4>2. \A f \in Functions \ {Fn(p)} : Cardinality(HoldersOf(n, f)') < MaxOf(f)
        BY <1>8, <1>c, <1>d, <4>1
      <4>. QED  BY <3>r, <3>1, <3>2, <3>4, <4>2, OwnedStep
    <3>. QED  BY <3>3, <3>4
  <2>. QED  BY <2>1, <2>2
<1>15. ASSUME NEW p \in Requests PROVE Listed(p)'
  <2>1. CASE p = q
    BY <1>x, <1>10, <2>1, RequestUpdate, ZenonT(40) DEF Listed
  <2>2. CASE p # q
    <3>1. \A r \in Runtimes : rt[r].state \in {"merged", "reclaiming"} => rt'[r].state \in {"merged", "reclaiming"}
      BY <1>4, <1>6
    <3>. QED  BY <1>x, <2>2, <3>1, OthersListed
  <2>. QED  BY <2>1, <2>2
<1>. QED  BY <1>9, <1>11, <1>12, <1>13, <1>14, <1>15 DEF PoolInv

-----------------------------------------------------------------------------

LEMMA MergeEvent ==
  ASSUME NEW i \in RuntimeInfos, NEW c \in Conns, NEW pc, Shape(i, c, pc), NEW f \in Functions,
         opMergedCheck(i), NEW j, j = opMergedSet(i, f)
  PROVE  Shape(j, c, pc) /\ Still(i, j, c, c) /\ Even(i, j) /\ i.state = "cold" /\ j.state = "merged"
<1>1. f # NoCommit
  BY NoCommitAssumption
<1>2. /\ j.state = "merged" /\ j.commit = f /\ j.conc = i.conc /\ j.abnormal = i.abnormal
      /\ j.cmode = i.cmode /\ j.stale = i.stale
  BY DEF opMergedSet, RuntimeInfos
<1>3. i.state = "cold" /\ ~i.abnormal
  BY DEF opMergedCheck, available
<1>. QED  BY <1>1, <1>2, <1>3 DEF Shape, Still, Even, Exact, InUse, Leaving

\* A request that owns its runtime before and after, with another list.
LEMMA OwnerMoves ==
  ASSUME TypeOK, PoolInv, NEW q \in Requests, NEW x, req' = [req EXCEPT ![q] = x], conn' = conn, cron' = cron,
         req[q].pc \in Scaling, x.rt = req[q].rt, x.pc \in Owning, Shapes', Retrieved',
         \A r \in Runtimes : Even(rt[r], rt'[r]),
         \A r \in Runtimes : rt'[r] = rt[r] \/ rt[r].state \in {"cold", "merged"}
  PROVE  /\ Shapes' /\ Retrieved' /\ Held'
         /\ \A p, s \in Requests : p # s /\ req'[p].pc \in Owning /\ req'[s].pc \in Owning => req'[p].rt # req'[s].rt
         /\ \A r \in Runtimes : Counts(r)'
         /\ \A p \in Requests : Owned(p)'
<1>1. req'[q] = x /\ \A p \in Requests \ {q} : req'[p] = req[p]
  BY RequestUpdate
<1>2. \A r : Holders(r)' = Holders(r)
  BY HoldersStay
<1>3. req[q].pc \in Owning
  BY DEF Scaling, Owning
<1>4. Placed(x)
  <2>1. req[q].rt # 0
    BY <1>3 DEF PoolInv, Held, Owning, Holding
  <2>. QED  BY <2>1 DEF Placed, Owning, Holding
<1>5. Held'
  BY <1>4, HeldStep
<1>6. \A r \in Runtimes : Counts(r)'
  BY <1>2, CountsStep
<1>7. ASSUME NEW p \in Requests PROVE Owned(p)'
  <2>1. req'[p].rt = req[p].rt /\ (req'[p].pc \in Owning => req[p].pc \in Owning)
    BY <1>1, <1>3
  <2>. SUFFICES ASSUME req[p].pc \in Owning PROVE Owned(p)'
    BY <2>1 DEF Owned
  <2>r. PICK r \in Runtimes : r = req[p].rt
    BY HeldRuntime DEF Owning, Holding
  <2>2. rt[r].state \in {"warmup", "closed"}
    BY <2>r DEF PoolInv, Owned, Owner
  <2>3. rt'[r] = rt[r]
    BY <2>2
  <2>4. Still(rt[r], rt'[r], conn[r], conn'[r])
    BY <2>3 DEF Still
  <2>. QED  BY <1>2, <2>r, <2>1, <2>4, OwnedKept
<1>8. ASSUME NEW p \in Requests, NEW s \in Requests, p # s, req'[p].pc \in Owning, req'[s].pc \in Owning
      PROVE  req'[p].rt # req'[s].rt
  BY <1>1, <1>3, <1>8 DEF PoolInv, Apart
<1>. QED  BY <1>5, <1>6, <1>7, <1>8

LEMMA PoolMerge ==
  ASSUME TypeOK, PoolInv, NEW q \in Requests, Merge(q)
  PROVE  PoolInv'
<1>1. req[q] \in Reqs /\ req[q].pc = "merge" /\ req[q].idx \in Runtimes /\ req[q].merged \in Seq(Runtimes)
  BY PlaceOf DEF Merge, Reqs
<1>2. conn' = conn /\ cron' = cron
  BY DEF Merge
<1>n. PICK n \in Runtimes : n = req[q].idx
  BY <1>1
<1>m. PICK m : m = IF opMergedCheck(rt[n]) THEN Append(req[q].merged, n) ELSE req[q].merged
  OBVIOUS
<1>3. rt' = IF opMergedCheck(rt[n]) THEN [rt EXCEPT ![n] = opMergedSet(rt[n], Fn(q))] ELSE rt
  BY <1>n DEF Merge
<1>x. PICK x : req' = [req EXCEPT ![q] = x] /\ x.rt = req[q].rt /\ x.pc \in {"warmup", "merge", "rollback"} /\ x.merged = m
  <2>1. req' = [req EXCEPT ![q] =
          IF Len(m) = scaleCount(Mem(q))
          THEN [req[q] EXCEPT !.pc = "warmup", !.idx = 1, !.merged = m]
          ELSE IF n < NumRuntimes
          THEN [req[q] EXCEPT !.idx = n + 1, !.merged = m]
          ELSE [req[q] EXCEPT !.pc = "rollback", !.idx = 1, !.merged = m]]
    BY <1>n, <1>m DEF Merge
  <2>. DEFINE y == IF Len(m) = scaleCount(Mem(q))
                   THEN [req[q] EXCEPT !.pc = "warmup", !.idx = 1, !.merged = m]
                   ELSE IF n < NumRuntimes
                   THEN [req[q] EXCEPT !.idx = n + 1, !.merged = m]
                   ELSE [req[q] EXCEPT !.pc = "rollback", !.idx = 1, !.merged = m]
  <2>2. y.rt = req[q].rt /\ y.pc \in {"warmup", "merge", "rollback"} /\ y.merged = m
    BY <1>1 DEF Reqs
  <2>3. req' = [req EXCEPT ![q] = y]
    BY <2>1
  <2>. HIDE DEF y
  <2>. QED  BY <2>2, <2>3
<1>4. rt[n] \in RuntimeInfos /\ conn[n] \in Conns /\ Shape(rt[n], conn[n], cron[n].pc)
  BY DEF TypeOK, PoolInv, Shapes
<1>5. \A r \in Runtimes \ {n} : rt'[r] = rt[r]
  BY <1>3 DEF TypeOK
<1>6. \/ rt'[n] = rt[n] /\ m = req[q].merged
      \/ /\ Shape(rt'[n], conn[n], cron[n].pc) /\ Even(rt[n], rt'[n])
         /\ rt[n].state = "cold" /\ rt'[n].state = "merged" /\ m = Append(req[q].merged, n)
  <2>1. CASE opMergedCheck(rt[n])
    <3>1. rt'[n] = opMergedSet(rt[n], Fn(q))
      BY <1>3, <2>1 DEF TypeOK
    <3>. QED  BY <1>4, <1>m, <2>1, <3>1, MergeEvent, FunctionsOfRequests
  <2>2. CASE ~opMergedCheck(rt[n])
    BY <1>3, <1>m, <2>2
  <2>. QED  BY <2>1, <2>2
<1>7. Shapes' /\ Retrieved'
  BY <1>2, <1>4, <1>5, <1>6, OneRuntime
<1>8. \A r \in Runtimes : Even(rt[r], rt'[r]) /\ (rt'[r] = rt[r] \/ rt[r].state \in {"cold", "merged"})
  BY <1>5, <1>6 DEF Even
<1>9. req[q].pc \in Scaling /\ x.pc \in Owning
  BY <1>1, <1>x DEF Scaling, Owning
<1>10. req'[q] = x /\ \A p \in Requests \ {q} : req'[p] = req[p]
  BY <1>x, RequestUpdate
<1>11. /\ Held'
       /\ \A p, s \in Requests : p # s /\ req'[p].pc \in Owning /\ req'[s].pc \in Owning => req'[p].rt # req'[s].rt
       /\ \A r \in Runtimes : Counts(r)'
       /\ \A p \in Requests : Owned(p)'
  BY <1>2, <1>x, <1>7, <1>8, <1>9, OwnerMoves
\* Elements of the lists were there before, or are the runtime just merged.
<1>12. ASSUME NEW p \in Requests, req'[p].pc \in Scaling, NEW k \in 1..Len(req'[p].merged)
       PROVE  /\ req[p].pc \in Scaling
              /\ \/ k \in 1..Len(req[p].merged) /\ req'[p].merged[k] = req[p].merged[k]
                 \/ p = q /\ k = Len(req[q].merged) + 1 /\ req'[p].merged[k] = n /\ rt[n].state = "cold" /\ rt'[n].state = "merged"
  <2>1. CASE p # q
    BY <1>10, <1>12, <2>1
  <2>2. CASE p = q /\ m = req[q].merged
    BY <1>9, <1>10, <1>12, <1>x, <2>2
  <2>3. CASE p = q /\ m = Append(req[q].merged, n) /\ rt[n].state = "cold" /\ rt'[n].state = "merged"
    <3>1. /\ Len(m) = Len(req[q].merged) + 1 /\ m[Len(req[q].merged) + 1] = n
          /\ \A l \in 1..Len(req[q].merged) : m[l] = req[q].merged[l]
      BY <1>1, <2>3
    <3>2. k \in 1..Len(m) /\ req'[p].merged = m /\ Len(req[q].merged) \in Nat
      BY <1>1, <1>10, <1>12, <1>x, <2>3
    <3>3. k \in 1..Len(req[q].merged) \/ k = Len(req[q].merged) + 1
      BY <3>1, <3>2
    <3>. QED  BY <1>9, <2>3, <3>1, <3>2, <3>3
  <2>. QED  BY <1>6, <2>1, <2>2, <2>3
<1>13. ASSUME NEW p \in Requests, req[p].pc \in Scaling, NEW k \in 1..Len(req[p].merged)
       PROVE  req[p].merged[k] \in Runtimes /\ rt[req[p].merged[k]].state \in {"merged", "reclaiming"}
  <2>1. req[p].merged \in Seq(Runtimes)
    BY DEF TypeOK, Reqs
  <2>2. Listed(p)
    BY DEF PoolInv
  <2>3. req[p].merged[k] \in Runtimes
    BY <1>13, <2>1
  <2>. QED  BY <1>13, <2>2, <2>3 DEF Listed
<1>14. \A p \in Requests : Listed(p)'
  <2>1. \A r \in Runtimes : rt[r].state \in {"merged", "reclaiming"} => rt'[r].state \in {"merged", "reclaiming"}
    BY <1>5, <1>6
  <2>. QED  BY <1>12, <1>13, <2>1 DEF Listed
<1>15. ASSUME NEW p \in Requests, NEW s \in Requests, req'[p].pc \in Scaling, req'[s].pc \in Scaling,
              NEW j \in 1..Len(req'[p].merged), NEW k \in 1..Len(req'[s].merged), req'[p].merged[j] = req'[s].merged[k]
       PROVE  p = s /\ j = k
  <2>1. /\ req[p].pc \in Scaling
        /\ \/ j \in 1..Len(req[p].merged) /\ req'[p].merged[j] = req[p].merged[j]
           \/ p = q /\ j = Len(req[q].merged) + 1 /\ req'[p].merged[j] = n /\ rt[n].state = "cold"
    BY <1>12, <1>15
  <2>2. /\ req[s].pc \in Scaling
        /\ \/ k \in 1..Len(req[s].merged) /\ req'[s].merged[k] = req[s].merged[k]
           \/ s = q /\ k = Len(req[q].merged) + 1 /\ req'[s].merged[k] = n /\ rt[n].state = "cold"
    BY <1>12, <1>15
  <2>3. CASE j \in 1..Len(req[p].merged) /\ k \in 1..Len(req[s].merged)
             /\ req'[p].merged[j] = req[p].merged[j] /\ req'[s].merged[k] = req[s].merged[k]
    BY <1>15, <2>1, <2>2, <2>3 DEF PoolInv, Apart
  <2>. QED  BY <1>13, <1>15, <2>1, <2>2, <2>3
<1>. QED  BY <1>7, <1>11, <1>14, <1>15 DEF PoolInv, Apart

-----------------------------------------------------------------------------

LEMMA RollbackEvent ==
  ASSUME NEW i \in RuntimeInfos, NEW c \in Conns, NEW pc, Shape(i, c, pc), NEW f \in Functions,
         opRollbackCheck(i, f), i.state = "warmup" => c.pend = NoCommit /\ ~i.abnormal, NEW j, j = opRollbackSet(i)
  PROVE  /\ Shape(j, c, pc) /\ i.state \in {"warmup", "merged"} /\ i.commit = f /\ j.state = "cold"
         /\ j.conc = IF i.state = "warmup" THEN Decrement(i.conc) ELSE i.conc
<1>1. f # NoCommit
  BY NoCommitAssumption
<1>2. /\ j.state = "cold" /\ j.commit = NoCommit /\ j.conc = (IF i.state = "warmup" THEN Decrement(i.conc) ELSE i.conc)
      /\ j.abnormal = i.abnormal /\ j.cmode = i.cmode /\ j.stale = i.stale
  BY DEF opRollbackSet, RuntimeInfos
<1>3. i.state \in {"warmup", "merged"} /\ i.commit = f
  BY DEF opRollbackCheck
<1>. QED  BY <1>1, <1>2, <1>3 DEF Shape, Leaving

LEMMA FrontFacts ==
  ASSUME NEW V, NEW m \in Seq(V), NEW n \in 1..Len(m)
  PROVE  Len(SubSeq(m, 1, n - 1)) = n - 1 /\ \A k \in 1..(n - 1) : SubSeq(m, 1, n - 1)[k] = m[k]
  OBVIOUS

\* Rollback of the container that was merged last.
LEMMA PoolRollbackMerged ==
  ASSUME TypeOK, PoolInv, NEW q \in Requests, Rollback(q), req[q].merged # << >>
  PROVE  PoolInv'
<1>1. req[q] \in Reqs /\ req[q].pc = "rollback" /\ req[q].merged \in Seq(Runtimes)
  BY PlaceOf DEF Rollback, Reqs
<1>2. conn' = conn /\ cron' = cron
  BY DEF Rollback
<1>m. PICK m \in Seq(Runtimes) : m = req[q].merged
  BY <1>1
<1>3. Len(m) \in Nat /\ Len(m) # 0 /\ Len(m) \in 1..Len(m)
  BY <1>m
<1>n. PICK n \in Runtimes : n = m[Len(m)]
  BY <1>m, <1>3
<1>4. rt' = IF opRollbackCheck(rt[n], Fn(q)) THEN [rt EXCEPT ![n] = opRollbackSet(rt[n])] ELSE rt
  BY <1>m, <1>n DEF Rollback
<1>x. PICK x : /\ req' = [req EXCEPT ![q] = x] /\ x.rt = req[q].rt /\ x.pc = "rollback"
               /\ x.merged = SubSeq(m, 1, Len(m) - 1)
  <2>. DEFINE y == [req[q] EXCEPT !.merged = SubSeq(m, 1, Len(m) - 1)]
  <2>1. y.rt = req[q].rt /\ y.pc = "rollback" /\ y.merged = SubSeq(m, 1, Len(m) - 1)
    BY <1>1 DEF Reqs
  <2>2. req' = [req EXCEPT ![q] = y]
    BY <1>m DEF Rollback
  <2>. HIDE DEF y
  <2>. QED  BY <2>1, <2>2
<1>5. Len(x.merged) = Len(m) - 1 /\ \A k \in 1..Len(x.merged) : k \in 1..Len(m) /\ k # Len(m) /\ x.merged[k] = m[k]
  <2>1. Len(x.merged) = Len(m) - 1 /\ \A k \in 1..(Len(m) - 1) : x.merged[k] = m[k]
    BY <1>x, <1>3, FrontFacts
  <2>2. \A k \in 1..(Len(m) - 1) : k \in 1..Len(m) /\ k # Len(m)
    BY <1>3
  <2>. QED  BY <2>1, <2>2
<1>6. rt[n] \in RuntimeInfos /\ conn[n] \in Conns /\ Shape(rt[n], conn[n], cron[n].pc)
  BY DEF TypeOK, PoolInv, Shapes
<1>7. \A r \in Runtimes \ {n} : rt'[r] = rt[r]
  BY <1>4 DEF TypeOK
<1>8. rt[n].state \in {"merged", "reclaiming"} /\ req[q].pc \in Scaling /\ x.pc \in Owning
  <2>1. req[q].pc \in Scaling /\ x.pc \in Owning
    BY <1>1, <1>x DEF Scaling, Owning
  <2>. QED  BY <1>m, <1>n, <1>3, <2>1 DEF PoolInv, Listed
<1>9. \/ rt'[n] = rt[n]
      \/ /\ Shape(rt'[n], conn[n], cron[n].pc) /\ rt[n].state = "merged" /\ rt'[n].state = "cold"
         /\ rt'[n].conc = rt[n].conc
  <2>1. CASE opRollbackCheck(rt[n], Fn(q))
    <3>1. rt'[n] = opRollbackSet(rt[n])
      BY <1>4, <2>1 DEF TypeOK
    <3>2. rt[n].state # "warmup"
      BY <1>8
    <3>. QED  BY <1>6, <1>8, <2>1, <3>1, <3>2, RollbackEvent, FunctionsOfRequests
  <2>2. CASE ~opRollbackCheck(rt[n], Fn(q))
    BY <1>4, <2>2
  <2>. QED  BY <2>1, <2>2
<1>10. Shapes' /\ Retrieved'
  BY <1>2, <1>6, <1>7, <1>9, OneRuntime
<1>11. \A r \in Runtimes : Even(rt[r], rt'[r]) /\ (rt'[r] = rt[r] \/ rt[r].state \in {"cold", "merged"})
  BY <1>7, <1>9 DEF Even, Exact
<1>12. /\ Held'
       /\ \A p, s \in Requests : p # s /\ req'[p].pc \in Owning /\ req'[s].pc \in Owning => req'[p].rt # req'[s].rt
       /\ \A r \in Runtimes : Counts(r)'
       /\ \A p \in Requests : Owned(p)'
  BY <1>2, <1>x, <1>8, <1>10, <1>11, OwnerMoves
<1>13. Apart'
  <2>1. \A k \in 1..Len(x.merged) :
            req[q].pc \in Scaling /\ k \in 1..Len(req[q].merged) /\ x.merged[k] = req[q].merged[k]
    BY <1>m, <1>5, <1>8
  <2>2. req[q].pc \in Owning
    BY <1>1 DEF Owning
  <2>3. \A p \in Requests \ {q} : req[p].pc \in Owning => req[p].rt # x.rt
    BY <1>x, <2>2 DEF PoolInv, Apart
  <2>. QED  BY <1>x, <2>1, <2>3, ApartStep
<1>14. req'[q] = x /\ \A p \in Requests \ {q} : req'[p] = req[p]
  BY <1>x, RequestUpdate
<1>15. ASSUME NEW p \in Requests PROVE Listed(p)'
  <2>. SUFFICES ASSUME req'[p].pc \in Scaling, NEW k \in 1..Len(req'[p].merged)
                PROVE  rt'[req'[p].merged[k]].state \in {"merged", "reclaiming"}
    BY DEF Listed
  <2>1. req[p].pc \in Scaling /\ k \in 1..Len(req[p].merged) /\ req'[p].merged[k] = req[p].merged[k]
        /\ (p = q => k # Len(m))
    BY <1>m, <1>5, <1>8, <1>14
  <2>2. req[p].merged[k] \in Runtimes /\ rt[req[p].merged[k]].state \in {"merged", "reclaiming"}
    <3>1. req[p].merged \in Seq(Runtimes)
      BY DEF TypeOK, Reqs
    <3>2. Listed(p)
      BY DEF PoolInv
    <3>. QED  BY <2>1, <3>1, <3>2 DEF Listed
  <2>3. req[p].merged[k] # n
    BY <1>m, <1>n, <1>3, <1>8, <2>1 DEF PoolInv, Apart
  <2>. QED  BY <1>7, <2>1, <2>2, <2>3
<1>. QED  BY <1>10, <1>12, <1>13, <1>15 DEF PoolInv

\* Rollback of the target.
LEMMA PoolRollbackTarget ==
  ASSUME FewRequests, TypeOK, PoolInv, NEW q \in Requests, Rollback(q), req[q].merged = << >>
  PROVE  PoolInv'
<1>1. req[q] \in Reqs /\ req[q].pc = "rollback" /\ conn' = conn /\ cron' = cron
  BY PlaceOf DEF Rollback
<1>n. PICK n \in Runtimes : n = req[q].rt
  BY <1>1, HeldRuntime DEF Holding
<1>2. rt' = IF opRollbackCheck(rt[n], Fn(q)) THEN [rt EXCEPT ![n] = opRollbackSet(rt[n])] ELSE rt
  BY <1>n DEF Rollback
<1>x. PICK x : req' = [req EXCEPT ![q] = x] /\ x.rt = 0 /\ x.pc = "unmark"
  <2>. DEFINE y == [req[q] EXCEPT !.pc = "unmark", !.rt = 0]
  <2>1. y.rt = 0 /\ y.pc = "unmark"
    BY <1>1 DEF Reqs
  <2>2. req' = [req EXCEPT ![q] = y]
    BY DEF Rollback
  <2>. HIDE DEF y
  <2>. QED  BY <2>1, <2>2
<1>3. /\ Owner(q, rt[n], conn[n]) /\ req[q].pc \in Owning
      /\ \A f \in Functions \ {Fn(q)} : Cardinality(HoldersOf(n, f)) < MaxOf(f)
  BY <1>1, <1>n DEF PoolInv, Owned, Owning
<1>4. rt[n] \in RuntimeInfos /\ conn[n] \in Conns /\ Shape(rt[n], conn[n], cron[n].pc) /\ Counts(n)
  BY DEF TypeOK, PoolInv, Shapes
<1>5. \A r \in Runtimes \ {n} : rt'[r] = rt[r]
  BY <1>2 DEF TypeOK
<1>6. \/ rt'[n] = rt[n] /\ ~Exact(rt[n])
      \/ /\ Shape(rt'[n], conn[n], cron[n].pc) /\ rt[n].state = "warmup" /\ rt'[n].state = "cold"
         /\ InUse(rt[n]) /\ rt'[n].conc = Decrement(rt[n].conc)
  <2>1. CASE opRollbackCheck(rt[n], Fn(q))
    <3>1. rt'[n] = opRollbackSet(rt[n])
      BY <1>2, <2>1 DEF TypeOK
    <3>2. rt[n].state = "warmup" /\ rt[n].commit = Fn(q)
      BY <1>3, <2>1 DEF Owner, opRollbackCheck
    <3>3. conn[n].pend = NoCommit /\ ~rt[n].abnormal
      BY <1>3, <3>2 DEF Owner
    <3>. QED  BY <1>4, <2>1, <3>1, <3>2, <3>3, RollbackEvent, FunctionsOfRequests DEF InUse
  <2>2. CASE ~opRollbackCheck(rt[n], Fn(q))
    BY <1>2, <1>3, <2>2 DEF Owner, opRollbackCheck, Exact, InUse
  <2>. QED  BY <2>1, <2>2
<1>7. /\ Cardinality(Holders(n)') = Cardinality(Holders(n)) - 1 /\ Cardinality(Holders(n)) >= 1
      /\ Cardinality(HoldersOf(n, Fn(q))') = Cardinality(HoldersOf(n, Fn(q))) - 1
      /\ \A f : f # Fn(q) => HoldersOf(n, f)' = HoldersOf(n, f)
      /\ \A r \in Runtimes \ {n} : Holders(r)' = Holders(r)
  BY <1>n, <1>x, HolderLeaves
<1>8. Shapes' /\ Retrieved'
  BY <1>1, <1>4, <1>5, <1>6, OneRuntime
<1>9. x.pc \notin Owning /\ x.pc \notin Scaling /\ Placed(x)
  BY <1>x DEF Owning, Scaling, Placed, Holding
<1>10. Held' /\ Apart'
  BY <1>x, <1>9, HeldStep, ApartStep
<1>11. Counts(n)'
  <2>1. /\ Cardinality(Holders(n)) \in Nat /\ Cardinality(HoldersOf(n, Fn(q))) \in Nat
        /\ Fn(q) \in Functions /\ MaxOf(Fn(q)) \in Nat /\ MaxOf(Fn(q)) >= 1
    BY HoldersFinite, FunctionsOfRequests, MaxPositive
  <2>2. Exact(rt'[n]) => rt'[n].conc = Cardinality(Holders(n)')
    <3>1. CASE rt'[n] = rt[n] /\ ~Exact(rt[n])
      BY <3>1
    <3>2. CASE InUse(rt[n]) /\ rt'[n].conc = Decrement(rt[n].conc)
      <4>1. rt[n].conc = Cardinality(Holders(n))
        BY <1>4, <3>2 DEF Counts, Exact
      <4>. QED  BY <1>7, <2>1, <3>2, <4>1 DEF Decrement
    <3>. QED  BY <1>6, <3>1, <3>2
  <2>3. ASSUME NEW f \in Functions PROVE Cardinality(HoldersOf(n, f)') < MaxOf(f)
    <3>1. CASE f = Fn(q)
      BY <1>4, <1>7, <2>1, <3>1 DEF Counts
    <3>2. CASE f # Fn(q)
      BY <1>3, <1>7, <3>2
    <3>. QED  BY <3>1, <3>2
  <2>4. \A f \in Functions : MaxOf(f) \in Nat /\ Cardinality(HoldersOf(n, f)') \in Nat
    <3>1. ASSUME NEW f \in Functions PROVE Cardinality(HoldersOf(n, f)') \in Nat
      <4>1. HoldersOf(n, f)' \subseteq Requests
        BY DEF HoldersOf, Holders
      <4>. QED  BY <4>1, FS_Subset, FS_CardinalityType DEF FewRequests
    <3>. QED  BY <3>1, MaxPositive
  <2>5. \A f \in Functions : Cardinality(HoldersOf(n, f)') <= MaxOf(f)
    BY <2>3, <2>4
  <2>. QED  BY <2>2, <2>3, <2>5 DEF Counts, MaxOf
<1>12. \A r \in Runtimes \ {n} : Counts(r)'
  BY <1>5, <1>7, CountsStep DEF Even
<1>13. ASSUME NEW p \in Requests PROVE Owned(p)'
  <2>1. CASE p = q
    BY <1>x, <1>9, <2>1, RequestUpdate, ZenonT(40) DEF Owned
  <2>2. CASE p # q
    <3>. SUFFICES ASSUME req[p].pc \in Owning PROVE Owned(p)'
      BY <1>x, <2>2, RequestUpdate DEF Owned
    <3>r. PICK r \in Runtimes : r = req[p].rt
      BY HeldRuntime DEF Owning, Holding
    <3>1. req'[p] = req[p] /\ r # n
      BY <1>n, <1>x, <1>3, <2>2, <3>r, RequestUpdate DEF PoolInv, Apart
    <3>2. Still(rt[r], rt'[r], conn[r], conn'[r])
      BY <1>1, <1>5, <3>1 DEF Still
    <3>. QED  BY <1>7, <3>r, <3>1, <3>2, OwnedKept
  <2>. QED  BY <2>1, <2>2
<1>14. ASSUME NEW p \in Requests PROVE Listed(p)'
  <2>1. CASE p = q
    BY <1>x, <1>9, <2>1, RequestUpdate DEF Listed
  <2>2. CASE p # q
    <3>1. \A r \in Runtimes : rt[r].state \in {"merged", "reclaiming"} => rt'[r].state \in {"merged", "reclaiming"}
      BY <1>5, <1>6
    <3>. QED  BY <1>x, <2>2, <3>1, OthersListed
  <2>. QED  BY <2>1, <2>2
<1>. QED  BY <1>8, <1>10, <1>11, <1>12, <1>13, <1>14 DEF PoolInv

-----------------------------------------------------------------------------

\* What WarmUp does to the runtime of q when funclet succeeds, and when it fails.
WarmUpOf(q, i, j, c, d) ==
  \/ /\ c.runner = "live" /\ d = [c EXCEPT !.pend = Fn(q), !.dead = FALSE]
     /\ j = i \/ j = [i EXCEPT !.cmode = FALSE]
  \/ d = c /\ j = Invalidate(i)

LEMMA WarmUpEvent ==
  ASSUME NEW i \in RuntimeInfos, NEW c \in Conns, NEW pc, Shape(i, c, pc), NEW q \in Requests, Owner(q, i, c),
         NEW j, NEW d, WarmUpOf(q, i, j, c, d)
  PROVE  Shape(j, d, pc) /\ Even(i, j) /\ j.state = i.state
<1>1. CASE /\ c.runner = "live" /\ d = [c EXCEPT !.pend = Fn(q), !.dead = FALSE]
           /\ j = i \/ j = [i EXCEPT !.cmode = FALSE]
  <2>1. /\ j.state = i.state /\ j.commit = i.commit /\ j.conc = i.conc /\ j.abnormal = i.abnormal /\ j.stale = i.stale
        /\ j.cmode => i.cmode
    BY <1>1 DEF RuntimeInfos
  <2>2. /\ d.pend = Fn(q) /\ d.dead = FALSE /\ d.runner = "live" /\ d.dial = c.dial /\ d.session = c.session
        /\ d.incs = c.incs
    BY <1>1 DEF Conns
  <2>3. i.state = "warmup" /\ i.commit = Fn(q) /\ ~i.abnormal
    BY <1>1 DEF Owner, Shape
  <2>. QED  BY <1>1, <2>1, <2>2, <2>3, FunctionsOfRequests DEF Shape, Even, Exact, InUse
<1>2. CASE d = c /\ j = Invalidate(i)
  <2>1. j.state = i.state /\ j.commit = i.commit /\ j.conc = i.conc /\ j.stale = i.stale /\ j.cmode = i.cmode
    BY <1>2 DEF RuntimeInfos, Invalidate
  <2>. QED  BY <1>2, <2>1 DEF Shape, Even, Exact, InUse, Owner
<1>. QED  BY <1>1, <1>2 DEF WarmUpOf

LEMMA PoolWarmUp ==
  ASSUME Prompt, TypeOK, PoolInv, NEW q \in Requests, WarmUp(q) \/ WarmUpFails(q)
  PROVE  PoolInv'
<1>1. req[q] \in Reqs /\ req[q].pc = "warmup" /\ cron' = cron
  BY PlaceOf DEF WarmUp, WarmUpFails
<1>n. PICK n \in Runtimes : n = req[q].rt
  BY <1>1, HeldRuntime DEF Holding
<1>2. /\ \A r \in Runtimes \ {n} : rt'[r] = rt[r] /\ conn'[r] = conn[r]
      /\ WarmUpOf(q, rt[n], rt'[n], conn[n], conn'[n])
  <2>1. CASE WarmUp(q)
    <3>1. conn[n].runner = "live" /\ conn' = [conn EXCEPT ![n] = [conn[n] EXCEPT !.pend = Fn(q), !.dead = FALSE]]
      BY <1>n, <2>1 DEF WarmUp
    <3>2. rt' = rt \/ rt' = [rt EXCEPT ![n] = [rt[n] EXCEPT !.cmode = FALSE]]
      BY <1>n, <2>1 DEF WarmUp
    <3>. QED  BY <3>1, <3>2 DEF TypeOK, WarmUpOf
  <2>2. CASE WarmUpFails(q)
    <3>1. conn' = conn
      BY <2>2 DEF WarmUpFails, Prompt
    <3>2. rt' = [rt EXCEPT ![n] = Invalidate(rt[n])]
      BY <1>n, <2>2 DEF WarmUpFails
    <3>. QED  BY <3>1, <3>2 DEF TypeOK, WarmUpOf
  <2>. QED  BY <2>1, <2>2
<1>x. PICK x : req' = [req EXCEPT ![q] = x] /\ x.rt = req[q].rt /\ x.pc \in {"wait", "drop"}
  <2>1. CASE WarmUp(q)
    <3>. DEFINE y == [req[q] EXCEPT !.pc = "wait", !.merged = << >>]
    <3>1. y.rt = req[q].rt /\ y.pc = "wait"
      BY <1>1 DEF Reqs
    <3>2. req' = [req EXCEPT ![q] = y]
      BY <2>1 DEF WarmUp
    <3>. HIDE DEF y
    <3>. QED  BY <3>1, <3>2
  <2>2. CASE WarmUpFails(q)
    <3>. DEFINE y == [req[q] EXCEPT !.pc = "drop"]
    <3>1. y.rt = req[q].rt /\ y.pc = "drop"
      BY <1>1 DEF Reqs
    <3>2. req' = [req EXCEPT ![q] = y]
      BY <2>2 DEF WarmUpFails
    <3>. HIDE DEF y
    <3>. QED  BY <3>1, <3>2
  <2>. QED  BY <2>1, <2>2
<1>3. Owner(q, rt[n], conn[n]) /\ req[q].pc \in Owning
  BY <1>1, <1>n DEF PoolInv, Owned, Owning
<1>4. rt[n] \in RuntimeInfos /\ conn[n] \in Conns /\ Shape(rt[n], conn[n], cron[n].pc)
  BY DEF TypeOK, PoolInv, Shapes
<1>5. Shape(rt'[n], conn'[n], cron[n].pc) /\ Even(rt[n], rt'[n]) /\ rt'[n].state = rt[n].state
  BY <1>2, <1>3, <1>4, WarmUpEvent
<1>6. Shapes' /\ Retrieved'
  BY <1>1, <1>2, <1>5, OneRuntime
<1>7. x.pc \notin Owning /\ x.pc \notin Scaling /\ Placed(x)
  BY <1>n, <1>x DEF Owning, Scaling, Placed, Holding, Runtimes
<1>8. Held' /\ Apart'
  BY <1>x, <1>7, HeldStep, ApartStep
<1>9. \A r : Holders(r)' = Holders(r)
  BY <1>x, HoldersStay
<1>10. \A r \in Runtimes : Counts(r)'
  <2>1. \A r \in Runtimes : Even(rt[r], rt'[r])
    BY <1>2, <1>5 DEF Even
  <2>. QED  BY <1>9, <2>1, CountsStep
<1>11. ASSUME NEW p \in Requests PROVE Owned(p)'
  <2>1. CASE p = q
    BY <1>x, <1>7, <2>1, RequestUpdate, ZenonT(40) DEF Owned
  <2>2. CASE p # q
    <3>. SUFFICES ASSUME req[p].pc \in Owning PROVE Owned(p)'
      BY <1>x, <2>2, RequestUpdate DEF Owned
    <3>r. PICK r \in Runtimes : r = req[p].rt
      BY HeldRuntime DEF Owning, Holding
    <3>1. req'[p] = req[p] /\ r # n
      BY <1>n, <1>x, <1>3, <2>2, <3>r, RequestUpdate DEF PoolInv, Apart
    <3>2. Still(rt[r], rt'[r], conn[r], conn'[r])
      BY <1>2, <3>1 DEF Still
    <3>. QED  BY <1>9, <3>r, <3>1, <3>2, OwnedKept
  <2>. QED  BY <2>1, <2>2
<1>12. ASSUME NEW p \in Requests PROVE Listed(p)'
  <2>1. CASE p = q
    BY <1>x, <1>7, <2>1, RequestUpdate, ZenonT(40) DEF Listed
  <2>2. CASE p # q
    <3>1. \A r \in Runtimes : rt[r].state \in {"merged", "reclaiming"} => rt'[r].state \in {"merged", "reclaiming"}
      BY <1>2, <1>5
    <3>. QED  BY <1>x, <2>2, <3>1, OthersListed
  <2>. QED  BY <2>1, <2>2
<1>. QED  BY <1>6, <1>8, <1>10, <1>11, <1>12 DEF PoolInv

-----------------------------------------------------------------------------
(* The theorems *)

LEMMA PoolInit == Init => PoolInv
<1>. SUFFICES ASSUME Init PROVE PoolInv
  OBVIOUS
<1>1. \A q \in Requests : req[q].pc = "find" /\ req[q].rt = 0 /\ req[q].merged = << >>
  BY DEF Init, Attempt
<1>2. Held /\ Apart /\ \A q \in Requests : Owned(q) /\ Listed(q)
  BY <1>1 DEF Held, Apart, Owned, Listed, Holding, Owning, Scaling
<1>3. \A r \in Runtimes : ~Job(r)
  BY DEF Init, CronIdle, Job, Resetting
<1>4. ASSUME NEW r \in Runtimes PROVE Shape(rt[r], conn[r], cron[r].pc)
  <2>1. /\ rt[r].state = "closed" /\ rt[r].commit = NoCommit /\ rt[r].conc = 0 /\ rt[r].abnormal = FALSE
        /\ rt[r].stale = FALSE /\ rt[r].cmode = DefaultConcurrentMode
    BY DEF Init, NewRuntimeInfo
  <2>2. /\ conn[r].runner = "none" /\ conn[r].dial = "dialing" /\ conn[r].pend = NoCommit /\ conn[r].dead = FALSE
        /\ conn[r].session = "none" /\ conn[r].incs = 0
    BY DEF Init, NewConn
  <2>. QED  BY <2>1, <2>2 DEF Shape, Leaving
<1>5. ASSUME NEW r \in Runtimes PROVE Counts(r)
  <2>1. Holders(r) = {} /\ \A f : HoldersOf(r, f) = {}
    BY <1>1 DEF Holders, HoldersOf, Runtimes
  <2>2. rt[r].state = "closed"
    BY DEF Init, NewRuntimeInfo
  <2>3. Cardinality({}) = 0
    BY FS_EmptySet
  <2>. QED  BY <2>1, <2>2, <2>3, MaxPositive DEF Counts, Exact, InUse
<1>. QED  BY <1>2, <1>3, <1>4, <1>5 DEF PoolInv, Shapes, Retrieved

LEMMA PoolNext ==
  ASSUME Prompt, FewRequests, TypeOK, RebootCounts, PoolInv, [Next]_vars
  PROVE  PoolInv'
<1>1. ASSUME NEW q \in Requests, RequestStep(q) PROVE PoolInv'
  <2>1. CASE Rollback(q)
    BY <2>1, PoolRollbackMerged, PoolRollbackTarget
  <2>. QED  BY <1>1, <2>1, PoolFindWarm, PoolResources, PoolOccupy, PoolMerge, PoolWarmUp, PoolRelease, PoolInvoke DEF RequestStep
<1>2. CASE StartRound \/ StartRuntimeTask
  BY <1>2, PoolRounds
<1>3. ASSUME NEW r \in Runtimes, CronStep(r) PROVE PoolInv'
  BY <1>3, PoolCron
<1>4. ASSUME NEW r \in Runtimes, ConnStep(r) PROVE PoolInv'
  <2>1. ~RebootWait(r) /\ ~StopRunnerWait(r)
    BY DEF Prompt, RebootWait, StopRunnerWait
  <2>2. ~IncreaseUsed(r)
    BY DEF PoolInv, Shapes, Shape, IncreaseUsed
  <2>. QED  BY <1>4, <2>1, <2>2, PoolInitRunner, BackgroundStep DEF ConnStep, Background
<1>5. ASSUME NEW r \in Runtimes, EnvStep(r) PROVE PoolInv'
  BY <1>5, BackgroundStep DEF EnvStep, Background
<1>6. CASE UNCHANGED vars
  BY <1>6 DEF vars, PoolInv, Shapes, Retrieved, Held, Apart, Counts, Owned, Listed, Job, Holders, HoldersOf
<1>. QED  BY <1>1, <1>2, <1>3, <1>4, <1>5, <1>6 DEF Next

\* With a prompt environment the shapes of the runtimes, the reservations of requests and
\* cron task and the counts of Concurrency hold together in every reachable state: each
\* critical section of runtime_dispatcher.go, event.go, task.go and runner.go keeps them.
THEOREM PoolInvAlways ==
  ASSUME Prompt, FewRequests
  PROVE  Spec => []PoolInv
<1>1. Init => PoolInv
  BY PoolInit
<1>2. TypeOK /\ RebootCounts /\ PoolInv /\ [Next]_vars => PoolInv'
  BY PoolNext
<1>. QED  BY <1>1, <1>2, TypeCorrect, RebootCountsAlways, PTL DEF Spec

\* However occupy, mark, rollback, Release, the cron CAS events and stopRuntime interleave with
\* crashes and failing funclet calls, Concurrency is the number of requests that will release the
\* runtime, as long as the environment is prompt: with Faults, requests can outlive a reset.
THEOREM ConcurrencyAlways ==
  ASSUME Prompt, FewRequests
  PROVE  Spec => []ConcurrencyExact
<1>1. PoolInv => ConcurrencyExact
  BY DEF PoolInv, Counts, Exact, ConcurrencyExact
<1>. QED  BY <1>1, PoolInvAlways, PTL

\* No runtime runs more invocations of a function than PodConcurrentQuota allows.
THEOREM QuotaAlways ==
  ASSUME Prompt, FewRequests
  PROVE  Spec => []QuotaRespected
<1>1. ASSUME PoolInv PROVE QuotaRespected
  <2>. SUFFICES ASSUME NEW r \in Runtimes, NEW f \in Functions
                PROVE  Cardinality({q \in Holders(r) : req[q].pc = "run" /\ Fn(q) = f}) <= MaxOf(f)
    BY DEF QuotaRespected, MaxOf
  <2>. DEFINE running == {q \in Holders(r) : req[q].pc = "run" /\ Fn(q) = f}
  <2>1. running \subseteq HoldersOf(r, f)
    BY DEF HoldersOf
  <2>2. IsFiniteSet(HoldersOf(r, f)) /\ Cardinality(HoldersOf(r, f)) \in Nat
    BY HoldersFinite
  <2>3. Cardinality(running) <= Cardinality(HoldersOf(r, f)) /\ Cardinality(running) \in Nat
    BY <2>1, <2>2, FS_Subset, FS_CardinalityType
  <2>4. Cardinality(HoldersOf(r, f)) <= MaxOf(f) /\ MaxOf(f) \in Nat
    BY <1>1, MaxPositive DEF PoolInv, Counts
  <2>. HIDE DEF running
  <2>5. Cardinality(running) <= MaxOf(f)
    BY <2>2, <2>3, <2>4
  <2>. QED  BY <2>5 DEF running
<1>. QED  BY <1>1, PoolInvAlways, PTL

\* stopRunner closes a runtime only after its background goroutines have ended.
THEOREM DrainedAlways ==
  ASSUME Prompt, FewRequests
  PROVE  Spec => []ClosedIsDrained
<1>1. PoolInv => ClosedIsDrained
  BY DEF PoolInv, Shapes, Shape, ClosedIsDrained
<1>. QED  BY <1>1, PoolInvAlways, PTL

\* Between the CAS that condemns a container and the end of its reset nobody is given it.
THEOREM NoTenantAlways ==
  ASSUME Prompt, FewRequests
  PROVE  Spec => []ResetHasNoTenant
<1>1. PoolInv => ResetHasNoTenant
  BY DEF PoolInv, Shapes, Shape, Retrieved, Job, Resetting, Targets, ResetHasNoTenant, InUse
<1>. QED  BY <1>1, PoolInvAlways, PTL

-----------------------------------------------------------------------------
(* Only coolDown stops a runtime. *)

\* No way into "stopping" but from it.
NoStop(i, j) == j.state = "stopping" => i.state = "stopping"

LEMMA NoStopEvents ==
  ASSUME NEW i \in RuntimeInfos, NEW f, NEW mem, NEW b
  PROVE  /\ NoStop(i, opMarkSet(i)) /\ NoStop(i, opOccupySet(i, f, mem)) /\ NoStop(i, opMergedSet(i, f))
         /\ NoStop(i, opRollbackSet(i)) /\ NoStop(i, Release(i)) /\ NoStop(i, Invalidate(i))
         /\ NoStop(i, opRetrieveSet(i)) /\ NoStop(i, opResetSet(i))
         /\ NoStop(i, [i EXCEPT !.mem = mem]) /\ NoStop(i, [i EXCEPT !.used = f, !.marked = b])
         /\ NoStop(i, [i EXCEPT !.cmode = b]) /\ NoStop(i, [i EXCEPT !.stale = b])
         /\ NoStop(i, [i EXCEPT !.idle = b]) /\ NoStop(i, [i EXCEPT !.resetOld = b])
         /\ NoStop(i, [initRunnerSet(i) EXCEPT !.stale = b]) /\ NoStop(i, initRuntimeSet(i, f, b))
         /\ NoStop(i, stopRunnerSet(i)) /\ NoStop(i, stopRuntimeSet(i))
  BY DEF NoStop, RuntimeInfos, opMarkSet, opOccupySet, opMergedSet, opRollbackSet, Release, Invalidate, opRetrieveSet,
         opResetSet, initRunnerSet, initRuntimeSet, stopRunnerSet, stopRuntimeSet

LEMMA NoStopUpdate ==
  ASSUME TypeOK, NEW n, NEW x, n \in Runtimes => NoStop(rt[n], x), rt' = rt \/ rt' = [rt EXCEPT ![n] = x]
  PROVE  \A r \in Runtimes : NoStop(rt[r], rt'[r])
  BY DEF TypeOK, NoStop

LEMMA OnlyCoolDownStops ==
  ASSUME TypeOK, [Next]_vars, \A r \in Runtimes : ~CoolDown(r)
  PROVE  \A r \in Runtimes : NoStop(rt[r], rt'[r])
<1>t. \A i \in Runtimes : rt[i] \in RuntimeInfos
  BY DEF TypeOK
<1>e. ASSUME NEW i \in Runtimes, NEW f, NEW mem, NEW b
      PROVE  /\ NoStop(rt[i], opMarkSet(rt[i])) /\ NoStop(rt[i], opOccupySet(rt[i], f, mem))
             /\ NoStop(rt[i], opMergedSet(rt[i], f)) /\ NoStop(rt[i], opRollbackSet(rt[i]))
             /\ NoStop(rt[i], Release(rt[i])) /\ NoStop(rt[i], Invalidate(rt[i]))
             /\ NoStop(rt[i], opRetrieveSet(rt[i])) /\ NoStop(rt[i], opResetSet(rt[i]))
             /\ NoStop(rt[i], [rt[i] EXCEPT !.mem = mem]) /\ NoStop(rt[i], [rt[i] EXCEPT !.used = f, !.marked = b])
             /\ NoStop(rt[i], [rt[i] EXCEPT !.cmode = b]) /\ NoStop(rt[i], [rt[i] EXCEPT !.stale = b])
             /\ NoStop(rt[i], [rt[i] EXCEPT !.idle = b]) /\ NoStop(rt[i], [rt[i] EXCEPT !.resetOld = b])
             /\ NoStop(rt[i], [initRunnerSet(rt[i]) EXCEPT !.stale = b]) /\ NoStop(rt[i], initRuntimeSet(rt[i], f, b))
             /\ NoStop(rt[i], stopRunnerSet(rt[i])) /\ NoStop(rt[i], stopRuntimeSet(rt[i]))
  BY <1>t, NoStopEvents
<1>1. ASSUME NEW q \in Requests, RequestStep(q) PROVE \A r \in Runtimes : NoStop(rt[r], rt'[r])
  <2>1. CASE FindWarm(q)
    BY <1>e, <2>1, NoStopUpdate DEF FindWarm
  <2>2. CASE Occupy(q)
    <3>1. rt' = rt \/ rt' = [rt EXCEPT ![req[q].idx] = opOccupySet(rt[req[q].idx], Fn(q), Mem(q))]
      BY <2>2 DEF Occupy
    <3>2. req[q].idx \in Runtimes => NoStop(rt[req[q].idx], opOccupySet(rt[req[q].idx], Fn(q), Mem(q)))
      BY <1>e
    <3>. QED  BY <3>1, <3>2, NoStopUpdate
  <2>3. CASE Merge(q)
    BY <1>e, <2>3, NoStopUpdate DEF Merge
  <2>4. CASE Rollback(q)
    BY <1>e, <2>4, NoStopUpdate DEF Rollback
  <2>5. CASE WarmUp(q)
    BY <1>e, <2>5, NoStopUpdate, ZenonT(40) DEF WarmUp
  <2>6. CASE WarmUpFails(q)
    BY <1>e, <2>6, NoStopUpdate DEF WarmUpFails
  <2>7. CASE Drop(q) \/ PutRuntime(q)
    <3>1. rt' = [rt EXCEPT ![req[q].rt] = Release(rt[req[q].rt])]
      BY <2>7 DEF Drop, PutRuntime
    <3>2. req[q].rt \in Runtimes => NoStop(rt[req[q].rt], Release(rt[req[q].rt]))
      BY <1>e
    <3>. QED  BY <3>1, <3>2, NoStopUpdate
  <2>8. CASE rt' = rt
    BY <2>8 DEF NoStop
  <2>. QED  BY <1>1, <2>1, <2>2, <2>3, <2>4, <2>5, <2>6, <2>7, <2>8
            DEF RequestStep, CheckResource, MarkResource, UnmarkResource, StartInvoke, GiveUp, FinishInvoke
<1>2. ASSUME NEW s \in Runtimes, CronStep(s) PROVE \A r \in Runtimes : NoStop(rt[r], rt'[r])
  <2>1. CASE SyncWrite(s)
    BY <1>e, <2>1, NoStopUpdate DEF SyncWrite
  <2>2. CASE Reborn(s)
    BY <1>e, <2>2, NoStopUpdate DEF Reborn
  <2>3. CASE Retrieve(s)
    BY <1>e, <2>3, NoStopUpdate DEF Retrieve
  <2>4. CASE FuncletReturns(s) \/ FuncletFails(s)
    <3>1. ASSUME NEW i \in Runtimes
          PROVE  rt'[i] = rt[i] \/ rt'[i] = Invalidate(rt[i]) \/ \E u, m : rt'[i] = [rt[i] EXCEPT !.used = u, !.marked = m]
      <4>1. CASE FuncletReturns(s) /\ i = s
        <5>1. rt'[i] = [rt[i] EXCEPT !.used = @ /\ ~cron[s].used, !.marked = @ /\ ~cron[s].marked]
          BY <4>1 DEF FuncletReturns
        <5>. QED  BY <5>1
      <4>2. CASE FuncletReturns(s) /\ i # s
        BY <4>2 DEF FuncletReturns
      <4>3. CASE FuncletFails(s)
        BY <4>3 DEF FuncletFails
      <4>. QED  BY <2>4, <4>1, <4>2, <4>3
    <3>2. ASSUME NEW i \in Runtimes
          PROVE  NoStop(rt[i], rt[i]) /\ NoStop(rt[i], Invalidate(rt[i]))
      BY <1>e DEF NoStop
    <3>3. ASSUME NEW i \in Runtimes PROVE NoStop(rt[i], rt'[i])
      <4>1. CASE \E u, m : rt'[i] = [rt[i] EXCEPT !.used = u, !.marked = m]
        <5>1. PICK u, m : rt'[i] = [rt[i] EXCEPT !.used = u, !.marked = m]
          BY <4>1
        <5>2. rt'[i].state = rt[i].state
          BY <1>t, <5>1 DEF RuntimeInfos
        <5>. QED  BY <5>2 DEF NoStop
      <4>. QED  BY <3>1, <3>2, <4>1
    <3>. QED  BY <3>3
  <2>5. CASE rt' = rt
    BY <2>5 DEF NoStop
  <2>. QED  BY <1>2, <2>1, <2>2, <2>3, <2>4, <2>5
            DEF CronStep, SyncCheck, EndRound, RebootBegin, FuncletReset
<1>3. ASSUME NEW i \in Runtimes, ConnStep(i) \/ EnvStep(i) PROVE \A r \in Runtimes : NoStop(rt[r], rt'[r])
  <2>1. CASE InitRunner(i)
    <3>1. CASE rt[i].state = "closed"
      <4>1. PICK stale : rt' = [rt EXCEPT ![i] = [initRunnerSet(rt[i]) EXCEPT !.stale = stale]]
        BY <2>1, <3>1 DEF InitRunner
      <4>. QED  BY <1>e, <4>1, NoStopUpdate
    <3>2. CASE rt[i].state # "closed"
      BY <2>1, <3>2 DEF InitRunner, NoStop
    <3>. QED  BY <3>1, <3>2
  <2>2. CASE InitRuntime(i)
    <3>1. PICK concurrent : rt' = [rt EXCEPT ![i] = initRuntimeSet(rt[i], conn[i].pend, concurrent)]
      BY <2>2 DEF InitRuntime
    <3>. QED  BY <1>e, <3>1, NoStopUpdate
  <2>3. CASE RunnerUpdate(i) \/ GoStale(i)
    BY <1>e, <2>3, NoStopUpdate DEF RunnerUpdate, GoStale
  <2>4. CASE StopRunner(i)
    BY <1>e, <2>4, NoStopUpdate DEF StopRunner
  <2>5. CASE StopRuntime(i)
    BY <1>e, <2>5, NoStopUpdate DEF StopRuntime
  <2>6. CASE GoIdle(i)
    BY <1>e, <2>6, NoStopUpdate DEF GoIdle
  <2>7. CASE ResetAges(i)
    BY <1>e, <2>7, NoStopUpdate DEF ResetAges
  <2>8. CASE rt' = rt
    BY <2>8 DEF NoStop
  <2>. QED  BY <1>3, <2>1, <2>2, <2>3, <2>4, <2>5, <2>6, <2>7, <2>8
            DEF ConnStep, EnvStep, RebootWait, StopRunnerWait, RefuseRuntime, IncreaseUsed, Crash, ProcessExit
<1>4. CASE StartRound \/ StartRuntimeTask \/ UNCHANGED vars
  BY <1>4 DEF StartRound, StartRuntimeTask, vars, NoStop
<1>. QED  BY <1>1, <1>2, <1>3, <1>4 DEF Next

\* coolDown stops only runtimes that no request holds: its CAS looks at Concurrency, which counts
\* all of them.
THEOREM NeverStopHeldAlways ==
  ASSUME Prompt, FewRequests
  PROVE  Spec => NeverStopHeld
<1>1. ASSUME TypeOK, PoolInv, [Next]_vars
      PROVE  [\A r \in Runtimes : rt[r].state = "warm" /\ rt'[r].state = "stopping" => Holders(r) = {}]_vars
  <2>. SUFFICES ASSUME NEW r \in Runtimes, rt[r].state = "warm", rt'[r].state = "stopping" PROVE Holders(r) = {}
    OBVIOUS
  <2>1. PICK s \in Runtimes : CoolDown(s)
    BY <1>1, OnlyCoolDownStops DEF NoStop
  <2>2. s = r /\ rt[r].conc = 0
    BY <1>1, <2>1 DEF CoolDown, TypeOK, opStopCheck
  <2>3. Exact(rt[r])
    BY <1>1 DEF PoolInv, Shapes, Shape, Exact, InUse
  <2>4. Cardinality(Holders(r)) = 0
    BY <1>1, <2>2, <2>3 DEF PoolInv, Counts
  <2>. QED  BY <2>4, HoldersFinite, FS_EmptySet
<1>. QED  BY <1>1, TypeCorrect, PoolInvAlways, PTL DEF Spec, NeverStopHeld

-----------------------------------------------------------------------------
(* Phantom units: without scaling, whatever the environment does.          *)

NoScaling == \A f \in Functions : ~(isNeedScale(MemoryOf[f]) /\ scaleCount(MemoryOf[f]) > 0)

\* Units are only given back.
Lower(i, j) == j.conc <= i.conc

LEMMA LowerEvents ==
  ASSUME NEW i \in RuntimeInfos, NEW f, NEW mem, NEW b
  PROVE  /\ Lower(i, i) /\ Lower(i, Release(i)) /\ Lower(i, Invalidate(i)) /\ Lower(i, opStopSet(i))
         /\ Lower(i, opRetrieveSet(i)) /\ Lower(i, opResetSet(i))
         /\ Lower(i, [i EXCEPT !.mem = mem]) /\ Lower(i, [i EXCEPT !.used = f, !.marked = b])
         /\ Lower(i, [i EXCEPT !.cmode = b]) /\ Lower(i, [i EXCEPT !.stale = b])
         /\ Lower(i, [i EXCEPT !.idle = b]) /\ Lower(i, [i EXCEPT !.resetOld = b])
         /\ Lower(i, [initRunnerSet(i) EXCEPT !.stale = b]) /\ Lower(i, initRuntimeSet(i, f, b))
         /\ Lower(i, stopRunnerSet(i)) /\ Lower(i, stopRuntimeSet(i))
<1>1. i.conc \in Nat
  BY UintSpanAssumption DEF RuntimeInfos, Uint
<1>. QED  BY <1>1 DEF Lower, RuntimeInfos, Release, Invalidate, opStopSet, opRetrieveSet, opResetSet, initRunnerSet,
                      initRuntimeSet, stopRunnerSet, stopRuntimeSet

LEMMA LowerUpdate ==
  ASSUME TypeOK, NEW n, NEW x, n \in Runtimes => Lower(rt[n], x), rt' = rt \/ rt' = [rt EXCEPT ![n] = x]
  PROVE  \A r \in Runtimes : Lower(rt[r], rt'[r])
<1>1. \A r \in Runtimes : Lower(rt[r], rt[r])
  BY LowerEvents DEF TypeOK
<1>. QED  BY <1>1 DEF TypeOK

LEMMA OthersLower ==
  ASSUME TypeOK, NEW s \in Runtimes, CronStep(s) \/ ConnStep(s) \/ EnvStep(s)
  PROVE  \A r \in Runtimes : Lower(rt[r], rt'[r])
<1>t. \A i \in Runtimes : rt[i] \in RuntimeInfos
  BY DEF TypeOK
<1>e. ASSUME NEW i \in Runtimes, NEW f, NEW mem, NEW b
      PROVE  /\ Lower(rt[i], rt[i]) /\ Lower(rt[i], Invalidate(rt[i])) /\ Lower(rt[i], opStopSet(rt[i]))
             /\ Lower(rt[i], opRetrieveSet(rt[i])) /\ Lower(rt[i], opResetSet(rt[i]))
             /\ Lower(rt[i], [rt[i] EXCEPT !.mem = mem]) /\ Lower(rt[i], [rt[i] EXCEPT !.used = f, !.marked = b])
             /\ Lower(rt[i], [rt[i] EXCEPT !.stale = b])
             /\ Lower(rt[i], [rt[i] EXCEPT !.idle = b]) /\ Lower(rt[i], [rt[i] EXCEPT !.resetOld = b])
             /\ Lower(rt[i], [initRunnerSet(rt[i]) EXCEPT !.stale = b]) /\ Lower(rt[i], initRuntimeSet(rt[i], f, b))
             /\ Lower(rt[i], stopRunnerSet(rt[i])) /\ Lower(rt[i], stopRuntimeSet(rt[i]))
  BY <1>t, LowerEvents
<1>0. CASE rt' = rt
  BY <1>0, <1>e
<1>1. CASE SyncWrite(s)
  BY <1>e, <1>1, LowerUpdate DEF SyncWrite
<1>2. CASE Reborn(s)
  BY <1>e, <1>2, LowerUpdate DEF Reborn
<1>3. CASE CoolDown(s)
  BY <1>e, <1>3, LowerUpdate DEF CoolDown
<1>4. CASE Retrieve(s)
  BY <1>e, <1>4, LowerUpdate DEF Retrieve
<1>5. CASE FuncletReturns(s) \/ FuncletFails(s)
  <2>1. ASSUME NEW i \in Runtimes PROVE Lower(rt[i], rt'[i])
    <3>1. CASE FuncletReturns(s) /\ i = s
      <4>1. rt'[i] = [rt[i] EXCEPT !.used = @ /\ ~cron[s].used, !.marked = @ /\ ~cron[s].marked]
        BY <3>1 DEF FuncletReturns
      <4>2. rt'[i].conc = rt[i].conc
        BY <1>t, <4>1 DEF RuntimeInfos
      <4>. QED  BY <1>e, <4>2 DEF Lower
    <3>2. CASE ~(FuncletReturns(s) /\ i = s)
      <4>1. rt'[i] = rt[i] \/ rt'[i] = Invalidate(rt[i])
        BY <1>5, <3>2 DEF FuncletReturns, FuncletFails
      <4>. QED  BY <1>e, <4>1
    <3>. QED  BY <3>1, <3>2
  <2>. QED  BY <2>1
<1>6. CASE InitRunner(s)
  <2>1. CASE rt[s].state = "closed"
    <3>1. PICK stale : rt' = [rt EXCEPT ![s] = [initRunnerSet(rt[s]) EXCEPT !.stale = stale]]
      BY <1>6, <2>1 DEF InitRunner
    <3>. QED  BY <1>e, <3>1, LowerUpdate
  <2>2. CASE rt[s].state # "closed"
    BY <1>0, <1>6, <2>2 DEF InitRunner
  <2>. QED  BY <2>1, <2>2
<1>7. CASE InitRuntime(s)
  <2>1. PICK concurrent : rt' = [rt EXCEPT ![s] = initRuntimeSet(rt[s], conn[s].pend, concurrent)]
    BY <1>7 DEF InitRuntime
  <2>. QED  BY <1>e, <2>1, LowerUpdate
<1>8. CASE RunnerUpdate(s) \/ GoStale(s)
  BY <1>e, <1>8, LowerUpdate DEF RunnerUpdate, GoStale
<1>9. CASE StopRunner(s)
  BY <1>e, <1>9, LowerUpdate DEF StopRunner
<1>10. CASE StopRuntime(s)
  BY <1>e, <1>10, LowerUpdate DEF StopRuntime
<1>11. CASE GoIdle(s)
  BY <1>e, <1>11, LowerUpdate DEF GoIdle
<1>12. CASE ResetAges(s)
  BY <1>e, <1>12, LowerUpdate DEF ResetAges
<1>. QED  BY <1>0, <1>1, <1>2, <1>3, <1>4, <1>5, <1>6, <1>7, <1>8, <1>9, <1>10, <1>11, <1>12
          DEF CronStep, ConnStep, EnvStep, SyncCheck, EndRound, RebootBegin, FuncletReset, RebootWait, StopRunnerWait,
              RefuseRuntime, IncreaseUsed, Crash, ProcessExit

Places == \A q \in Requests : Placed(req[q]) /\ req[q].pc \notin Scaling

PhantomInv == Places /\ NoPhantomConcurrency

LEMMA PlacesStep ==
  ASSUME TypeOK, Places, NEW q \in Requests, NEW x, req' = [req EXCEPT ![q] = x], Placed(x), x.pc \notin Scaling
  PROVE  Places'
<1>1. req'[q] = x /\ \A p \in Requests \ {q} : req'[p] = req[p]
  BY RequestUpdate
<1>. QED  BY <1>1 DEF Places, Placed

LEMMA ConcType == ASSUME TypeOK PROVE \A r \in Runtimes : rt[r].conc \in Nat
  BY UintSpanAssumption DEF TypeOK, RuntimeInfos, Uint

LEMMA LowerStep ==
  ASSUME FewRequests, TypeOK, TypeOK', NoPhantomConcurrency, \A r \in Runtimes : Lower(rt[r], rt'[r]),
         \A r \in Runtimes : Holders(r)' = Holders(r)
  PROVE  NoPhantomConcurrency'
<1>1. ASSUME NEW r \in Runtimes PROVE rt'[r].conc <= Cardinality(Holders(r)')
  <2>1. rt[r].conc \in Nat /\ rt'[r].conc \in Nat
    BY UintSpanAssumption DEF TypeOK, RuntimeInfos, Uint
  <2>2. Cardinality(Holders(r)) \in Nat
    BY HoldersFinite
  <2>3. rt[r].conc <= Cardinality(Holders(r)) /\ rt'[r].conc <= rt[r].conc /\ Holders(r)' = Holders(r)
    BY DEF NoPhantomConcurrency, Lower
  <2>. QED  BY <2>1, <2>2, <2>3
<1>. QED  BY <1>1 DEF NoPhantomConcurrency

\* A step of a request that stays where it is.
LEMMA PhantomMoves ==
  ASSUME FewRequests, TypeOK, TypeOK', PhantomInv, NEW q \in Requests, NEW x, req' = [req EXCEPT ![q] = x],
         x.rt = req[q].rt, Placed(x), x.pc \notin Scaling, \A r \in Runtimes : Lower(rt[r], rt'[r])
  PROVE  PhantomInv'
<1>1. \A r : Holders(r)' = Holders(r)
  BY HoldersStay
<1>. QED  BY <1>1, LowerStep, PlacesStep DEF PhantomInv

\* A request gets a runtime.
LEMMA PhantomJoins ==
  ASSUME FewRequests, TypeOK, PhantomInv, NEW q \in Requests, NEW x, req' = [req EXCEPT ![q] = x],
         NEW n \in Runtimes, req[q].rt = 0, x.rt = n, Placed(x), x.pc \notin Scaling,
         rt'[n].conc = Increment(rt[n].conc), \A r \in Runtimes \ {n} : rt'[r] = rt[r]
  PROVE  PhantomInv'
<1>1. /\ Cardinality(Holders(n)') = Cardinality(Holders(n)) + 1 /\ Cardinality(Holders(n)) + 1 < UintSpan
      /\ \A r \in Runtimes \ {n} : Holders(r)' = Holders(r)
  BY HolderJoins
<1>2. rt[n].conc \in Nat /\ Cardinality(Holders(n)) \in Nat /\ rt[n].conc <= Cardinality(Holders(n))
  BY ConcType, HoldersFinite DEF PhantomInv, NoPhantomConcurrency
<1>3. rt'[n].conc = rt[n].conc + 1
  <2>1. rt[n].conc + 1 < UintSpan
    BY <1>1, <1>2, UintSpanAssumption
  <2>. QED  BY <1>2, <2>1, IncrementExact
<1>4. ASSUME NEW r \in Runtimes PROVE rt'[r].conc <= Cardinality(Holders(r)')
  <2>1. CASE r = n
    BY <1>1, <1>2, <1>3, <2>1
  <2>2. CASE r # n
    BY <1>1, <2>2 DEF PhantomInv, NoPhantomConcurrency
  <2>. QED  BY <2>1, <2>2
<1>. QED  BY <1>4, PlacesStep DEF PhantomInv, NoPhantomConcurrency

\* A request lets go of its runtime.
LEMMA PhantomLeaves ==
  ASSUME FewRequests, TypeOK, PhantomInv, NEW q \in Requests, NEW x, req' = [req EXCEPT ![q] = x],
         NEW n \in Runtimes, req[q].rt = n, x.rt = 0, Placed(x), x.pc \notin Scaling,
         rt'[n] = Release(rt[n]), \A r \in Runtimes \ {n} : rt'[r] = rt[r]
  PROVE  PhantomInv'
<1>1. /\ Cardinality(Holders(n)') = Cardinality(Holders(n)) - 1 /\ Cardinality(Holders(n)) >= 1
      /\ \A r \in Runtimes \ {n} : Holders(r)' = Holders(r)
  BY HolderLeaves
<1>2. rt[n].conc \in Nat /\ Cardinality(Holders(n)) \in Nat /\ rt[n].conc <= Cardinality(Holders(n))
  BY ConcType, HoldersFinite DEF PhantomInv, NoPhantomConcurrency
<1>3. rt'[n].conc = IF rt[n].conc = 0 THEN 0 ELSE rt[n].conc - 1
  BY DEF Release, TypeOK, RuntimeInfos
<1>4. ASSUME NEW r \in Runtimes PROVE rt'[r].conc <= Cardinality(Holders(r)')
  <2>1. CASE r = n
    BY <1>1, <1>2, <1>3, <2>1
  <2>2. CASE r # n
    BY <1>1, <2>2 DEF PhantomInv, NoPhantomConcurrency
  <2>. QED  BY <2>1, <2>2
<1>. QED  BY <1>4, PlacesStep DEF PhantomInv, NoPhantomConcurrency

LEMMA PhantomRequest ==
  ASSUME NoScaling, FewRequests, TypeOK, TypeOK', PhantomInv, NEW q \in Requests, RequestStep(q)
  PROVE  PhantomInv'
<1>1. /\ req[q] \in Reqs /\ req[q].idx \in Runtimes /\ Placed(req[q]) /\ req[q].pc \notin Scaling
      /\ req[q].pc \in Holding => req[q].rt \in Runtimes
  <2>1. req[q] \in Reqs /\ Placed(req[q]) /\ req[q].pc \notin Scaling
    BY DEF TypeOK, PhantomInv, Places
  <2>2. req[q].rt \in 0 .. NumRuntimes /\ NumRuntimes \in Nat
    BY <2>1, PoolAssumption DEF Reqs
  <2>. QED  BY <2>1, <2>2 DEF Reqs, Placed, Runtimes
<1>2. \A r \in Runtimes : rt[r] \in RuntimeInfos /\ Lower(rt[r], rt[r])
  BY LowerEvents DEF TypeOK
<1>n. PICK n \in Runtimes : n = req[q].idx
  BY <1>1
<1>3. CASE CheckResource(q) \/ UnmarkResource(q) \/ MarkResource(q)
  <2>1. rt' = rt /\ req[q].rt = 0
    BY <1>1, <1>3 DEF CheckResource, UnmarkResource, MarkResource, Placed, Holding
  <2>2. CASE req' = [req EXCEPT ![q] = NextTry(q)]
    <3>1. NextTry(q).pc \notin Scaling
      BY NextTryPlace DEF Scaling
    <3>. QED  BY <1>2, <2>1, <2>2, <3>1, NextTryPlace, PhantomMoves
  <2>3. ASSUME NEW pc \in {"mark", "occupy"}, req' = [req EXCEPT ![q] = [req[q] EXCEPT !.pc = pc]],
               req[q].pc \in {"check", "mark"}
        PROVE  PhantomInv'
    <3>. DEFINE x == [req[q] EXCEPT !.pc = pc]
    <3>1. x.rt = req[q].rt /\ x.pc = pc /\ x.merged = req[q].merged
      BY <1>1 DEF Reqs
    <3>2. Placed(x) /\ x.pc \notin Scaling
      BY <1>1, <2>1, <2>3, <3>1 DEF Placed, Holding, Scaling
    <3>. HIDE DEF x
    <3>. QED  BY <1>2, <2>1, <2>3, <3>1, <3>2, PhantomMoves DEF x
  <2>4. \/ req' = [req EXCEPT ![q] = NextTry(q)]
        \/ \E pc \in {"mark", "occupy"} : req' = [req EXCEPT ![q] = [req[q] EXCEPT !.pc = pc]] /\ req[q].pc \in {"check", "mark"}
    BY <1>3 DEF CheckResource, MarkResource, UnmarkResource
  <2>. QED  BY <2>2, <2>3, <2>4
<1>4. CASE FindWarm(q)
  <2>1. req[q].pc = "find" /\ req[q].rt = 0 /\ req[q].merged = << >>
    BY <1>1, <1>4 DEF FindWarm, Placed, Holding
  <2>2. CASE opMarkCheck(rt[n], Fn(q), QuotaOf[Fn(q)])
    <3>. DEFINE x == [req[q] EXCEPT !.pc = "wait", !.rt = n, !.idx = 1]
    <3>1. req' = [req EXCEPT ![q] = x] /\ rt' = [rt EXCEPT ![n] = opMarkSet(rt[n])]
      BY <1>4, <1>n, <2>2 DEF FindWarm
    <3>2. x.rt = n /\ x.pc = "wait"
      BY <1>1 DEF Reqs
    <3>. HIDE DEF x
    <3>3. rt'[n] = opMarkSet(rt[n]) /\ \A r \in Runtimes \ {n} : rt'[r] = rt[r]
      BY <3>1 DEF TypeOK
    <3>4. rt'[n].conc = Increment(rt[n].conc)
      BY <1>2, <3>3 DEF opMarkSet, RuntimeInfos
    <3>5. Placed(x) /\ x.pc \notin Scaling
      BY <3>2 DEF Placed, Holding, Scaling, Runtimes
    <3>. QED  BY <2>1, <3>1, <3>2, <3>3, <3>4, <3>5, PhantomJoins
  <2>3. CASE ~opMarkCheck(rt[n], Fn(q), QuotaOf[Fn(q)])
    <3>. DEFINE x == IF n < NumRuntimes THEN [req[q] EXCEPT !.idx = n + 1] ELSE [req[q] EXCEPT !.pc = "check", !.idx = 1]
    <3>1. req' = [req EXCEPT ![q] = x] /\ rt' = rt
      BY <1>4, <1>n, <2>3 DEF FindWarm
    <3>2. x.rt = 0 /\ x.pc \in {"find", "check"} /\ x.merged = << >>
      BY <1>1, <2>1 DEF Reqs
    <3>. HIDE DEF x
    <3>3. Placed(x) /\ x.pc \notin Scaling
      BY <3>2 DEF Placed, Holding, Scaling
    <3>. QED  BY <1>2, <2>1, <3>1, <3>2, <3>3, PhantomMoves
  <2>. QED  BY <2>2, <2>3
<1>5. CASE Occupy(q)
  <2>1. req[q].pc = "occupy" /\ req[q].rt = 0 /\ req[q].merged = << >>
    BY <1>1, <1>5 DEF Occupy, Placed, Holding
  <2>2. CASE opOccupyCheck(rt[n])
    <3>. DEFINE x == [req[q] EXCEPT !.pc = "warmup", !.rt = n, !.idx = 1]
    <3>0. ~(isNeedScale(Mem(q)) /\ scaleCount(Mem(q)) > 0)
      BY FunctionsOfRequests DEF NoScaling, Mem, Fn
    <3>1. req' = [req EXCEPT ![q] = x] /\ rt' = [rt EXCEPT ![n] = opOccupySet(rt[n], Fn(q), Mem(q))]
      BY <1>5, <1>n, <2>2, <3>0 DEF Occupy
    <3>2. x.rt = n /\ x.pc = "warmup"
      BY <1>1 DEF Reqs
    <3>. HIDE DEF x
    <3>3. rt'[n] = opOccupySet(rt[n], Fn(q), Mem(q)) /\ \A r \in Runtimes \ {n} : rt'[r] = rt[r]
      BY <3>1 DEF TypeOK
    <3>4. rt'[n].conc = Increment(rt[n].conc)
      BY <1>2, <3>3 DEF opOccupySet, RuntimeInfos
    <3>5. Placed(x) /\ x.pc \notin Scaling
      BY <3>2 DEF Placed, Holding, Scaling, Runtimes
    <3>. QED  BY <2>1, <3>1, <3>2, <3>3, <3>4, <3>5, PhantomJoins
  <2>3. CASE ~opOccupyCheck(rt[n])
    <3>. DEFINE x == IF n < NumRuntimes THEN [req[q] EXCEPT !.idx = n + 1] ELSE [req[q] EXCEPT !.pc = "unmark", !.idx = 1]
    <3>1. req' = [req EXCEPT ![q] = x] /\ rt' = rt
      BY <1>5, <1>n, <2>3 DEF Occupy
    <3>2. x.rt = 0 /\ x.pc \in {"occupy", "unmark"} /\ x.merged = << >>
      BY <1>1, <2>1 DEF Reqs
    <3>. HIDE DEF x
    <3>3. Placed(x) /\ x.pc \notin Scaling
      BY <3>2 DEF Placed, Holding, Scaling
    <3>. QED  BY <1>2, <2>1, <3>1, <3>2, <3>3, PhantomMoves
  <2>. QED  BY <2>2, <2>3
<1>6. ~Merge(q) /\ ~Rollback(q)
  BY <1>1 DEF Merge, Rollback, Scaling
<1>7. CASE WarmUp(q)
  <2>. DEFINE x == [req[q] EXCEPT !.pc = "wait", !.merged = << >>]
  <2>1. req' = [req EXCEPT ![q] = x] /\ req[q].pc = "warmup"
    BY <1>7 DEF WarmUp
  <2>2. x.rt = req[q].rt /\ x.pc = "wait"
    BY <1>1 DEF Reqs
  <2>. HIDE DEF x
  <2>3. Placed(x) /\ x.pc \notin Scaling
    BY <1>1, <2>1, <2>2 DEF Placed, Holding, Scaling
  <2>4. rt' = rt \/ rt' = [rt EXCEPT ![req[q].rt] = [rt[req[q].rt] EXCEPT !.cmode = FALSE]]
    BY <1>7 DEF WarmUp
  <2>5. req[q].rt \in Runtimes => Lower(rt[req[q].rt], [rt[req[q].rt] EXCEPT !.cmode = FALSE])
    BY <1>2, LowerEvents
  <2>. QED  BY <2>1, <2>2, <2>3, <2>4, <2>5, LowerUpdate, PhantomMoves
<1>8. CASE WarmUpFails(q)
  <2>. DEFINE x == [req[q] EXCEPT !.pc = "drop"]
  <2>1. req' = [req EXCEPT ![q] = x] /\ req[q].pc = "warmup"
    BY <1>8 DEF WarmUpFails
  <2>2. x.rt = req[q].rt /\ x.pc = "drop"
    BY <1>1 DEF Reqs
  <2>. HIDE DEF x
  <2>3. Placed(x) /\ x.pc \notin Scaling
    BY <1>1, <2>1, <2>2 DEF Placed, Holding, Scaling
  <2>4. rt' = [rt EXCEPT ![req[q].rt] = Invalidate(rt[req[q].rt])]
    BY <1>8 DEF WarmUpFails
  <2>5. req[q].rt \in Runtimes => Lower(rt[req[q].rt], Invalidate(rt[req[q].rt]))
    BY <1>2, LowerEvents
  <2>. QED  BY <2>1, <2>2, <2>3, <2>4, <2>5, LowerUpdate, PhantomMoves
<1>9. CASE Drop(q) \/ PutRuntime(q)
  <2>1. PICK m \in Runtimes : m = req[q].rt
    BY <1>1, <1>9 DEF Drop, PutRuntime, Holding
  <2>2. rt' = [rt EXCEPT ![m] = Release(rt[m])]
    BY <1>9, <2>1 DEF Drop, PutRuntime
  <2>3. rt'[m] = Release(rt[m]) /\ \A r \in Runtimes \ {m} : rt'[r] = rt[r]
    BY <2>2 DEF TypeOK
  <2>4. \E x : req' = [req EXCEPT ![q] = x] /\ x.rt = 0 /\ x.pc \in {"find", "done"} /\ Placed(x)
    <3>1. [Attempt(req[q].try) EXCEPT !.pc = "done"].rt = 0 /\ [Attempt(req[q].try) EXCEPT !.pc = "done"].pc = "done"
      BY DEF Attempt
    <3>2. Placed([Attempt(req[q].try) EXCEPT !.pc = "done"])
      BY <3>1 DEF Placed, Holding
    <3>. QED  BY <1>9, <3>1, <3>2, NextTryPlace DEF Drop, PutRuntime
  <2>5. PICK x : req' = [req EXCEPT ![q] = x] /\ x.rt = 0 /\ x.pc \in {"find", "done"} /\ Placed(x)
    BY <2>4
  <2>6. x.pc \notin Scaling
    BY <2>5 DEF Scaling
  <2>. QED  BY <2>1, <2>3, <2>5, <2>6, PhantomLeaves
<1>10. CASE StartInvoke(q) \/ GiveUp(q) \/ FinishInvoke(q)
  <2>1. rt' = rt /\ req[q].pc \in {"wait", "run"}
    BY <1>10 DEF StartInvoke, GiveUp, FinishInvoke
  <2>2. PICK pc \in {"run", "put"} : req' = [req EXCEPT ![q] = [req[q] EXCEPT !.pc = pc]]
    BY <1>10 DEF StartInvoke, GiveUp, FinishInvoke
  <2>. DEFINE x == [req[q] EXCEPT !.pc = pc]
  <2>3. x.rt = req[q].rt /\ x.pc = pc
    BY <1>1 DEF Reqs
  <2>4. Placed(x) /\ x.pc \notin Scaling
    BY <1>1, <2>1, <2>3 DEF Placed, Holding, Scaling
  <2>. HIDE DEF x
  <2>. QED  BY <1>2, <2>1, <2>2, <2>3, <2>4, PhantomMoves DEF x
<1>. QED  BY <1>3, <1>4, <1>5, <1>6, <1>7, <1>8, <1>9, <1>10 DEF RequestStep

\* Without scaling no unit of Concurrency is ever left behind that no request will release, whatever
\* the faults: requests that outlive a reset, handlers that run late and lost replies included.
THEOREM NoPhantomAlways ==
  ASSUME NoScaling, FewRequests
  PROVE  Spec => []NoPhantomConcurrency
<1>1. Init => PhantomInv
  <2>. SUFFICES ASSUME Init PROVE PhantomInv
    OBVIOUS
  <2>1. \A q \in Requests : req[q].pc = "find" /\ req[q].rt = 0 /\ req[q].merged = << >>
    BY DEF Init, Attempt
  <2>2. \A r \in Runtimes : rt[r].conc = 0 /\ Cardinality(Holders(r)) \in Nat
    BY HoldersFinite DEF Init, NewRuntimeInfo
  <2>. QED  BY <2>1, <2>2 DEF PhantomInv, Places, Placed, Holding, Scaling, NoPhantomConcurrency
<1>2. ASSUME TypeOK, TypeOK', PhantomInv, [Next]_vars PROVE PhantomInv'
  <2>1. ASSUME NEW q \in Requests, RequestStep(q) PROVE PhantomInv'
    BY <1>2, <2>1, PhantomRequest
  <2>2. ASSUME req' = req, \A r \in Runtimes : Lower(rt[r], rt'[r]) PROVE PhantomInv'
    <3>1. \A r : Holders(r)' = Holders(r)
      BY <2>2 DEF Holders
    <3>2. NoPhantomConcurrency'
      BY <1>2, <2>2, <3>1, LowerStep DEF PhantomInv
    <3>. QED  BY <1>2, <2>2, <3>2 DEF PhantomInv, Places
  <2>3. ASSUME NEW r \in Runtimes, CronStep(r) \/ ConnStep(r) \/ EnvStep(r) PROVE PhantomInv'
    <3>1. req' = req
      BY <2>3 DEF CronStep, ConnStep, EnvStep, SyncCheck, SyncWrite, CoolDown, Reborn, EndRound, Retrieve, RebootBegin,
                  FuncletReset, FuncletReturns, FuncletFails, RebootWait, InitRunner, RunnerUpdate, StopRunnerWait,
                  StopRunner, InitRuntime, RefuseRuntime, IncreaseUsed, StopRuntime, Crash, ProcessExit, GoStale,
                  GoIdle, ResetAges
    <3>. QED  BY <1>2, <2>2, <2>3, <3>1, OthersLower
  <2>4. CASE StartRound \/ StartRuntimeTask \/ UNCHANGED vars
    <3>1. req' = req /\ rt' = rt
      BY <2>4 DEF StartRound, StartRuntimeTask, vars
    <3>2. \A r \in Runtimes : Lower(rt[r], rt[r])
      BY <1>2, LowerEvents DEF TypeOK
    <3>. QED  BY <2>2, <3>1, <3>2
  <2>. QED  BY <1>2, <2>1, <2>3, <2>4 DEF Next
<1>3. PhantomInv => NoPhantomConcurrency
  BY DEF PhantomInv
<1>. QED  BY <1>1, <1>2, <1>3, TypeCorrect, PTL DEF Spec

-----------------------------------------------------------------------------
(* The Marked and Used memory of the node. *)

\* SyncRuntimeResource may overwrite the Resource of a runtime occupied since it looked, and
\* rollbackRuntime does not find a target that crashed, whose memory is then given back twice: the
\* totals are exact where funclet lists what functions need, and where no target that waits for
\* more containers crashes.
SteadySizes ==
  /\ SyncTask => \A f \in Functions : MemoryOf[f] = BaseMemory
  /\ MaxCrashes = 0 \/ NoScaling

Clean(i) == ~i.used /\ ~i.marked

\* What the record of a runtime says of the memory it stands for, given its connections and the
\* goroutine of the cron task.
TidyAs(r, i, c, k) ==
  /\ i.state \in {"cold", "merged", "reclaiming"} => Clean(i)
  /\ i.state = "warmup" => ~i.used
  /\ c.dial # "none" /\ (k.pc = "rpc" => r \notin k.did) => Clean(i)
  /\ k.pc = "rpc" => k.mem = i.mem /\ k.used = i.used /\ k.marked = i.marked
  /\ k.pc \in {"sync", "write"} => SyncTask
  /\ SyncTask => i.mem = BaseMemory
  /\ MaxCrashes = 0 /\ i.state \in {"cold", "merged"} => c.runner = "live"

\* A request that looks for containers to merge, or rolls back, has its target marked for it.
Reserves(q, i, c) ==
  /\ ~SyncTask /\ MaxCrashes = 0
  /\ i.state = "warmup" /\ i.commit = Fn(q) /\ i.marked /\ i.mem = Mem(q) /\ c.runner = "live"

Tidy == \A r \in Runtimes : TidyAs(r, rt[r], conn[r], cron[r])
Reserved == \A q \in Requests : req[q].pc \in Scaling => Reserves(q, rt[req[q].rt], conn[req[q].rt])

MemoryInv == Tidy /\ Reserved /\ MarkedConserved /\ UsedConserved

SameMemory(i, j) == j.mem = i.mem /\ j.used = i.used /\ j.marked = i.marked

\* What leaves Tidy true, and a target that is reserved for a request as it is.
Mild(i, j, c, d, k, l) ==
  /\ SameMemory(i, j)
  /\ j.state = "reclaiming" => i.state \in {"cold", "merged", "reclaiming"}
  /\ j.state \in {"cold", "merged"} => i.state \in {"cold", "merged"}
  /\ j.state = "warmup" => i.state = "warmup"
  /\ d.dial # "none" => c.dial # "none"
  /\ MaxCrashes = 0 /\ c.runner = "live" => d.runner = "live"
  /\ \/ l = k
     \/ /\ k.pc # "rpc" /\ l.pc # "rpc"
        /\ l.pc \in {"sync", "write"} => k.pc \in {"sync", "write"} \/ SyncTask

Spared(i, j, c) ==
  i.state = "warmup" /\ i.commit # NoCommit /\ c.runner = "live" /\ c.pend = NoCommit =>
    j.state = "warmup" /\ j.commit = i.commit

LEMMA MildTidy ==
  ASSUME NEW r, NEW i, NEW j, NEW c, NEW d, NEW k, NEW l, TidyAs(r, i, c, k), Mild(i, j, c, d, k, l)
  PROVE  TidyAs(r, j, d, l)
  BY DEF TidyAs, Mild, SameMemory, Clean

\* What the request of a scaling target counts on.
LEMMA ReservedTarget ==
  ASSUME TypeOK, PoolInv, MemoryInv, NEW q \in Requests, req[q].pc \in Scaling
  PROVE  /\ req[q].rt \in Runtimes /\ Reserves(q, rt[req[q].rt], conn[req[q].rt])
         /\ conn[req[q].rt].pend = NoCommit /\ rt[req[q].rt].commit # NoCommit
         /\ cron[req[q].rt].pc \notin Resetting /\ rt[req[q].rt].state = "warmup"
<1>1. req[q].rt \in Runtimes
  BY HeldRuntime DEF Scaling, Holding
<1>2. Reserves(q, rt[req[q].rt], conn[req[q].rt])
  BY DEF MemoryInv, Reserved
<1>3. conn[req[q].rt].pend = NoCommit
  BY DEF PoolInv, Owned, Owner, Owning, Scaling
<1>4. rt[req[q].rt].commit # NoCommit
  BY <1>2, FunctionsOfRequests DEF Reserves
<1>5. Shape(rt[req[q].rt], conn[req[q].rt], cron[req[q].rt].pc)
  BY <1>1 DEF PoolInv, Shapes
<1>6. cron[req[q].rt].pc \notin Resetting
  BY <1>4, <1>5 DEF Shape
<1>. QED  BY <1>1, <1>2, <1>3, <1>4, <1>6 DEF Reserves

LEMMA ReservedKept ==
  ASSUME TypeOK, PoolInv, MemoryInv, NEW q \in Requests, req'[q].pc \in Scaling,
         req[q].pc \in Scaling, req'[q].rt = req[q].rt,
         \A r \in Runtimes : r = req[q].rt =>
            /\ SameMemory(rt[r], rt'[r]) /\ Spared(rt[r], rt'[r], conn[r])
            /\ MaxCrashes = 0 /\ conn[r].runner = "live" => conn'[r].runner = "live"
  PROVE  Reserves(q, rt'[req'[q].rt], conn'[req'[q].rt])
<1>n. PICK n : n = req[q].rt
  OBVIOUS
<1>1. n \in Runtimes /\ Reserves(q, rt[n], conn[n]) /\ conn[n].pend = NoCommit /\ rt[n].commit # NoCommit
  BY <1>n, ReservedTarget
<1>2. /\ SameMemory(rt[n], rt'[n]) /\ Spared(rt[n], rt'[n], conn[n])
      /\ MaxCrashes = 0 /\ conn[n].runner = "live" => conn'[n].runner = "live"
  BY <1>n, <1>1
<1>3. Reserves(q, rt'[n], conn'[n])
  BY <1>1, <1>2 DEF Reserves, SameMemory, Spared
<1>. QED  BY <1>n, <1>3

-----------------------------------------------------------------------------
(* Totals *)

LEMMA TotalsType ==
  ASSUME TypeOK, FewRequests
  PROVE  /\ IsFiniteSet(Runtimes) /\ IsFiniteSet(Requests)
         /\ MarkedBy \in [Runtimes -> Int] /\ UsedBy \in [Runtimes -> Int] /\ Reservations \in [Requests -> Int]
         /\ SumFunction(MarkedBy) \in Int /\ SumFunction(UsedBy) \in Int /\ SumFunction(Reservations) \in Int
<1>1. IsFiniteSet(Runtimes) /\ IsFiniteSet(Requests)
  BY PoolAssumption, FS_Interval DEF Runtimes, FewRequests
<1>2. \A r \in Runtimes : rt[r].mem \in Int
  BY DEF TypeOK, RuntimeInfos
<1>3. \A q \in Requests : Mem(q) \in Int
  BY PoolAssumption DEF Mem
<1>4. MarkedBy \in [Runtimes -> Int] /\ UsedBy \in [Runtimes -> Int] /\ Reservations \in [Requests -> Int]
  BY <1>2, <1>3 DEF MarkedBy, UsedBy, Reservations
<1>. QED  BY <1>1, <1>4, TotalType

\* What a runtime counts for stays the same.
SameWeight(i, j) ==
  /\ (IF j.marked THEN j.mem ELSE 0) = (IF i.marked THEN i.mem ELSE 0)
  /\ (IF j.used THEN j.mem ELSE 0) = (IF i.used THEN i.mem ELSE 0)

Reserving == {"occupy", "unmark"}

LEMMA RuntimesStay ==
  ASSUME \A r \in Runtimes : SameWeight(rt[r], rt'[r])
  PROVE  MarkedBy' = MarkedBy /\ UsedBy' = UsedBy
  BY DEF SameWeight, MarkedBy, UsedBy

LEMMA RequestsStay ==
  ASSUME \A q \in Requests : req'[q].pc \in Reserving <=> req[q].pc \in Reserving
  PROVE  Reservations' = Reservations
  BY DEF Reservations, Reserving, Mem

LEMMA RuntimeChanges ==
  ASSUME TypeOK, TypeOK', FewRequests, NEW n \in Runtimes, \A r \in Runtimes \ {n} : SameWeight(rt[r], rt'[r])
  PROVE  /\ SumFunction(MarkedBy') = SumFunction(MarkedBy) - (IF rt[n].marked THEN rt[n].mem ELSE 0)
                                       + (IF rt'[n].marked THEN rt'[n].mem ELSE 0)
         /\ SumFunction(UsedBy') = SumFunction(UsedBy) - (IF rt[n].used THEN rt[n].mem ELSE 0)
                                     + (IF rt'[n].used THEN rt'[n].mem ELSE 0)
<1>1. /\ MarkedBy' \in [Runtimes -> Int] /\ UsedBy' \in [Runtimes -> Int]
      /\ MarkedBy \in [Runtimes -> Int] /\ UsedBy \in [Runtimes -> Int] /\ IsFiniteSet(Runtimes)
  <2>1. \A r \in Runtimes : rt[r].mem \in Int /\ rt'[r].mem \in Int
    BY DEF TypeOK, RuntimeInfos
  <2>. QED  BY <2>1, TotalsType DEF MarkedBy, UsedBy
<1>2. \A r \in Runtimes \ {n} : MarkedBy'[r] = MarkedBy[r] /\ UsedBy'[r] = UsedBy[r]
  BY DEF SameWeight, MarkedBy, UsedBy
<1>3. /\ SumFunction(MarkedBy') = SumFunction(MarkedBy) - MarkedBy[n] + MarkedBy'[n]
      /\ SumFunction(UsedBy') = SumFunction(UsedBy) - UsedBy[n] + UsedBy'[n]
  <2>1. PICK v, w, x, y : v = MarkedBy /\ w = UsedBy /\ x = MarkedBy' /\ y = UsedBy'
    OBVIOUS
  <2>2. /\ x \in [Runtimes -> Int] /\ y \in [Runtimes -> Int] /\ v \in [Runtimes -> Int] /\ w \in [Runtimes -> Int]
        /\ \A r \in Runtimes \ {n} : x[r] = v[r] /\ y[r] = w[r]
    BY <1>1, <1>2, <2>1
  <2>3. SumFunction(x) = SumFunction(v) - v[n] + x[n]
    BY <1>1, <2>2, TotalUpdate
  <2>4. SumFunction(y) = SumFunction(w) - w[n] + y[n]
    BY <1>1, <2>2, TotalUpdate
  <2>. QED  BY <2>1, <2>3, <2>4
<1>4. /\ MarkedBy[n] = (IF rt[n].marked THEN rt[n].mem ELSE 0) /\ UsedBy[n] = (IF rt[n].used THEN rt[n].mem ELSE 0)
      /\ MarkedBy'[n] = (IF rt'[n].marked THEN rt'[n].mem ELSE 0)
      /\ UsedBy'[n] = (IF rt'[n].used THEN rt'[n].mem ELSE 0)
  BY DEF MarkedBy, UsedBy
<1>. QED  BY <1>3, <1>4

LEMMA RequestChanges ==
  ASSUME TypeOK, FewRequests, NEW q \in Requests, NEW x, req' = [req EXCEPT ![q] = x]
  PROVE  SumFunction(Reservations') = SumFunction(Reservations) - (IF req[q].pc \in Reserving THEN Mem(q) ELSE 0)
                                        + (IF x.pc \in Reserving THEN Mem(q) ELSE 0)
<1>1. req'[q] = x /\ \A p \in Requests \ {q} : req'[p] = req[p]
  BY RequestUpdate
<1>2. /\ \A p \in Requests \ {q} : Reservations'[p] = Reservations[p]
      /\ Reservations[q] = (IF req[q].pc \in Reserving THEN Mem(q) ELSE 0)
      /\ Reservations'[q] = (IF x.pc \in Reserving THEN Mem(q) ELSE 0)
  BY <1>1 DEF Reservations, Reserving, Mem
<1>3. Reservations' \in [Requests -> Int] /\ Reservations \in [Requests -> Int] /\ IsFiniteSet(Requests)
  <2>1. \A p \in Requests : Mem(p) \in Int
    BY PoolAssumption DEF Mem
  <2>. QED  BY <2>1, TotalsType DEF Reservations, Mem
<1>4. SumFunction(Reservations') = SumFunction(Reservations) - Reservations[q] + Reservations'[q]
  <2>1. PICK v, w : v = Reservations /\ w = Reservations'
    OBVIOUS
  <2>2. v \in [Requests -> Int] /\ w \in [Requests -> Int] /\ \A p \in Requests \ {q} : w[p] = v[p]
    BY <1>2, <1>3, <2>1
  <2>3. SumFunction(w) = SumFunction(v) - v[q] + w[q]
    BY <1>3, <2>2, TotalUpdate
  <2>. QED  BY <2>1, <2>3
<1>. QED  BY <1>2, <1>4

-----------------------------------------------------------------------------
(* Steps that leave the totals alone *)

LEMMA MemoryMoves ==
  ASSUME MemoryInv, resource' = resource, Tidy', Reserved', \A r \in Runtimes : SameWeight(rt[r], rt'[r]),
         \A q \in Requests : req'[q].pc \in Reserving <=> req[q].pc \in Reserving
  PROVE  MemoryInv'
<1>1. MarkedBy' = MarkedBy /\ UsedBy' = UsedBy /\ Reservations' = Reservations
  BY RuntimesStay, RequestsStay
<1>. QED  BY <1>1 DEF MemoryInv, MarkedConserved, UsedConserved

\* Requests that neither begin nor end a reservation.
Calmly(x, y) ==
  /\ y.pc \in Reserving <=> x.pc \in Reserving
  /\ y.pc \in Scaling => x.pc \in Scaling /\ y.rt = x.rt

LEMMA MemoryStays ==
  ASSUME TypeOK, PoolInv, MemoryInv, resource' = resource, \A q \in Requests : Calmly(req[q], req'[q]),
         \A r \in Runtimes : /\ Mild(rt[r], rt'[r], conn[r], conn'[r], cron[r], cron'[r])
                             /\ Spared(rt[r], rt'[r], conn[r])
  PROVE  MemoryInv'
<1>1. Tidy'
  BY MildTidy DEF MemoryInv, Tidy
<1>2. \A r \in Runtimes : SameMemory(rt[r], rt'[r])
  BY DEF Mild
<1>3. Reserved'
  <2>1. ASSUME NEW q \in Requests, req'[q].pc \in Scaling PROVE Reserves(q, rt'[req'[q].rt], conn'[req'[q].rt])
    <3>1. req[q].pc \in Scaling /\ req'[q].rt = req[q].rt
      BY <2>1 DEF Calmly
    <3>2. \A r \in Runtimes : /\ SameMemory(rt[r], rt'[r]) /\ Spared(rt[r], rt'[r], conn[r])
                              /\ MaxCrashes = 0 /\ conn[r].runner = "live" => conn'[r].runner = "live"
      BY DEF Mild
    <3>. QED  BY <2>1, <3>1, <3>2, ReservedKept
  <2>2. \A q \in Requests : req'[q].pc \in Scaling => Reserves(q, rt'[req'[q].rt], conn'[req'[q].rt])
    BY <2>1
  <2>. QED  BY <2>2 DEF Reserved, Reserves, Fn, Mem
<1>4. \A r \in Runtimes : SameWeight(rt[r], rt'[r])
  BY <1>2 DEF SameMemory, SameWeight
<1>5. \A q \in Requests : req'[q].pc \in Reserving <=> req[q].pc \in Reserving
  BY DEF Calmly
<1>. QED  BY <1>1, <1>3, <1>4, <1>5, MemoryMoves

\* One request takes a calm step.
LEMMA CalmRequest ==
  ASSUME TypeOK, NEW q \in Requests, NEW x, req' = [req EXCEPT ![q] = x], Calmly(req[q], x)
  PROVE  \A p \in Requests : Calmly(req[p], req'[p])
<1>1. req'[q] = x /\ \A p \in Requests \ {q} : req'[p] = req[p]
  BY RequestUpdate
<1>. QED  BY <1>1 DEF Calmly

Similar(i, j) == SameMemory(i, j) /\ j.state = i.state /\ j.commit = i.commit

LEMMA SimilarEvents ==
  ASSUME NEW i \in RuntimeInfos, NEW b
  PROVE  /\ Similar(i, i) /\ Similar(i, opMarkSet(i)) /\ Similar(i, Release(i)) /\ Similar(i, Invalidate(i))
         /\ Similar(i, [i EXCEPT !.cmode = b]) /\ Similar(i, [i EXCEPT !.stale = b])
         /\ Similar(i, [i EXCEPT !.idle = b]) /\ Similar(i, [i EXCEPT !.resetOld = b])
  BY DEF Similar, SameMemory, RuntimeInfos, opMarkSet, Release, Invalidate

LEMMA SimilarUpdate ==
  ASSUME TypeOK, NEW n, NEW x, n \in Runtimes => Similar(rt[n], x), rt' = rt \/ rt' = [rt EXCEPT ![n] = x]
  PROVE  \A r \in Runtimes : Similar(rt[r], rt'[r])
<1>1. \A r \in Runtimes : Similar(rt[r], rt[r])
  BY SimilarEvents DEF TypeOK
<1>. QED  BY <1>1 DEF TypeOK

LEMMA MemorySimilar ==
  ASSUME TypeOK, PoolInv, MemoryInv, resource' = resource, \A q \in Requests : Calmly(req[q], req'[q]), cron' = cron,
         \A r \in Runtimes : /\ Similar(rt[r], rt'[r]) /\ (conn'[r].dial # "none" => conn[r].dial # "none")
                             /\ MaxCrashes = 0 /\ conn[r].runner = "live" => conn'[r].runner = "live"
  PROVE  MemoryInv'
<1>1. ASSUME NEW r \in Runtimes
      PROVE  /\ Mild(rt[r], rt'[r], conn[r], conn'[r], cron[r], cron'[r])
             /\ Spared(rt[r], rt'[r], conn[r])
  BY DEF Mild, Similar, SameMemory, Spared
<1>. QED  BY <1>1, MemoryStays

-----------------------------------------------------------------------------
(* Requests *)

LEMMA MemoryRequest ==
  ASSUME TypeOK, PoolInv, MemoryInv, NEW q \in Requests, NEW x, req' = [req EXCEPT ![q] = x], Calmly(req[q], x),
         NEW n, NEW j, rt' = rt \/ rt' = [rt EXCEPT ![n] = j], n \in Runtimes => Similar(rt[n], j),
         resource' = resource, cron' = cron, conn' = conn
  PROVE  MemoryInv'
<1>1. \A p \in Requests : Calmly(req[p], req'[p])
  BY CalmRequest
<1>2. \A r \in Runtimes : Similar(rt[r], rt'[r])
  BY SimilarUpdate
<1>. QED  BY <1>1, <1>2, MemorySimilar

LEMMA MemoryFindWarm ==
  ASSUME TypeOK, PoolInv, MemoryInv, NEW q \in Requests, FindWarm(q) \/ CheckResource(q)
  PROVE  MemoryInv'
<1>1. req[q] \in Reqs /\ req[q].pc \in {"find", "check"} /\ resource' = resource /\ cron' = cron /\ conn' = conn
  BY DEF FindWarm, CheckResource, TypeOK
<1>n. PICK n : n = req[q].idx
  OBVIOUS
<1>2. n \in Runtimes /\ rt[n] \in RuntimeInfos
  BY <1>1, <1>n DEF Reqs, TypeOK
<1>3. rt' = rt \/ rt' = [rt EXCEPT ![n] = opMarkSet(rt[n])]
  BY <1>n DEF FindWarm, CheckResource
<1>4. Similar(rt[n], opMarkSet(rt[n]))
  BY <1>2, SimilarEvents
<1>5. PICK x : req' = [req EXCEPT ![q] = x] /\ x.pc \in {"find", "check", "wait", "mark", "done"}
  <2>1. CASE FindWarm(q)
    <3>. DEFINE x == IF opMarkCheck(rt[n], Fn(q), QuotaOf[Fn(q)]) THEN [req[q] EXCEPT !.pc = "wait", !.rt = n, !.idx = 1]
                     ELSE IF n < NumRuntimes THEN [req[q] EXCEPT !.idx = n + 1] ELSE [req[q] EXCEPT !.pc = "check", !.idx = 1]
    <3>1. req' = [req EXCEPT ![q] = x]
      BY <1>n, <2>1 DEF FindWarm
    <3>2. x.pc \in {"find", "check", "wait"}
      BY <1>1 DEF Reqs
    <3>. HIDE DEF x
    <3>. QED  BY <3>1, <3>2
  <2>2. CASE CheckResource(q)
    <3>1. \/ req' = [req EXCEPT ![q] = NextTry(q)]
          \/ req' = [req EXCEPT ![q] = [req[q] EXCEPT !.pc = "mark"]]
      BY <2>2 DEF CheckResource
    <3>2. [req[q] EXCEPT !.pc = "mark"].pc = "mark"
      BY <1>1 DEF Reqs
    <3>. QED  BY <3>1, <3>2, NextTryPlace
  <2>. QED  BY <2>1, <2>2
<1>6. Calmly(req[q], x)
  BY <1>1, <1>5 DEF Calmly, Reserving, Scaling
<1>. QED  BY <1>1, <1>2, <1>3, <1>4, <1>5, <1>6, MemoryRequest

LEMMA MemoryRelease ==
  ASSUME TypeOK, PoolInv, MemoryInv, NEW q \in Requests,
         Drop(q) \/ PutRuntime(q) \/ StartInvoke(q) \/ GiveUp(q) \/ FinishInvoke(q)
  PROVE  MemoryInv'
<1>1. /\ req[q] \in Reqs /\ req[q].pc \in {"drop", "put", "wait", "run"}
      /\ resource' = resource /\ cron' = cron /\ conn' = conn
  BY DEF Drop, PutRuntime, StartInvoke, GiveUp, FinishInvoke, TypeOK
<1>n. PICK n : n = req[q].rt
  OBVIOUS
<1>2. rt' = rt \/ rt' = [rt EXCEPT ![n] = Release(rt[n])]
  BY <1>n DEF Drop, PutRuntime, StartInvoke, GiveUp, FinishInvoke
<1>3. n \in Runtimes => Similar(rt[n], Release(rt[n]))
  BY SimilarEvents DEF TypeOK
<1>4. PICK x : req' = [req EXCEPT ![q] = x] /\ x.pc \in {"run", "put", "done", "find"}
  <2>1. [req[q] EXCEPT !.pc = "run"].pc = "run" /\ [req[q] EXCEPT !.pc = "put"].pc = "put"
    BY <1>1 DEF Reqs
  <2>2. [Attempt(req[q].try) EXCEPT !.pc = "done"].pc = "done"
    BY DEF Attempt
  <2>. QED  BY <2>1, <2>2, NextTryPlace DEF Drop, PutRuntime, StartInvoke, GiveUp, FinishInvoke
<1>5. Calmly(req[q], x)
  BY <1>1, <1>4 DEF Calmly, Reserving, Scaling
<1>. QED  BY <1>1, <1>2, <1>3, <1>4, <1>5, MemoryRequest

LEMMA MemoryWarmUp ==
  ASSUME Prompt, TypeOK, PoolInv, MemoryInv, NEW q \in Requests, WarmUp(q) \/ WarmUpFails(q)
  PROVE  MemoryInv'
<1>1. req[q] \in Reqs /\ req[q].pc = "warmup" /\ resource' = resource /\ cron' = cron
  BY DEF WarmUp, WarmUpFails, TypeOK
<1>n. PICK n \in Runtimes : n = req[q].rt
  BY <1>1, HeldRuntime DEF Holding
<1>2. rt[n] \in RuntimeInfos /\ conn[n] \in Conns
  BY DEF TypeOK
<1>3. \A r \in Runtimes : Similar(rt[r], rt'[r])
  <2>1. \/ rt' = rt \/ rt' = [rt EXCEPT ![n] = Invalidate(rt[n])]
        \/ rt' = [rt EXCEPT ![n] = [rt[n] EXCEPT !.cmode = FALSE]]
    BY <1>n DEF WarmUp, WarmUpFails
  <2>2. Similar(rt[n], Invalidate(rt[n])) /\ Similar(rt[n], [rt[n] EXCEPT !.cmode = FALSE])
    BY <1>2, SimilarEvents
  <2>. QED  BY <2>1, <2>2, SimilarUpdate
<1>4. conn' = conn \/ conn' = [conn EXCEPT ![n] = [conn[n] EXCEPT !.pend = Fn(q), !.dead = FALSE]]
  BY <1>n DEF WarmUp, WarmUpFails, Prompt
<1>5. \A r \in Runtimes : conn'[r].dial = conn[r].dial /\ conn'[r].runner = conn[r].runner
  <2>. DEFINE d == [conn[n] EXCEPT !.pend = Fn(q), !.dead = FALSE]
  <2>1. d.dial = conn[n].dial /\ d.runner = conn[n].runner
    BY <1>2 DEF Conns
  <2>2. conn' = conn \/ conn' = [conn EXCEPT ![n] = d]
    BY <1>4
  <2>. HIDE DEF d
  <2>. QED  BY <2>1, <2>2 DEF TypeOK
<1>6. PICK x : req' = [req EXCEPT ![q] = x] /\ x.pc \in {"wait", "drop"}
  <2>1. /\ [req[q] EXCEPT !.pc = "wait", !.merged = << >>].pc = "wait"
        /\ [req[q] EXCEPT !.pc = "drop"].pc = "drop"
    BY <1>1 DEF Reqs
  <2>. QED  BY <2>1 DEF WarmUp, WarmUpFails
<1>7. \A p \in Requests : Calmly(req[p], req'[p])
  <2>1. Calmly(req[q], x)
    BY <1>1, <1>6 DEF Calmly, Reserving, Scaling
  <2>. QED  BY <1>6, <2>1, CalmRequest
<1>. QED  BY <1>1, <1>3, <1>5, <1>7, MemorySimilar

LEMMA MemoryMerge ==
  ASSUME TypeOK, PoolInv, MemoryInv, NEW q \in Requests, Merge(q)
  PROVE  MemoryInv'
<1>1. /\ req[q] \in Reqs /\ req[q].pc = "merge" /\ req[q].idx \in Runtimes
      /\ resource' = resource /\ cron' = cron /\ conn' = conn
  BY DEF Merge, TypeOK, Reqs
<1>n. PICK n \in Runtimes : n = req[q].idx
  BY <1>1
<1>2. rt' = rt \/ (opMergedCheck(rt[n]) /\ rt' = [rt EXCEPT ![n] = opMergedSet(rt[n], Fn(q))])
  BY <1>n DEF Merge
<1>3. ASSUME NEW r \in Runtimes
      PROVE  /\ Mild(rt[r], rt'[r], conn[r], conn'[r], cron[r], cron'[r])
             /\ Spared(rt[r], rt'[r], conn[r])
  <2>1. CASE rt'[r] = rt[r]
    BY <1>1, <2>1 DEF Mild, SameMemory, Spared
  <2>2. CASE rt'[r] = opMergedSet(rt[r], Fn(q)) /\ opMergedCheck(rt[r])
    <3>1. rt[r].state = "cold" /\ rt'[r].state = "merged" /\ SameMemory(rt[r], rt'[r])
      BY <2>2 DEF opMergedSet, opMergedCheck, SameMemory, TypeOK, RuntimeInfos
    <3>. QED  BY <1>1, <3>1 DEF Mild, Spared
  <2>3. rt'[r] = rt[r] \/ (rt'[r] = opMergedSet(rt[r], Fn(q)) /\ opMergedCheck(rt[r]))
    BY <1>2 DEF TypeOK
  <2>. QED  BY <2>1, <2>2, <2>3
<1>4. PICK x : req' = [req EXCEPT ![q] = x] /\ x.rt = req[q].rt /\ x.pc \in {"warmup", "merge", "rollback"}
  <2>1. PICK m : req' = [req EXCEPT ![q] =
          IF Len(m) = scaleCount(Mem(q))
          THEN [req[q] EXCEPT !.pc = "warmup", !.idx = 1, !.merged = m]
          ELSE IF n < NumRuntimes
          THEN [req[q] EXCEPT !.idx = n + 1, !.merged = m]
          ELSE [req[q] EXCEPT !.pc = "rollback", !.idx = 1, !.merged = m]]
    BY <1>n DEF Merge
  <2>. DEFINE y == IF Len(m) = scaleCount(Mem(q))
                   THEN [req[q] EXCEPT !.pc = "warmup", !.idx = 1, !.merged = m]
                   ELSE IF n < NumRuntimes
                   THEN [req[q] EXCEPT !.idx = n + 1, !.merged = m]
                   ELSE [req[q] EXCEPT !.pc = "rollback", !.idx = 1, !.merged = m]
  <2>2. y.rt = req[q].rt /\ y.pc \in {"warmup", "merge", "rollback"}
    BY <1>1 DEF Reqs
  <2>3. req' = [req EXCEPT ![q] = y]
    BY <2>1
  <2>. HIDE DEF y
  <2>. QED  BY <2>2, <2>3
<1>5. Calmly(req[q], x)
  BY <1>1, <1>4 DEF Calmly, Reserving, Scaling
<1>6. \A p \in Requests : Calmly(req[p], req'[p])
  BY <1>4, <1>5, CalmRequest
<1>. QED  BY <1>1, <1>3, <1>6, MemoryStays

LEMMA MemoryMark ==
  ASSUME FewRequests, TypeOK, PoolInv, MemoryInv, NEW q \in Requests, MarkResource(q) \/ UnmarkResource(q)
  PROVE  MemoryInv'
<1>1. /\ req[q] \in Reqs /\ resource \in [marked : Int, used : Int] /\ Mem(q) \in Int
      /\ rt' = rt /\ cron' = cron /\ conn' = conn
  BY PoolAssumption DEF MarkResource, UnmarkResource, TypeOK, Mem
<1>2. PICK x : /\ req' = [req EXCEPT ![q] = x] /\ x.pc \notin Scaling
               /\ \/ /\ req[q].pc \notin Reserving /\ x.pc \in Reserving
                     /\ resource' = [resource EXCEPT !.marked = @ + Mem(q)]
                  \/ /\ req[q].pc \in Reserving /\ x.pc \notin Reserving
                     /\ resource' = [resource EXCEPT !.marked = @ - Mem(q)]
  <2>1. [req[q] EXCEPT !.pc = "occupy"].pc = "occupy"
    BY <1>1 DEF Reqs
  <2>. QED  BY <2>1, NextTryPlace DEF MarkResource, UnmarkResource, Reserving, Scaling
<1>3. req'[q] = x /\ \A p \in Requests \ {q} : req'[p] = req[p]
  BY <1>2, RequestUpdate
<1>4. Tidy'
  BY <1>1 DEF MemoryInv, Tidy
<1>5. Reserved'
  <2>1. \A p \in Requests : req'[p].pc \in Scaling => Reserves(p, rt[req'[p].rt], conn[req'[p].rt])
    BY <1>2, <1>3 DEF MemoryInv, Reserved
  <2>. QED  BY <1>1, <2>1 DEF Reserved, Reserves, Fn, Mem
<1>6. MarkedBy' = MarkedBy /\ UsedBy' = UsedBy
  BY <1>1 DEF MarkedBy, UsedBy
<1>7. SumFunction(Reservations') = SumFunction(Reservations) - (IF req[q].pc \in Reserving THEN Mem(q) ELSE 0)
                                        + (IF x.pc \in Reserving THEN Mem(q) ELSE 0)
  BY <1>2, RequestChanges
<1>8. SumFunction(MarkedBy) \in Int /\ SumFunction(Reservations) \in Int
  BY TotalsType
<1>9. resource.marked = SumFunction(MarkedBy) + SumFunction(Reservations) /\ resource.used = SumFunction(UsedBy)
  BY DEF MemoryInv, MarkedConserved, UsedConserved
<1>10. resource'.used = resource.used
  BY <1>1, <1>2
<1>11. resource'.marked = resource.marked - (IF req[q].pc \in Reserving THEN Mem(q) ELSE 0)
                                        + (IF x.pc \in Reserving THEN Mem(q) ELSE 0)
  BY <1>1, <1>2
<1>12. resource'.marked = SumFunction(MarkedBy') + SumFunction(Reservations')
  BY <1>1, <1>6, <1>7, <1>8, <1>9, <1>11
<1>. QED  BY <1>4, <1>5, <1>6, <1>9, <1>10, <1>12 DEF MemoryInv, MarkedConserved, UsedConserved

\* The reservation of a request becomes the mark of the runtime it occupies.
LEMMA MemoryOccupy ==
  ASSUME SteadySizes, FewRequests, TypeOK, TypeOK', PoolInv, MemoryInv, NEW q \in Requests, Occupy(q)
  PROVE  MemoryInv'
<1>1. /\ req[q] \in Reqs /\ req[q].pc = "occupy" /\ req[q].idx \in Runtimes /\ Mem(q) \in Int
      /\ resource' = resource /\ cron' = cron /\ conn' = conn
  BY PoolAssumption DEF Occupy, TypeOK, Reqs, Mem
<1>n. PICK n \in Runtimes : n = req[q].idx
  BY <1>1
<1>2. CASE ~opOccupyCheck(rt[n])
  <2>. DEFINE x == IF n < NumRuntimes THEN [req[q] EXCEPT !.idx = n + 1] ELSE [req[q] EXCEPT !.pc = "unmark", !.idx = 1]
  <2>1. req' = [req EXCEPT ![q] = x] /\ rt' = rt
    BY <1>2, <1>n DEF Occupy
  <2>2. x.pc \in {"occupy", "unmark"}
    BY <1>1 DEF Reqs
  <2>. HIDE DEF x
  <2>3. Calmly(req[q], x)
    BY <1>1, <2>2 DEF Calmly, Reserving, Scaling
  <2>4. Similar(rt[n], rt[n])
    BY DEF Similar, SameMemory
  <2>. QED  BY <1>1, <2>1, <2>3, <2>4, MemoryRequest
<1>3. CASE opOccupyCheck(rt[n])
  <2>. DEFINE merging == isNeedScale(Mem(q)) /\ scaleCount(Mem(q)) > 0
              x == [req[q] EXCEPT !.pc = IF merging THEN "merge" ELSE "warmup", !.rt = n, !.idx = 1]
  <2>1. req' = [req EXCEPT ![q] = x] /\ rt' = [rt EXCEPT ![n] = opOccupySet(rt[n], Fn(q), Mem(q))]
    BY <1>3, <1>n DEF Occupy
  <2>2. x.rt = n /\ x.pc \in {"merge", "warmup"} /\ (x.pc = "merge" => merging)
    BY <1>1 DEF Reqs
  <2>. HIDE DEF x
  <2>3. /\ req'[q] = x /\ \A p \in Requests \ {q} : req'[p] = req[p]
        /\ rt'[n] = opOccupySet(rt[n], Fn(q), Mem(q)) /\ \A r \in Runtimes \ {n} : rt'[r] = rt[r]
    BY <2>1, RequestUpdate DEF TypeOK
  <2>4. /\ rt'[n].state = "warmup" /\ rt'[n].commit = Fn(q) /\ rt'[n].marked /\ rt'[n].mem = Mem(q)
        /\ rt'[n].used = rt[n].used
    BY <2>3 DEF opOccupySet, TypeOK, RuntimeInfos
  <2>5. /\ rt[n].state = "cold" /\ Shape(rt[n], conn[n], cron[n].pc) /\ TidyAs(n, rt[n], conn[n], cron[n])
        /\ conn[n].dial = "none" /\ cron[n].pc \notin Resetting
    BY <1>3 DEF opOccupyCheck, PoolInv, Shapes, Shape, MemoryInv, Tidy, Leaving
  <2>6. SyncTask => Mem(q) = BaseMemory
    BY FunctionsOfRequests DEF SteadySizes, Mem, Fn
  <2>7. TidyAs(n, rt'[n], conn[n], cron[n])
    BY <2>4, <2>5, <2>6 DEF TidyAs, Clean, Resetting
  <2>8. Tidy'
    BY <1>1, <2>3, <2>7 DEF MemoryInv, Tidy
  <2>9. merging => ~SyncTask /\ MaxCrashes = 0
    <3>1. BaseMemory \in Nat /\ Fn(q) \in Functions
      BY PoolAssumption, FunctionsOfRequests
    <3>. QED  BY <2>6, <3>1 DEF SteadySizes, NoScaling, isNeedScale, Mem, Fn
  <2>10. x.pc = "merge" => Reserves(q, rt'[n], conn[n])
    BY <2>2, <2>4, <2>5, <2>9 DEF TidyAs, Reserves
  <2>11. Reserved'
    <3>1. ASSUME NEW p \in Requests, req'[p].pc \in Scaling PROVE Reserves(p, rt'[req'[p].rt], conn[req'[p].rt])
      <4>1. CASE p = q
        BY <2>2, <2>3, <2>10, <3>1, <4>1 DEF Scaling
      <4>2. CASE p # q
        <5>1. req'[p] = req[p] /\ req[p].pc \in Scaling
          BY <2>3, <3>1, <4>2
        <5>2. req[p].rt \in Runtimes /\ rt[req[p].rt].state = "warmup" /\ Reserves(p, rt[req[p].rt], conn[req[p].rt])
          BY <5>1, ReservedTarget
        <5>3. req[p].rt # n
          BY <2>5, <5>2
        <5>. QED  BY <2>3, <5>1, <5>2, <5>3
      <4>. QED  BY <4>1, <4>2
    <3>. QED  BY <1>1, <3>1 DEF Reserved, Reserves, Fn, Mem
  <2>12. /\ SumFunction(MarkedBy') = SumFunction(MarkedBy) + Mem(q)
         /\ SumFunction(UsedBy') = SumFunction(UsedBy)
    <3>1. ~rt[n].marked /\ ~rt[n].used
      BY <2>5 DEF TidyAs, Clean
    <3>2. \A r \in Runtimes \ {n} : SameWeight(rt[r], rt'[r])
      BY <2>3 DEF SameWeight
    <3>3. /\ SumFunction(MarkedBy') = SumFunction(MarkedBy) - 0 + Mem(q)
          /\ SumFunction(UsedBy') = SumFunction(UsedBy) - 0 + 0
      BY <2>4, <3>1, <3>2, RuntimeChanges
    <3>. QED  BY <1>1, <3>3, TotalsType
  <2>13. SumFunction(Reservations') = SumFunction(Reservations) - Mem(q)
    <3>1. SumFunction(Reservations') = SumFunction(Reservations) - Mem(q) + 0
      BY <1>1, <2>1, <2>2, RequestChanges DEF Reserving
    <3>. QED  BY <1>1, <3>1, TotalsType
  <2>14. resource.marked = SumFunction(MarkedBy') + SumFunction(Reservations')
    <3>1. resource.marked = SumFunction(MarkedBy) + SumFunction(Reservations)
      BY DEF MemoryInv, MarkedConserved
    <3>. QED  BY <1>1, <2>12, <2>13, <3>1, TotalsType
  <2>. QED  BY <1>1, <2>8, <2>11, <2>12, <2>14 DEF MemoryInv, MarkedConserved, UsedConserved
<1>. QED  BY <1>2, <1>3

\* A merged container stands for no memory of its own.
LEMMA MemoryRollbackMerged ==
  ASSUME TypeOK, PoolInv, MemoryInv, NEW q \in Requests, Rollback(q), req[q].merged # << >>
  PROVE  MemoryInv'
<1>1. /\ req[q] \in Reqs /\ req[q].pc = "rollback" /\ req[q].merged \in Seq(Runtimes)
      /\ resource' = resource /\ cron' = cron /\ conn' = conn
  BY DEF Rollback, TypeOK, Reqs
<1>m. PICK m \in Seq(Runtimes) : m = req[q].merged
  BY <1>1
<1>2. Len(m) \in Nat /\ Len(m) # 0 /\ Len(m) \in 1..Len(m)
  BY <1>m
<1>n. PICK n \in Runtimes : n = m[Len(m)]
  BY <1>m, <1>2
<1>3. rt' = rt \/ (opRollbackCheck(rt[n], Fn(q)) /\ rt' = [rt EXCEPT ![n] = opRollbackSet(rt[n])])
  BY <1>m, <1>n DEF Rollback
<1>4. PICK x : req' = [req EXCEPT ![q] = x] /\ x.rt = req[q].rt /\ x.pc = "rollback"
  <2>. DEFINE y == [req[q] EXCEPT !.merged = SubSeq(m, 1, Len(m) - 1)]
  <2>1. y.rt = req[q].rt /\ y.pc = "rollback"
    BY <1>1 DEF Reqs
  <2>2. req' = [req EXCEPT ![q] = y]
    BY <1>m DEF Rollback
  <2>. HIDE DEF y
  <2>. QED  BY <2>1, <2>2
<1>5. /\ rt[n].state \in {"merged", "reclaiming"} /\ rt[n] \in RuntimeInfos /\ Shape(rt[n], conn[n], cron[n].pc)
      /\ TidyAs(n, rt[n], conn[n], cron[n])
  <2>1. req[q].pc \in Scaling
    BY <1>1 DEF Scaling
  <2>. QED  BY <1>m, <1>n, <1>2, <2>1 DEF PoolInv, Listed, Shapes, TypeOK, MemoryInv, Tidy
<1>6. ~SyncTask
  BY <1>1, ReservedTarget DEF Scaling, Reserves
<1>7. Calmly(req[q], x)
  BY <1>1, <1>4 DEF Calmly, Reserving, Scaling
<1>8. CASE rt' = rt
  <2>1. Similar(rt[n], rt[n])
    BY DEF Similar, SameMemory
  <2>. QED  BY <1>1, <1>4, <1>7, <1>8, <2>1, MemoryRequest
<1>9. CASE opRollbackCheck(rt[n], Fn(q)) /\ rt' = [rt EXCEPT ![n] = opRollbackSet(rt[n])]
  <2>1. rt'[n] = opRollbackSet(rt[n]) /\ \A r \in Runtimes \ {n} : rt'[r] = rt[r]
    BY <1>9 DEF TypeOK
  <2>2. rt[n].state = "merged" /\ rt'[n].state = "cold" /\ ~rt'[n].marked /\ rt'[n].used = rt[n].used
    <3>1. rt[n].state = "merged"
      BY <1>5, <1>9 DEF opRollbackCheck
    <3>2. rt'[n].state = "cold" /\ rt'[n].marked = FALSE /\ rt'[n].used = rt[n].used
      BY <1>5, <2>1 DEF opRollbackSet, RuntimeInfos
    <3>. QED  BY <3>1, <3>2
  <2>3. Clean(rt[n]) /\ Clean(rt'[n])
    BY <1>5, <2>2 DEF TidyAs, Clean
  <2>4. cron[n].pc \notin Resetting
    BY <1>5, <2>2 DEF Shape, Leaving
  <2>5. TidyAs(n, rt'[n], conn[n], cron[n])
    BY <1>5, <1>6, <2>2, <2>3, <2>4 DEF TidyAs, Resetting
  <2>6. Tidy'
    BY <1>1, <2>1, <2>5 DEF MemoryInv, Tidy
  <2>7. ASSUME NEW r \in Runtimes PROVE SameWeight(rt[r], rt'[r])
    BY <2>1, <2>3 DEF SameWeight, Clean
  <2>8. \A p \in Requests : Calmly(req[p], req'[p])
    BY <1>4, <1>7, CalmRequest
  <2>9. Reserved'
    <3>1. ASSUME NEW p \in Requests, req'[p].pc \in Scaling PROVE Reserves(p, rt'[req'[p].rt], conn[req'[p].rt])
      <4>1. req[p].pc \in Scaling /\ req'[p].rt = req[p].rt
        BY <2>8, <3>1 DEF Calmly
      <4>2. req[p].rt \in Runtimes /\ rt[req[p].rt].state = "warmup" /\ Reserves(p, rt[req[p].rt], conn[req[p].rt])
        BY <4>1, ReservedTarget
      <4>3. req[p].rt # n
        BY <2>2, <4>2
      <4>. QED  BY <2>1, <4>1, <4>2, <4>3
    <3>. QED  BY <1>1, <3>1 DEF Reserved, Reserves, Fn, Mem
  <2>10. \A p \in Requests : req'[p].pc \in Reserving <=> req[p].pc \in Reserving
    BY <2>8 DEF Calmly
  <2>. QED  BY <1>1, <2>6, <2>7, <2>9, <2>10, MemoryMoves
<1>. QED  BY <1>3, <1>8, <1>9

\* The mark of the target becomes the reservation of its request again.
LEMMA MemoryRollbackTarget ==
  ASSUME FewRequests, TypeOK, TypeOK', PoolInv, MemoryInv, NEW q \in Requests, Rollback(q), req[q].merged = << >>
  PROVE  MemoryInv'
<1>1. /\ req[q] \in Reqs /\ req[q].pc = "rollback" /\ req[q].pc \in Scaling /\ Mem(q) \in Int
      /\ resource' = resource /\ cron' = cron /\ conn' = conn
  <2>1. req[q] \in Reqs /\ Mem(q) \in Int
    BY PoolAssumption DEF TypeOK, Mem
  <2>2. req[q].pc = "rollback" /\ resource' = resource /\ cron' = cron /\ conn' = conn
    BY DEF Rollback
  <2>. QED  BY <2>1, <2>2 DEF Scaling
<1>n. PICK n : n = req[q].rt
  OBVIOUS
<1>2. /\ n \in Runtimes /\ Reserves(q, rt[n], conn[n]) /\ cron[n].pc \notin Resetting
      /\ TidyAs(n, rt[n], conn[n], cron[n]) /\ Shape(rt[n], conn[n], cron[n].pc)
  BY <1>1, <1>n, ReservedTarget DEF MemoryInv, Tidy, PoolInv, Shapes
<1>3. opRollbackCheck(rt[n], Fn(q))
  BY <1>2 DEF Reserves, opRollbackCheck
<1>4. rt' = [rt EXCEPT ![n] = opRollbackSet(rt[n])]
  BY <1>n, <1>1, <1>3 DEF Rollback
<1>x. PICK x : req' = [req EXCEPT ![q] = x] /\ x.rt = 0 /\ x.pc = "unmark"
  <2>. DEFINE y == [req[q] EXCEPT !.pc = "unmark", !.rt = 0]
  <2>1. y.rt = 0 /\ y.pc = "unmark"
    BY <1>1 DEF Reqs
  <2>2. req' = [req EXCEPT ![q] = y]
    BY DEF Rollback
  <2>. HIDE DEF y
  <2>. QED  BY <2>1, <2>2
<1>5. /\ req'[q] = x /\ \A p \in Requests \ {q} : req'[p] = req[p]
      /\ rt'[n] = opRollbackSet(rt[n]) /\ \A r \in Runtimes \ {n} : rt'[r] = rt[r]
  BY <1>4, <1>2, <1>x, RequestUpdate DEF TypeOK
<1>6. rt'[n].state = "cold" /\ ~rt'[n].marked /\ rt'[n].used = rt[n].used
  BY <1>2, <1>5 DEF opRollbackSet, TypeOK, RuntimeInfos
<1>7. ~rt[n].used /\ rt[n].marked /\ rt[n].mem = Mem(q)
  BY <1>2 DEF Reserves, TidyAs
<1>8. TidyAs(n, rt'[n], conn[n], cron[n])
  BY <1>2, <1>6, <1>7 DEF TidyAs, Clean, Reserves, Resetting
<1>9. Tidy'
  BY <1>1, <1>5, <1>8 DEF MemoryInv, Tidy
<1>10. Reserved'
  <2>1. ASSUME NEW p \in Requests, req'[p].pc \in Scaling PROVE Reserves(p, rt'[req'[p].rt], conn[req'[p].rt])
    <3>1. p # q
      BY <1>x, <1>5, <2>1 DEF Scaling
    <3>2. req'[p] = req[p] /\ req[p].pc \in Scaling
      BY <1>5, <2>1, <3>1
    <3>3. req[p].rt \in Runtimes /\ Reserves(p, rt[req[p].rt], conn[req[p].rt])
      BY <3>2, ReservedTarget
    <3>4. req[p].rt # n
      BY <1>1, <1>n, <3>1, <3>2 DEF PoolInv, Apart, Owning, Scaling
    <3>. QED  BY <1>5, <3>2, <3>3, <3>4
  <2>. QED  BY <1>1, <2>1 DEF Reserved, Reserves, Fn, Mem
<1>11. SumFunction(MarkedBy') = SumFunction(MarkedBy) - Mem(q) + 0 /\ SumFunction(UsedBy') = SumFunction(UsedBy) - 0 + 0
  <2>1. \A r \in Runtimes \ {n} : SameWeight(rt[r], rt'[r])
    BY <1>5 DEF SameWeight
  <2>. QED  BY <1>2, <1>6, <1>7, <2>1, RuntimeChanges
<1>12. SumFunction(Reservations') = SumFunction(Reservations) - 0 + Mem(q)
  BY <1>1, <1>x, RequestChanges DEF Reserving
<1>13. resource.marked = SumFunction(MarkedBy) + SumFunction(Reservations) /\ resource.used = SumFunction(UsedBy)
  BY DEF MemoryInv, MarkedConserved, UsedConserved
<1>14. resource.marked = SumFunction(MarkedBy') + SumFunction(Reservations') /\ resource.used = SumFunction(UsedBy')
  BY <1>1, <1>11, <1>12, <1>13, TotalsType
<1>. QED  BY <1>1, <1>9, <1>10, <1>14 DEF MemoryInv, MarkedConserved, UsedConserved

-----------------------------------------------------------------------------
(* The cron task *)

LEMMA SameRequests ==
  ASSUME req' = req
  PROVE  \A q \in Requests : Calmly(req[q], req'[q])
  BY DEF Calmly

\* The steps of the cron task that leave connections and the memory of runtimes alone.
LEMMA MemoryRounds ==
  ASSUME TypeOK, PoolInv, MemoryInv, req' = req, resource' = resource, conn' = conn, rt' = rt,
         \A r \in Runtimes : \/ cron'[r] = cron[r]
                             \/ /\ cron[r].pc # "rpc" /\ cron'[r].pc # "rpc"
                                /\ cron'[r].pc \in {"sync", "write"} => cron[r].pc \in {"sync", "write"} \/ SyncTask
  PROVE  MemoryInv'
<1>1. ASSUME NEW r \in Runtimes
      PROVE  Mild(rt[r], rt'[r], conn[r], conn'[r], cron[r], cron'[r]) /\ Spared(rt[r], rt'[r], conn[r])
  BY DEF Mild, SameMemory, Spared
<1>. QED  BY <1>1, SameRequests, MemoryStays

LEMMA MemorySync ==
  ASSUME TypeOK, PoolInv, MemoryInv, NEW r \in Runtimes, SyncCheck(r) \/ SyncWrite(r) \/ EndRound(r)
  PROVE  MemoryInv'
<1>1. req' = req /\ resource' = resource /\ conn' = conn
  BY DEF SyncCheck, SyncWrite, EndRound
<1>2. \A i \in Runtimes \ {r} : cron'[i] = cron[i]
  BY DEF SyncCheck, SyncWrite, EndRound, TypeOK
<1>3. /\ cron[r].pc # "rpc" /\ cron'[r].pc # "rpc"
      /\ cron'[r].pc \in {"sync", "write"} => cron[r].pc \in {"sync", "write"}
  BY DEF SyncCheck, SyncWrite, EndRound, CooledDown, Finished, CronIdle, TypeOK, Crons
<1>4. rt' = rt
  <2>1. CASE SyncWrite(r)
    <3>1. rt' = [rt EXCEPT ![r].mem = BaseMemory] /\ cron[r].pc = "write"
      BY <2>1 DEF SyncWrite
    <3>2. rt[r].mem = BaseMemory
      BY <3>1 DEF MemoryInv, Tidy, TidyAs
    <3>3. rt[r] \in RuntimeInfos /\ rt \in [Runtimes -> RuntimeInfos]
      BY DEF TypeOK
    <3>4. [rt[r] EXCEPT !.mem = BaseMemory] = rt[r]
      BY <3>2, <3>3 DEF RuntimeInfos
    <3>. QED  BY <3>1, <3>3, <3>4
  <2>2. CASE SyncCheck(r) \/ EndRound(r)
    BY <2>2 DEF SyncCheck, EndRound
  <2>. QED  BY <2>1, <2>2
<1>. QED  BY <1>1, <1>2, <1>3, <1>4, MemoryRounds

LEMMA MemoryRound ==
  ASSUME TypeOK, PoolInv, MemoryInv, StartRound \/ StartRuntimeTask
  PROVE  MemoryInv'
<1>1. req' = req /\ resource' = resource /\ conn' = conn /\ rt' = rt
  BY DEF StartRound, StartRuntimeTask
<1>2. ASSUME NEW r \in Runtimes
      PROVE  /\ cron[r].pc # "rpc" /\ cron'[r].pc # "rpc"
             /\ cron'[r].pc \in {"sync", "write"} => cron[r].pc \in {"sync", "write"} \/ SyncTask
  BY DEF StartRound, StartRuntimeTask, CronIdle
<1>. QED  BY <1>1, <1>2, MemoryRounds

LEMMA CondemnEvent ==
  ASSUME NEW i \in RuntimeInfos, NEW c, NEW pc, Shape(i, c, pc), NEW j,
         \/ opStopCheck(i) /\ j = opStopSet(i)
         \/ opResetCheck(i) /\ j = opResetSet(i)
         \/ opRetrieveCheck(i) /\ j = opRetrieveSet(i)
  PROVE  /\ SameMemory(i, j) /\ Spared(i, j, c)
         /\ j.state = i.state \/ (i.state = "warm" /\ j.state = "stopping")
              \/ (i.state \in {"merged", "reclaiming"} /\ j.state = "reclaiming")
<1>1. CASE opStopCheck(i) /\ j = opStopSet(i)
  BY <1>1 DEF opStopCheck, opStopSet, RuntimeInfos, SameMemory, Spared
<1>2. CASE opResetCheck(i) /\ j = opResetSet(i)
  <2>1. j.state = i.state /\ SameMemory(i, j)
    BY <1>2 DEF opResetSet, RuntimeInfos, SameMemory
  <2>2. i.state = "warmup" => c.runner # "live"
    BY <1>2 DEF opResetCheck, IsRunnerDefunct, Shape
  <2>. QED  BY <2>1, <2>2 DEF Spared
<1>3. CASE opRetrieveCheck(i) /\ j = opRetrieveSet(i)
  BY <1>3 DEF opRetrieveCheck, opRetrieveSet, RuntimeInfos, SameMemory, Spared
<1>. QED  BY <1>1, <1>2, <1>3

LEMMA MemoryCondemn ==
  ASSUME TypeOK, PoolInv, MemoryInv, NEW r \in Runtimes, CoolDown(r) \/ Reborn(r) \/ Retrieve(r)
  PROVE  MemoryInv'
<1>1. req' = req /\ resource' = resource /\ conn' = conn
  BY DEF CoolDown, Reborn, Retrieve
<1>2. cron[r].pc # "rpc" /\ cron'[r].pc \in {"scan", "boot"} /\ \A i \in Runtimes \ {r} : cron'[i] = cron[i]
  <2>1. CASE CoolDown(r) \/ Reborn(r)
    <3>1. PICK job : cron' = [cron EXCEPT ![r] = Begin(r, job)]
      BY <2>1 DEF CoolDown, Reborn
    <3>2. Begin(r, job).pc \in {"scan", "boot"}
      BY DEF Begin, CronIdle
    <3>. QED  BY <2>1, <3>1, <3>2, CronUpdate DEF CoolDown, Reborn, CooledDown
  <2>2. CASE Retrieve(r)
    BY <2>2 DEF Retrieve, TypeOK, Crons
  <2>. QED  BY <2>1, <2>2
<1>n. PICK n : n = IF Retrieve(r) THEN cron[r].idx ELSE r
  OBVIOUS
<1>3. n \in Runtimes
  BY <1>n DEF TypeOK, Crons
<1>4. PICK j : /\ rt' = rt \/ rt' = [rt EXCEPT ![n] = j]
               /\ rt' # rt => \/ opStopCheck(rt[n]) /\ j = opStopSet(rt[n])
                              \/ opResetCheck(rt[n]) /\ j = opResetSet(rt[n])
                              \/ opRetrieveCheck(rt[n]) /\ j = opRetrieveSet(rt[n])
  BY <1>n DEF CoolDown, Reborn, Retrieve
<1>5. ASSUME NEW i \in Runtimes
      PROVE  Mild(rt[i], rt'[i], conn[i], conn'[i], cron[i], cron'[i]) /\ Spared(rt[i], rt'[i], conn[i])
  <2>1. cron'[i] = cron[i] \/ (cron[i].pc # "rpc" /\ cron'[i].pc \in {"scan", "boot"})
    BY <1>2
  <2>2. CASE rt'[i] = rt[i]
    BY <1>1, <2>1, <2>2 DEF Mild, SameMemory, Spared
  <2>3. CASE rt'[i] # rt[i]
    <3>1. i = n /\ rt'[n] = j /\ rt' # rt
      BY <1>4, <2>3 DEF TypeOK
    <3>2. rt[n] \in RuntimeInfos /\ Shape(rt[n], conn[n], cron[n].pc)
      BY <1>3 DEF TypeOK, PoolInv, Shapes
    <3>3. /\ SameMemory(rt[n], j) /\ Spared(rt[n], j, conn[n])
          /\ j.state = rt[n].state \/ (rt[n].state = "warm" /\ j.state = "stopping")
              \/ (rt[n].state \in {"merged", "reclaiming"} /\ j.state = "reclaiming")
      BY <1>4, <3>1, <3>2, CondemnEvent
    <3>. QED  BY <1>1, <2>1, <3>1, <3>3 DEF Mild
  <2>. QED  BY <2>2, <2>3
<1>. QED  BY <1>1, <1>5, SameRequests, MemoryStays

\* Steps of a call to funclet: the memory of runtimes stays, so do the targets of requests.
LEMMA MemoryCallMoves ==
  ASSUME TypeOK, PoolInv, MemoryInv, req' = req, resource' = resource, Tidy',
         \A r \in Runtimes : /\ Similar(rt[r], rt'[r])
                             /\ \/ rt[r].state = "reclaiming" \/ cron[r].pc \in Resetting
                                \/ conn'[r].runner = conn[r].runner
  PROVE  MemoryInv'
<1>1. \A r \in Runtimes : SameWeight(rt[r], rt'[r]) /\ SameMemory(rt[r], rt'[r]) /\ Spared(rt[r], rt'[r], conn[r])
  BY DEF Similar, SameMemory, SameWeight, Spared
<1>2. Reserved'
  <2>1. ASSUME NEW q \in Requests, req'[q].pc \in Scaling PROVE Reserves(q, rt'[req'[q].rt], conn'[req'[q].rt])
    <3>1. /\ req[q].pc \in Scaling /\ req[q].rt \in Runtimes /\ cron[req[q].rt].pc \notin Resetting
          /\ rt[req[q].rt].state = "warmup"
      BY <2>1, ReservedTarget
    <3>2. conn'[req[q].rt].runner = conn[req[q].rt].runner
      BY <3>1
    <3>. QED  BY <1>1, <2>1, <3>1, <3>2, ReservedKept
  <2>. QED  BY <2>1 DEF Reserved, Reserves, Fn, Mem
<1>. QED  BY <1>1, <1>2, MemoryMoves

LEMMA MemoryCall ==
  ASSUME TypeOK, PoolInv, MemoryInv, NEW r \in Runtimes, RebootBegin(r) \/ \E i \in Runtimes : FuncletReset(r, i)
  PROVE  MemoryInv'
<1>0. \A i \in Runtimes : Similar(rt[i], rt[i])
  BY DEF Similar, SameMemory
<1>t. \A i \in Runtimes : TidyAs(i, rt[i], conn[i], cron[i])
  BY DEF MemoryInv, Tidy
<1>1. CASE RebootBegin(r)
  <2>1. /\ cron'[r].pc = "rpc" /\ cron[r].pc = "boot" /\ cron'[r].mem = rt[r].mem /\ cron'[r].used = rt[r].used
        /\ cron'[r].marked = rt[r].marked /\ \A i \in Runtimes \ {r} : cron'[i] = cron[i]
    BY <1>1 DEF RebootBegin, TypeOK, Crons
  <2>2. req' = req /\ resource' = resource /\ conn' = conn /\ rt' = rt
    BY <1>1 DEF RebootBegin
  <2>3. TidyAs(r, rt[r], conn[r], cron'[r])
    BY <1>t, <2>1 DEF TidyAs
  <2>4. Tidy'
    BY <1>t, <2>1, <2>2, <2>3 DEF Tidy
  <2>. QED  BY <1>0, <2>2, <2>4, MemoryCallMoves
<1>2. ASSUME NEW n \in Runtimes, FuncletReset(r, n) PROVE MemoryInv'
  <2>1. req' = req /\ resource' = resource /\ rt' = rt
    BY <1>2 DEF FuncletReset
  <2>2. /\ cron[r].pc = "rpc" /\ \A i \in Runtimes \ {r} : cron'[i] = cron[i]
        /\ cron'[r] = [cron[r] EXCEPT !.did = cron[r].did \cup {n}]
    BY <1>2 DEF FuncletReset, TypeOK
  <2>3. /\ cron'[r].pc = "rpc" /\ cron'[r].did = cron[r].did \cup {n} /\ cron'[r].mem = cron[r].mem
        /\ cron'[r].used = cron[r].used /\ cron'[r].marked = cron[r].marked
    BY <2>2 DEF TypeOK, Crons
  <2>4. \A i \in Runtimes \ {n} : conn'[i] = conn[i]
    BY <1>2 DEF FuncletReset, TypeOK
  <2>5. n = r \/ (n # r /\ rt[n].state = "reclaiming")
    BY <1>2, <2>2 DEF FuncletReset, Targets, PoolInv, Retrieved, Job, Resetting
  <2>6. Shape(rt[r], conn[r], cron[r].pc)
    BY DEF PoolInv, Shapes
  <2>7. rt[r].state \in Leaving
    BY <2>2, <2>6 DEF Shape, Resetting
  <2>8. ASSUME NEW i \in Runtimes PROVE TidyAs(i, rt[i], conn'[i], cron'[i])
    <3>1. CASE i = r /\ n = r
      BY <1>t, <2>2, <2>3, <2>7, <3>1 DEF TidyAs, Leaving
    <3>2. CASE i = r /\ n # r
      BY <1>t, <2>2, <2>3, <2>4, <3>2 DEF TidyAs
    <3>3. CASE i # r /\ i = n
      BY <1>t, <2>2, <2>5, <3>3 DEF TidyAs
    <3>4. CASE i # r /\ i # n
      BY <1>t, <2>2, <2>4, <3>4
    <3>. QED  BY <3>1, <3>2, <3>3, <3>4
  <2>9. Tidy'
    BY <2>1, <2>8 DEF Tidy
  <2>10. \A i \in Runtimes : \/ rt[i].state = "reclaiming" \/ cron[i].pc \in Resetting
                             \/ conn'[i].runner = conn[i].runner
    BY <2>2, <2>4, <2>5 DEF Resetting
  <2>. QED  BY <1>0, <2>1, <2>9, <2>10, MemoryCallMoves
<1>. QED  BY <1>1, <1>2

LEMMA MemoryCallFails ==
  ASSUME Prompt, TypeOK, PoolInv, MemoryInv, NEW r \in Runtimes, FuncletFails(r)
  PROVE  MemoryInv'
<1>t. \A i \in Runtimes : TidyAs(i, rt[i], conn[i], cron[i])
  BY DEF MemoryInv, Tidy
<1>1. req' = req /\ resource' = resource /\ conn' = conn /\ cron[r].pc = "rpc" /\ cron[r].did = {}
  BY DEF FuncletFails, Prompt
<1>2. cron'[r].pc \in {"reborn", "idle"} /\ \A i \in Runtimes \ {r} : cron'[i] = cron[i]
  <2>1. \A job : Finished(job).pc \in {"reborn", "idle"}
    BY DEF Finished, CronIdle
  <2>. QED  BY <2>1, CronUpdate DEF FuncletFails
<1>3. ASSUME NEW i \in Runtimes PROVE Similar(rt[i], rt'[i])
  <2>1. rt'[i] = rt[i] \/ rt'[i] = Invalidate(rt[i])
    BY DEF FuncletFails
  <2>2. rt[i] \in RuntimeInfos
    BY DEF TypeOK
  <2>. QED  BY <2>1, <2>2, SimilarEvents
<1>4. ASSUME NEW i \in Runtimes PROVE TidyAs(i, rt'[i], conn[i], cron'[i])
  <2>1. CASE i = r
    BY <1>t, <1>1, <1>2, <1>3, <2>1 DEF TidyAs, Similar, SameMemory, Clean
  <2>2. CASE i # r
    BY <1>t, <1>2, <1>3, <2>2 DEF TidyAs, Similar, SameMemory, Clean
  <2>. QED  BY <2>1, <2>2
<1>5. Tidy'
  BY <1>1, <1>4 DEF Tidy
<1>. QED  BY <1>1, <1>3, <1>5, MemoryCallMoves

\* What the runtime stood for when the call began is what it stands for when it ends.
LEMMA MemoryCallReturns ==
  ASSUME FewRequests, TypeOK, TypeOK', PoolInv, MemoryInv, NEW r \in Runtimes, FuncletReturns(r)
  PROVE  MemoryInv'
<1>t. \A i \in Runtimes : TidyAs(i, rt[i], conn[i], cron[i])
  BY DEF MemoryInv, Tidy
<1>1. req' = req /\ conn' = conn /\ cron[r].pc = "rpc"
  BY DEF FuncletReturns
<1>2. cron'[r].pc \in {"reborn", "idle"} /\ \A i \in Runtimes \ {r} : cron'[i] = cron[i]
  <2>1. \A job : Finished(job).pc \in {"reborn", "idle"}
    BY DEF Finished, CronIdle
  <2>. QED  BY <2>1, CronUpdate DEF FuncletReturns
<1>3. cron[r].mem = rt[r].mem /\ cron[r].used = rt[r].used /\ cron[r].marked = rt[r].marked
  BY <1>t, <1>1 DEF TidyAs
<1>4. ASSUME NEW i \in Runtimes, i # r PROVE Similar(rt[i], rt'[i])
  <2>1. rt'[i] = rt[i] \/ rt'[i] = Invalidate(rt[i])
    BY <1>4 DEF FuncletReturns
  <2>2. rt[i] \in RuntimeInfos
    BY DEF TypeOK
  <2>. QED  BY <2>1, <2>2, SimilarEvents
<1>5. Clean(rt'[r]) /\ rt'[r].mem = rt[r].mem /\ rt'[r].state = rt[r].state
  <2>1. rt'[r] = [rt[r] EXCEPT !.used = @ /\ ~cron[r].used, !.marked = @ /\ ~cron[r].marked]
    BY DEF FuncletReturns
  <2>2. rt'[r] = [rt[r] EXCEPT !.used = FALSE, !.marked = FALSE]
    <3>1. rt[r].used \in BOOLEAN /\ rt[r].marked \in BOOLEAN
      BY DEF TypeOK, RuntimeInfos
    <3>2. (rt[r].used /\ ~cron[r].used) = FALSE /\ (rt[r].marked /\ ~cron[r].marked) = FALSE
      BY <1>3, <3>1
    <3>. QED  BY <2>1, <3>2
  <2>. QED  BY <2>2 DEF TypeOK, RuntimeInfos, Clean
<1>6. ASSUME NEW i \in Runtimes PROVE TidyAs(i, rt'[i], conn[i], cron'[i])
  <2>1. CASE i = r
    BY <1>t, <1>2, <1>5, <2>1 DEF TidyAs, Clean
  <2>2. CASE i # r
    BY <1>t, <1>2, <1>4, <2>2 DEF TidyAs, Similar, SameMemory, Clean
  <2>. QED  BY <2>1, <2>2
<1>7. Tidy'
  BY <1>1, <1>6 DEF Tidy
<1>8. Reserved'
  <2>1. ASSUME NEW q \in Requests, req'[q].pc \in Scaling PROVE Reserves(q, rt'[req'[q].rt], conn'[req'[q].rt])
    <3>1. req[q].pc \in Scaling /\ req[q].rt \in Runtimes /\ cron[req[q].rt].pc \notin Resetting
      BY <1>1, <2>1, ReservedTarget
    <3>2. req[q].rt # r
      BY <1>1, <3>1 DEF Resetting
    <3>3. SameMemory(rt[req[q].rt], rt'[req[q].rt]) /\ Spared(rt[req[q].rt], rt'[req[q].rt], conn[req[q].rt])
      BY <1>4, <3>1, <3>2 DEF Similar, Spared
    <3>. QED  BY <1>1, <2>1, <3>1, <3>3, ReservedKept
  <2>. QED  BY <2>1 DEF Reserved, Reserves, Fn, Mem
<1>9. /\ SumFunction(MarkedBy') = SumFunction(MarkedBy) - (IF rt[r].marked THEN rt[r].mem ELSE 0) + 0
      /\ SumFunction(UsedBy') = SumFunction(UsedBy) - (IF rt[r].used THEN rt[r].mem ELSE 0) + 0
  <2>1. \A i \in Runtimes \ {r} : SameWeight(rt[i], rt'[i])
    BY <1>4 DEF Similar, SameMemory, SameWeight
  <2>. QED  BY <1>5, <2>1, RuntimeChanges DEF Clean
<1>10. Reservations' = Reservations
  BY <1>1 DEF Reservations, Mem
<1>11. /\ resource'.used = resource.used - (IF rt[r].used THEN rt[r].mem ELSE 0)
       /\ resource'.marked = resource.marked - (IF rt[r].marked THEN rt[r].mem ELSE 0)
  BY <1>3 DEF FuncletReturns
<1>12. resource.marked = SumFunction(MarkedBy) + SumFunction(Reservations) /\ resource.used = SumFunction(UsedBy)
  BY DEF MemoryInv, MarkedConserved, UsedConserved
<1>13. rt[r].mem \in Int
  BY DEF TypeOK, RuntimeInfos
<1>14. resource'.marked = SumFunction(MarkedBy') + SumFunction(Reservations') /\ resource'.used = SumFunction(UsedBy')
  BY <1>9, <1>10, <1>11, <1>12, <1>13, TotalsType
<1>. QED  BY <1>7, <1>8, <1>14 DEF MemoryInv, MarkedConserved, UsedConserved

-----------------------------------------------------------------------------
(* Connections, containers and time *)

\* One runtime and its connections change, and nothing else.
LEMMA MemoryOne ==
  ASSUME TypeOK, PoolInv, MemoryInv, NEW n \in Runtimes, req' = req, resource' = resource, cron' = cron,
         \A r \in Runtimes \ {n} : rt'[r] = rt[r] /\ conn'[r] = conn[r],
         TidyAs(n, rt'[n], conn'[n], cron[n]), SameMemory(rt[n], rt'[n]), Spared(rt[n], rt'[n], conn[n]),
         MaxCrashes = 0 /\ conn[n].runner = "live" => conn'[n].runner = "live"
  PROVE  MemoryInv'
<1>1. Tidy'
  BY DEF MemoryInv, Tidy
<1>2. \A r \in Runtimes : /\ SameMemory(rt[r], rt'[r]) /\ Spared(rt[r], rt'[r], conn[r])
                          /\ MaxCrashes = 0 /\ conn[r].runner = "live" => conn'[r].runner = "live"
  BY DEF SameMemory, Spared
<1>3. Reserved'
  <2>1. ASSUME NEW q \in Requests, req'[q].pc \in Scaling PROVE Reserves(q, rt'[req'[q].rt], conn'[req'[q].rt])
    BY <1>2, <2>1, ReservedKept
  <2>. QED  BY <2>1 DEF Reserved, Reserves, Fn, Mem
<1>4. \A r \in Runtimes : SameWeight(rt[r], rt'[r])
  BY <1>2 DEF SameMemory, SameWeight
<1>. QED  BY <1>1, <1>3, <1>4, MemoryMoves

LEMMA MemoryInitRunner ==
  ASSUME Prompt, TypeOK, RebootCounts, PoolInv, MemoryInv, NEW n \in Runtimes, InitRunner(n)
  PROVE  MemoryInv'
<1>t. /\ rt[n] \in RuntimeInfos /\ conn[n] \in Conns /\ Shape(rt[n], conn[n], cron[n].pc)
      /\ TidyAs(n, rt[n], conn[n], cron[n])
  BY DEF TypeOK, PoolInv, Shapes, MemoryInv, Tidy
<1>1. conn[n].dial = "dialing" /\ reboot[n] = 0
  BY <1>t DEF InitRunner, Prompt, Shape
<1>2. cron[n].pc # "rpc"
  <2>1. reboot[n] = Cardinality(Calls(n))
    BY DEF RebootCounts, Calls
  <2>2. Calls(n) = {}
    BY <1>1, <2>1, CallsFinite, FS_EmptySet
  <2>3. n \in Targets(n)
    BY DEF Targets
  <2>. QED  BY <2>2, <2>3 DEF Calls
<1>3. Clean(rt[n])
  BY <1>t, <1>1, <1>2 DEF TidyAs
<1>4. cron' = cron /\ req' = req /\ resource' = resource
  BY DEF InitRunner
<1>5. \A r \in Runtimes \ {n} : rt'[r] = rt[r] /\ conn'[r] = conn[r]
  BY DEF InitRunner, TypeOK
<1>6. CASE rt[n].state # "closed"
  <2>1. rt'[n] = rt[n] /\ conn'[n] = [conn[n] EXCEPT !.dial = "none"]
    BY <1>6 DEF InitRunner, TypeOK
  <2>2. conn'[n].dial = "none" /\ conn'[n].runner = conn[n].runner
    BY <1>t, <2>1 DEF Conns
  <2>3. TidyAs(n, rt'[n], conn'[n], cron[n])
    BY <1>t, <2>1, <2>2 DEF TidyAs
  <2>. QED  BY <1>4, <1>5, <2>1, <2>2, <2>3, MemoryOne DEF SameMemory, Spared
<1>7. CASE rt[n].state = "closed"
  <2>1. rt'[n].state = "cold" /\ SameMemory(rt[n], rt'[n])
    <3>1. PICK stale : rt' = [rt EXCEPT ![n] = [initRunnerSet(rt[n]) EXCEPT !.stale = stale]]
      BY <1>7 DEF InitRunner
    <3>2. rt'[n] = [initRunnerSet(rt[n]) EXCEPT !.stale = stale]
      BY <3>1 DEF TypeOK
    <3>. QED  BY <1>t, <3>2 DEF initRunnerSet, RuntimeInfos, SameMemory
  <2>2. conn'[n] = [conn[n] EXCEPT !.dial = "none", !.runner = "live"]
    BY <1>7 DEF InitRunner, TypeOK
  <2>3. conn'[n].dial = "none" /\ conn'[n].runner = "live"
    BY <1>t, <2>2 DEF Conns
  <2>4. TidyAs(n, rt'[n], conn'[n], cron[n])
    BY <1>t, <1>2, <1>3, <2>1, <2>3 DEF TidyAs, SameMemory, Clean
  <2>5. Spared(rt[n], rt'[n], conn[n])
    BY <1>7 DEF Spared
  <2>. QED  BY <1>4, <1>5, <2>1, <2>3, <2>4, <2>5, MemoryOne
<1>. QED  BY <1>6, <1>7

\* Everything else but InitRuntime.
LEMMA MemoryBackground ==
  ASSUME Prompt, TypeOK, PoolInv, MemoryInv, NEW n \in Runtimes, Background(n), ~InitRuntime(n)
  PROVE  MemoryInv'
<1>t. /\ rt[n] \in RuntimeInfos /\ conn[n] \in Conns /\ Shape(rt[n], conn[n], cron[n].pc)
      /\ TidyAs(n, rt[n], conn[n], cron[n])
  BY DEF TypeOK, PoolInv, Shapes, MemoryInv, Tidy
<1>1. cron' = cron /\ req' = req /\ resource' = resource
  BY DEF Background, RunnerUpdate, StopRunner, RefuseRuntime, StopRuntime, Crash, ProcessExit, GoStale,
         GoIdle, ResetAges
<1>2. \A r \in Runtimes \ {n} : rt'[r] = rt[r] /\ conn'[r] = conn[r]
  BY DEF Background, RunnerUpdate, StopRunner, RefuseRuntime, StopRuntime, Crash, ProcessExit, GoStale,
         GoIdle, ResetAges, TypeOK
<1>3. ASSUME SameMemory(rt[n], rt'[n]), rt'[n].state \in {rt[n].state, "closed", "stopped"},
             conn'[n].dial \in {conn[n].dial, "none"}, Spared(rt[n], rt'[n], conn[n]),
             MaxCrashes = 0 /\ conn[n].runner = "live" => conn'[n].runner = "live"
      PROVE  MemoryInv'
  <2>1. TidyAs(n, rt'[n], conn'[n], cron[n])
    BY <1>t, <1>3 DEF TidyAs, SameMemory, Clean
  <2>. QED  BY <1>1, <1>2, <1>3, <2>1, MemoryOne
<1>4. CASE RunnerUpdate(n) \/ GoStale(n) \/ GoIdle(n) \/ ResetAges(n)
  <2>1. conn' = conn /\ \E b : rt'[n] \in {[rt[n] EXCEPT !.stale = b], [rt[n] EXCEPT !.idle = b], [rt[n] EXCEPT !.resetOld = b]}
    BY <1>4 DEF RunnerUpdate, GoStale, GoIdle, ResetAges, TypeOK
  <2>2. Similar(rt[n], rt'[n])
    <3>1. PICK b : rt'[n] \in {[rt[n] EXCEPT !.stale = b], [rt[n] EXCEPT !.idle = b], [rt[n] EXCEPT !.resetOld = b]}
      BY <2>1
    <3>2. /\ Similar(rt[n], [rt[n] EXCEPT !.stale = b]) /\ Similar(rt[n], [rt[n] EXCEPT !.idle = b])
          /\ Similar(rt[n], [rt[n] EXCEPT !.resetOld = b])
      BY <1>t, SimilarEvents
    <3>. QED  BY <3>1, <3>2
  <2>. QED  BY <1>3, <2>1, <2>2 DEF Similar, Spared
<1>5. CASE StopRunner(n)
  <2>1. rt'[n] = stopRunnerSet(rt[n]) /\ conn'[n] = [conn[n] EXCEPT !.runner = "none"]
    BY <1>5 DEF StopRunner, TypeOK
  <2>2. conn[n].runner # "live"
    BY <1>5 DEF StopRunner
  <2>3. SameMemory(rt[n], rt'[n]) /\ rt'[n].state \in {rt[n].state, "closed"}
    BY <1>t, <2>1 DEF stopRunnerSet, SameMemory, RuntimeInfos
  <2>4. conn'[n].dial = conn[n].dial
    BY <1>t, <2>1 DEF Conns
  <2>. QED  BY <1>3, <2>2, <2>3, <2>4 DEF Spared
<1>6. CASE StopRuntime(n)
  <2>1. rt'[n] = stopRuntimeSet(rt[n]) /\ conn'[n] = [conn[n] EXCEPT !.session = "none", !.code = NoCommit]
    BY <1>6 DEF StopRuntime, TypeOK
  <2>2. rt[n].state # "warmup"
    BY <1>t, <1>6 DEF StopRuntime, Shape
  <2>3. SameMemory(rt[n], rt'[n]) /\ rt'[n].state = "stopped"
    BY <1>t, <2>1 DEF stopRuntimeSet, SameMemory, RuntimeInfos
  <2>4. conn'[n].dial = conn[n].dial /\ conn'[n].runner = conn[n].runner
    BY <1>t, <2>1 DEF Conns
  <2>. QED  BY <1>3, <2>2, <2>3, <2>4 DEF Spared
<1>7. CASE RefuseRuntime(n) \/ ProcessExit(n)
  <2>1. \/ conn'[n] = [conn[n] EXCEPT !.pend = NoCommit, !.dead = FALSE]
        \/ conn'[n] = [conn[n] EXCEPT !.session = "eof"]
    BY <1>7 DEF RefuseRuntime, ProcessExit, TypeOK
  <2>2. rt' = rt
    BY <1>7 DEF RefuseRuntime, ProcessExit
  <2>3. conn'[n].dial = conn[n].dial /\ conn'[n].runner = conn[n].runner
    BY <1>t, <2>1 DEF Conns
  <2>. QED  BY <1>3, <2>2, <2>3 DEF Spared, SameMemory
<1>8. CASE Crash(n)
  <2>1. rt' = rt /\ MaxCrashes # 0
    BY <1>8, PoolAssumption DEF Crash, TypeOK
  <2>2. conn'[n] \in Killed(conn[n])
    BY <1>8 DEF Crash, TypeOK
  <2>3. conn'[n].dial = "none"
    BY <1>t, <2>2 DEF Killed, Conns
  <2>. QED  BY <1>3, <2>1, <2>3 DEF Spared, SameMemory
<1>. QED  BY <1>4, <1>5, <1>6, <1>7, <1>8 DEF Background

\* initRuntime marks the runtime as used, and IncreaseUsedResource adds what it stands for.
LEMMA MemoryInitRuntime ==
  ASSUME Prompt, FewRequests, TypeOK, TypeOK', PoolInv, MemoryInv, NEW n \in Runtimes, InitRuntime(n)
  PROVE  MemoryInv'
<1>t. /\ rt[n] \in RuntimeInfos /\ conn[n] \in Conns /\ Shape(rt[n], conn[n], cron[n].pc)
      /\ TidyAs(n, rt[n], conn[n], cron[n])
  BY DEF TypeOK, PoolInv, Shapes, MemoryInv, Tidy
<1>1. cron' = cron /\ req' = req /\ resource' = [resource EXCEPT !.used = resource.used + rt[n].mem]
  BY DEF InitRuntime, Prompt
<1>2. \A r \in Runtimes \ {n} : rt'[r] = rt[r] /\ conn'[r] = conn[r]
  BY DEF InitRuntime, TypeOK
<1>3. /\ conn[n].pend # NoCommit
      /\ conn'[n] = [conn[n] EXCEPT !.pend = NoCommit, !.dead = FALSE,
                                    !.session = IF conn[n].dead THEN "eof" ELSE "live", !.code = conn[n].pend]
  BY DEF InitRuntime, TypeOK, Prompt
<1>4. rt[n].state = "warmup" /\ conn[n].dial = "none" /\ cron[n].pc \notin Resetting /\ ~rt[n].used
  BY <1>t, <1>3 DEF Shape, TidyAs
<1>5. rt'[n].state = "warm" /\ rt'[n].used = TRUE /\ rt'[n].marked = rt[n].marked /\ rt'[n].mem = rt[n].mem
  <2>1. PICK concurrent : rt' = [rt EXCEPT ![n] = initRuntimeSet(rt[n], conn[n].pend, concurrent)]
    BY DEF InitRuntime
  <2>2. rt'[n] = initRuntimeSet(rt[n], conn[n].pend, concurrent)
    BY <2>1 DEF TypeOK
  <2>. QED  BY <1>t, <2>2 DEF initRuntimeSet, RuntimeInfos
<1>6. conn'[n].dial = "none"
  BY <1>t, <1>3, <1>4 DEF Conns
<1>7. TidyAs(n, rt'[n], conn'[n], cron[n])
  BY <1>t, <1>4, <1>5, <1>6 DEF TidyAs, Resetting
<1>8. Tidy'
  BY <1>1, <1>2, <1>7 DEF MemoryInv, Tidy
<1>9. Reserved'
  <2>1. ASSUME NEW q \in Requests, req'[q].pc \in Scaling PROVE Reserves(q, rt'[req'[q].rt], conn'[req'[q].rt])
    <3>1. /\ req[q].pc \in Scaling /\ req[q].rt \in Runtimes /\ conn[req[q].rt].pend = NoCommit
          /\ Reserves(q, rt[req[q].rt], conn[req[q].rt])
      BY <1>1, <2>1, ReservedTarget
    <3>2. req[q].rt # n
      BY <1>3, <3>1
    <3>. QED  BY <1>1, <1>2, <3>1, <3>2
  <2>. QED  BY <2>1 DEF Reserved, Reserves, Fn, Mem
<1>10. /\ SumFunction(MarkedBy') = SumFunction(MarkedBy) - (IF rt[n].marked THEN rt[n].mem ELSE 0)
                                     + (IF rt[n].marked THEN rt[n].mem ELSE 0)
       /\ SumFunction(UsedBy') = SumFunction(UsedBy) - 0 + rt[n].mem
  <2>1. \A i \in Runtimes \ {n} : SameWeight(rt[i], rt'[i])
    BY <1>2 DEF SameWeight
  <2>2. /\ (IF rt'[n].marked THEN rt'[n].mem ELSE 0) = (IF rt[n].marked THEN rt[n].mem ELSE 0)
        /\ (IF rt'[n].used THEN rt'[n].mem ELSE 0) = rt[n].mem
        /\ (IF rt[n].used THEN rt[n].mem ELSE 0) = 0
    BY <1>4, <1>5
  <2>. QED  BY <2>1, <2>2, RuntimeChanges
<1>11. Reservations' = Reservations
  BY <1>1 DEF Reservations, Mem
<1>12. resource.marked = SumFunction(MarkedBy) + SumFunction(Reservations) /\ resource.used = SumFunction(UsedBy)
  BY DEF MemoryInv, MarkedConserved, UsedConserved
<1>13. resource'.used = resource.used + rt[n].mem /\ resource'.marked = resource.marked /\ rt[n].mem \in Int
  BY <1>t, <1>1 DEF TypeOK, RuntimeInfos
<1>14. resource'.marked = SumFunction(MarkedBy') + SumFunction(Reservations') /\ resource'.used = SumFunction(UsedBy')
  BY <1>10, <1>11, <1>12, <1>13, TotalsType
<1>. QED  BY <1>8, <1>9, <1>14 DEF MemoryInv, MarkedConserved, UsedConserved

-----------------------------------------------------------------------------

LEMMA MemoryInit ==
  ASSUME FewRequests, Init
  PROVE  MemoryInv
<1>1. \A r \in Runtimes : /\ rt[r].state = "closed" /\ Clean(rt[r]) /\ rt[r].mem = BaseMemory
                          /\ cron[r].pc = "idle"
  BY DEF Init, NewRuntimeInfo, CronIdle, Clean
<1>2. \A q \in Requests : req[q].pc = "find"
  BY DEF Init, Attempt
<1>3. Tidy
  BY <1>1 DEF Tidy, TidyAs
<1>4. Reserved
  BY <1>2 DEF Reserved, Scaling
<1>5. MarkedBy = [r \in Runtimes |-> 0] /\ UsedBy = [r \in Runtimes |-> 0] /\ Reservations = [q \in Requests |-> 0]
  BY <1>1, <1>2 DEF MarkedBy, UsedBy, Reservations, Clean
<1>6. SumFunction([r \in Runtimes |-> 0]) = 0 /\ SumFunction([q \in Requests |-> 0]) = 0
  BY TotalZero, PoolAssumption, FS_Interval DEF Runtimes, FewRequests
<1>7. resource.marked = 0 /\ resource.used = 0
  BY DEF Init
<1>. QED  BY <1>3, <1>4, <1>5, <1>6, <1>7 DEF MemoryInv, MarkedConserved, UsedConserved

LEMMA MemoryNext ==
  ASSUME Prompt, FewRequests, SteadySizes, TypeOK, TypeOK', RebootCounts, PoolInv, MemoryInv, [Next]_vars
  PROVE  MemoryInv'
<1>1. ASSUME NEW q \in Requests, RequestStep(q) PROVE MemoryInv'
  <2>1. CASE Rollback(q)
    BY <2>1, MemoryRollbackMerged, MemoryRollbackTarget
  <2>. QED  BY <1>1, <2>1, MemoryFindWarm, MemoryMark, MemoryOccupy, MemoryMerge, MemoryWarmUp, MemoryRelease
            DEF RequestStep
<1>2. CASE StartRound \/ StartRuntimeTask
  BY <1>2, MemoryRound
<1>3. ASSUME NEW r \in Runtimes, CronStep(r) PROVE MemoryInv'
  BY <1>3, MemorySync, MemoryCondemn, MemoryCall, MemoryCallFails, MemoryCallReturns DEF CronStep
<1>4. ASSUME NEW r \in Runtimes, ConnStep(r) \/ EnvStep(r) PROVE MemoryInv'
  <2>1. ~RebootWait(r) /\ ~StopRunnerWait(r)
    BY DEF Prompt, RebootWait, StopRunnerWait
  <2>2. ~IncreaseUsed(r)
    BY DEF PoolInv, Shapes, Shape, IncreaseUsed
  <2>3. InitRunner(r) \/ InitRuntime(r) \/ Background(r)
    BY <1>4, <2>1, <2>2 DEF ConnStep, EnvStep, Background
  <2>. QED  BY <2>3, MemoryInitRunner, MemoryInitRuntime, MemoryBackground
<1>5. CASE UNCHANGED vars
  <2>1. UNCHANGED <<Tidy, Reserved>>
    BY <1>5 DEF vars, Tidy, Reserved, Reserves, Fn, Mem
  <2>2. UNCHANGED <<resource, MarkedBy, UsedBy, Reservations>>
    BY <1>5 DEF vars, MarkedBy, UsedBy, Reservations, Mem
  <2>. QED  BY <2>1, <2>2 DEF MemoryInv, MarkedConserved, UsedConserved
<1>. QED  BY <1>1, <1>2, <1>3, <1>4, <1>5 DEF Next

\* What CheckAndMarkResource, OpOccupy, rollbackRuntime, IncreaseUsedResource and the release at the end of
\* a reset add and take in their separate critical sections stays equal to what it stands for: Marked is the
\* memory of marked runtimes and of requests between mark and occupy, Used that of used runtimes, and
\* Concurrency the number of requests, for any number of runtimes, requests and functions.
THEOREM ConservedAlways ==
  ASSUME Prompt, FewRequests, SteadySizes
  PROVE  Spec => []Conserved
<1>1. Init => MemoryInv
  BY MemoryInit
<1>2. TypeOK /\ TypeOK' /\ RebootCounts /\ PoolInv /\ MemoryInv /\ [Next]_vars => MemoryInv'
  BY MemoryNext
<1>3. MemoryInv => MarkedConserved /\ UsedConserved
  BY DEF MemoryInv
<1>4. Conserved <=> ConcurrencyExact /\ MarkedConserved /\ UsedConserved
  BY DEF Conserved
<1>. QED  BY <1>1, <1>2, <1>3, <1>4, TypeCorrect, RebootCountsAlways, PoolInvAlways, ConcurrencyAlways, PTL DEF Spec

\* Where the totals are exact, what ReleaseMarkedResource logs "marked resource invalid" for never happens:
\* nothing is given back twice.
THEOREM MarkedNeverNegative ==
  ASSUME Prompt, FewRequests, SteadySizes
  PROVE  Spec => []MarkedValid
<1>1. ASSUME TypeOK, MarkedConserved PROVE MarkedValid
  <2>1. /\ IsFiniteSet(Runtimes) /\ IsFiniteSet(Requests)
        /\ MarkedBy \in [Runtimes -> Int] /\ Reservations \in [Requests -> Int]
        /\ SumFunction(MarkedBy) \in Int /\ SumFunction(Reservations) \in Int
    BY <1>1, TotalsType
  <2>2. \A r \in Runtimes : MarkedBy[r] >= 0
    BY <1>1 DEF TypeOK, RuntimeInfos, MarkedBy
  <2>3. \A q \in Requests : Reservations[q] >= 0
    BY PoolAssumption DEF Reservations, Mem
  <2>4. ASSUME NEW D, IsFiniteSet(D), NEW w \in [D -> Int], \A x \in D : w[x] >= 0 PROVE 0 <= SumFunction(w)
    <3>. DEFINE z == [x \in D |-> 0]
    <3>1. z \in [D -> Int] /\ \A x \in D : z[x] <= w[x]
      BY <2>4
    <3>2. SumFunction(z) = 0
      BY <2>4, TotalZero
    <3>. HIDE DEF z
    <3>. QED  BY <2>4, <3>1, <3>2, TotalLeq
  <2>5. 0 <= SumFunction(MarkedBy) /\ 0 <= SumFunction(Reservations)
    BY <2>1, <2>2, <2>3, <2>4
  <2>. QED  BY <1>1, <2>1, <2>5 DEF MarkedConserved, MarkedValid
<1>2. Conserved => MarkedConserved
  BY DEF Conserved
<1>. QED  BY <1>1, <1>2, TypeCorrect, ConservedAlways, PTL
=============================================================================
