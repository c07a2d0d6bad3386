----------------------------- MODULE RuntimePool -----------------------------
(***************************************************************************)
(* The controller's pool of runtimes: invocations looking for a runtime    *)
(* (invoke.go, runtime_dispatcher.go), the cron task that cools down idle  *)
(* runtimes and resets defunct ones (task.go), and the connections of the  *)
(* runner and of the runtime in every container (runner.go, runtime.go,    *)
(* dispatcherv2.go). Funclet and the containers are the environment.       *)
(*                                                                         *)
(* Runtimes are numbered by their position in RuntimeManager.rtArray, the  *)
(* order in which every scan visits them; a scan is one step per CAS.      *)
(***************************************************************************)
EXTENDS RuntimeInfo, Integers, Sequences, FiniteSets, Functions

CONSTANTS
    NumRuntimes,    \* len(rtArray)
    Requests,       \* invocations; each is one call of Controller.Do
    FunctionOf,     \* [Requests -> Functions]
    MemoryOf,       \* [Functions -> Nat]: MemorySize
    QuotaOf,        \* [Functions -> Nat]: PodConcurrentQuota
    BaseMemory,     \* memory of a container that is not scaled
    Allocatable,    \* memory funclet reports as allocatable on the node
    MaxTries,       \* attempts of getRuntime (2 in the code)
    MaxCrashes,     \* bound on containers or function processes dying
    MaxErrors,      \* bound on funclet calls that fail
    SyncTask,       \* whether resourceTask gets the container list from funclet
    Faults          \* which of the environment's rarer misbehaviours may happen

\* What Faults may hold, each a delay the code puts no bound on:
\*  "silent"   a connected runner sends no report for MaxRunnerDefunct;
\*  "late"     a request keeps its runtime over the reset of the container;
\*  "straggler" goroutines of the connection handlers run arbitrarily late;
\*  "gap"      a runner connects between the CAS of reborn and its RebootBegin;
\*  "lostreply" funclet did the work but the controller's call fails.
FaultKinds == {"silent", "late", "straggler", "gap", "lostreply"}

ASSUME PoolAssumption ==
    /\ NumRuntimes \in Nat \ {0}
    /\ FunctionOf \in [Requests -> Functions]
    /\ MemoryOf \in [Functions -> Nat]
    /\ QuotaOf \in [Functions -> Nat]
    /\ BaseMemory \in Nat \ {0}
    /\ Allocatable \in Nat
    /\ MaxTries \in Nat \ {0}
    /\ MaxCrashes \in Nat
    /\ MaxErrors \in Nat
    /\ SyncTask \in BOOLEAN
    /\ Faults \subseteq FaultKinds

Runtimes == 1 .. NumRuntimes

VARIABLES
    rt,         \* the RuntimeInfo of every runtime
    resource,   \* ServiceResource: the Marked and Used memory
    reboot,     \* rebootWaitGroup of every runtime
    conn,       \* connections of every container, see Conns
    req,        \* the goroutine of every request, see Reqs
    cron,       \* the cron goroutine of every runtime, see Crons
    failures    \* crashes and errors so far

vars == <<rt, resource, reboot, conn, req, cron, failures>>

\* runner: the handler in recvRunnerInfoLoop or stopRunner; dial: a handler in
\* initRunner; pend: the function process of a warmed container, or its handler
\* before initRuntime; dead: that process is gone already; session: the send and
\* receive loops; code: the function whose process they talk to; incs:
\* warmNotify goroutines yet to run.
Conns == [runner : {"none", "live", "eof", "waited"},
          dial : {"none", "dialing", "waited"},
          pend : Functions \cup {NoCommit}, dead : BOOLEAN,
          session : {"none", "live", "eof"}, code : Functions \cup {NoCommit},
          incs : Nat]

Reqs == [pc : {"find", "check", "mark", "occupy", "merge", "rollback", "unmark",
               "warmup", "drop", "wait", "run", "put", "done"},
         idx : Runtimes, try : Nat,
         rt : 0 .. NumRuntimes, merged : Seq(Runtimes)]

Crons == [pc : {"idle", "sync", "write", "synced", "cool", "reborn", "scan",
                "boot", "rpc"},
          job : {"cool", "reborn"}, idx : Runtimes,
          mem : Nat, used : BOOLEAN, marked : BOOLEAN,
          resets : SUBSET Runtimes, did : SUBSET Runtimes]

TypeOK ==
    /\ rt \in [Runtimes -> RuntimeInfos]
    /\ resource \in [marked : Int, used : Int]
    /\ reboot \in [Runtimes -> Int]
    /\ conn \in [Runtimes -> Conns]
    /\ req \in [Requests -> Reqs]
    /\ cron \in [Runtimes -> Crons]
    /\ failures \in [crashes : Nat, errors : Nat]

NewConn == [runner |-> "none", dial |-> "dialing", pend |-> NoCommit,
            dead |-> FALSE, session |-> "none", code |-> NoCommit, incs |-> 0]

\* A request at its n-th attempt, having acquired nothing.
Attempt(n) == [pc |-> "find", idx |-> 1, try |-> n, rt |-> 0, merged |-> << >>]

CronIdle(pc) == [pc |-> pc, job |-> "cool", idx |-> 1, mem |-> 0, used |-> FALSE,
                 marked |-> FALSE, resets |-> {}, did |-> {}]

Init ==
    /\ rt = [r \in Runtimes |-> NewRuntimeInfo(FALSE, BaseMemory)]
    /\ resource = [marked |-> 0, used |-> 0]
    /\ reboot = [r \in Runtimes |-> 0]
    /\ conn = [r \in Runtimes |-> NewConn]
    /\ req = [q \in Requests |-> Attempt(1)]
    /\ cron = [r \in Runtimes |-> CronIdle("idle")]
    /\ failures = [crashes |-> 0, errors |-> 0]

Fn(q) == FunctionOf[q]
Mem(q) == MemoryOf[FunctionOf[q]]

isNeedScale(mem) == mem > BaseMemory

\* math.Ceil of an integer division rounds nothing up.
scaleCount(mem) == (mem \div BaseMemory) - 1

\* getRuntime tries again, then gives up with TooManyRequests.
NextTry(q) ==
    IF req[q].try < MaxTries THEN Attempt(req[q].try + 1)
                             ELSE [Attempt(req[q].try) EXCEPT !.pc = "done"]

-----------------------------------------------------------------------------
(* Requests: getRuntime, tryGetRuntime, invocation, putRuntime.            *)

\* Mutant: the scan runs one past the end of rtArray.
FindWarmPastEnd(q) ==
    LET i == req[q].idx IN
    /\ req[q].pc = "find"
    /\ IF opMarkCheck(rt[i], Fn(q), QuotaOf[Fn(q)])
       THEN /\ rt' = [rt EXCEPT ![i] = opMarkSet(@)]
            /\ req' = [req EXCEPT ![q] = [@ EXCEPT !.pc = "wait", !.rt = i, !.idx = 1]]
       ELSE /\ req' = [req EXCEPT ![q] =
                          IF i <= NumRuntimes THEN [@ EXCEPT !.idx = i + 1]
                                              ELSE [@ EXCEPT !.pc = "check", !.idx = 1]]
            /\ UNCHANGED rt
    /\ UNCHANGED <<resource, reboot, conn, cron, failures>>

\* FindWarmRuntime: one CAS(OpMark) of the scan.
FindWarm(q) ==
    LET i == req[q].idx IN
    /\ req[q].pc = "find"
    /\ IF opMarkCheck(rt[i], Fn(q), QuotaOf[Fn(q)])
       THEN /\ rt' = [rt EXCEPT ![i] = opMarkSet(@)]
            /\ req' = [req EXCEPT ![q] = [@ EXCEPT !.pc = "wait", !.rt = i, !.idx = 1]]
       ELSE /\ req' = [req EXCEPT ![q] =
                          IF i < NumRuntimes THEN [@ EXCEPT !.idx = i + 1]
                                             ELSE [@ EXCEPT !.pc = "check", !.idx = 1]]
            /\ UNCHANGED rt
    /\ UNCHANGED <<resource, reboot, conn, cron, failures>>

\* checkAndMarkResource, the part under RLock.
CheckResource(q) ==
    /\ req[q].pc = "check"
    /\ req' = [req EXCEPT ![q] = IF Allocatable - resource.marked - Mem(q) < 0
                                 THEN NextTry(q) ELSE [@ EXCEPT !.pc = "mark"]]
    /\ UNCHANGED <<rt, resource, reboot, conn, cron, failures>>

\* checkAndMarkResource, the part under Lock.
MarkResource(q) ==
    /\ req[q].pc = "mark"
    /\ resource' = [resource EXCEPT !.marked = @ + Mem(q)]
    /\ req' = [req EXCEPT ![q].pc = "occupy"]
    /\ UNCHANGED <<rt, reboot, conn, cron, failures>>

\* OccupyColdRuntime and occupyColdWithScaleUpRecommendation: one CAS(OpOccupy).
Occupy(q) ==
    LET i == req[q].idx
        merging == isNeedScale(Mem(q)) /\ scaleCount(Mem(q)) > 0
    IN
    /\ req[q].pc = "occupy"
    /\ IF opOccupyCheck(rt[i])
       THEN /\ rt' = [rt EXCEPT ![i] = opOccupySet(@, Fn(q), Mem(q))]
            /\ req' = [req EXCEPT ![q] =
                  [@ EXCEPT !.pc = IF merging THEN "merge" ELSE "warmup", !.rt = i, !.idx = 1]]
       ELSE /\ req' = [req EXCEPT ![q] =
                          IF i < NumRuntimes THEN [@ EXCEPT !.idx = i + 1]
                                             ELSE [@ EXCEPT !.pc = "unmark", !.idx = 1]]
            /\ UNCHANGED rt
    /\ UNCHANGED <<resource, reboot, conn, cron, failures>>

\* One CAS(OpMerged) of the scan that collects scaleCount containers.
Merge(q) ==
    LET i == req[q].idx
        fits == opMergedCheck(rt[i])
        merged == IF fits THEN Append(req[q].merged, i) ELSE req[q].merged
    IN
    /\ req[q].pc = "merge"
    /\ rt' = IF fits THEN [rt EXCEPT ![i] = opMergedSet(@, Fn(q))] ELSE rt
    /\ req' = [req EXCEPT ![q] =
          IF Len(merged) = scaleCount(Mem(q))
          THEN [@ EXCEPT !.pc = "warmup", !.idx = 1, !.merged = merged]
          ELSE IF i < NumRuntimes
          THEN [@ EXCEPT !.idx = i + 1, !.merged = merged]
          ELSE [@ EXCEPT !.pc = "rollback", !.idx = 1, !.merged = merged]]
    /\ UNCHANGED <<resource, reboot, conn, cron, failures>>

\* The deferred rollbackRuntime calls, last merged container first, the target
\* last; a CAS(OpRollback) that fails is only logged.
Rollback(q) ==
    LET m == req[q].merged
        i == IF m = << >> THEN req[q].rt ELSE m[Len(m)]
    IN
    /\ req[q].pc = "rollback"
    /\ rt' = IF opRollbackCheck(rt[i], Fn(q)) THEN [rt EXCEPT ![i] = opRollbackSet(@)] ELSE rt
    /\ req' = [req EXCEPT ![q] =
          IF m = << >> THEN [@ EXCEPT !.pc = "unmark", !.rt = 0]
                       ELSE [@ EXCEPT !.merged = SubSeq(m, 1, Len(m) - 1)]]
    /\ UNCHANGED <<resource, reboot, conn, cron, failures>>

\* The deferred ReleaseMarkedResource of OccupyColdRuntime.
UnmarkResource(q) ==
    /\ req[q].pc = "unmark"
    /\ resource' = [resource EXCEPT !.marked = @ - Mem(q)]
    /\ req' = [req EXCEPT ![q] = NextTry(q)]
    /\ UNCHANGED <<rt, reboot, conn, cron, failures>>

\* FuncletClient.WarmUp returns: the container got the signal that starts the
\* function. Quota 0 then switches concurrent mode off, without the lock.
WarmUp(q) ==
    LET i == req[q].rt IN
    /\ req[q].pc = "warmup"
    /\ conn[i].runner = "live"
    /\ conn' = [conn EXCEPT ![i] = [@ EXCEPT !.pend = Fn(q), !.dead = FALSE]]
    /\ rt' = IF QuotaOf[Fn(q)] = 0 THEN [rt EXCEPT ![i].cmode = FALSE] ELSE rt
    /\ req' = [req EXCEPT ![q] = [@ EXCEPT !.pc = "wait", !.merged = << >>]]
    /\ UNCHANGED <<resource, reboot, cron, failures>>

\* WarmUp fails, as it must when the container is gone: the runtime is
\* invalidated, and released in a second critical section (Drop).
WarmUpFails(q) ==
    LET i == req[q].rt
        started == [conn EXCEPT ![i] = [@ EXCEPT !.pend = Fn(q), !.dead = FALSE]]
    IN
    /\ req[q].pc = "warmup"
    /\ IF conn[i].runner = "live"
       THEN /\ failures.errors < MaxErrors
            /\ failures' = [failures EXCEPT !.errors = @ + 1]
            /\ conn' \in {conn} \cup (IF "lostreply" \in Faults THEN {started} ELSE {})
       ELSE UNCHANGED <<conn, failures>>
    /\ rt' = [rt EXCEPT ![i] = Invalidate(@)]
    /\ req' = [req EXCEPT ![q].pc = "drop"]
    /\ UNCHANGED <<resource, reboot, cron>>

\* Mutant: the runtime is not released.
DropWithoutRelease(q) ==
    /\ req[q].pc = "drop"
    /\ req' = [req EXCEPT ![q] = NextTry(q)]
    /\ UNCHANGED <<rt, resource, reboot, conn, cron, failures>>

Drop(q) ==
    /\ req[q].pc = "drop"
    /\ rt' = [rt EXCEPT ![req[q].rt] = Release(@)]
    /\ req' = [req EXCEPT ![q] = NextTry(q)]
    /\ UNCHANGED <<resource, reboot, conn, cron, failures>>

Serving(i, f) == i.state = "warm" /\ i.commit = f

\* waitRuntime: the runtime is warm and runs the request's commit.
StartInvoke(q) ==
    /\ req[q].pc = "wait"
    /\ Serving(rt[req[q].rt], Fn(q))
    /\ req' = [req EXCEPT ![q].pc = "run"]
    /\ UNCHANGED <<rt, resource, reboot, conn, cron, failures>>

\* Mutant: no timer, only another commit ends the wait.
GiveUpWithoutTimer(q) ==
    /\ req[q].pc = "wait"
    /\ rt[req[q].rt].commit \notin {NoCommit, Fn(q)}
    /\ req' = [req EXCEPT ![q].pc = "put"]
    /\ UNCHANGED <<rt, resource, reboot, conn, cron, failures>>

\* waitRuntime: the timer fired, or the runtime now runs another commit.
GiveUp(q) ==
    /\ req[q].pc = "wait"
    /\ ~Serving(rt[req[q].rt], Fn(q))
    /\ req' = [req EXCEPT ![q].pc = "put"]
    /\ UNCHANGED <<rt, resource, reboot, conn, cron, failures>>

\* The invocation ends: its response, its timeout, or stopRuntime's notice.
FinishInvoke(q) ==
    /\ req[q].pc = "run"
    /\ req' = [req EXCEPT ![q].pc = "put"]
    /\ UNCHANGED <<rt, resource, reboot, conn, cron, failures>>

\* putRuntime.
PutRuntime(q) ==
    /\ req[q].pc = "put"
    /\ rt' = [rt EXCEPT ![req[q].rt] = Release(@)]
    /\ req' = [req EXCEPT ![q] = [Attempt(req[q].try) EXCEPT !.pc = "done"]]
    /\ UNCHANGED <<resource, reboot, conn, cron, failures>>

-----------------------------------------------------------------------------
(* The cron task: a round of resourceTask and runtimeTask, each with one   *)
(* goroutine per runtime and a WaitGroup barrier at its end.               *)

StartRound ==
    /\ \A r \in Runtimes : cron[r].pc = "idle"
    /\ cron' = [r \in Runtimes |-> CronIdle(IF SyncTask THEN "sync" ELSE "cool")]
    /\ UNCHANGED <<rt, resource, reboot, conn, req, failures>>

\* SyncRuntimeResource tests Used and Marked without a lock ...
SyncCheck(r) ==
    /\ cron[r].pc = "sync"
    /\ cron' = [cron EXCEPT ![r].pc = IF rt[r].used \/ rt[r].marked THEN "synced" ELSE "write"]
    /\ UNCHANGED <<rt, resource, reboot, conn, req, failures>>

\* ... and then overwrites Resource with what funclet listed.
SyncWrite(r) ==
    /\ cron[r].pc = "write"
    /\ rt' = [rt EXCEPT ![r].mem = BaseMemory]
    /\ cron' = [cron EXCEPT ![r].pc = "synced"]
    /\ UNCHANGED <<resource, reboot, conn, req, failures>>

StartRuntimeTask ==
    /\ \A r \in Runtimes : cron[r].pc = "synced"
    /\ cron' = [r \in Runtimes |-> CronIdle("cool")]
    /\ UNCHANGED <<rt, resource, reboot, conn, req, failures>>

\* The job has its CAS; a scaled runtime first looks for containers to retrieve.
Begin(r, job) ==
    [CronIdle(IF isNeedScale(rt[r].mem) /\ scaleCount(rt[r].mem) > 0 THEN "scan" ELSE "boot")
        EXCEPT !.job = job, !.mem = rt[r].mem]

\* processRuntime: coolDown, then reborn.
Finished(job) == CronIdle(IF job = "cool" THEN "reborn" ELSE "idle")

\* coolDown of a runtime that CAS(OpStop) accepts.
CoolDown(r) ==
    /\ cron[r].pc = "cool"
    /\ opStopCheck(rt[r])
    /\ rt' = [rt EXCEPT ![r] = opStopSet(@)]
    /\ cron' = [cron EXCEPT ![r] = Begin(r, "cool")]
    /\ UNCHANGED <<resource, reboot, conn, req, failures>>

\* coolDown is over, or its CAS fails here and changes nothing.
CooledDown(r) == cron[r].pc = "reborn" \/ (cron[r].pc = "cool" /\ ~opStopCheck(rt[r]))

\* reborn of a runtime that CAS(OpReset) accepts.
Reborn(r) ==
    /\ CooledDown(r)
    /\ opResetCheck(rt[r])
    /\ rt' = [rt EXCEPT ![r] = opResetSet(@)]
    /\ cron' = [cron EXCEPT ![r] = Begin(r, "reborn")]
    /\ UNCHANGED <<resource, reboot, conn, req, failures>>

\* Nothing to do for this runtime in this round.
EndRound(r) ==
    /\ CooledDown(r)
    /\ ~opResetCheck(rt[r])
    /\ cron' = [cron EXCEPT ![r] = Finished("reborn")]
    /\ UNCHANGED <<rt, resource, reboot, conn, req, failures>>

\* occupyWithScaleDownRecommendation: one CAS(OpRetrieve) of the scan. When too
\* few containers are found the recommendation is dropped; the ones retrieved
\* stay as they are.
Retrieve(r) ==
    LET c == cron[r]
        fits == c.idx # r /\ opRetrieveCheck(rt[c.idx])
        found == IF fits THEN c.resets \cup {c.idx} ELSE c.resets
    IN
    /\ c.pc = "scan"
    /\ rt' = IF fits THEN [rt EXCEPT ![c.idx] = opRetrieveSet(@)] ELSE rt
    /\ cron' = [cron EXCEPT ![r] =
          IF Cardinality(found) = scaleCount(c.mem)
          THEN [c EXCEPT !.pc = "boot", !.idx = 1, !.resets = found]
          ELSE IF c.idx < NumRuntimes
          THEN [c EXCEPT !.idx = @ + 1, !.resets = found]
          ELSE [c EXCEPT !.pc = "boot", !.idx = 1, !.resets = {}]]
    /\ UNCHANGED <<resource, reboot, conn, req, failures>>

Targets(r) == {r} \cup cron[r].resets

\* Mutant: only the target's rebootWaitGroup is entered.
RebootBeginTargetOnly(r) ==
    /\ cron[r].pc = "boot"
    /\ reboot' = [reboot EXCEPT ![r] = @ + 1]
    /\ cron' = [cron EXCEPT ![r] = [@ EXCEPT !.pc = "rpc", !.mem = rt[r].mem,
                                             !.used = rt[r].used, !.marked = rt[r].marked]]
    /\ UNCHANGED <<rt, resource, conn, req, failures>>

\* The goroutine copies Resource, Used and Marked, enters the rebootWaitGroup of
\* every container to reset, and calls funclet.
RebootBegin(r) ==
    /\ cron[r].pc = "boot"
    /\ reboot' = [i \in Runtimes |-> IF i \in Targets(r) THEN reboot[i] + 1 ELSE reboot[i]]
    /\ cron' = [cron EXCEPT ![r] = [@ EXCEPT !.pc = "rpc", !.mem = rt[r].mem,
                                             !.used = rt[r].used, !.marked = rt[r].marked]]
    /\ UNCHANGED <<rt, resource, conn, req, failures>>

\* What a dying container does to its connections. With "straggler" the handler
\* of the function process may still be on its way to initRuntime.
Killed(c) ==
    LET k == [c EXCEPT !.runner = IF @ = "live" THEN "eof" ELSE @, !.dial = "none",
                       !.session = IF @ = "live" THEN "eof" ELSE @]
    IN  {[k EXCEPT !.pend = NoCommit, !.dead = FALSE]}
        \cup (IF "straggler" \in Faults /\ c.pend # NoCommit THEN {[k EXCEPT !.dead = TRUE]} ELSE {})

\* Funclet resets one container of the call, the target before the others: the
\* old one is killed and the runner of the new one connects.
FuncletReset(r, i) ==
    /\ cron[r].pc = "rpc"
    /\ i \in Targets(r) \ cron[r].did
    /\ i = r \/ r \in cron[r].did
    /\ \E k \in Killed(conn[i]) : conn' = [conn EXCEPT ![i] = [k EXCEPT !.dial = "dialing"]]
    /\ cron' = [cron EXCEPT ![r].did = @ \cup {i}]
    /\ UNCHANGED <<rt, resource, reboot, req, failures>>

RebootEnd(r) ==
    reboot' = [i \in Runtimes |-> IF i \in Targets(r) THEN reboot[i] - 1 ELSE reboot[i]]

\* The call succeeds: what the snapshot says was used and marked is given back;
\* containers listed in ScaleDownResult.Fails are invalidated.
FuncletReturns(r) ==
    LET c == cron[r]
        fails == c.resets \ c.did
    IN
    /\ c.pc = "rpc"
    /\ r \in c.did
    /\ IF fails = {} THEN UNCHANGED failures
                     ELSE /\ failures.errors < MaxErrors
                          /\ failures' = [failures EXCEPT !.errors = @ + 1]
    /\ resource' = [used |-> resource.used - (IF c.used THEN c.mem ELSE 0),
                    marked |-> resource.marked - (IF c.marked THEN c.mem ELSE 0)]
    /\ rt' = [i \in Runtimes |->
                 IF i = r THEN [rt[i] EXCEPT !.used = @ /\ ~c.used, !.marked = @ /\ ~c.marked]
                 ELSE IF i \in fails THEN Invalidate(rt[i]) ELSE rt[i]]
    /\ RebootEnd(r)
    /\ cron' = [cron EXCEPT ![r] = Finished(c.job)]
    /\ UNCHANGED <<conn, req>>

\* The call fails: nothing is given back, and the containers are invalidated
\* (the target only by coolDown).
FuncletFails(r) ==
    LET c == cron[r]
        bad == c.resets \cup (IF c.job = "cool" THEN {r} ELSE {})
    IN
    /\ c.pc = "rpc"
    /\ c.did = {} \/ "lostreply" \in Faults
    /\ failures.errors < MaxErrors
    /\ failures' = [failures EXCEPT !.errors = @ + 1]
    /\ rt' = [i \in Runtimes |-> IF i \in bad THEN Invalidate(rt[i]) ELSE rt[i]]
    /\ RebootEnd(r)
    /\ cron' = [cron EXCEPT ![r] = Finished(c.job)]
    /\ UNCHANGED <<resource, conn, req>>

-----------------------------------------------------------------------------
(* The connection handlers.                                                *)

\* initRunner: RebootWait has returned, invokeLock is not yet taken.
RebootWait(i) ==
    /\ "straggler" \in Faults
    /\ conn[i].dial = "dialing"
    /\ reboot[i] = 0
    /\ conn' = [conn EXCEPT ![i].dial = "waited"]
    /\ UNCHANGED <<rt, resource, reboot, req, cron, failures>>

Holders(i) == {q \in Requests : req[q].rt = i}

\* initRunner under invokeLock, and the first runnerUpdate.
InitRunner(i) ==
    /\ conn[i].dial = "waited" \/ (conn[i].dial = "dialing" /\ reboot[i] = 0)
    /\ conn[i].session # "eof"      \* the old runtime's loops have ended by now
    /\ Holders(i) = {} \/ "late" \in Faults
    /\ cron[i].pc \notin {"scan", "boot"} \/ "gap" \in Faults
    /\ IF rt[i].state = "closed"
       THEN /\ \E stale \in {FALSE} \cup ({rt[i].stale} \cap {"silent" \in Faults}) :
                 rt' = [rt EXCEPT ![i] = [initRunnerSet(@) EXCEPT !.stale = stale]]
            /\ conn' = [conn EXCEPT ![i] = [@ EXCEPT !.dial = "none", !.runner = "live"]]
       ELSE /\ conn' = [conn EXCEPT ![i].dial = "none"]      \* duplicate runner
            /\ UNCHANGED rt
    /\ UNCHANGED <<resource, reboot, req, cron, failures>>

\* recvRunnerInfoLoop decodes a report: runnerUpdate.
RunnerUpdate(i) ==
    /\ conn[i].runner = "live" /\ rt[i].stale
    /\ rt' = [rt EXCEPT ![i].stale = FALSE]
    /\ UNCHANGED <<resource, reboot, conn, req, cron, failures>>

\* stopRunner: runtimeWaitGroup.Wait has returned, invokeLock is not yet taken.
StopRunnerWait(i) ==
    /\ "straggler" \in Faults
    /\ conn[i].runner = "eof" /\ conn[i].session = "none"
    /\ conn' = [conn EXCEPT ![i].runner = "waited"]
    /\ UNCHANGED <<rt, resource, reboot, req, cron, failures>>

\* Mutant: no wait for the runtime's loops.
StopRunnerNoWait(i) ==
    /\ conn[i].runner \in {"waited", "eof"}
    /\ rt' = [rt EXCEPT ![i] = stopRunnerSet(@)]
    /\ conn' = [conn EXCEPT ![i].runner = "none"]
    /\ UNCHANGED <<resource, reboot, req, cron, failures>>

\* stopRunner, the critical section.
StopRunner(i) ==
    /\ \/ conn[i].runner = "waited"
       \/ conn[i].runner = "eof" /\ conn[i].session = "none"
    /\ rt' = [rt EXCEPT ![i] = stopRunnerSet(@)]
    /\ conn' = [conn EXCEPT ![i].runner = "none"]
    /\ UNCHANGED <<resource, reboot, req, cron, failures>>

\* invokeHandler and initRuntime; the runtime may ask for no concurrent mode.
\* initRuntime closes warmNotify, on which a goroutine of invokeHandler waits to
\* call IncreaseUsedResource.
InitRuntime(i) ==
    LET f == conn[i].pend
        c == [conn[i] EXCEPT !.pend = NoCommit, !.dead = FALSE,
                             !.session = IF conn[i].dead THEN "eof" ELSE "live", !.code = f]
    IN
    /\ f # NoCommit
    /\ initRuntimeCheck(rt[i], f)
    /\ \E concurrent \in BOOLEAN : rt' = [rt EXCEPT ![i] = initRuntimeSet(@, f, concurrent)]
    /\ \/ /\ resource' = [resource EXCEPT !.used = @ + rt[i].mem]
          /\ conn' = [conn EXCEPT ![i] = c]
       \/ /\ "straggler" \in Faults
          /\ conn' = [conn EXCEPT ![i] = [c EXCEPT !.incs = @ + 1]]
          /\ UNCHANGED resource
    /\ UNCHANGED <<reboot, req, cron, failures>>

\* initRuntime refuses: duplicate runtime, or another commit.
RefuseRuntime(i) ==
    /\ conn[i].pend # NoCommit
    /\ ~initRuntimeCheck(rt[i], conn[i].pend)
    /\ conn' = [conn EXCEPT ![i] = [@ EXCEPT !.pend = NoCommit, !.dead = FALSE]]
    /\ UNCHANGED <<rt, resource, reboot, req, cron, failures>>

\* That goroutine runs late, and adds what Resource holds by then.
IncreaseUsed(i) ==
    /\ conn[i].incs > 0
    /\ resource' = [resource EXCEPT !.used = @ + rt[i].mem]
    /\ conn' = [conn EXCEPT ![i].incs = @ - 1]
    /\ UNCHANGED <<rt, reboot, req, cron, failures>>

\* The deferred stopRuntime of the receive loop.
StopRuntime(i) ==
    /\ conn[i].session = "eof"
    /\ rt' = [rt EXCEPT ![i] = stopRuntimeSet(@)]
    /\ conn' = [conn EXCEPT ![i] = [@ EXCEPT !.session = "none", !.code = NoCommit]]
    /\ UNCHANGED <<resource, reboot, req, cron, failures>>

-----------------------------------------------------------------------------
(* Containers and time.                                                    *)

Crash(i) ==
    /\ failures.crashes < MaxCrashes
    /\ conn[i].runner = "live" \/ conn[i].dial # "none"
    /\ \E k \in Killed(conn[i]) : conn' = [conn EXCEPT ![i] = k]
    /\ failures' = [failures EXCEPT !.crashes = @ + 1]
    /\ UNCHANGED <<rt, resource, reboot, req, cron>>

\* The function process exits, its container lives on.
ProcessExit(i) ==
    /\ failures.crashes < MaxCrashes
    /\ conn[i].session = "live"
    /\ conn' = [conn EXCEPT ![i].session = "eof"]
    /\ failures' = [failures EXCEPT !.crashes = @ + 1]
    /\ UNCHANGED <<rt, resource, reboot, req, cron>>

\* No report for MaxRunnerDefunct: the runner is gone, frozen, or silent. Ages
\* grow when the check that reads them could see it; earlier is the same to it.
GoStale(i) ==
    /\ ~rt[i].stale /\ IsRunnerDefunct([rt[i] EXCEPT !.stale = TRUE])
    /\ \/ conn[i].runner # "live"
       \/ rt[i].state \in {"merged", "reclaiming"}
       \/ "silent" \in Faults
    /\ rt' = [rt EXCEPT ![i].stale = TRUE]
    /\ UNCHANGED <<resource, reboot, conn, req, cron, failures>>

\* No access for MaxRuntimeIdle.
GoIdle(i) ==
    /\ ~rt[i].idle /\ opStopCheck([rt[i] EXCEPT !.idle = TRUE])
    /\ rt' = [rt EXCEPT ![i].idle = TRUE]
    /\ UNCHANGED <<resource, reboot, conn, req, cron, failures>>

\* MaxRunnerResetTimeout has passed since the last reset.
ResetAges(i) ==
    /\ rt[i].state = "reclaiming" /\ ~rt[i].resetOld
    /\ rt' = [rt EXCEPT ![i].resetOld = TRUE]
    /\ UNCHANGED <<resource, reboot, conn, req, cron, failures>>

-----------------------------------------------------------------------------

RequestStep(q) ==
    \/ FindWarm(q) \/ CheckResource(q) \/ MarkResource(q) \/ Occupy(q) \/ Merge(q)
    \/ Rollback(q) \/ UnmarkResource(q) \/ WarmUp(q) \/ WarmUpFails(q) \/ Drop(q)
    \/ StartInvoke(q) \/ GiveUp(q) \/ FinishInvoke(q) \/ PutRuntime(q)

CronStep(r) ==
    \/ SyncCheck(r) \/ SyncWrite(r) \/ CoolDown(r) \/ Reborn(r) \/ Retrieve(r)
    \/ EndRound(r) \/ RebootBegin(r) \/ FuncletReturns(r) \/ FuncletFails(r)
    \/ \E i \in Runtimes : FuncletReset(r, i)

ConnStep(i) ==
    \/ RebootWait(i) \/ InitRunner(i) \/ RunnerUpdate(i) \/ StopRunnerWait(i) \/ StopRunner(i)
    \/ InitRuntime(i) \/ RefuseRuntime(i) \/ IncreaseUsed(i) \/ StopRuntime(i)

EnvStep(i) == Crash(i) \/ ProcessExit(i) \/ GoStale(i) \/ GoIdle(i) \/ ResetAges(i)

Next ==
    \/ \E q \in Requests : RequestStep(q)
    \/ StartRound \/ StartRuntimeTask
    \/ \E r \in Runtimes : CronStep(r) \/ ConnStep(r) \/ EnvStep(r)

Spec == Init /\ [][Next]_vars

\* Goroutines run, timers fire, funclet answers, ages grow; a runner gets its
\* connection through before the cron task resets its container again (reborn
\* looks at the last report only, not at the last reset). Nothing makes a
\* container die, a call fail or a runner report.
Fairness ==
    /\ \A q \in Requests : WF_vars(RequestStep(q))
    /\ WF_vars(StartRound) /\ WF_vars(StartRuntimeTask)
    /\ \A r \in Runtimes :
        /\ WF_vars(SyncCheck(r) \/ SyncWrite(r) \/ Retrieve(r) \/ RebootBegin(r))
        /\ WF_vars(CoolDown(r)) /\ WF_vars(Reborn(r)) /\ WF_vars(EndRound(r))
        /\ WF_vars((\E i \in Runtimes : FuncletReset(r, i)) \/ FuncletReturns(r))
        /\ SF_vars(InitRunner(r))
        /\ WF_vars(StopRunnerWait(r) \/ StopRunner(r))
        /\ WF_vars(InitRuntime(r) \/ RefuseRuntime(r) \/ StopRuntime(r))
        /\ WF_vars(GoStale(r)) /\ WF_vars(GoIdle(r)) /\ WF_vars(ResetAges(r))

FairSpec == Spec /\ Fairness

-----------------------------------------------------------------------------
(* Properties.                                                             *)

InUse(i) == i.state \in {"warmup", "warm"} /\ i.commit # NoCommit

\* The Concurrency of a runtime that serves a function is the number of requests
\* between the CAS that gave it to them and their Release: however occupy, mark,
\* rollback, Release, the cron CAS events and stopRuntime interleave, none is
\* counted twice or forgotten.
ConcurrencyExact ==
    \A r \in Runtimes : InUse(rt[r]) => rt[r].conc = Cardinality(Holders(r))

\* A warm runtime has a session, and its CommitID is that of the function the
\* session runs: what waitRuntime checks before a request is sent is the truth,
\* even when handlers run late, replies get lost and requests outlive resets.
RightCode ==
    \A r \in Runtimes : rt[r].state = "warm" =>
        /\ conn[r].session # "none"
        /\ rt[r].commit \in {NoCommit, conn[r].code}

\* rebootWaitGroup counts the funclet calls that reset the container, so no
\* RebootEnd takes it below zero and no runner waits on a call that is over.
RebootCounts ==
    \A i \in Runtimes :
        reboot[i] = Cardinality({r \in Runtimes : cron[r].pc = "rpc" /\ i \in Targets(r)})

\* Without scaling, Concurrency never exceeds the number of requests that will
\* still release the runtime: no leaked unit keeps it from being stopped.
NoPhantomConcurrency ==
    \A r \in Runtimes : rt[r].conc <= Cardinality(Holders(r))

\* A runtime never runs more invocations of a function at once than its
\* PodConcurrentQuota allows (one when the quota is 0 or concurrent mode is off).
QuotaRespected ==
    \A r \in Runtimes, f \in Functions :
        Cardinality({q \in Holders(r) : req[q].pc = "run" /\ Fn(q) = f})
            <= (IF QuotaOf[f] = 0 \/ ~DefaultConcurrentMode THEN 1 ELSE QuotaOf[f])

\* coolDown never stops a runtime that some request still holds.
NeverStopHeld ==
    [][\A r \in Runtimes : rt[r].state = "warm" /\ rt'[r].state = "stopping"
                              => Holders(r) = {}]_vars

\* What a runtime counts for in the node's Marked and Used memory.
MarkedBy == [r \in Runtimes |-> IF rt[r].marked THEN rt[r].mem ELSE 0]
UsedBy == [r \in Runtimes |-> IF rt[r].used THEN rt[r].mem ELSE 0]

\* What requests have marked and not yet attached to a runtime or given back.
Reservations == [q \in Requests |-> IF req[q].pc \in {"occupy", "unmark"} THEN Mem(q) ELSE 0]

\* The Marked memory of the node is what its marked runtimes stand for plus what
\* requests have reserved but not yet attached to a runtime or given back.
MarkedConserved == resource.marked = SumFunction(MarkedBy) + SumFunction(Reservations)

\* The Used memory of the node is what its used runtimes stand for.
UsedConserved == resource.used = SumFunction(UsedBy)

\* What the critical sections of requests, cron task and connection handlers add and
\* take one by one stays equal to what it stands for: units of Concurrency to requests,
\* Marked and Used memory to runtimes.
Conserved == ConcurrencyExact /\ MarkedConserved /\ UsedConserved

\* What ReleaseMarkedResource logs "marked resource invalid" for never happens.
MarkedValid == resource.marked >= 0

\* stopRunner waits for the background goroutines of the runtime: none of them is
\* left when the runtime is closed.
ClosedIsDrained ==
    \A r \in Runtimes : rt[r].state = "closed" => conn[r].session = "none"

\* A container that coolDown or reborn is resetting serves no function: nobody is
\* given it between the CAS that condemns it and the end of the reset.
ResetHasNoTenant ==
    \A r \in Runtimes : cron[r].pc \in {"scan", "boot", "rpc"}
                            => \A i \in Targets(r) : ~InUse(rt[i])

\* Every request leaves the controller, whatever happens to the pool.
RequestsReturn == \A q \in Requests : <>(req[q].pc = "done")

\* The health check brings a container whose runner has gone back into the pool.
ClosedComesBack == \A r \in Runtimes : rt[r].state = "closed" ~> rt[r].state = "cold"

\* A container merged into another one for its memory returns to the pool.
MergedComesBack == \A r \in Runtimes : rt[r].state = "merged" ~> rt[r].state = "cold"
=============================================================================
