# EasyFaaS: a TLA+ verification project

EasyFaaS runs user functions in a fixed set of containers per node. Two
processes on the node share the work: the **controller** accepts invocations,
keeps the pool of runtimes and decides which container runs what; **funclet**
owns the containers (runc, cgroups, mounts, code, network) and does what the
controller asks over http. In every container a **runner** connects to the
controller and reports; when the container is warmed up it starts the user's
**runtime**, which connects too and serves invocations over that connection.

This directory models the two schedulers that all of this hangs on, the invocations
and their logs that run inside them, what funclet keeps of a node (storage, network,
memory, directories, processes) and the services around them (caches, http server and
client, trigger, stub). TLC checks the models on small instances; TLAPS proves the
central invariants for every instance. Paths below are relative to `src/`.

## 1. Inventory

| Component | State it keeps | Operations | Interacts with |
|---|---|---|---|
| runtime life cycle (`pkg/controller/rtctrl/event.go`, `runtimeinfo.go`) | one `RuntimeInfo` per container: state, commit, Concurrency (uint64), concurrent mode, Abnormal, Used, Marked, Resource, three time stamps | CAS events Occupy, Merged, Retrieve, Rollback, Mark, Stop, Reset; Release, Invalidate; initRunner, initRuntime, stopRuntime, stopRunner | everything in the controller, under `invokeLock` |
| runtime pool (`rtctrl/runtime_dispatcher.go`, `invoke.go`) | `rtArray`, Marked and Used memory of the node | FindWarmRuntime, OccupyColdRuntime with merging and rollback, putRuntime | requests (one goroutine each); funclet's WarmUp |
| cron task (`controller/task.go`) | none of its own; one goroutine per runtime and round | resourceTask (SyncRuntimeResource), coolDown, reborn | life cycle; funclet's Reset; `rebootWaitGroup` |
| connections (`rtctrl/runner.go`, `dispatcherv2.go`) | runner and runtime connections, `runtimeWaitGroup`, `warmNotify` | initRunner, runnerUpdate, stopRunner, invokeHandler, initRuntime, stopRuntime | containers; cron task |
| invocation and sessions (`rtctrl/runtime.go`, `client.go`, `request.go`, `httprequest.go`) | requestMap, requestChan, per-request timer, a `RequestInfo` per invocation | waitRuntime, send and receive loops, InvokeResult, InvokeDone, stopRuntime | runtimes; logs |
| user logs (`rtctrl/logstore.go`, `log_dispatcher.go`, `pkg/userlog`) | a store per request (tail buffer from a pool, log file, two done flags with a wait group), `storeMap` and `lastReqID`, a dispatcher per stream | startRecvLog, Read of the dispatchers, WriteStdLog, waitLogDone, Close, StopRecvLog | sessions; the process's stdout and stderr |
| statistics (`rtctrl/stat_receiver.go`) | counters | report | nobody in the repository reads them |
| expiring cache (`util/cache`) | map of items with expirations, janitor, OnEvicted | Set, Add, Replace, Increment..., Delete, DeleteExpired, Flush, SaveFile, LoadFile | function cache |
| function cache (`controller/invoke.go`, `controller/function`, `registry`) | expiring entries for functions, aliases, runtimes | getFunction, getRuntimeConfiguration | registry service |
| funclet event handlers (`pkg/funclet/container.go`, `warmup.go`, `reset.go`, `init.go`, `pkg/api/funclet.go`) | an `EventLock` (channel of capacity one) per container | WarmUpContainerEvent, ResetContainerEvent, scaleUp | runc, paths, code cache |
| code cache (`funclet/warmup.go`, `types.go`, `funclet/code`) | HandlingChanMap; archive, directory and COMPLETE tag per code, on disk | prepareUserCode | warm-ups; storage service |
| paths and mounts (`funclet/file`) | ContainerPaths, queues of the unmount and the remove task | GeneratePaths, BindMount, OutdatePaths, the two tasks | event handlers |
| tmp storage and quota (`funclet/tmp`, `quota`, `storage`, `device/loop`) | project IDs, two maps, `/etc/projects`, loop devices of the host | AllocTmpDevice, removal after a reset, tmpRecycleTask, InitQuotaCtrl | event handlers; other pods of the host; kernel |
| container network (`funclet/network`) | veth list and pool, last address; bridge and iptables rules of the host | SetContainerNet, UnsetContainerNet, InitNetwork | event handlers; kernel |
| node resources and cgroups (`funclet/runtime`, `runtime/cgroup`, `warmup.go`) | limits and freezer state of every container | check at boot, scaleUp, reset to the default | event handlers; the controller's merges |
| runc and the child reaper (`funclet/runtime/runc`, `cmd/funclet`) | children of the process | the commands of a reset, Wait4 on SIGCHLD | event handlers; kernel |
| generic http server, mux (`pkg/server`) | requests in flight, wait group, hooks, table of paths | Run, filters, registration of paths | rest client |
| rest client (`pkg/rest`, `funclet/client`) | one request and its attempts | request.Do | generic server of funclet |
| http doors (`pkg/httptrigger`, `controller/handler.go`) | fasthttp contexts | ProxyHandler, RequestController, InvokeHandler | invocations |
| stub api server (`stubs`, `util/brn`) | functions as directories | create, get | registry client |
| rest (logging, authentication, options, metrics, runner's config.json) | none that two parties share | | |

What is hard, and what makes each part correct:

* **Pool.** Requests, the cron task and dying connections write the same record.
  Concurrency must count exactly the requests that will release the runtime, a
  quota must hold, no runtime may be stopped or reset under its tenant, and what
  a warm runtime says it runs must be what it runs. Memory is accounted in two
  node-wide sums that several critical sections update; they must stay equal to
  what the runtimes stand for. Every request returns; no container is lost.
* **Sessions.** Four goroutines write the outcome of a request without a lock, two
  maps of requests follow each other while loops still hold entries of the first,
  and stopRuntime waits for the loops with `invokeLock` held. Whoever wakes a client
  has written its result; every invocation ends and leaves nothing behind; a dying
  session ends; both loops live as long as their session.
* **Funclet events.** Try-locks with deferred unlocks over groups of containers,
  system calls that fail in the middle, containers that die. One event at a time
  per container, every handler returns, nothing is unmounted under a live
  container, no function is started without its code.
* **Code cache.** Waiters, masters that fail, warm-ups that give up while their
  goroutine goes on, restarts between two file operations. No lost wake-up,
  serial preparation, and a tag that means what it says.
* **Logs.** Two streams arrive in arbitrary pieces, the end marker of one request may
  come when the next one runs, a timer and Close set the same flags, and a writer may
  hold a store that was closed under it. A log holds what its request printed, tail
  buffers have one owner, WaitGroup.Done is called once per flag, every log is closed.
* **Node.** Everything below the event handlers is shared by goroutines that take no
  container lock (removal of temporary files, recycling, unmounting, the reaper), by
  other pods (loop devices) or by an earlier life of funclet (the bridge, rules, the
  projects file), and most system calls can fail in the middle. A container that is up
  has its directory, its limit and its own address; nothing that is shared is emptied;
  the node is not overcommitted; a reset that reports success started the container.
* **Services.** A handler outlives its timed-out request; a client repeats calls; a
  cache is filled by late answers; fasthttp reuses a context while an asynchronous
  invocation runs. No call is executed twice or answered twice, shutdown waits for the
  handlers, staleness is bounded, no request sees another one's body.

`PROJECT.json` lists the hazards line by line with the properties aimed at them. Hazards
that no property covers are not in that list: a failed Do is repeated although the process
may have executed the request (`rtctrl/runtime.go:192`, nothing in the repository promises
at most once); AcceptReqCnt and RejectReqCnt are counted from a Status that may still
change (`rtctrl/runtime.go:325`); failedIDs and successIDs are appended to by several
goroutines (`funclet/reset.go:103`); OnEvicted(nil) between the test and the call
(`util/cache/cache.go:964`).

## 2. Modules

| Module | Models |
|---|---|
| `RuntimeInfo` | the record and every event as a check operator and a set operator; `CAS` re-runs the check under the lock, so an event is one atomic step |
| `RuntimePool` | requests, cron task, connection handlers and environment over an array of `RuntimeInfo` |
| `MCRuntimePool` | instances for TLC |
| `RuntimePoolProofs` | theorems about `RuntimePool` |
| `Invocation`, `MCInvocation`, `InvocationProofs` | invocations inside the sessions of one runtime |
| `CodeCache`, `MCCodeCache`, `CodeCacheProofs` | the code cache |
| `EventMutex` | abstract: a container is worked on by at most one handler, which keeps it until it gives it back |
| `ContainerEvents`, `MCContainerEvents`, `ContainerEventsProofs` | funclet's handlers; shown to implement `EventMutex` |
| `RequestLog`, `MCRequestLog`, `RequestLogProofs` | user logs of the requests of a runtime |
| `TmpQuota`, `StorageSetup` | quotas of temporary files; the storage below them |
| `ContainerNetwork`, `BridgeSetup` | addresses and veth pairs; bridge and rules |
| `NodeResources` | memory and cpu of the node and its containers |
| `PathTasks` | directories of containers, mounts and the tasks that clean up |
| `RuncCommands` | the commands of a reset and the child reaper |
| `MCNode`, `NodeProofs` | the five preceding rows for TLC; theorems about them |
| `CacheItems`, `ExpiringCache` | items and operations of the expiring cache |
| `FunctionCache` | what the controller knows of a function, over `CacheItems` |
| `GenericServer`, `RestCall` | funclet's http server; the controller's calls to it (extends `GenericServer`) |
| `PathMux` | the mux of the server |
| `FunctionStore` | the stub api server and resource names |
| `HttpTrigger` | the http trigger and the controller's handler |
| `MCService`, `ServiceProofs` | the six preceding rows for TLC; theorems about them |
| `DataLemmas` | facts about sequences, sums and numbers that the proofs share |

### RuntimePool

`rt[r]` is the RuntimeInfo of container `r`; `resource` is `ServiceResource`;
`reboot[r]` the `rebootWaitGroup`; `conn[r]` the runner's and the runtime's
connections and their handlers; `req[q]` and `cron[r]` the goroutines of the
requests and of the cron task.

One action is one critical section or one funclet call. A scan of `rtArray` is
one step per CAS, so other goroutines act between two of them. The request's
actions follow `getRuntime`: `FindWarm` (CAS OpMark), `CheckResource` and
`MarkResource` (two critical sections in the code), `Occupy`, `Merge`,
`Rollback`, `UnmarkResource`, `WarmUp`/`WarmUpFails`/`Drop`, then `StartInvoke`
or `GiveUp` (waitRuntime), `FinishInvoke`, `PutRuntime`. A cron round is
`StartRound`, `SyncCheck`/`SyncWrite` (the test and the write of
SyncRuntimeResource hold no common lock), `StartRuntimeTask` (the barrier), then
for each runtime `CoolDown`, `Reborn`, `Retrieve`, `RebootBegin`, the resets by
funclet, `FuncletReturns`/`FuncletFails`. The connections: `RebootWait`,
`InitRunner`, `RunnerUpdate`, `StopRunnerWait`, `StopRunner`, `InitRuntime`,
`RefuseRuntime`, `IncreaseUsed`, `StopRuntime`.

Time is abstracted to ages: `idle`, `stale`, `resetOld` say that a time stamp
lies before the deadline the code compares it with. An age grows only where a
check that reads it could see the difference. Concurrency is a `uint64` of
`UintSpan` values; `Decrement` wraps as Go does, `Release` does not.
`scaleCount` divides integers before `math.Ceil`, as the code does.

`Faults` switches on delays the code puts no bound on, so that what holds with
them and what only holds without them can be told apart: `silent` (a connected
runner sends no report for MaxRunnerDefunct), `late` (a request keeps its runtime
over a reset), `straggler` (handler goroutines run arbitrarily late), `gap` (a
runner connects between the CAS of reborn and RebootBegin), `lostreply`
(funclet did the work, the call fails). With `Faults = {}` these five races are
assumed away and everything else still interleaves freely, crashes and failing
calls included; in the code, nothing but timing rules them out.

Left out: CPU shares and metrics, the response, loading the function
(a request starts with its configuration). What happens inside a session between
`StartInvoke` and `FinishInvoke` is `Invocation`'s subject.

### Invocation

`sess` is what the pool knows of one runtime, its mode, its process and the two
channels whose closing ends the loops; `snd` and `rcv` are the loops, `stopping`
the call of stopRuntime, `client[q]` the goroutine in InvokeFunction and `info[q]`
its RequestInfo, both with a program counter where the code can be interrupted.
`InvokeResult` tests Status and writes without a lock; the timer, both loops and
stopRuntime call it, so each call is an action that tests and an action that writes
(`TimerFires`/`TimerWrites`, `SendFails` or `RetryDeadline`/`SendWrites`,
`RecvResponse`/`RecvWrites`, `StopVisits`/`StopWrites`). `requestMap.Range` visits
the keys it began with unless they are deleted, and may visit later ones. In generic
mode the process answers over the connection in any order (`Respond`); in stream mode
the send loop makes one http request at a time (`StartDo`, `DoReturns`, `DoFails`),
repeats it until `RetryDeadline`, and hands the answer to the receive loop through
`httpResponseChan`. A loop that would use the nil pointer of a request that is gone
is in `panic`; a panic of the send loop ends the controller (`Up`).

An outcome is only that it was written and by whom. Counters, durations and logs are
left out. The runtime serves one function, so its mode does not change.

### CodeCache

`chans` is HandlingChanMap (the entry names the goroutine that made the channel),
`on[w]` the channel `w` waits on, `zip`, `dir` and `tag` the files. Downloading
and extracting have a beginning and an end, so two goroutines can overlap.
`reading` and `spoilt` say what overlapping costs: an extraction whose archive
is rewritten under it may fail, and one that fails may leave a file truncated
that another one has already written. `Timeout` is the ten seconds of WarmUp,
after which the goroutine goes on; `Again` is the next warm-up; `Restart` keeps
the files only.

### ContainerEvents

`token[c]` is the content of the EventLock's channel, `handler` the control state
of the http handlers, `phase[h][c]` where `h` is in ResetContainer of `c` (the
containers after the target are reset by goroutines of their own), `cont[c]` the
container as runc, the PathManager and its mounts see it, `pids` the handlers
whose pid from ContainerInfo is still that container's process. `MayFail` names
the steps whose system call may fail. The boot (InitAllContainers) is the initial
state, with every outcome of InitContainer.

IDE mode is left out (see section 7). What a mount, a network or a runc command is,
beyond one step that works or fails, is the subject of the modules of the node.

### RequestLog

A stream is a sequence of symbols (text, request ID, tab, newline, end marker), each
with the request that printed it; a read takes any prefix of what is on the connection.
`disp[s]` is the dispatcher's Read with its buffer and the positions of its scan,
`store[q]` the kunLogStatStore, `lmap` the map of stores, `call[q]` the part of
InvokeFunction that opens, waits for and closes the log. WriteStdLog tests `closed`,
appends to the tail and writes the file in three steps, between which Close may run.
`forced` and `clean` only serve the properties: flags that the timer set, and symbols of
earlier requests on their way when the store was made. A log file that has reached its
limit drops whole writes, so `LogComplete` speaks of files that have capacity left.

### The parts of the node

* `TmpQuota`: `projectsFile`, `pathIDs`, `projIDPool` and the kernel's projects are four
  records of one fact. AllocTmpDevice, the removal that a reset leaves to a goroutine, and
  tmpRecycleTask, which replaces the maps by what it read from the file earlier, take one
  step per lock or command.
* `StorageSetup`: pods of one host, of both storage types, start, crash, restart and are
  replaced; finding a free loop device and attaching it are two steps that other pods
  come between.
* `ContainerNetwork`: veths in the list, the pool and the containers; a process may exit
  between any two steps, and each call may fail.
* `BridgeSetup`: InitNetwork step by step over starts that stop anywhere.
* `NodeResources`: integer conversions of memory and cpu as in the code; scaleUp shrinks
  and freezes merged containers one write at a time and enlarges the target, and a reset of
  the controller retrieves any containers that are merged, also ones that a scale-up is
  still shrinking. A scale-up or a reset that fails leaves containers running that the
  controller counts as merged; `lost` counts them, and memory is overcommitted by at most
  one base size for each.
* `PathTasks`: sets of directories, the two queues, and mounts that show the shared
  directory itself.
* `RuncCommands`: a command is a child that its own Wait or the reaper's Wait4 collects;
  whose exit status is lost to the reaper counts as success, as in the code.

### The services

* `ExpiringCache`: Set reads the clock before the lock, DeleteExpired calls OnEvicted
  after it; integers wrap at the width of their type; SaveFile truncates, then encodes.
* `FunctionCache`: a metadatum is its revision, so its age can be told; `registry` keeps
  when each revision was replaced.
* `GenericServer` and `RestCall`: for each call the client's Do, the timeout filter
  (outer) and the rest of the chain in its goroutine (inner), with a connection that may
  break between them, and Run with its hooks and shutdown.
* `PathMux`: the maps, the list of exposed paths and the table that readers use.
* `FunctionStore`: creating writes two files in two steps while getters read; every form
  of a resource name is parsed as the code does.
* `HttpTrigger`: contexts of connections are reused; both clients of the trigger and the
  asynchronous form of an invocation.

`MCNode` and `MCService` put parts that share no state into one specification: `part`
selects the one that moves in a behaviour, so the states are the union and not the
product of the parts', and each part interleaves its own actors freely. Parts that do
interact (client and server, cache items and their users) are composed by EXTENDS.

## 3. Runs

Passing runs:

| Run | Bounds | What it shows |
|---|---|---|
| `pool_single` | 1 container, 3 requests, quota 2, 1 crash, 1 failing call, resource task on, no Faults | Conserved (Concurrency, Marked and Used exact), QuotaRespected, ClosedIsDrained, ResetHasNoTenant, NeverStopHeld: all contention is on one record, so one container and one request more than the quota admits are what it takes |
| `pool_scale` | 2 containers, a function of two units and one of one, 3 units of memory, 1 failing call | TypeOK, Conserved, RebootCounts through merging, rollback, retrieval and partial failure of a group reset. The second function takes the container the first wants to merge, which forces the rollback |
| `pool_faults` | 1 container, two functions, 1 crash, Faults silent, late, gap and straggler | RightCode and NoPhantomConcurrency survive these races |
| `pool_live` | 1 container, 2 requests, 1 crash, 1 failing call, Faults late and lostreply, fairness | RequestsReturn, ClosedComesBack |
| `invoke_sessions` | 2 requests, one of which the function fails, both modes, channels of capacity 1, 2 sessions, 1 death or garbage, fairness | TypeOK, NoEmptyReply, StopNotifies, NothingLeaked, InvocationsEnd, SessionsEnd: two requests are a full queue and one that is stored while stopRuntime ranges; the second session meets the requests of the first |
| `code_cache` | 2 warm-ups of one code, 2 failures, 2 restarts, fairness | NoOrphan, PrepareEnds always; PreparedUntilFailure (serial preparation, whole code) before the first failure. Codes do not interact but through the mutex of the map, so one is enough; a warm-up repeats, so two are master, waiter and straggler of an earlier round |
| `events_group` | 3 containers, 2 handlers, warm-ups and resets of the groups, 1 failing call, 1 exit, fairness | ImplementsMutex, LiveIsEquipped (LiveOwnsPaths and StartedHasCode), WarmUpUndisturbed, HandlersReturn, where a merged container is only reset with its group, no mount fails and ContainerInfo does not |
| `request_logs` | 2 requests, both modes, every log type, two streams, a dispatcher buffer of 3 symbols and a tail of 2, fairness | LogsRight (LogComplete, LinesFindOwner), LogStoresSound (LogTypeOK, BufferOwned, TailBounded, WaitGroupExact), LogsClose: a line is longer than the tail and as long as the buffer, so every cut of a line by a read and by the tail occurs; the second request meets what the first left on the connections |
| `node_parts` | per part: 2 containers with 3 sets of paths and a pool of 2 IDs, 3 pods on 2 loop devices, 2 containers on 2 free addresses, 3 starts of the bridge, 4 containers and a function of 5 units of memory on 3 nodes, 3 path sets, 3 resets; one to three failing calls | TmpStorageSafe (TmpKept, TmpLimited, ProjectsDistinct, StorageOwn, StorageFits), NetworkSafe (AddressesDistinct, PoolIsFree, LostByFaultsOnly, BridgeReady, ContainersIsolated), ResourcesSafe (NodeNotOvercommitted, MergedNeverRefused, CpuWithinNode), PathsSafe (CurrentIsWhole, PathsAccounted, SharedSurvives), ResetSafe (FreshAfterReset, ZombiesSeen). Each pool is as small as makes it run empty, each counter has room for one reuse |
| `service_parts` | per part: 1 key with 2 objects and types of 1 and 2 bits, 2 lookups, 2 calls with 1 slot and 2 attempts, 4 paths with 3 registrations, 1 creator and 1 getter of 2 functions, 2 doors and 1 connection | EvictedOnce and ItemsKept of the cache; AgeBounded (BoundedStaleness, LatestIsCurrent); HttpServerSafe (RunWaitsForHandlers, HandlersLimited, HealthyMeansHooked, RoutesBest, ListedServed); CallsSound (AtMostOnce, SuccessIsExecuted, OneAnswer); StoreSound (GetIsRight, CreatedIsFound); DoorsSound (OwnBody, OwnAnswer, FailureShown) |

Violations: each is a disagreement between the code and what a comment, message
or document of the repository says.

| Run | What TLC finds |
|---|---|
| `invoke_stream` | in stream mode a request that times out in the queue, or while the process executes it, has left requestMap when a loop looks it up: the send loop reads TimeoutChannel of a nil request and the receive loop converts a response into its output (LoopsSurvive) |
| `events_busy` | ResetContainerEvent only logs that a merged container is busy, resets it all the same, and releases a lock it does not hold (EventsExclusive). The event set has a reset of the merged container alone, which reborn of a retrieved container and the reset of the node send |

Other disagreements met while modelling, without a run of their own. The following are
one change of constants away:

* `ResetHasNoTenant` fails in `pool_single` with `Faults = {"gap"}`: reborn enters
  `rebootWaitGroup` only after its CAS returned. A runner that connects in between does
  not wait, its runtime becomes Cold and is occupied, and funclet kills it under its
  tenant.
* `MergedComesBack` fails in `pool_scale` under `FairSpec`: stopRunner keeps Merged and
  Reclaiming, initRunner accepts Closed only, so the runner of a retrieved and reset
  container is refused and the container is lost to the pool.
* `StartedHasCode` fails in `events_group` with `"mount"` in `MayFail`: BindMount
  overwrites the error of the mount with the result of undoing it; the warm-up goes on
  and signals a container without code.
* `TimeoutIsOwn` fails in `service_parts` with `ClientTimeouts = {0, 1}`: the timeout
  parameter of one request is assigned to the variable that all requests share
  (`server/filters/timeout.go:43`, against the comment at line 34).
* `LogComplete` fails for a process whose last line has no newline (`<<"text", "zero">>` in
  `PrintedLines`, which `MarkForm` excludes): an end marker after an open line writes the
  line and marks the stream as done before the line is stored (`log_dispatcher.go:111`).
* `QuotaRespected` fails in `pool_single` with `Faults = {"silent"}`: reborn clears
  Concurrency of a runtime in WarmUp whose first request still holds it
  (`event.go:282`).
* `ClosedIsDrained` fails in `pool_single` with `Faults = {"straggler"}`, and
  `ClosedComesBack` in `pool_live`: stopRunner waits for `runtimeWaitGroup` before
  it takes `invokeLock` (`runner.go:85`); a runtime accepted in between outlives
  it and leaves the record Stopped, in which no runner is accepted again.
* `MarkedValid` fails in `pool_scale` with `MaxCrashes = 1` and one request of the
  large function: its target dies and is reborn before the rollback, whose CAS then
  fails; OccupyColdRuntime gives the Marked memory back, and so does reborn
  (`runtime_dispatcher.go:370`, against the "marked resource invalid" of line 419).
* `FinishedIsWhole` fails in `code_cache` with three warm-ups and no restarts: when a
  master fails all its waiters go on at once; one extraction tags the directory while
  another has truncated a file and fails (`warmup.go:224`, "mark as finished").
* `MarkedValid` fails with one container, `SyncTask = TRUE`, `BaseMemory = 2` and
  `UnitMemory`: SyncRuntimeResource overwrites the Resource of a runtime occupied
  after its test (`runtime_dispatcher.go:442`).
* `SerialFetch` fails in `code_cache` once a step has failed
  (`warmup.go:190`, "serial fetch code").
* `LiveOwnsPaths` fails in `events_group` with `"info"` in `MayFail`: any error of
  ContainerInfo counts as "does not exist" (`reset.go:132`).

These are in the models as the code has them; properties that they would break exclude
them by a condition that the comment on the property states:

* Logs: `lnTabCnt` survives a read that discards everything (`log_dispatcher.go:84`), and
  a read that ends after a tab counts it again, so the ID of a line may be looked for in
  the wrong column (`stale` in `LinesFindOwner`); `del` clears `lastReqID`
  although another request is the last one.
* Quota: a removal that finds no ID pushes 0 to the pool, and syncExistsProjects installs
  maps that are older than the file (`strayed` in `ProjectsDistinct`). A removal waits
  when the pool is full.
* Loop devices: the errno of SetFd is ignored (`loop_linux.go:107`), so a pod may mount
  another one's file (`raced` in `StorageOwn`); recycling compares names that never match
  (`loop.go:86`).
* Network: the keys of getIPMap hold the hardware address, so a neighbour never matches
  (`allocate_ip_linux.go:92`); an existing bridge with an address ends CreateBridge early
  and is not repaired (`bridge_linux.go:48`).
* Paths: MS_RDONLY is ignored together with MS_BIND; a failed mkdir leaves directories
  that nobody removes.
* runc: ECHILD from Wait counts as success (`runc.go:76`); a reset whose State was wrong
  reports success for a container it did not start (`misled` in `FreshAfterReset`).
* Resources: the cpu of a target is rounded down, an unlimited cpu is scaled like a
  number.
* Server: the wait of the shutdown is not "bounded by the RequestTimeout variable"
  (`genericserver.go:95`), as a handler outlives its request; registering a path twice is
  logged, where the comment says that Handle panics.
* Client: isConnectionReset is false for every error that http.Client returns
  (`request.go:717`), so the retry of a GET never happens.
* Trigger: the body of a stream is lost (`httptrigger.go:173`), decoding base64 into an
  empty slice panics (`:137`), a 5xx of the controller and, over rpc, every status outside
  200 to 206 becomes a 502, a function error in a LogToBody answer over rpc is a 200, and
  the 400 for a missing Qualifier is overwritten by a 500.
* Stub: a function created with version 1 is stored under its full name and not found
  under `function:1`; an alias in a name is dropped.

A component's invariant is the conjunction of the named parts in parentheses; TLC reports
the conjunction, the parts are invariants of their own. Every property of a passing run has a mutant of the modelled code (definitions
marked `Mutant` in the modules) that breaks it.

Deadlock is checked in the runs of the pool, the code cache and the event handlers: cron
rounds, handlers and warm-ups repeat, so no state of these systems is final. Invocations,
logs and the parts of `node_parts` and `service_parts` are not repeated for ever: requests,
starts and operations are bounded and end.

## 4. Fairness

`RuntimePool!FairSpec`: goroutines that can run do run, timers fire (so a waiting
request ends its wait), time passes, funclet answers each call (its client has a
timeout). Strong fairness of `InitRunner` says that a runner gets its connection
through before the cron task resets its container once more: reborn looks only at
the last report, so without it a container may be reset for ever, and that is a
property of the timings, not of the protocol. Nothing is assumed of crashes, of
reports and of calls that fail, and `IncreaseUsed` may never run.
`Invocation!FairSpec`: the goroutines of requests, the loops and stopRuntime run and
their timers fire; a call of Do on a dead process fails; the retry deadline of a
request passes even if Do fails again and again (strong, because Do is called in
between); funclet resets what was cooled down. Of the process, which may answer never,
and of new sessions nothing is assumed, and both liveness properties stop at a panic.
`RequestLog!LogSpec`: the client's goroutine and the timer of waitLogDone run. Nothing is
assumed of the process and of the dispatchers, which wait for it.
`CodeCache!FairSpec`: the goroutines run and the storage service answers or breaks
off. `ContainerEvents!FairSpec`: handlers run and runc returns.

## 5. Proofs

Every theorem is for arbitrary constants under the named assumptions of the modules
(`PoolAssumption`, `CacheAssumption`, `EventsAssumption`, `NetworkAssumption`, ...). These fix
types and say that the values standing for "nothing" are not members of the sets they are
used with (`NoCommitAssumption`, `TriggerAssumption`, `StoreAssumption`); nothing is assumed
of sizes except that a node has a container (`TmpQuotaAssumption`), and crashes, failures and restarts may be as many as one likes. Some
need more, and say so in their statement:

| Hypothesis | Says | Why |
|---|---|---|
| `Prompt` | `Faults = {}`, as in the runs `pool_single` and `pool_scale` | each of these properties fails under some of the unbounded delays (section 4) |
| `FewRequests` | there are finitely many requests, fewer than values of a uint64 | else Concurrency wraps |
| `NoScaling` | no function needs more than one container | a rollback of a merge after a reset leaves units behind, the case that NoPhantomConcurrency excludes in words; the faults are arbitrary here |
| `GroupsDisjoint` | events that have a container in common have the same target | the events of `events_group` keep it; without it LockOther, which ignores whether it got the lock, lets two handlers at one container: the run `events_busy` shows how, with a reset that reborn sends for a merged container |
| `SteadySizes` | the resource task finds every runtime at the size that functions need, and nothing crashes where functions need several containers | SyncRuntimeResource overwrites the Resource of a runtime occupied since it looked, and the memory of a target that crashed before its rollback is given back twice: section 3 has both |
| `LineForm`, `MarkForm` | lines that carry an ID carry it between their first two tabs, and the buffer has room for it; output of a runtime that serves one request at a time ends with its only end marker, behind a newline | the dispatcher knows IDs and ends by nothing else. `MCRequestLog` has TLC evaluate both |
| `NoFalseSuccess` | `ContainerInfo` and `BindMount` do not fail | funclet takes both failures for success: an error of ContainerInfo counts as a container that does not exist, and a BindMount that was undone returns no error. The run that checks LiveIsEquipped leaves them out too |

**The pool** (`RuntimePoolProofs`).

* `TypeCorrect`: `TypeOK` is inductive. It is what the other proofs stand on: the
  range of a scan index or the type of a merged list is not visible in a single
  action. One lemma per group of events (`RequestEventTypes`, `CronEventTypes`,
  `ConnectionEventTypes`) says that an event returns a RuntimeInfo, one per kind
  of process that its steps keep the type.
* `RightCodeAlways`: RightCode is inductive relative to TypeOK because every step
  that is not InitRuntime or StopRuntime is *quiet*: it never makes a runtime warm,
  never changes the commit of a warm runtime except to the empty one, and never
  touches a session's code or ends a session. The lemmas `Quiet...` show this once
  per event and action; InitRuntime sets commit and code together, and StopRuntime
  leaves Warm in the critical section that ends the session.
* `RebootCountsAlways`: the counter of a container equals the number of calls that
  reset it. Only RebootBegin and the two returns change the set of calls; for each
  container they add or remove exactly one call, which the cardinality theorems
  turn into the counter's step. Everything else leaves the set as it is
  (`CallsKept`): `resets` does not change while the call is under way.
* `PoolInvAlways`, and from it `ConcurrencyAlways`, `QuotaAlways`, `DrainedAlways`,
  `NoTenantAlways` and `NeverStopHeldAlways`. That Concurrency is exact is not inductive: a
  request may occupy a container that another one still marks, and a container that crashes
  during a merge is reset, gets a new runner and is cold again while its request has yet to
  roll back. `PoolInv` therefore says how the state of a runtime, its connections and the
  cron task's work on it fit together (`Shape`), that a request that has occupied a
  container has it alone until WarmUp (`Owned`, `Apart`), that its list of merged
  containers holds only merged or retrieved ones (`Listed`), that what the cron task
  retrieved stays retrieved (`Retrieved`), and that every function leaves room under its
  quota in a container that can be given to it (`Counts`). NeverStopHeld is the action
  property that the CAS of coolDown keeps because the count it compares is exact.
* `NoPhantomAlways`: with arbitrary faults Concurrency may be too low but never too high.
  The proof follows the units: a step lowers counts (`Lower`), or adds one to the runtime
  that its request holds from then on.
* `ConservedAlways`: Marked and Used are sums over runtimes and requests that no critical
  section looks at as a whole. `MemoryInv` says who stands for what: a runtime's own memory
  while it is marked or used, and for a request between CheckAndMarkResource and Occupy
  what it has reserved (`Reservations`); a runtime that can be given away has neither
  (`Tidy`). Each step changes one or two terms of the sums by what it adds to the totals;
  a merge moves the reservation of its request onto the target. `MarkedNeverNegative`
  follows: ReleaseMarkedResource never finds less than it gives back.

**Invocations** (`InvocationProofs`). `NoEmptyReplyAlways`, `StopNotifiesAlways`,
`NothingLeakedAlways`: one inductive invariant, `IInv`, for all three. For every
request, `GoodRequest` ties the client's place in InvokeFunction to its RequestInfo:
a notification is there only after a status was written, and a client that is past
its wait has a result or an errorMessage. `Loops` says that what a loop points to
has been sent, so that a late write cannot hit a request that has not begun, and
`Notified` that the keys Range has passed, or that left the map meanwhile, were
notified: StopNotifies alone is not inductive because InvokeDone and the timer take
keys out during Range. `GoodStep` says what a step may do to one request; lemmas
about records (`ClientUpdates`, `LoopUpdates`) show it once per update of the code,
and each action then only names the update it applies. StopCloses is the exception,
as it drops requests that were stored during Range and not notified.

`TypesAlways` is the type invariant of the sessions, their loops and channels.

**The code cache** (`CodeCacheProofs`).

* `NoOrphanAlways`: with the types of the three variables it
  speaks about, NoOrphan is inductive: a channel is registered by a goroutine that
  has not closed it, waiters wait on the registered channel of their own code, and
  CloseChan unregisters and wakes in one critical section.
* `PreparedAlways`: until a step fails (`Sound`), who prepares is the registered master of a
  code without a tag, whoever is past that finds the tag (`MasterPrepares`), nobody writes
  to an archive that is downloaded (`ArchiveSound`), and a tag means whole code
  (`TagSound`). A failed master releases its waiters before its directory is gone, which
  ends all three: the implication from `failures.errors = 0` is what is inductive.

**Events** (`ContainerEventsProofs`). `LockInv`: a handler holds its target and then its
group, nobody else works on that target, and the channel of a container is empty exactly
while a handler holds it. LockOther does not look at whether it got a lock, so mutual
exclusion on a group follows from the lock of its target alone. From it

* `MutexImplemented`, the refinement of `EventMutex`: every step acquires a container that
  is free, releases one that the handler has, or leaves the owners alone;
* `ExclusiveAlways` and `UndisturbedAlways` (the action property);
* `EquippedAlways` with `EquipInv`: a container that is about to be made anew does not
  exist, and a warm-up that signals has mounted everything in a container that runs. The
  first needs the locks: two resets of one container could remove each other's directories.

**Logs** (`RequestLogProofs`). Three invariants, each on top of the one before.

* `LogStoresAlways`, for any output of the process. Every buffer is in the pool or belongs
  to exactly one request between startRecvLog and Close (`BufferHeld`, `BufferKept`), so the
  pool is not empty when a request starts. What a buffer holds and what remains of it add up
  to its length, and `remain` falls below zero by at most 1, 3 and 6 symbols before the
  START line, before and after the END and REPORT lines (`TailBalanced`, `Overdraft`): the
  bound of TailBounded alone is not inductive, as forced lines are written to full tails.
  The wait group counts the flags that are not set, whoever sets them.
* `LinesAlways`: LinesFindOwner speaks of one place in the scan. `LineInv` follows a line from
  the connection on: what is left of a stream consists of lines with their ID in place
  (`Formed`), but for the beginning of the first, and the scan's position decides what it
  knows of the line (`Attributed`): nothing before its first tab, one tab between the tabs,
  the owner behind the second. A torn line (`stale`) is exempt until its newline.
* `LogsRightAlways`, which adds LogComplete. In a common runtime at most one request is
  under way and its store is the only one in the map (`Serial`). For a request whose store
  is clean and not forced (`Watched`), each stream is *pending* or *handled*, as its flag
  says. Pending: nothing was printed yet and the stream is empty, or the log followed by the
  text still in buffer and connection is what the request printed, and the rest ends with
  the only end marker (`Flowing`, `Sealed`), in every state of Read and WriteStdLog. Handled:
  the log is what was printed and nothing of it is left anywhere. A flag is set by the end
  marker, when the rest is empty, or by force, which ends the watch. That nobody else prints
  meanwhile (`Alone`) follows from `clean`, and a late dispatcher that still has the store of a
  request that is over has written all it had.

**The node** (`NodeProofs`). `ResourcesAlways`: a container counts for its limit unless it is
frozen, and `ResourceInv` accounts for every container that was merged: its memory went to
the target of its scale-up, or it is in a job that has not shrunk it, or in `lost`. The
number of containers that may be merged for a target is what its size exceeds the base size
by, rounded down, whence the rest of less than one base size per enlarged container.

`ResetAlways` follows what a reset knows of the container at
each of its commands although the reaper may have taken the exit status. `PathsAlways` has
every set of directories in one place (`OnePlace`: a container's, one of the queues, the
remover's) and ties what is mounted to that place. `NetworkAlways` covers the bridge
(`BridgeInv`) and the addresses (`NetInv`): a Veth is in one list at most, in use exactly
when it has a process, and addresses are given out in order until they have been given out
once. The search of allocateIP is a recursive function, of which `RoundExists` gives a
closed form; in place of induction the least counterexample is taken (`LeastElement` of
`DataLemmas`).

`TmpStorageAlways` is about temporary files and the storage they are on. For the storage,
`StorageInv` follows the file of a pod through the device, the format and the mount. For the
quota, TmpKept says nothing of the goroutines that could violate it later; `QuotaInv` does:

* every path that is written down anywhere (in the file, in the lines and lists that the
  recycle task has read, in the map, in a removal) has been generated before (`KnownAreOld`),
  so a new path is known to nobody;
* a removal works on a path that is outdated, or is the rollback of an init that has failed
  (`RemovalGood`), so none reaches the directory or the line of a container that is up;
* all that is written down of a container's path carries the ID that its init took
  (`LineGood`): the maps may be replaced by older ones between mapProject and setQuota, and
  the limit is still set on the right project;
* an ID is in the pool or belongs to one path, one init or one removal (`IdGood`), which
  passes it on; this holds until the maps stray from the file.

What removeFromFile leaves of the file is a recursive function again: there is one line per
path, so its solution is the file without that line (`LeavesOutExists`, `LeavesOutUnique`).

**The services** (`ServiceProofs`). `CallsAlways` counts the runs of a handler against its
place and the answer written so far (`OneWriter`, `Runs`, `CallGood`): Retry-After is only
sent where no handler has run. `HttpServerAlways`: the wait group and the slots are the
cardinalities of the sets of handlers that hold them (`ServerInv`); the published table of
the mux is sorted, so the first prefix that matches is the longest (`MuxInv`).
`EvictedAlways` has every object in one place until a file is loaded (`PlacedOnce`);
`ItemsKeptAlways` needs that an object has one expiration wherever it is (`ItemsGood`).
`AgeAlways`: an entry was stored one Expiration before it expires, and the call that
brought it began at most one timeout before (`EntryGood`, `LookupGood`). `DoorsAlways`: a
request has one holder and none once it has run (`OneRun`), so an answer that tells its
outcome goes on telling it, and the context a door waits for is that of its own request
(`Linked`). `StoreAlways`: the name of a directory determines what its metadata says, and
the forms of a name lead to it.

`DataLemmas` holds what several of these use: facts about sequences, the sum of a function
over a finite set (that one changed value changes the sum by the difference, bounds) and
FlattenSeq (that it distributes over concatenation). The two are folds or recursive
functions of the community modules; their theories rest on the unfolding of the recursive
function up to n, which exists and is unique because a least n without it would contradict
the one before (`LeastElement`, `Climb`), in place of the induction theorems of the library.

Only model-checked:

* liveness (`RequestsReturn`, `ClosedComesBack`, `PrepareEnds`, `HandlersReturn`,
  `InvocationsEnd`, `SessionsEnd`, `LogsClose`): beyond this version of TLAPS, as is ENABLED.

Every invariant and every action property of the passing runs is a theorem, under the
hypotheses above.

## 6. Bounds

| Constant | Bounds |
|---|---|
| `MaxTries` | attempts of getRuntime; 2 in the code, 1 in the runs, where a request of its own adds more interleavings than a second attempt |
| `MaxCrashes`, `MaxExits` | containers or function processes that die |
| `MaxErrors` | calls or file operations that fail |
| `MaxRestarts` | restarts of funclet |
| `MaxSessions`, `MaxDeaths`, `ChanCap` | sessions of a runtime; processes that die or answer garbage; capacity of the channels, 100 in the code |
| `BufferLength`, `TailLength`, `FileCapacity` | sizes of log buffers in symbols; 64 KB, 4 KB and 6 MB in the code. The file's is above everything that is printed |
| `Generations`, `IdPoolSize`, `MaxRecycles`, `MaxTmpFaults` | paths per container, project IDs, rounds of the recycle task, failing steps. Three IDs in use with a pool of two is the pool at its limit |
| `MaxGenerations`, `MaxStorageStarts` | pods of one name and starts of funclets: a pod that is replaced, and two that start together |
| `Hosts`, `MaxPids`, `MaxNetFaults` | addresses, processes and failing calls: three addresses, one of them the bridge's, make the search go round |
| `MaxStarts`, `MaxWriteFaults`, `MaxPathNames`, `MaxPathFaults`, `MaxResets`, `MaxRuncFaults` | starts, sets of paths, resets and failing calls of the other parts of the node |
| `Width`, `MaxFloat`, `MaxObjects`, `MaxCacheClock` | the cache: integers of one and two bits wrap within the steps of the run |
| `MaxRevisions`, `MaxLookupClock` | changes of the registry and time: four ticks are one more than an entry may live after the call that brought it began |
| `MaxRetries`, `MaxRegistrations`, `MaxStoreRequests`, `MaxIssued` | attempts (10 in the code), registrations and requests |
| `UintSpan` | values of a uint64: 4 in the runs, above every count that can occur, so that a wrap below zero is seen |

Requests are not repeated; warm-ups, events and cron rounds are.

## 7. Plan

Done: the pool, sessions, logs, code cache, event handlers, and the parts of the node and
of the services. Left, in this order:

1. An abstract specification of an invocation (one outcome per request), refined by
   `Invocation`, and `RuntimePool` over it in place of `StartInvoke` and `FinishInvoke`.
2. `PathTasks`, `ContainerNetwork` and `RuncCommands` under `ContainerEvents` in place of
   its one-step calls.
3. IDE mode, which takes the same locks and mounts other directories.

Not modelled: the statistics of requests and the metrics, which are reported and read by
nobody in the repository; logging, authentication and options, which keep no state that
two parties share; the runner's config.json beyond its limits, the codecs and builders of
the rest client and the walk of the cgroup file system, which build or read data of other
programs; runc's Create, Start, Update, Pause and Resume and the server's pre-shutdown
hooks, which have no caller.
