--------------------------- MODULE ContainerEvents ---------------------------
(***************************************************************************)
(* Funclet's event handlers: warm-up (warmup.go) and reset (reset.go, with *)
(* InitContainer of init.go) of the containers of the node, each under the *)
(* container's EventLock (container.go, api/funclet.go). runc, the cgroups *)
(* and the processes in the containers are the environment; preparing the  *)
(* user's code is CodeCache.                                               *)
(***************************************************************************)
EXTENDS Naturals, Sequences, FiniteSets, SequencesExt

CONSTANTS
    Containers,
    Handlers,       \* goroutines that serve funclet's http requests
    Events,         \* the requests: see EventRecords
    NoEvent,
    MayFail,        \* the steps whose system call may fail
    MaxErrors,      \* bound on such failures
    MaxExits        \* bound on containers that die by themselves

\* others: ScaleUpRecommendation.MergedContainers of a warm-up, or
\* ScaleDownRecommendation.ResetContainers of a reset; empty without one.
EventRecords == [kind : {"warmup", "reset"}, target : Containers, others : SUBSET Containers]

FailKinds == {"info", "thaw", "kill", "delete", "paths", "config", "start", "net",
              "freeze", "scale", "conf", "mount", "code"}

ASSUME EventsAssumption ==
    /\ Events \subseteq EventRecords
    /\ \A e \in Events : e.target \notin e.others
    /\ NoEvent \notin Events
    /\ MayFail \subseteq FailKinds
    /\ MaxErrors \in Nat
    /\ MaxExits \in Nat

VARIABLES
    token,      \* content of every EventLock's channel: 1 when it is free
    cont,       \* the containers, see Conts
    handler,    \* control state of the handlers, see HandlerRecords
    phase,      \* where a handler is in ResetContainer of each container
    pids,       \* handlers whose pid from ContainerInfo is a live process
    failures    \* errors and exits so far

vars == <<token, cont, handler, phase, pids, failures>>

\* stat: what runc says; paths: PathManager has ContainerPaths; own: they are the
\* ones the container was started from; mounted: code, configuration and runtime
\* are mounted there; run: what the container executes ("bare": it was told to
\* start the function without its code).
Conts == [stat : {"none", "running", "paused", "stopped"}, paths : BOOLEAN,
          own : BOOLEAN, mounted : BOOLEAN, run : {"runner", "function", "bare"}]

HandlerRecords ==
    [pc : {"idle", "lock", "lockothers", "reset", "others", "scale", "freeze", "scaleup",
           "info", "mount", "signal", "unlock"},
     event : Events \cup {NoEvent}, todo : SUBSET Containers, locks : Seq(Containers)]

Phases == {"idle", "look", "thaw", "kill", "delete", "clean", "paths", "config", "start",
           "net", "ok", "failed"}

TypeOK ==
    /\ token \in [Containers -> {0, 1}]
    /\ cont \in [Containers -> Conts]
    /\ handler \in [Handlers -> HandlerRecords]
    /\ phase \in [Handlers -> [Containers -> Phases]]
    /\ pids \subseteq Handlers
    /\ failures \in [errors : Nat, exits : Nat]

NoContainer == [stat |-> "none", paths |-> FALSE, own |-> FALSE, mounted |-> FALSE, run |-> "runner"]
NewContainer == [stat |-> "running", paths |-> TRUE, own |-> TRUE, mounted |-> FALSE, run |-> "runner"]

\* InitAllContainers at boot, before requests are served: an InitContainer that
\* failed leaves nothing, or the paths without a container.
BootOutcomes == {NewContainer, NoContainer, [NoContainer EXCEPT !.paths = TRUE]}

IdleHandler == [pc |-> "idle", event |-> NoEvent, todo |-> {}, locks |-> << >>]

Init ==
    /\ token = [c \in Containers |-> 1]
    /\ cont \in [Containers -> BootOutcomes]
    /\ handler = [h \in Handlers |-> IdleHandler]
    /\ phase = [h \in Handlers |-> [c \in Containers |-> "idle"]]
    /\ pids = {}
    /\ failures = [errors |-> 0, exits |-> 0]

Target(h) == handler[h].event.target
Others(h) == handler[h].event.others

\* A step that succeeds, and one whose system call fails.
Works == UNCHANGED failures
Fails(kind) ==
    /\ kind \in MayFail
    /\ failures.errors < MaxErrors
    /\ failures' = [failures EXCEPT !.errors = @ + 1]

At(h, pc) == handler[h].pc = pc
Goto(h, pc) == handler' = [handler EXCEPT ![h].pc = pc]

\* Handlers whose process dies when the container goes.
Losing(c) == {h \in pids : Target(h) = c}

-----------------------------------------------------------------------------
(* Event locks.                                                            *)

Call(h, e) ==
    /\ At(h, "idle")
    /\ handler' = [handler EXCEPT ![h] = [@ EXCEPT !.pc = "lock", !.event = e]]
    /\ UNCHANGED <<token, cont, phase, pids, failures>>

\* First step of a handler that holds the lock of its target.
FirstStep(h) ==
    CASE handler[h].event.kind = "reset" -> IF Others(h) = {} THEN "reset" ELSE "lockothers"
      [] OTHER -> IF Others(h) = {} THEN "info" ELSE "scale"

EnterReset(h) == phase' = [phase EXCEPT ![h][Target(h)] = "look"]

\* Mutant: LockContainer's error is not looked at.
LockAnyway(h) ==
    /\ At(h, "lock")
    /\ token' = [token EXCEPT ![Target(h)] = 0]
    /\ handler' = [handler EXCEPT ![h] = [@ EXCEPT !.pc = FirstStep(h), !.todo = Others(h),
                                                   !.locks = <<Target(h)>>]]
    /\ IF FirstStep(h) = "reset" THEN EnterReset(h) ELSE UNCHANGED phase
    /\ UNCHANGED <<cont, pids, failures>>

\* LockContainer of the target; ContainerIsBusy ends the event.
Lock(h) ==
    LET free == token[Target(h)] = 1 IN
    /\ At(h, "lock")
    /\ token' = [token EXCEPT ![Target(h)] = 0]
    /\ handler' = [handler EXCEPT ![h] =
          IF free THEN [@ EXCEPT !.pc = FirstStep(h), !.todo = Others(h), !.locks = <<Target(h)>>]
                  ELSE IdleHandler]
    /\ IF free /\ FirstStep(h) = "reset" THEN EnterReset(h) ELSE UNCHANGED phase
    /\ UNCHANGED <<cont, pids, failures>>

\* Mutant: the lock of the other containers is not taken.
LockOtherSkipped(h, c) ==
    /\ At(h, "lockothers") /\ c \in handler[h].todo
    /\ handler' = [handler EXCEPT ![h].pc = IF handler[h].todo = {c} THEN "reset" ELSE @,
                                  ![h].todo = @ \ {c}, ![h].locks = Append(@, c)]
    /\ IF handler[h].todo = {c} THEN EnterReset(h) ELSE UNCHANGED phase
    /\ UNCHANGED <<token, cont, pids, failures>>

\* ResetContainerEvent locks the containers to reset as well; a lock it does not
\* get is only logged, and its UnLock is deferred all the same.
LockOther(h, c) ==
    /\ At(h, "lockothers") /\ c \in handler[h].todo
    /\ token' = [token EXCEPT ![c] = 0]
    /\ handler' = [handler EXCEPT ![h].pc = IF handler[h].todo = {c} THEN "reset" ELSE @,
                                  ![h].todo = @ \ {c}, ![h].locks = Append(@, c)]
    /\ IF handler[h].todo = {c} THEN EnterReset(h) ELSE UNCHANGED phase
    /\ UNCHANGED <<cont, pids, failures>>

\* A deferred UnLock, last one first: it waits while the channel is full.
UnLock(h) ==
    LET c == Last(handler[h].locks) IN
    /\ At(h, "unlock")
    /\ token[c] = 0
    /\ token' = [token EXCEPT ![c] = 1]
    /\ handler' = [handler EXCEPT ![h] =
          IF Len(@.locks) = 1 THEN IdleHandler ELSE [@ EXCEPT !.locks = Front(handler[h].locks)]]
    /\ pids' = pids \ {h}
    /\ UNCHANGED <<cont, phase, failures>>

-----------------------------------------------------------------------------
(* ResetContainer, one step per call to runc, the cgroups or the paths.    *)

In(h, c, p) == phase[h][c] = p
Then(h, c, p) == phase' = [phase EXCEPT ![h][c] = p]

\* Mutant: a stopped container is taken for one that does not exist.
AfterInfoStoppedIsGone(stat) ==
    CASE stat = "paused" -> "thaw" [] stat = "running" -> "kill" [] OTHER -> "clean"

AfterInfo(stat) ==
    CASE stat = "paused" -> "thaw"
      [] stat = "running" -> "kill"
      [] stat = "stopped" -> "delete"
      [] OTHER -> "clean"

\* ContainerInfo; an error counts as ContainerStatusNotExist.
ResetInfo(h, c) ==
    /\ In(h, c, "look")
    /\ \/ Works /\ Then(h, c, AfterInfo(cont[c].stat))
       \/ Fails("info") /\ Then(h, c, "clean")
    /\ UNCHANGED <<token, cont, handler, pids>>

ThawContainer(h, c) ==
    /\ In(h, c, "thaw")
    /\ \/ /\ Works /\ cont[c].stat # "none"
          /\ cont' = [cont EXCEPT ![c].stat = IF @ = "paused" THEN "running" ELSE @]
          /\ Then(h, c, "kill")
       \/ /\ Fails("thaw") \/ (Works /\ cont[c].stat = "none")
          /\ Then(h, c, "failed")
          /\ UNCHANGED cont
    /\ UNCHANGED <<token, handler, pids>>

\* StopContainer: SIGKILL, then WaitForContainerExits. Killing a container that is
\* already stopped may or may not be an error of runc; a frozen one does not die.
StopContainer(h, c) ==
    /\ In(h, c, "kill")
    /\ \/ /\ Works /\ cont[c].stat \in {"running", "stopped"}
          /\ cont' = [cont EXCEPT ![c].stat = "stopped"]
          /\ pids' = pids \ Losing(c)
          /\ Then(h, c, "delete")
       \/ /\ Works /\ cont[c].stat # "running"
          /\ Then(h, c, "failed")
          /\ UNCHANGED <<cont, pids>>
       \/ /\ Fails("kill") /\ cont[c].stat = "running"
          /\ Then(h, c, "failed")
          /\ \/ UNCHANGED <<cont, pids>>
             \/ cont' = [cont EXCEPT ![c].stat = "stopped"] /\ pids' = pids \ Losing(c)
    /\ UNCHANGED <<token, handler>>

\* DeleteContainer: by force when it does not work otherwise.
DeleteContainer(h, c) ==
    /\ In(h, c, "delete")
    /\ \/ /\ Works
          /\ cont' = [cont EXCEPT ![c].stat = "none"]
          /\ pids' = pids \ Losing(c)
          /\ Then(h, c, "clean")
       \/ /\ Fails("delete")
          /\ Then(h, c, "failed")
          /\ UNCHANGED <<cont, pids>>
    /\ UNCHANGED <<token, handler>>

\* OutdatePaths hands the paths to the unmount task.
OutdatePaths(h, c) ==
    /\ In(h, c, "clean")
    /\ cont' = [cont EXCEPT ![c] = [@ EXCEPT !.paths = FALSE, !.own = FALSE, !.mounted = FALSE]]
    /\ Then(h, c, "paths")
    /\ UNCHANGED <<token, handler, pids, failures>>

\* InitContainer: GeneratePaths refuses a container that has paths, and takes
\* them back when a directory cannot be made.
GeneratePaths(h, c) ==
    /\ In(h, c, "paths")
    /\ \/ /\ Works /\ ~cont[c].paths
          /\ cont' = [cont EXCEPT ![c] = [@ EXCEPT !.paths = TRUE, !.own = FALSE, !.mounted = FALSE]]
          /\ Then(h, c, "config")
       \/ /\ Fails("paths") \/ (Works /\ cont[c].paths)
          /\ Then(h, c, "failed")
          /\ UNCHANGED cont
    /\ UNCHANGED <<token, handler, pids>>

\* The tmp device and the configuration of the runner.
PrepareConfig(h, c) ==
    /\ In(h, c, "config")
    /\ \/ Works /\ Then(h, c, "start")
       \/ Fails("config") /\ Then(h, c, "failed")
    /\ UNCHANGED <<token, cont, handler, pids>>

\* runc run refuses an id that exists.
StartContainer(h, c) ==
    LET possible == cont[c].stat = "none" /\ cont[c].paths IN
    /\ In(h, c, "start")
    /\ \/ /\ Works /\ possible
          /\ cont' = [cont EXCEPT ![c] = [@ EXCEPT !.stat = "running", !.own = TRUE, !.run = "runner"]]
          /\ Then(h, c, "net")
       \/ /\ Fails("start") \/ (Works /\ ~possible)
          /\ Then(h, c, "failed")
          /\ UNCHANGED cont
    /\ UNCHANGED <<token, handler, pids>>

\* SetContainerNet; when it fails the container stays up.
SetContainerNet(h, c) ==
    LET alive == cont[c].stat \in {"running", "paused"} IN
    /\ In(h, c, "net")
    /\ \/ Works /\ Then(h, c, IF alive THEN "ok" ELSE "failed")
       \/ Fails("net") /\ Then(h, c, "failed")
    /\ UNCHANGED <<token, cont, handler, pids>>

ResetStep(h, c) ==
    \/ ResetInfo(h, c) \/ ThawContainer(h, c) \/ StopContainer(h, c) \/ DeleteContainer(h, c)
    \/ OutdatePaths(h, c) \/ GeneratePaths(h, c) \/ PrepareConfig(h, c) \/ StartContainer(h, c)
    \/ SetContainerNet(h, c)

\* ResetContainers: once the target is reset, a goroutine for each of the others.
ResetOthers(h) ==
    /\ At(h, "reset") /\ In(h, Target(h), "ok") /\ Others(h) # {}
    /\ phase' = [phase EXCEPT ![h] = [c \in Containers |-> IF c \in Others(h) THEN "look" ELSE @[c]]]
    /\ Goto(h, "others")
    /\ UNCHANGED <<token, cont, pids, failures>>

\* ResetContainers returns: the target failed, or everything was tried.
ResetReturns(h) ==
    /\ \/ At(h, "reset") /\ In(h, Target(h), "failed")
       \/ At(h, "reset") /\ In(h, Target(h), "ok") /\ Others(h) = {}
       \/ At(h, "others") /\ \A c \in Others(h) : phase[h][c] \in {"ok", "failed"}
    /\ phase' = [phase EXCEPT ![h] = [c \in Containers |-> "idle"]]
    /\ Goto(h, "unlock")
    /\ UNCHANGED <<token, cont, pids, failures>>

-----------------------------------------------------------------------------
(* WarmUp.                                                                 *)

\* scaleUp wants every container to exist.
ScaleCheck(h) ==
    /\ At(h, "scale")
    /\ Goto(h, IF \E c \in {Target(h)} \cup Others(h) : cont[c].stat = "none"
               THEN "unlock" ELSE "freeze")
    /\ UNCHANGED <<token, cont, phase, pids, failures>>

\* FrozenContainer and scaleDownContainerToMinimum of one merged container, whose
\* lock nobody has taken. An error after the freezing leaves it frozen.
FreezeMerged(h, c) ==
    LET frozen == [cont EXCEPT ![c].stat = IF @ = "running" THEN "paused" ELSE @] IN
    /\ At(h, "freeze") /\ c \in handler[h].todo
    /\ \/ /\ Works /\ cont[c].stat # "none"
          /\ cont' = frozen
          /\ handler' = [handler EXCEPT ![h].pc = IF handler[h].todo = {c} THEN "scaleup" ELSE @,
                                        ![h].todo = @ \ {c}]
       \/ /\ Works /\ cont[c].stat = "none"
          /\ Goto(h, "unlock")
          /\ UNCHANGED cont
       \/ /\ Fails("freeze") /\ cont[c].stat # "none"
          /\ Goto(h, "unlock")
          /\ cont' \in {cont, frozen}
    /\ UNCHANGED <<token, phase, pids>>

ScaleUpContainer(h) ==
    LET gone == cont[Target(h)].stat = "none" IN
    /\ At(h, "scaleup")
    /\ \/ Works /\ ~gone /\ Goto(h, "info")
       \/ (Fails("scale") \/ (Works /\ gone)) /\ Goto(h, "unlock")
    /\ UNCHANGED <<token, cont, phase, pids>>

\* ContainerInfo: the container must be running; its pid is kept for the signal.
WarmUpInfo(h) ==
    LET running == cont[Target(h)].stat = "running" IN
    /\ At(h, "info")
    /\ Goto(h, IF running THEN "mount" ELSE "unlock")
    /\ pids' = IF running THEN pids \cup {h} ELSE pids
    /\ UNCHANGED <<token, cont, phase, failures>>

\* prepareRuntimeConf, GetPaths and BindMount. An atomic BindMount that fails
\* unmounts what it mounted and returns the error of that: mostly none.
BindMount(h) ==
    /\ At(h, "mount")
    /\ \/ /\ Works /\ cont[Target(h)].paths
          /\ cont' = [cont EXCEPT ![Target(h)].mounted = TRUE]
          /\ Goto(h, "signal")
       \/ /\ Fails("conf") \/ (Works /\ ~cont[Target(h)].paths)
          /\ Goto(h, "unlock")
          /\ UNCHANGED cont
       \/ /\ Fails("mount") /\ cont[Target(h)].paths
          /\ Goto(h, "signal") \/ Goto(h, "unlock")
          /\ UNCHANGED cont
    /\ UNCHANGED <<token, phase, pids>>

\* The code is there, or is not within 10 seconds; SIGUSR1 goes to the pid.
Signal(h) ==
    LET c == cont[Target(h)]
        run == IF c.own /\ c.mounted THEN "function" ELSE "bare"
    IN
    /\ At(h, "signal")
    /\ \/ /\ Works
          /\ cont' = IF h \in pids THEN [cont EXCEPT ![Target(h)].run = run] ELSE cont
       \/ Fails("code") /\ UNCHANGED cont
    /\ Goto(h, "unlock")
    /\ UNCHANGED <<token, phase, pids>>

-----------------------------------------------------------------------------

\* A container dies by itself.
Exit(c) ==
    /\ failures.exits < MaxExits
    /\ cont[c].stat \in {"running", "paused"}
    /\ failures' = [failures EXCEPT !.exits = @ + 1]
    /\ cont' = [cont EXCEPT ![c].stat = "stopped"]
    /\ pids' = pids \ Losing(c)
    /\ UNCHANGED <<token, handler, phase>>

HandlerStep(h) ==
    \/ Lock(h) \/ UnLock(h) \/ ResetOthers(h) \/ ResetReturns(h)
    \/ ScaleCheck(h) \/ ScaleUpContainer(h) \/ WarmUpInfo(h) \/ BindMount(h) \/ Signal(h)
    \/ \E c \in Containers : LockOther(h, c) \/ FreezeMerged(h, c)

Next ==
    \/ \E h \in Handlers, e \in Events : Call(h, e)
    \/ \E h \in Handlers : HandlerStep(h)
    \/ \E h \in Handlers, c \in Containers : ResetStep(h, c)
    \/ \E c \in Containers : Exit(c)

Spec == Init /\ [][Next]_vars

\* Goroutines run and runc returns.
FairSpec ==
    /\ Spec
    /\ \A h \in Handlers :
        /\ WF_vars(HandlerStep(h))
        /\ \A c \in Containers : WF_vars(ResetStep(h, c))

-----------------------------------------------------------------------------
(* Properties.                                                             *)

\* Whether the handler is between the Lock and the UnLock of the container.
Working(h, c) == \E i \in DOMAIN handler[h].locks : handler[h].locks[i] = c

\* What ContainerIsBusy stands for: an event is refused while another one works on
\* the container, so no two handlers ever work on the same one.
EventsExclusive ==
    \A c \in Containers : Cardinality({h \in Handlers : Working(h, c)}) <= 1

Mutex == INSTANCE EventMutex
    WITH owners <- [c \in Containers |-> {h \in Handlers : Working(h, c)}]

\* The channels, the try-locks and the deferred UnLocks implement the mutex.
ImplementsMutex == Mutex!Spec

\* A container that runc knows has the paths it was started from: nobody unmounts
\* or removes the directories under a container that still uses them.
LiveOwnsPaths ==
    \A c \in Containers : cont[c].stat # "none" => cont[c].paths /\ cont[c].own

\* A container is never told to start its function without the function's code,
\* configuration and runtime mounted where that container sees them.
StartedHasCode == \A c \in Containers : cont[c].run # "bare"

\* Whatever resets, warm-ups and failing calls come together, a live container has its
\* directories, and a function that was started has its code.
LiveIsEquipped == LiveOwnsPaths /\ StartedHasCode

\* Between ContainerInfo and the signal nobody but the container itself ends, kills
\* or freezes the container that a warm-up works on.
WarmUpUndisturbed ==
    [][\A h \in Handlers : handler[h].pc \in {"mount", "signal"} =>
          \/ cont'[Target(h)].stat = cont[Target(h)].stat
          \/ failures'.exits # failures.exits]_vars

\* Every handler comes to its end and gives its locks back.
HandlersReturn == \A h \in Handlers : handler[h].pc # "idle" ~> handler[h].pc = "idle"
=============================================================================
