---------------------------- MODULE NodeResources ----------------------------
(***************************************************************************)
(* The memory and cpu of a node and of its containers: the check of a      *)
(* starting funclet (runtime/resource.go HasSufficientResources), the      *)
(* cgroup writes (runtime/cgroup), scaleUp of warmup.go, which shrinks     *)
(* frozen containers to enlarge another, and the resets that give every    *)
(* container its default back. Memory is counted in bufferMemorySize. Cpu  *)
(* is in milli cpus, the quota in microseconds of Period.                  *)
(*                                                                         *)
(* The controller's part is what runtime_dispatcher.go and the cron task   *)
(* send: a scale-up names scaleCount idle containers to merge, a scale-    *)
(* down as many of those merged for anybody, also ones that a scale-up is  *)
(* still working on. The controller never takes a merged container back    *)
(* into its pool (initRunner refuses its runner).                          *)
(***************************************************************************)
EXTENDS Integers, FiniteSetsExt, Functions

CONSTANTS
    Cgroups,            \* the containers of the node
    NodeOptions,        \* the options a funclet may be started with
    TargetSizes,        \* memory sizes of functions that need a scale-up
    Usages,             \* how much memory the processes of each container may have in use
    MaxWriteFaults      \* bound on failing cgroup writes, runc commands and calls

ASSUME CgroupsAssumption ==
    /\ Cgroups \subseteq Nat /\ IsFiniteSet(Cgroups) /\ MaxWriteFaults \in Nat
    /\ TargetSizes \subseteq Nat /\ Usages \in [Cgroups -> SUBSET Nat]
    \* a container is larger than the buffer that getMinMemoryLimit adds
    /\ \A o \in NodeOptions :
         /\ {o.cgroupMemory, o.totalMemory, o.reservedMemory, o.memory} \subseteq Nat
         /\ {o.cgroupQuota, o.totalMilli, o.reservedMilli, o.milli} \subseteq Int
         /\ o.memory > 1

MemoryNoLimits == 2^30      \* the kernel's "no limit"
CPUNoLimits == -1
MilliCPUToCPU == 1000
MinQuotaPeriod == 1000
Period == 100000            \* cpu.cfs_period_us

VARIABLES
    node,       \* totalResource and defaultResourceConfig; booted is FALSE before NewResourceManager
    cg,         \* cgroup of a container: limits, freezer, memory in use
    role,       \* the controller's view: idle, busy (a target, with its TargetMemory), merged,
                \* reclaiming (retrieved by a reset), failed (reclaiming and Abnormal)
    job,        \* the event handler that works on a target
    refused,    \* ghost: containers for which the kernel refused a limit below the usage
    lost,       \* ghost: containers named in scale-ups and resets that failed
    writeFaults

nodeVars == <<node, cg, role, job, refused, lost, writeFaults>>

NoJob == [pc |-> "none", todo |-> {}, done |-> {}, seen |-> 0]
NoCgroup == [exists |-> FALSE, mem |-> 0, quota |-> 0, frozen |-> FALSE, usage |-> 0]

NodeInit ==
    /\ node = [booted |-> FALSE]
    /\ cg = [c \in Cgroups |-> NoCgroup]
    /\ role = [c \in Cgroups |-> [is |-> "idle", mem |-> 0]]
    /\ job = [c \in Cgroups |-> NoJob]
    /\ refused = {}
    /\ lost = 0
    /\ writeFaults = 0

-----------------------------------------------------------------------------
(* Conversions of helpers_linux.go and GetResourcesConfig *)

MilliCPUToQuota(milli) ==
    IF milli = 0 THEN 0 ELSE Max({(milli * Period) \div MilliCPUToCPU, MinQuotaPeriod})

QuotaToMilliCPU(quota) == IF quota < 0 THEN -1 ELSE (quota * MilliCPUToCPU) \div Period

\* A limit of -1 stands for no quota.
GetResourcesConfig(mem, milli) ==
    [mem |-> mem,
     quota |-> IF milli = -MilliCPUToCPU THEN CPUNoLimits ELSE MilliCPUToQuota(milli)]

\* The cgroup's limit counts, and the configured one only where the cgroup has none.
getMemoryCapacity(o) ==
    IF o.cgroupMemory = MemoryNoLimits /\ o.totalMemory # 0 THEN o.totalMemory ELSE o.cgroupMemory

getMilliCPUCapacity(o) ==
    IF o.cgroupQuota = CPUNoLimits /\ o.totalMilli # 0
      THEN o.totalMilli
      ELSE QuotaToMilliCPU(o.cgroupQuota)

-----------------------------------------------------------------------------
(* The start of the funclet *)

HasSufficientResources(o) ==
    /\ o.reservedMemory < getMemoryCapacity(o)
    /\ o.reservedMilli < getMilliCPUCapacity(o)
    /\ o.memory * Cardinality(Cgroups) <= getMemoryCapacity(o) - o.reservedMemory
    /\ o.milli <= getMilliCPUCapacity(o) - o.reservedMilli

\* Options that fail the check end the program; the others make it start all containers
\* from their runner specification, which carries the default configuration.
NewResourceManager(o) ==
    /\ ~node.booted /\ HasSufficientResources(o)
    /\ node' = [booted |-> TRUE,
                memory |-> getMemoryCapacity(o) - o.reservedMemory,
                milli |-> getMilliCPUCapacity(o) - o.reservedMilli,
                baseMilli |-> o.milli,
                default |-> GetResourcesConfig(o.memory, o.milli)]
    /\ cg' = [c \in Cgroups |-> [exists |-> TRUE, mem |-> o.memory,
                                 quota |-> GetResourcesConfig(o.memory, o.milli).quota,
                                 frozen |-> FALSE, usage |-> 0]]
    /\ UNCHANGED <<role, job, refused, lost, writeFaults>>

-----------------------------------------------------------------------------
(* Cgroup writes *)

\* The kernel rejects a memory limit below what is in use; a quota of 0 is not written.
Refuses(c, mem) == mem < cg[c].usage
WriteMemory(c, mem) == cg' = [cg EXCEPT ![c].mem = mem]
WriteQuota(c, quota) == cg' = [cg EXCEPT ![c].quota = IF quota = 0 THEN @ ELSE quota]

\* Processes of a container that runs allocate and free memory.
Use(c, n) ==
    /\ cg[c].exists /\ ~cg[c].frozen
    /\ n # cg[c].usage /\ n <= cg[c].mem
    /\ cg' = [cg EXCEPT ![c].usage = n]
    /\ UNCHANGED <<node, role, job, refused, lost, writeFaults>>

-----------------------------------------------------------------------------
(* The handlers of funclet *)

Ends(t, next) == job' = [job EXCEPT ![t] = next]
GoesTo(t, from, to) == job[t].pc = from /\ job' = [job EXCEPT ![t].pc = to]
Abandons(S) == lost' = lost + Cardinality(S)

\* math.Ceil of an integer division: the division has rounded down already.
scaleCount(mem) == mem \div node.default.mem - 1

\* occupyColdWithScaleUpRecommendation and the warm-up request that follows.
RequestScaleUp(t, mem, S) ==
    /\ node.booted /\ mem > node.default.mem
    /\ role[t].is = "idle" /\ t \notin S /\ \A c \in S : role[c].is = "idle"
    /\ Cardinality(S) = scaleCount(mem)
    /\ role' = [c \in Cgroups |-> CASE c = t -> [is |-> "busy", mem |-> mem]
                                    [] c \in S -> [is |-> "merged", mem |-> 0]
                                    [] OTHER -> role[c]]
    /\ job' = [job EXCEPT ![t] = [pc |-> "check", todo |-> S, done |-> S, seen |-> 0]]
    /\ UNCHANGED <<node, cg, refused, lost, writeFaults>>

\* A scale-up that fails leaves everything as it is; the controller, too, leaves its
\* containers merged.
Fails(t) == Ends(t, NoJob) /\ Abandons(job[t].done)

scaleUpChecks(t) ==
    /\ GoesTo(t, "check", "freeze")
    /\ \A c \in job[t].done \cup {t} : cg[c].exists
    /\ UNCHANGED <<node, cg, role, refused, lost, writeFaults>>

scaleUpFindsNone(t) ==
    /\ job[t].pc = "check"
    /\ \E c \in job[t].done \cup {t} : ~cg[c].exists
    /\ Fails(t)
    /\ UNCHANGED <<node, cg, role, refused, writeFaults>>

\* Mutant: the container is shrunk while it runs.
FrozenContainerNot(t, c) ==
    /\ GoesTo(t, "freeze", "stats") /\ c = Min(job[t].todo)
    /\ cg[c].exists
    /\ UNCHANGED <<node, cg, role, refused, lost, writeFaults>>

FrozenContainer(t, c) ==
    /\ GoesTo(t, "freeze", "stats") /\ c = Min(job[t].todo)
    /\ cg[c].exists
    /\ cg' = [cg EXCEPT ![c].frozen = TRUE]
    /\ UNCHANGED <<node, role, refused, lost, writeFaults>>

\* scaleDownContainerToMinimum reads the usage,
ContainerResourceStats(t, c) ==
    /\ job[t].pc = "stats" /\ c = Min(job[t].todo) /\ cg[c].exists
    /\ Ends(t, [job[t] EXCEPT !.pc = "shrink", !.seen = cg[c].usage])
    /\ UNCHANGED <<node, cg, role, refused, lost, writeFaults>>

\* and writes getMinMemoryLimit.
scaleDownContainerToMinimum(t, c) ==
    /\ job[t].pc = "shrink" /\ c = Min(job[t].todo) /\ cg[c].exists
    /\ IF Refuses(c, job[t].seen + 1)
         THEN Fails(t) /\ refused' = refused \cup {c} /\ UNCHANGED cg
         ELSE /\ WriteMemory(c, job[t].seen + 1)
              /\ Ends(t, [job[t] EXCEPT !.pc = "freeze", !.todo = @ \ {c}])
              /\ UNCHANGED <<refused, lost>>
    /\ UNCHANGED <<node, role, writeFaults>>

\* Each of the three looks for the cgroup first, which a reset may have removed.
CgroupNotExist(t, c) ==
    /\ job[t].pc \in {"freeze", "stats", "shrink"} /\ c = Min(job[t].todo) /\ ~cg[c].exists
    /\ Fails(t)
    /\ UNCHANGED <<node, cg, role, refused, writeFaults>>

\* GetResourceConfigByReadableMemory: the cap is rounded down to whole cpus.
TargetConfig(mem) ==
    LET milli == (mem \div node.default.mem) * node.baseMilli
    IN GetResourcesConfig(mem, IF milli > node.milli
                                 THEN (node.milli \div MilliCPUToCPU) * MilliCPUToCPU
                                 ELSE milli)

\* scaleUpContainer: the memory, which may not become less,
scaleUpMemory(t) ==
    /\ job[t].pc = "freeze" /\ job[t].todo = {}
    /\ IF role[t].mem < cg[t].mem
         THEN Fails(t) /\ UNCHANGED cg
         ELSE /\ WriteMemory(t, TargetConfig(role[t].mem).mem)
              /\ Ends(t, [job[t] EXCEPT !.pc = "quota"])
              /\ UNCHANGED lost
    /\ UNCHANGED <<node, role, refused, writeFaults>>

\* and then the quota.
scaleUpQuota(t) ==
    /\ job[t].pc = "quota"
    /\ WriteQuota(t, TargetConfig(role[t].mem).quota)
    /\ Ends(t, NoJob)
    /\ UNCHANGED <<node, role, refused, lost, writeFaults>>

\* A write of a scale-up fails. What was written before stays.
ScaleUpFails(t) ==
    /\ writeFaults < MaxWriteFaults
    /\ job[t].pc \in {"freeze", "stats", "shrink", "quota"}
    /\ writeFaults' = writeFaults + 1
    /\ Fails(t)
    /\ UNCHANGED <<node, cg, role, refused>>

\* opRetrieveCheck; a reclaiming container can be taken again after a timeout.
Retrievable(c) == role[c].is \in {"merged", "reclaiming", "failed"}
Retrieved(S) ==
    [c \in Cgroups |-> IF c \in S /\ role[c].is = "merged" THEN [is |-> "reclaiming", mem |-> 0]
                                                         ELSE role[c]]

\* occupyWithScaleDownRecommendation of a target that is stopped or defunct: as many
\* containers as its size needs, not necessarily its own.
Recommends(t, S) ==
    /\ role[t].is = "busy" /\ \A c \in S : Retrievable(c)
    /\ Cardinality(S) = scaleCount(role[t].mem)

RequestReset(t, S) ==
    /\ job[t] = NoJob /\ Recommends(t, S)
    /\ role' = Retrieved(S)
    /\ Ends(t, [pc |-> "reset", todo |-> {t}, done |-> S, seen |-> 0])
    /\ UNCHANGED <<node, cg, refused, lost, writeFaults>>

\* With too few of them the target is reset alone; those found stay reclaiming.
RequestResetAlone(t, S) ==
    /\ job[t] = NoJob /\ role[t].is = "busy" /\ \A c \in S : Retrievable(c)
    /\ Cardinality(S) < scaleCount(role[t].mem)
    /\ \A c \in Cgroups \ S : role[c].is # "merged"
    /\ role' = Retrieved(S)
    /\ Ends(t, [pc |-> "reset", todo |-> {t}, done |-> {}, seen |-> 0])
    /\ UNCHANGED <<node, cg, refused, lost, writeFaults>>

\* Invalidate
Failed(S) ==
    [c \in Cgroups |-> IF c \in S THEN [is |-> "failed", mem |-> 0] ELSE role[c]]

\* reborn of a target whose warm-up still runs: LockContainer refuses the request.
RequestResetRefused(t, S) ==
    /\ writeFaults < MaxWriteFaults /\ writeFaults' = writeFaults + 1
    /\ job[t] # NoJob /\ Recommends(t, S)
    /\ role' = Failed(S) /\ Abandons(S)
    /\ UNCHANGED <<node, cg, job, refused>>

\* reborn of a merged container that a reset has failed for: it is reset by itself. Its
\* lock keeps nobody out: a reset that does not get it goes on, and unlocks it.
RequestReborn(c) ==
    /\ job[c] = NoJob /\ role[c].is = "failed"
    /\ Ends(c, [pc |-> "reset", todo |-> {c}, done |-> {}, seen |-> 0])
    /\ UNCHANGED <<node, cg, role, refused, lost, writeFaults>>

\* ResetContainer: a frozen container is thawed and killed, then deleted with its cgroup,
ResetRemoves(t, c) ==
    /\ job[t].pc = "reset" /\ c \in job[t].todo /\ cg[c].exists
    /\ cg' = [cg EXCEPT ![c] = NoCgroup]
    /\ UNCHANGED <<node, role, job, refused, lost, writeFaults>>

\* ResetContainers: the merged ones follow once the target is there again.
AfterReset(t, c) ==
    IF c = t
      THEN [job[t] EXCEPT !.todo = job[t].done]
      ELSE [job[t] EXCEPT !.todo = @ \ {c}]

\* and InitContainer makes it again from its specification.
ResetInits(t, c) ==
    /\ job[t].pc = "reset" /\ c \in job[t].todo /\ ~cg[c].exists
    /\ cg' = [cg EXCEPT ![c] = [NoCgroup EXCEPT !.exists = TRUE, !.mem = node.default.mem,
                                                !.quota = node.default.quota]]
    /\ Ends(t, AfterReset(t, c))
    /\ UNCHANGED <<node, role, refused, lost, writeFaults>>

\* A reset fails, perhaps after the thaw. When it is the target's, nothing else is reset:
\* the controller invalidates all of them, and tries the target again.
ResetFails(t, c) ==
    /\ writeFaults < MaxWriteFaults
    /\ job[t].pc = "reset" /\ c \in job[t].todo
    /\ writeFaults' = writeFaults + 1
    /\ \E thawed \in BOOLEAN : cg' = [cg EXCEPT ![c].frozen = @ /\ ~thawed]
    /\ IF c = t THEN Fails(t) /\ role' = Failed(job[t].done)
                ELSE Ends(t, AfterReset(t, c)) /\ role' = Failed({c}) /\ UNCHANGED lost
    /\ UNCHANGED <<node, refused>>

ResetEnds(t) ==
    /\ job[t].pc = "reset" /\ job[t].todo = {}
    /\ Ends(t, NoJob)
    /\ role' = [role EXCEPT ![t] = IF @.is = "busy" THEN [is |-> "idle", mem |-> 0] ELSE @]
    /\ UNCHANGED <<node, cg, refused, lost, writeFaults>>

NodeNext ==
    \/ \E o \in NodeOptions : NewResourceManager(o)
    \/ \E t \in Cgroups :
         \/ \E n \in Usages[t] : Use(t, n)
         \/ \E mem \in TargetSizes, S \in SUBSET Cgroups : RequestScaleUp(t, mem, S)
         \/ \E S \in SUBSET Cgroups :
              RequestReset(t, S) \/ RequestResetAlone(t, S) \/ RequestResetRefused(t, S)
         \/ RequestReborn(t)
         \/ scaleUpChecks(t) \/ scaleUpFindsNone(t) \/ scaleUpMemory(t) \/ scaleUpQuota(t)
         \/ ScaleUpFails(t) \/ ResetEnds(t)
         \/ \E c \in job[t].todo :
              \/ FrozenContainer(t, c) \/ ContainerResourceStats(t, c)
              \/ scaleDownContainerToMinimum(t, c) \/ CgroupNotExist(t, c)
              \/ ResetRemoves(t, c) \/ ResetInits(t, c) \/ ResetFails(t, c)

-----------------------------------------------------------------------------
(* Properties *)

\* The limits of the containers that can run stay within the node's allocatable memory,
\* whichever merged containers a reset takes, but for two things: less than one base size
\* for each enlarged container (the rest that scaleCount rounds away), and one for each
\* container of a scale-up or a reset that failed. Such a container is merged in the
\* controller and runs nevertheless.
NodeNotOvercommitted ==
    node.booted =>
      LET enlarged == {c \in Cgroups : cg[c].mem > node.default.mem}
      IN SumFunction([c \in Cgroups |-> IF cg[c].frozen THEN 0 ELSE cg[c].mem])
           <= node.memory + Cardinality(enlarged) * (node.default.mem - 1) + lost * node.default.mem

\* The kernel refuses to shrink a container only when a reset has taken it meanwhile: the
\* usage of the others stands still between the reading and the writing.
MergedNeverRefused == \A c \in refused : role[c].is \in {"reclaiming", "failed"}

\* No container with a quota gets more cpu than the node may hand out, or the least quota
\* that MilliCPUToQuota gives, where the node has less than that.
CpuWithinNode ==
    node.booted => \A c \in Cgroups :
      QuotaToMilliCPU(cg[c].quota) <= Max({node.milli, QuotaToMilliCPU(MinQuotaPeriod)})

\* Scale-ups and resets keep the node within the memory and the cpu that its funclet
\* found at boot, and lose track of no more memory than their failures explain.
ResourcesSafe == NodeNotOvercommitted /\ MergedNeverRefused /\ CpuWithinNode
=============================================================================
