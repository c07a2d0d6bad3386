------------------------------- MODULE MCNode --------------------------------
(***************************************************************************)
(* The parts of a node that share no state with each other, for TLC: the   *)
(* quota of temporary files, the storage below it, veth pairs, the bridge, *)
(* memory and cpu, directories, and runc. One part moves in a behaviour,   *)
(* the others stay at an initial state.                                    *)
(***************************************************************************)
EXTENDS TmpQuota, StorageSetup, ContainerNetwork, BridgeSetup, NodeResources, PathTasks, RuncCommands, TLC

VARIABLE part

MCGenerations == 1 :> 2 @@ 2 :> 1
MCStorageType == "a" :> "loop" @@ "b" :> "loop" @@ "h" :> "host-path"

\* A limited memory with a cpu from the options, on which two functions can be scaled up, an
\* unlimited memory with a quota, and a quota below the least one.
NodeOption(cm, tm, rm, cq, tc, rc, m, c) ==
    [cgroupMemory |-> cm, totalMemory |-> tm, reservedMemory |-> rm,
     cgroupQuota |-> cq, totalMilli |-> tc, reservedMilli |-> rc, memory |-> m, milli |-> c]
MCNodeOptions ==
    {NodeOption(9, 0, 1, -1, 2900, 1000, 2, 1100),
     NodeOption(MemoryNoLimits, 21, 1, 200000, 0, 0, 5, 1100),
     NodeOption(20, 0, 0, 500, 0, 0, 5, 5)}
\* One container uses memory.
MCUsages == [c \in Cgroups |-> IF c = 2 THEN {0, 2} ELSE {0}]

Parts == {"quota", "storage", "network", "bridge", "resources", "paths", "runc"}

Init ==
    /\ part \in Parts
    /\ QuotaInit /\ StorageInit /\ NetInit /\ BridgeInit /\ NodeInit /\ PathInit /\ RuncInit
    /\ part = "storage" \/ hostDir = [xfs |-> TRUE, pquota |-> TRUE, available |-> RequiredSize]

Others(p) ==
    /\ part = p /\ UNCHANGED part
    /\ p # "quota" => UNCHANGED quotaVars
    /\ p # "storage" => UNCHANGED storageVars
    /\ p # "network" => UNCHANGED netVars
    /\ p # "bridge" => UNCHANGED bridgeVars
    /\ p # "resources" => UNCHANGED nodeVars
    /\ p # "paths" => UNCHANGED pathVars
    /\ p # "runc" => UNCHANGED runcVars

Next ==
    \/ Others("quota") /\ QuotaNext
    \/ Others("storage") /\ StorageNext
    \/ Others("network") /\ NetNext
    \/ Others("bridge") /\ BridgeNext
    \/ Others("resources") /\ NodeNext
    \/ Others("paths") /\ PathNext
    \/ Others("runc") /\ RuncNext

-----------------------------------------------------------------------------
(* Properties of the components that two modules model *)

\* Temporary files: a container that is up has its directory, its line in /etc/projects and
\* a limit of its own, on storage that is its pod's and can hold it; the reset goroutines,
\* the recycle task, other pods and restarts do not change that.
TmpStorageSafe == TmpKept /\ TmpLimited /\ ProjectsDistinct /\ StorageOwn /\ StorageFits

\* Network: live containers have addresses of their own on a bridge over which they cannot
\* reach each other, and only failing calls cost addresses.
NetworkSafe == AddressesDistinct /\ PoolIsFree /\ LostByFaultsOnly /\ BridgeReady /\ ContainersIsolated
=============================================================================
