---------------------------- MODULE StorageSetup ----------------------------
(***************************************************************************)
(* How a funclet prepares the storage that TmpQuota divides: NewTmpManager *)
(* and InitQuotaCtrl with the two storage types, a file on a loop device   *)
(* (storage/loop, device/loop) and a directory of the host                 *)
(* (storage/hostpath), across restarts of the process and replacements of  *)
(* the pod. Loop devices belong to the host, all pods of which share them. *)
(*                                                                         *)
(* A file stands for its pod and the pod's generation. The kernel's part:  *)
(* a device that is mounted is not detached before its last mount goes     *)
(* (the model never detaches it).                                          *)
(***************************************************************************)
EXTENDS Naturals, FiniteSets, FiniteSetsExt

CONSTANTS
    Pods, StorageType,  \* StorageType[p]: "loop" or "host-path"
    LoopDevices,        \* numbers of the devices
    RequiredSize,       \* what requiredStorageSize computes
    MaxGenerations,     \* bound on pods of the same name
    MaxStorageStarts    \* bound on starts

ASSUME StorageAssumption ==
    /\ StorageType \in [Pods -> {"loop", "host-path"}]
    /\ LoopDevices \subseteq Nat /\ RequiredSize \in Nat
    /\ MaxGenerations \in Nat \ {0} /\ MaxStorageStarts \in Nat

NoFile == <<>>
NoDevice == 99

VARIABLES
    hostDir,        \* file system of the host's directory
    backing,        \* the file of every loop device
    generation,     \* of every pod name
    deleted,        \* files without a name
    formatted,      \* files with an xfs file system
    pod,            \* the funclet of every pod
    recycler,       \* its recycleLoopDevice
    storageStarts

storageVars == <<hostDir, backing, generation, deleted, formatted, pod, recycler, storageStarts>>

Down == [at |-> "down", dev |-> NoDevice, mounted |-> NoFile, raced |-> FALSE]

StorageInit ==
    /\ hostDir \in [xfs : BOOLEAN, pquota : BOOLEAN, available : {RequiredSize - 1, RequiredSize}]
    /\ backing = [d \in LoopDevices |-> NoFile]
    /\ generation = [p \in Pods |-> 1]
    /\ deleted = {} /\ formatted = {}
    /\ pod = [p \in Pods |-> Down]
    /\ recycler = [p \in Pods |-> {}]
    /\ storageStarts = 0

FileOf(p) == <<p, generation[p]>>
Free == {d \in LoopDevices : backing[d] = NoFile}
Mounted(f) == \E p \in Pods : pod[p].mounted = f
Step(p, at) == pod' = [pod EXCEPT ![p].at = at]
StartFails(p) == pod' = [pod EXCEPT ![p] = Down]

-----------------------------------------------------------------------------
(* NewTmpManager *)

\* CreateFile truncates a file that an earlier start has left.
Allocate(p) ==
    /\ pod[p].at = "down" /\ StorageType[p] = "loop" /\ storageStarts < MaxStorageStarts
    /\ formatted' = formatted \ {FileOf(p)}
    /\ Step(p, "free") /\ storageStarts' = storageStarts + 1
    /\ UNCHANGED <<hostDir, backing, generation, deleted, recycler>>

\* Attach: the lowest number that is free,
GetFree(p) ==
    /\ pod[p].at = "free" /\ Free # {}
    /\ pod' = [pod EXCEPT ![p].at = "set", ![p].dev = Min(Free)]
    /\ UNCHANGED <<hostDir, backing, generation, deleted, formatted, recycler, storageStarts>>

\* and SetFd, whose error is not looked at: the number may have been taken meanwhile.
SetFd(p) ==
    LET d == pod[p].dev
    IN /\ pod[p].at = "set"
       /\ IF backing[d] = NoFile
            THEN backing' = [backing EXCEPT ![d] = FileOf(p)] /\ Step(p, "mkfs")
            ELSE pod' = [pod EXCEPT ![p].at = "mkfs", ![p].raced = TRUE] /\ UNCHANGED backing
       /\ UNCHANGED <<hostDir, generation, deleted, formatted, recycler, storageStarts>>

\* The status cannot be set: the device is released.
setInfoFails(p) ==
    /\ pod[p].at = "set" /\ backing[pod[p].dev] = NoFile
    /\ StartFails(p)
    /\ UNCHANGED <<hostDir, backing, generation, deleted, formatted, recycler, storageStarts>>

\* mkfs.xfs fails on a device without a file, and where it finds a file system.
MkfsXfs(p) ==
    LET f == backing[pod[p].dev]
    IN /\ pod[p].at = "mkfs"
       /\ IF f = NoFile \/ f \in formatted
            THEN StartFails(p) /\ UNCHANGED formatted
            ELSE formatted' = formatted \cup {f} /\ Step(p, "mount")
       /\ UNCHANGED <<hostDir, backing, generation, deleted, recycler, storageStarts>>

MountProjectQuota(p) ==
    LET f == backing[pod[p].dev]
    IN /\ pod[p].at = "mount"
       /\ IF f \in formatted
            THEN pod' = [pod EXCEPT ![p].at = "up", ![p].mounted = f]
            ELSE StartFails(p)
       /\ UNCHANGED <<hostDir, backing, generation, deleted, formatted, recycler, storageStarts>>

\* The tests of Allocate, PrepareXfs and MountProjQuota of a host path.
AllocateHostPath(p) == hostDir.available >= RequiredSize
PrepareXfs(p) == hostDir.xfs
MountProjQuota(p) == hostDir.xfs /\ hostDir.pquota

UseHostPath(p) ==
    /\ pod[p].at = "down" /\ StorageType[p] = "host-path" /\ storageStarts < MaxStorageStarts
    /\ storageStarts' = storageStarts + 1
    /\ IF AllocateHostPath(p) /\ PrepareXfs(p) /\ MountProjQuota(p) THEN Step(p, "up") ELSE UNCHANGED pod
    /\ UNCHANGED <<hostDir, backing, generation, deleted, formatted, recycler>>

-----------------------------------------------------------------------------
(* recycleLoopDevice, a goroutine *)

\* losetup -a by the name of the file: of the devices of a name, the last one is kept,
\* because the map is searched for another key than the one it is filled with.
GetLoopDeviceMap ==
    {d \in LoopDevices : backing[d] # NoFile /\
       \A e \in LoopDevices : backing[e] # NoFile /\ backing[e][1] = backing[d][1] => e <= d}

\* The name contains no "faas-tmp", so what is recycled are deleted files.
Recyclable(d) == backing[d] \in deleted

Recycle(p) ==
    /\ pod[p].at = "up" /\ StorageType[p] = "loop"
    /\ Step(p, "serving")
    /\ recycler' = [recycler EXCEPT ![p] = {<<d, backing[d]>> : d \in {e \in GetLoopDeviceMap : Recyclable(e)}}]
    /\ UNCHANGED <<hostDir, backing, generation, deleted, formatted, storageStarts>>

\* The device is detached by its number, whatever it holds by now.
Detach(p, d, f) ==
    /\ <<d, f>> \in recycler[p]
    /\ recycler' = [recycler EXCEPT ![p] = @ \ {<<d, f>>}]
    /\ backing' = [backing EXCEPT ![d] = IF Mounted(@) THEN @ ELSE NoFile]
    /\ pod' = [q \in Pods |-> IF pod[q].dev = d /\ pod[q].at \in {"mkfs", "mount"} /\ f # FileOf(q)
                                THEN [pod[q] EXCEPT !.raced = TRUE] ELSE pod[q]]
    /\ UNCHANGED <<hostDir, generation, deleted, formatted, storageStarts>>

-----------------------------------------------------------------------------
(* The end of a process, with its mounts, and of a pod, with its files *)

Crash(p) ==
    /\ pod[p].at # "down"
    /\ StartFails(p)
    /\ recycler' = [recycler EXCEPT ![p] = {}]
    /\ UNCHANGED <<hostDir, backing, generation, deleted, formatted, storageStarts>>

Replaced(p) ==
    /\ pod[p].at = "down" /\ generation[p] < MaxGenerations
    /\ generation' = [generation EXCEPT ![p] = @ + 1]
    /\ deleted' = deleted \cup {FileOf(p)}
    /\ UNCHANGED <<hostDir, backing, formatted, pod, recycler, storageStarts>>

StorageNext ==
    \E p \in Pods :
      \/ Allocate(p) \/ GetFree(p) \/ SetFd(p) \/ setInfoFails(p) \/ MkfsXfs(p)
      \/ MountProjectQuota(p) \/ UseHostPath(p) \/ Recycle(p) \/ Crash(p) \/ Replaced(p)
      \/ \E d \in LoopDevices, f \in Pods \X (1..MaxGenerations) : Detach(p, d, f)

-----------------------------------------------------------------------------
(* Properties *)

\* The temporary files of a pod are on the pod's own file, whatever other pods start,
\* stop and recycle. The two races that break it in the code are set apart: a SetFd
\* that lost its number, and a Detach of a number that was reused.
StorageOwn ==
    \A p \in Pods : pod[p].mounted # NoFile /\ ~pod[p].raced => pod[p].mounted = FileOf(p)

\* A funclet that has started has storage on which project quotas can be set and, on a
\* host path, room for all containers.
StorageFits ==
    \A p \in Pods : pod[p].at \in {"up", "serving"} =>
      IF StorageType[p] = "loop" THEN pod[p].raced \/ pod[p].mounted \in formatted
      ELSE hostDir.xfs /\ hostDir.pquota /\ hostDir.available >= RequiredSize
=============================================================================
