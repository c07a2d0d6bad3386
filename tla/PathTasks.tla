------------------------------ MODULE PathTasks ------------------------------
(***************************************************************************)
(* The directories of containers (funclet/file): GeneratePaths makes a     *)
(* fresh set for a container that starts, a warm-up bind-mounts shared     *)
(* directories (code, configuration, runtime) below it, OutdatePaths hands *)
(* the set to unmountTask, which hands it to removeTask. The two tasks run *)
(* beside the event handlers and never lock a container.                   *)
(*                                                                         *)
(* A set is named by container and time and stands for its number here. A  *)
(* mount shows the shared directory itself: BindMount passes MS_RDONLY     *)
(* with MS_BIND, which the kernel ignores, so removing below it removes    *)
(* what is shared. A shared directory may be empty while a download fills  *)
(* it.                                                                     *)
(***************************************************************************)
EXTENDS Integers, Sequences, FiniteSets, SequencesExt

CONSTANTS
    Owners,             \* the containers
    MaxPathNames,       \* bound on sets made
    MaxPathFaults       \* bound on failing mkdir, mount and umount calls

ASSUME PathsAssumption == MaxPathNames \in Nat /\ MaxPathFaults \in Nat

Names == 1..MaxPathNames
Shared == {"config", "code", "runtime"}
NoPaths == -1               \* no entry in containersPath
Unnamed == 0                \* an entry whose PathName is not set yet

VARIABLES
    containersPath,     \* Map of PathManager
    made,               \* names in use so far, in the order of time
    dirs,               \* dirs[p]: spec and data directory of p exist
    mounts,             \* mounts[p]: what is mounted below the data directory of p
    filled,             \* shared directories that hold something
    unloadCh, clearCh,
    remover,            \* removeTask between the check of RemoveByPathName and RemoveAll
    abandoned,              \* ghost: sets that a fault has taken from the tasks
    wiped,              \* ghost: shared directories emptied through a mount
    pathFaults

pathVars == <<containersPath, made, dirs, mounts, filled, unloadCh, clearCh, remover, abandoned, wiped, pathFaults>>

PathInit ==
    /\ containersPath = [c \in Owners |-> NoPaths]
    /\ made = 0
    /\ dirs = [p \in Names |-> {}]
    /\ mounts = [p \in Names |-> {}]
    /\ filled = {"runtime", "config"}
    /\ unloadCh = <<>> /\ clearCh = <<>>
    /\ remover = [path |-> Unnamed, empty |-> {}]
    /\ abandoned = {} /\ wiped = {}
    /\ pathFaults = 0

Fault == pathFaults < MaxPathFaults /\ pathFaults' = pathFaults + 1

-----------------------------------------------------------------------------
(* Calls of the event handlers *)

newContainerPaths(c) ==
    /\ containersPath[c] = NoPaths
    /\ containersPath' = [containersPath EXCEPT ![c] = Unnamed]
    /\ UNCHANGED <<made, dirs, mounts, filled, unloadCh, clearCh, remover, abandoned, wiped, pathFaults>>

\* The rest of GeneratePaths.
MkdirAll(c) ==
    LET p == made + 1
    IN /\ containersPath[c] = Unnamed /\ made < MaxPathNames
       /\ made' = p
       /\ dirs' = [dirs EXCEPT ![p] = {"spec", "data"}]
       /\ containersPath' = [containersPath EXCEPT ![c] = p]
       /\ UNCHANGED <<mounts, filled, unloadCh, clearCh, remover, abandoned, wiped, pathFaults>>

\* One MkdirAll fails after some. GeneratePaths calls OutdatePaths, which sends the empty
\* name: nobody learns of the directories.
MkdirFails(c) ==
    LET p == made + 1
    IN /\ containersPath[c] = Unnamed /\ made < MaxPathNames
       /\ Fault
       /\ made' = p
       /\ \E D \in SUBSET {"spec", "data"} : dirs' = [dirs EXCEPT ![p] = D]
       /\ abandoned' = abandoned \cup {p}
       /\ unloadCh' = Append(unloadCh, Unnamed)
       /\ containersPath' = [containersPath EXCEPT ![c] = NoPaths]
       /\ UNCHANGED <<mounts, filled, clearCh, remover, wiped>>

\* BindMount of a warm-up: code, config and runtime, or on a failure those before it, which
\* Unmount takes away again unless that fails too.
BindMount(c, S) ==
    LET p == containersPath[c]
    IN /\ p > 0 /\ mounts[p] = {}
       /\ S = Shared \/ S \subseteq {"code", "config"}
       /\ mounts' = [mounts EXCEPT ![p] = S]
       /\ IF S = Shared THEN UNCHANGED pathFaults ELSE Fault
       /\ UNCHANGED <<containersPath, made, dirs, filled, unloadCh, clearCh, remover, abandoned, wiped>>

OutdatePaths(c) ==
    LET p == containersPath[c]
    IN /\ p > 0
       /\ unloadCh' = Append(unloadCh, p)
       /\ containersPath' = [containersPath EXCEPT ![c] = NoPaths]
       /\ UNCHANGED <<made, dirs, mounts, filled, clearCh, remover, abandoned, wiped, pathFaults>>

\* The download of a warm-up, which outlives a warm-up that timed out.
UnzipCode ==
    /\ "code" \notin filled
    /\ filled' = filled \cup {"code"}
    /\ UNCHANGED <<containersPath, made, dirs, mounts, unloadCh, clearCh, remover, abandoned, wiped, pathFaults>>

-----------------------------------------------------------------------------
(* unmountTask *)

skipUnnamed ==
    /\ unloadCh # <<>> /\ Head(unloadCh) = Unnamed
    /\ unloadCh' = Tail(unloadCh)
    /\ UNCHANGED <<containersPath, made, dirs, mounts, filled, clearCh, remover, abandoned, wiped, pathFaults>>

\* UnmountAllByPathName unmounts what the mount table shows. A mount point that stays busy
\* for all tries is left, and the name goes on all the same.
UnmountAllByPathName(busy) ==
    /\ unloadCh # <<>> /\ Head(unloadCh) # Unnamed
    /\ LET p == Head(unloadCh)
       IN /\ busy \subseteq mounts[p]
          /\ mounts' = [mounts EXCEPT ![p] = busy]
          /\ abandoned' = IF busy = {} THEN abandoned ELSE abandoned \cup {p}
          /\ clearCh' = Append(clearCh, p)
    /\ IF busy = {} THEN UNCHANGED pathFaults ELSE Fault
    /\ unloadCh' = Tail(unloadCh)
    /\ UNCHANGED <<containersPath, made, dirs, filled, remover, wiped>>

\* The mount table cannot be read: the name is queued again.
ParseMountedFails ==
    /\ unloadCh # <<>> /\ Head(unloadCh) # Unnamed
    /\ Fault
    /\ unloadCh' = Append(Tail(unloadCh), Head(unloadCh))
    /\ UNCHANGED <<containersPath, made, dirs, mounts, filled, clearCh, remover, abandoned, wiped>>

-----------------------------------------------------------------------------
(* removeTask *)

\* Mutant: nothing is looked at before it is removed.
FoundEmptyAlways(p) == TRUE

\* RemoveByPathName: a directory with something in it is taken for a mount that is left.
FoundEmpty(p) == mounts[p] \cap filled = {}

RemoveChecks ==
    /\ clearCh # <<>> /\ remover.path = Unnamed
    /\ clearCh' = Tail(clearCh)
    /\ remover' = IF FoundEmpty(Head(clearCh))
                    THEN [path |-> Head(clearCh), empty |-> mounts[Head(clearCh)] \ filled]
                    ELSE remover
    /\ UNCHANGED <<containersPath, made, dirs, mounts, filled, unloadCh, abandoned, wiped, pathFaults>>

\* RemoveAll of the spec and of the data directory. A mount point itself cannot be removed,
\* what is below it can.
RemoveAll ==
    LET p == remover.path
    IN /\ p # Unnamed
       /\ dirs' = [dirs EXCEPT ![p] = IF mounts[p] = {} THEN {} ELSE {"data"}]
       /\ wiped' = wiped \cup ((mounts[p] \cap filled) \ remover.empty)
       /\ filled' = filled \ mounts[p]
       /\ remover' = [path |-> Unnamed, empty |-> {}]
       /\ UNCHANGED <<containersPath, made, mounts, unloadCh, clearCh, abandoned, pathFaults>>

PathNext ==
    \/ \E c \in Owners :
         \/ newContainerPaths(c) \/ MkdirAll(c) \/ MkdirFails(c) \/ OutdatePaths(c)
         \/ \E S \in SUBSET Shared : BindMount(c, S)
    \/ UnzipCode \/ skipUnnamed \/ ParseMountedFails \/ RemoveChecks \/ RemoveAll
    \/ \E busy \in SUBSET Shared : UnmountAllByPathName(busy)

-----------------------------------------------------------------------------
(* Properties *)

\* The directories of a container that has them are all there, whatever the tasks are
\* doing to the sets it had before.
CurrentIsWhole ==
    \A c \in Owners : containersPath[c] > 0 => dirs[containersPath[c]] = {"spec", "data"}

\* Every set on the disk is a container's, or on its way to removal, or lost to a mkdir or
\* umount that failed: without faults no directory is left behind.
PathsAccounted ==
    \A p \in Names :
      dirs[p] # {} => \/ \E c \in Owners : containersPath[c] = p
                      \/ p \in abandoned \/ p = remover.path
                      \/ Contains(unloadCh, p) \/ Contains(clearCh, p)

\* Removing the directories of a container does not empty what it shares with others, even
\* if it could not be unmounted. (A directory that was empty when RemoveByPathName
\* looked, because its download had not finished, is not protected.)
SharedSurvives == wiped = {}

\* The unmount and remove tasks take away what OutdatePaths gave them, all of it unless
\* a call fails, and nothing else: no current directory and nothing that is shared.
PathsSafe == CurrentIsWhole /\ PathsAccounted /\ SharedSurvives
=============================================================================
