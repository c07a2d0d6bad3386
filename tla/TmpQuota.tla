------------------------------- MODULE TmpQuota -------------------------------
(***************************************************************************)
(* Temporary storage of the containers: the quota controller              *)
(* (funclet/quota/xfs_quota.go) with its pool of project IDs, its two maps *)
(* and the file /etc/projects; the allocation of a new container's         *)
(* directory (init.go), its removal by a goroutine of the reset (reset.go) *)
(* and the recycle task (task.go). The file and the maps have a lock each; *)
(* a step is what one of them protects, or one command.                    *)
(***************************************************************************)
EXTENDS Integers, Sequences, FiniteSets, SequencesExt

CONSTANTS
    TmpContainers,
    Generations,        \* bound on the paths generated for each container
    IdPoolSize,         \* idPoolSize
    MaxRecycles,        \* bound on rounds of the recycle task
    MaxTmpFaults        \* bound on failures of files and commands

ASSUME TmpQuotaAssumption ==
    /\ TmpContainers # {} /\ Generations \in [TmpContainers -> Nat] /\ IdPoolSize \in Nat \ {0}
    /\ MaxRecycles \in Nat /\ MaxTmpFaults \in Nat

\* A path name is the container and the time it was generated at.
TmpPaths == UNION {{c} \X (0..Generations[c]) : c \in TmpContainers}
NoTmpPath == <<>>

\* Goroutines that remove project information.
Resetter(p) == <<"reset", p>>
Rollback(c) == <<"alloc", c>>
Recycler == <<"recycle">>
Removers == {Resetter(p) : p \in TmpPaths} \cup {Rollback(c) : c \in TmpContainers} \cup {Recycler}

VARIABLES
    projectsFile,   \* lines <<id, path>>
    pathIDs,        \* the map from paths to IDs (projects is its inverse)
    projIDPool,     \* the channel of free IDs
    tmpDirs,        \* directories under RunnersTmpPath
    kernel,         \* project of every directory, and the projects with a limit
    current,        \* the PathManager's entry of every container
    alloc,          \* the container's init: pc and the ID it took
    removal,        \* removeProjectInfo and EraseFile of every remover
    recycle,        \* the recycle task
    strayed,        \* a removal found no ID, or maps were replaced by older ones
    tmpFaults

quotaVars == <<projectsFile, pathIDs, projIDPool, tmpDirs, kernel, current, alloc,
               removal, recycle, strayed, tmpFaults>>

NoRemoval == [pc |-> "none", path |-> NoTmpPath, id |-> 0]
IdleRecycle == [pc |-> "idle", round |-> 0, snapshot |-> << >>, todo |-> {}, list |-> {}]
IdOf(p) == IF p \in DOMAIN pathIDs THEN pathIDs[p] ELSE 0

\* The maps that syncExistsProjects reads from the lines: a later line wins.
MapOf(lines) ==
    [p \in {lines[i][2] : i \in DOMAIN lines} |->
       lines[CHOOSE i \in DOMAIN lines :
               lines[i][2] = p /\ \A j \in DOMAIN lines : lines[j][2] = p => j <= i][1]]

\* initProjectIDsPool: the first IDs that no project has.
FreshIDs(lines) ==
    LET used == {lines[i][1] : i \in DOMAIN lines}
        free == (1..(IdPoolSize + Len(lines))) \ used
    IN  CHOOSE ids \in [1..IdPoolSize -> free] :
          /\ \A i, j \in 1..IdPoolSize : i < j => ids[i] < ids[j]
          /\ \A i \in 1..IdPoolSize, n \in free : n < ids[i] => \E j \in 1..IdPoolSize : ids[j] = n

\* InitQuotaCtrl finds a line that an earlier life of the node left in the file.
LeftOver == <<CHOOSE c \in TmpContainers : TRUE, 0>>

QuotaInit ==
    /\ projectsFile = << <<1, LeftOver>> >>
    /\ pathIDs = MapOf(projectsFile)
    /\ projIDPool = FreshIDs(projectsFile)
    /\ tmpDirs = {LeftOver}
    /\ kernel = [project |-> [p \in TmpPaths |-> 0], limited |-> {}]
    /\ current = [c \in TmpContainers |-> NoTmpPath]
    /\ alloc = [c \in TmpContainers |-> [pc |-> "down", path |-> NoTmpPath, id |-> 0, gen |-> 0]]
    /\ removal = [a \in Removers |-> NoRemoval]
    /\ recycle = IdleRecycle
    /\ strayed = FALSE
    /\ tmpFaults = 0

TmpFail == tmpFaults < MaxTmpFaults /\ tmpFaults' = tmpFaults + 1
TmpWork == UNCHANGED tmpFaults
At(c, pc) == alloc[c].pc = pc
Goto(c, pc) == alloc' = [alloc EXCEPT ![c].pc = pc]
Start(a, p) == removal' = [removal EXCEPT ![a] = [pc |-> "file", path |-> p, id |-> 0]]

-----------------------------------------------------------------------------
(* A container is reset and made again *)

\* The end of ResetContainer: the goroutine that removes the old directory is started
\* and the path outdated.
ResetTmp(c) ==
    /\ alloc[c].pc \in {"up", "down"} /\ alloc[c].gen < Generations[c]
    /\ IF current[c] = NoTmpPath THEN UNCHANGED removal
       ELSE Start(Resetter(current[c]), current[c])
    /\ current' = [current EXCEPT ![c] = NoTmpPath]
    /\ Goto(c, "paths")
    /\ UNCHANGED <<projectsFile, pathIDs, projIDPool, tmpDirs, kernel, recycle, strayed, tmpFaults>>

\* GeneratePaths makes the entry, without a name while it makes the directories, which
\* readers treat as no entry; when one cannot be made the entry is outdated.
GenerateTmpPath(c) ==
    /\ At(c, "paths")
    /\ \/ LET p == <<c, alloc[c].gen + 1>> IN
          /\ tmpDirs' = tmpDirs \cup {p}
          /\ current' = [current EXCEPT ![c] = p]
          /\ alloc' = [alloc EXCEPT ![c] = [pc |-> "id", path |-> p, id |-> 0, gen |-> @.gen + 1]]
          /\ TmpWork
       \/ /\ current' = [current EXCEPT ![c] = NoTmpPath]
          /\ Goto(c, "down")
          /\ TmpFail /\ UNCHANGED tmpDirs
    /\ UNCHANGED <<projectsFile, pathIDs, projIDPool, kernel, removal, recycle, strayed>>

\* addProjectInfo: getNextProjectID waits for an ID, ...
getNextProjectID(c) ==
    /\ At(c, "id") /\ projIDPool # << >>
    /\ projIDPool' = Tail(projIDPool)
    /\ alloc' = [alloc EXCEPT ![c].pc = "file", ![c].id = Head(projIDPool)]
    /\ UNCHANGED <<projectsFile, pathIDs, tmpDirs, kernel, current, removal, recycle, strayed,
                   tmpFaults>>

\* ... addToFile appends the line, ...
addToFile(c) ==
    /\ At(c, "file")
    /\ \/ /\ projectsFile' = Append(projectsFile, <<alloc[c].id, alloc[c].path>>)
          /\ Goto(c, "project") /\ TmpWork
       \/ TmpFail /\ Goto(c, "down") /\ UNCHANGED projectsFile
    /\ UNCHANGED <<pathIDs, projIDPool, tmpDirs, kernel, current, removal, recycle, strayed>>

\* ... xfs_quota project -s gives the directory of the line its project, ...
setProject(c) ==
    /\ At(c, "project")
    /\ \/ /\ kernel' = [kernel EXCEPT !.project[alloc[c].path] = alloc[c].id]
          /\ Goto(c, "map") /\ TmpWork
       \/ TmpFail /\ Goto(c, "down") /\ UNCHANGED kernel
    /\ UNCHANGED <<projectsFile, pathIDs, projIDPool, tmpDirs, current, removal, recycle, strayed>>

\* ... and the maps know it. A failure before leaves the line and the ID.
mapProject(c) ==
    /\ At(c, "map")
    /\ pathIDs' = [p \in DOMAIN pathIDs \cup {alloc[c].path} |->
                     IF p = alloc[c].path THEN alloc[c].id ELSE pathIDs[p]]
    /\ Goto(c, "limit")
    /\ UNCHANGED <<projectsFile, projIDPool, tmpDirs, kernel, current, removal, recycle, strayed,
                   tmpFaults>>

\* setQuota limits the project that the maps have for the path; without one, or when
\* the command fails, AllocTmpDevice removes the project information again. After it
\* the container is started, or an error leaves it down with its path.
setQuota(c) ==
    LET known == alloc[c].path \in DOMAIN pathIDs IN
    /\ At(c, "limit")
    /\ \/ /\ known
          /\ kernel' = [kernel EXCEPT !.limited = @ \cup {pathIDs[alloc[c].path]}]
          /\ Goto(c, "up") /\ TmpWork /\ UNCHANGED removal
       \/ /\ known => tmpFaults < MaxTmpFaults
          /\ tmpFaults' = tmpFaults + (IF known THEN 1 ELSE 0)
          /\ Goto(c, "rollback") /\ Start(Rollback(c), alloc[c].path) /\ UNCHANGED kernel
    /\ UNCHANGED <<projectsFile, pathIDs, projIDPool, tmpDirs, current, recycle, strayed>>

-----------------------------------------------------------------------------
(* removeProjectInfo and FreeTmpDevice *)

Removing(a, pc) == removal[a].pc = pc

\* An error ends the removal; the rollback's caller returns its own error anyway.
EndRemoval(a) ==
    /\ removal' = [removal EXCEPT ![a] = NoRemoval]
    /\ alloc' = [c \in TmpContainers |-> IF a = Rollback(c) THEN [alloc[c] EXCEPT !.pc = "down"]
                                         ELSE alloc[c]]

\* Mutant: the lines of the path's project are removed.
WithoutLinesByID(p) == SelectSeq(projectsFile, LAMBDA line : line[1] # IdOf(p))

\* The lines that the regular expression leaves: it matches the ends of lines.
WithoutLines(p) ==
    LET left[i \in 0..Len(projectsFile)] ==
          IF i = 0 THEN << >>
          ELSE IF projectsFile[i][2] = p THEN left[i - 1] ELSE Append(left[i - 1], projectsFile[i])
    IN  left[Len(projectsFile)]

removeFromFile(a) ==
    /\ Removing(a, "file")
    /\ \/ /\ projectsFile' = WithoutLines(removal[a].path)
          /\ removal' = [removal EXCEPT ![a].pc = "map"]
          /\ TmpWork /\ UNCHANGED alloc
       \/ TmpFail /\ EndRemoval(a) /\ UNCHANGED projectsFile
    /\ UNCHANGED <<pathIDs, projIDPool, tmpDirs, kernel, current, recycle, strayed>>

\* The ID is that of the map, 0 when the path is not there.
removeFromMap(a) ==
    /\ Removing(a, "map")
    /\ removal' = [removal EXCEPT ![a].pc = "push", ![a].id = IdOf(removal[a].path)]
    /\ pathIDs' = [p \in DOMAIN pathIDs \ {removal[a].path} |-> pathIDs[p]]
    /\ strayed' = (strayed \/ removal[a].path \notin DOMAIN pathIDs)
    /\ UNCHANGED <<projectsFile, projIDPool, tmpDirs, kernel, current, alloc, recycle, tmpFaults>>

\* The ID goes back to the pool, which may be full; a rollback ends here.
putProjectID(a) ==
    /\ Removing(a, "push") /\ Len(projIDPool) < IdPoolSize
    /\ projIDPool' = Append(projIDPool, removal[a].id)
    /\ IF \E c \in TmpContainers : a = Rollback(c) THEN EndRemoval(a)
       ELSE removal' = [removal EXCEPT ![a].pc = "erase"] /\ UNCHANGED alloc
    /\ UNCHANGED <<projectsFile, pathIDs, tmpDirs, kernel, current, recycle, strayed, tmpFaults>>

EraseFile(a) ==
    /\ Removing(a, "erase")
    /\ \/ tmpDirs' = tmpDirs \ {removal[a].path} /\ TmpWork
       \/ TmpFail /\ UNCHANGED tmpDirs
    /\ EndRemoval(a)
    /\ UNCHANGED <<projectsFile, pathIDs, projIDPool, kernel, current, recycle, strayed>>

-----------------------------------------------------------------------------
(* The recycle task *)

\* syncExistsProjects reads the file under its lock ...
syncRead ==
    /\ recycle.pc = "idle" /\ recycle.round < MaxRecycles
    /\ recycle' = [recycle EXCEPT !.pc = "sync", !.round = @ + 1, !.snapshot = projectsFile]
    /\ UNCHANGED <<projectsFile, pathIDs, projIDPool, tmpDirs, kernel, current, alloc, removal,
                   strayed, tmpFaults>>

\* ... and replaces the maps under theirs.
syncInstall ==
    /\ recycle.pc = "sync"
    /\ pathIDs' = MapOf(recycle.snapshot)
    /\ strayed' = (strayed \/ pathIDs' # pathIDs)
    /\ recycle' = [recycle EXCEPT !.pc = "list", !.snapshot = << >>]
    /\ UNCHANGED <<projectsFile, projIDPool, tmpDirs, kernel, current, alloc, removal, tmpFaults>>

SnapshotProjectPaths ==
    /\ recycle.pc = "list"
    /\ recycle' = [recycle EXCEPT !.pc = "decide", !.todo = DOMAIN pathIDs]
    /\ UNCHANGED <<projectsFile, pathIDs, projIDPool, tmpDirs, kernel, current, alloc, removal,
                   strayed, tmpFaults>>

\* A path is recycled when its container has another one now; a container whose paths
\* do not exist, or have no name yet, is passed over.
OutdatedPath(p) == current[p[1]] \notin {NoTmpPath, p}

\* One step for all paths: an outdated path stays outdated.
decideRecycle ==
    /\ recycle.pc = "decide"
    /\ recycle' = [recycle EXCEPT !.pc = "remove", !.todo = {},
                                  !.list = {p \in recycle.todo : OutdatedPath(p)}]
    /\ UNCHANGED <<projectsFile, pathIDs, projIDPool, tmpDirs, kernel, current, alloc, removal,
                   strayed, tmpFaults>>

recycleNext ==
    /\ recycle.pc = "remove" /\ Removing(Recycler, "none")
    /\ IF recycle.list = {} THEN recycle' = [recycle EXCEPT !.pc = "idle"] /\ UNCHANGED removal
       ELSE LET p == CHOOSE q \in recycle.list : TRUE
            IN  Start(Recycler, p) /\ recycle' = [recycle EXCEPT !.list = @ \ {p}]
    /\ UNCHANGED <<projectsFile, pathIDs, projIDPool, tmpDirs, kernel, current, alloc, strayed,
                   tmpFaults>>

QuotaNext ==
    \/ \E c \in TmpContainers :
         \/ ResetTmp(c) \/ GenerateTmpPath(c) \/ getNextProjectID(c)
         \/ addToFile(c) \/ setProject(c) \/ mapProject(c) \/ setQuota(c)
    \/ \E a \in Removers :
         removeFromFile(a) \/ removeFromMap(a) \/ putProjectID(a) \/ EraseFile(a)
    \/ syncRead \/ syncInstall \/ SnapshotProjectPaths \/ decideRecycle \/ recycleNext

-----------------------------------------------------------------------------
(* Properties *)

\* Whoever cleans up, the directory of a container that is up is there, and so is its
\* line: neither the goroutine of an earlier reset nor a recycle task that works with
\* old lists removes what the container uses.
TmpKept ==
    \A c \in TmpContainers : At(c, "up") =>
        /\ current[c] = alloc[c].path /\ current[c] \in tmpDirs
        /\ \E i \in DOMAIN projectsFile : projectsFile[i] = <<alloc[c].id, current[c]>>

\* A container that is up has a limit on the project of its directory, although the
\* recycle task may replace the maps while it is made.
TmpLimited ==
    \A c \in TmpContainers : At(c, "up") =>
        kernel.project[current[c]] = alloc[c].id /\ alloc[c].id \in kernel.limited

\* No ID is given out twice, not across a restart of the node either: until a removal
\* finds no ID for its path, or the recycle task replaces the maps by an older state.
ProjectsDistinct ==
    ~strayed =>
        /\ \A i, j \in DOMAIN projectsFile : projectsFile[i][1] = projectsFile[j][1] => i = j
        /\ \A i \in DOMAIN projIDPool :
             /\ projIDPool[i] # 0
             /\ \A j \in DOMAIN projectsFile : projIDPool[i] # projectsFile[j][1]
             /\ \A j \in DOMAIN projIDPool : projIDPool[i] = projIDPool[j] => i = j
=============================================================================
