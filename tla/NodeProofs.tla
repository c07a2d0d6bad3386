----------------------------- MODULE NodeProofs ------------------------------
(***************************************************************************)
(* Proofs about the parts of a node, for any number of containers and any  *)
(* number of faults.                                                       *)
(***************************************************************************)
EXTENDS MCNode, DataLemmas, TLAPS

-----------------------------------------------------------------------------
(* runc and the reaper *)

Stats == {"none", "running", "doomed", "paused", "stopped"}

RuncTypes ==
  /\ container \in [stat : Stats, by : Nat]
  /\ process \in {"alive", "zombie", "gone"}
  /\ child \in [at : {"none", "started", "zombie", "reaped"}, code : {"ok", "failed"},
                out : Stats]
  /\ sigchld \in BOOLEAN /\ reaping \in BOOLEAN
  /\ resetJob \in [at : Commands \cup {"idle", "thaw", "exits"}, number : Nat,
                   misled : BOOLEAN, result : {"none", "ok", "error"}]
  /\ runcFaults \in Nat

\* The reset has put an end to the container it found, or runs its own.
Ended == container.stat \in {"stopped", "none"}
Own == container.by = resetJob.number

\* Commands belong to the reset; a container that is not stopped has a process.
RuncRelated ==
  /\ child.at # "none" => resetJob.at \in Commands
  /\ container.stat \in {"running", "doomed", "paused"} => process = "alive"

\* What a reset that was not misled knows at each of its steps, although it may have lost the
\* exit status of every command.
ResetKnows ==
  /\ resetJob.at = "state" /\ child.at \in {"zombie", "reaped"} /\ child.out = "stopped" => Ended
  /\ ~resetJob.misled =>
       /\ resetJob.at \in {"delete", "force"} => Ended
       /\ resetJob.at \in {"run", "confirm"} => Ended \/ Own
       /\ resetJob.at = "confirm" /\ child.at \in {"zombie", "reaped"} /\ child.out \notin {"stopped", "none"}
            => Own
       /\ resetJob.at = "idle" /\ resetJob.result = "ok" => Own

RuncInv == RuncTypes /\ RuncRelated /\ ResetKnows /\ ZombiesSeen

LEMMA RuncContinues ==
  ASSUME RuncInv, Wait \/ WaitECHILD
  PROVE  RuncInv'
<1>1. resetJob.at \in Commands /\ child.at \in {"zombie", "reaped"} /\ child' = NoChild
      /\ UNCHANGED <<container, process, sigchld, reaping, runcFaults>>
  BY DEF RuncInv, RuncRelated, Wait, WaitECHILD
<1>2. \E ok \in BOOLEAN : Continue(ok)
  BY DEF Wait, WaitECHILD
<1>3. RuncTypes'
  <2>. DEFINE Jobs == [at : Commands \cup {"idle", "thaw", "exits"}, number : Nat,
                       misled : BOOLEAN, result : {"none", "ok", "error"}]
  <2>1. resetJob \in Jobs
    BY DEF RuncInv, RuncTypes
  <2>2. ASSUME resetJob.at = "state" PROVE resetJob' \in Jobs
    <3>1. resetJob' = [resetJob EXCEPT !.at = FirstStep(child.out),
                                       !.misled = child.out = "none" /\ container.stat # "none"]
      BY <1>2, <2>2 DEF Continue
    <3>2. FirstStep(child.out) \in Commands \cup {"idle", "thaw", "exits"}
      BY DEF FirstStep, Commands
    <3>3. (child.out = "none" /\ container.stat # "none") \in BOOLEAN
      OBVIOUS
    <3>. QED  BY <2>1, <3>1, <3>2, <3>3
  <2>3. ASSUME resetJob.at # "state" PROVE resetJob' \in Jobs
    <3>1. \E at \in Commands \cup {"idle", "exits"}, r \in {"none", "ok", "error"} :
            resetJob' = [resetJob EXCEPT !.at = at] \/ resetJob' = [resetJob EXCEPT !.at = at, !.result = r]
      BY <1>1, <1>2, <2>3 DEF Continue, Commands, GoTo, End
    <3>. QED  BY <2>1, <3>1
  <2>4. resetJob' \in Jobs
    BY <2>2, <2>3
  <2>. QED  BY <1>1, <2>4 DEF RuncInv, RuncTypes, NoChild, Stats
<1>4. RuncRelated' /\ ZombiesSeen'
  BY <1>1 DEF RuncInv, RuncRelated, ZombiesSeen, NoChild
<1>5. ResetKnows'
  <2>1. child'.at = "none"
    BY <1>1 DEF NoChild
  <2>2. CASE resetJob.at = "state"
    BY <1>1, <1>2, <2>1, <2>2, ZenonT(40)
       DEF RuncInv, RuncTypes, ResetKnows, Continue, FirstStep, Ended, Own, Stats
  <2>3. CASE resetJob.at \in {"kill", "delete", "force", "run"}
    BY <1>1, <1>2, <2>1, <2>3, ZenonT(40)
       DEF RuncInv, RuncTypes, ResetKnows, Continue, GoTo, End, Ended, Own, Stats
  <2>4. CASE resetJob.at = "confirm"
    BY <1>1, <1>2, <2>1, <2>4, ZenonT(40)
       DEF RuncInv, RuncTypes, ResetKnows, Continue, SetContainerNet, End, Ended, Own, Stats
  <2>. QED  BY <1>1, <2>2, <2>3, <2>4 DEF Commands
<1>. QED  BY <1>3, <1>4, <1>5 DEF RuncInv

LEMMA RuncExecutes ==
  ASSUME RuncInv, NEW fault \in BOOLEAN, Executes(fault)
  PROVE  RuncInv'
<1>1. resetJob.at \in Commands /\ child.at = "started" /\ sigchld' = TRUE
      /\ UNCHANGED <<reaping, resetJob>>
  BY DEF RuncInv, RuncRelated, Executes
<1>2. RuncTypes'
  BY <1>1 DEF RuncInv, RuncTypes, Executes, Effect, Stats
<1>3. ASSUME /\ container' = container /\ process' = process
             /\ child' = [at |-> "zombie", code |-> "failed", out |-> "none"]
      PROVE  RuncRelated' /\ ResetKnows'
  BY <1>1, <1>3 DEF RuncInv, RuncTypes, RuncRelated, ResetKnows, Ended, Own, Stats
<1>4. ASSUME /\ child' = [at |-> "zombie", code |-> "ok", out |-> container.stat]
             /\ ~RuncRefuses(resetJob.at) /\ Effect(resetJob.at)
      PROVE  RuncRelated' /\ ResetKnows'
  <2>1. CASE resetJob.at \in {"state", "confirm"}
    BY <1>1, <1>4, <2>1 DEF RuncInv, RuncTypes, RuncRelated, ResetKnows, Ended, Own, Stats, Effect
  <2>2. CASE resetJob.at = "kill"
    BY <1>1, <1>4, <2>2 DEF RuncInv, RuncTypes, RuncRelated, ResetKnows, Ended, Own, Stats, Effect, RuncRefuses
  <2>3. CASE resetJob.at \in {"delete", "force"}
    BY <1>1, <1>4, <2>3 DEF RuncInv, RuncTypes, RuncRelated, ResetKnows, Ended, Own, Stats, Effect, RuncRefuses
  <2>4. CASE resetJob.at = "run"
    BY <1>1, <1>4, <2>4 DEF RuncInv, RuncTypes, RuncRelated, ResetKnows, Ended, Own, Stats, Effect, RuncRefuses
  <2>. QED  BY <1>1, <2>1, <2>2, <2>3, <2>4 DEF Commands
<1>5. RuncRelated' /\ ResetKnows'
  BY <1>3, <1>4 DEF Executes
<1>. QED  BY <1>1, <1>2, <1>5 DEF RuncInv, ZombiesSeen

LEMMA RuncOthers ==
  ASSUME RuncInv,
         \/ Exits \/ Frozen \/ ResetRequested \/ StartCommand \/ ThawContainer
         \/ WaitForContainerExits \/ Signalled \/ Wait4
  PROVE  RuncInv'
<1>0. RuncTypes /\ RuncRelated /\ ResetKnows /\ ZombiesSeen
  BY DEF RuncInv
<1>1. CASE Exits
  <2>1. RuncTypes'
    BY <1>0, <1>1 DEF RuncTypes, Stats, Exits
  <2>2. RuncRelated' /\ ZombiesSeen'
    BY <1>0, <1>1 DEF RuncTypes, RuncRelated, ZombiesSeen, Stats, Exits
  <2>3. ResetKnows'
    BY <1>0, <1>1 DEF RuncTypes, RuncRelated, ResetKnows, Ended, Own, Stats, Exits
  <2>. QED  BY <2>1, <2>2, <2>3 DEF RuncInv
<1>2. CASE Frozen
  <2>1. RuncTypes'
    <3>1. sigchld' \in BOOLEAN /\ reaping' \in BOOLEAN
      BY <1>0, <1>2 DEF RuncTypes, Frozen
    <3>2. container' \in [stat : Stats, by : Nat]
      BY <1>0, <1>2 DEF RuncTypes, Stats, Frozen
    <3>. QED  BY <1>0, <1>2, <3>1, <3>2 DEF RuncTypes, Frozen
  <2>2. RuncRelated' /\ ZombiesSeen'
    BY <1>0, <1>2 DEF RuncTypes, RuncRelated, ZombiesSeen, Stats, Frozen, Commands
  <2>3. ResetKnows'
    BY <1>0, <1>2 DEF RuncTypes, RuncRelated, ResetKnows, Ended, Own, Stats, Frozen, Commands
  <2>. QED  BY <2>1, <2>2, <2>3 DEF RuncInv
<1>3. CASE ResetRequested
  <2>1. RuncTypes'
    <3>1. sigchld' \in BOOLEAN /\ reaping' \in BOOLEAN
      BY <1>0, <1>3 DEF RuncTypes, ResetRequested
    <3>2. resetJob' \in [at : Commands \cup {"idle", "thaw", "exits"}, number : Nat,
                         misled : BOOLEAN, result : {"none", "ok", "error"}]
      <4>1. resetJob' = [at |-> "state", number |-> resetJob.number + 1, misled |-> FALSE,
                         result |-> "none"]
        BY <1>3 DEF ResetRequested, IdleJob
      <4>. QED  BY <1>0, <4>1 DEF RuncTypes, Commands
    <3>. QED  BY <1>0, <1>3, <3>1, <3>2 DEF RuncTypes, ResetRequested
  <2>2. RuncRelated' /\ ZombiesSeen'
    BY <1>0, <1>3 DEF RuncTypes, RuncRelated, ZombiesSeen, Stats, ResetRequested, IdleJob, Commands
  <2>3. ResetKnows'
    BY <1>0, <1>3 DEF RuncTypes, RuncRelated, ResetKnows, Ended, Own, Stats, ResetRequested, IdleJob, Commands
  <2>. QED  BY <2>1, <2>2, <2>3 DEF RuncInv
<1>4. CASE StartCommand
  <2>1. RuncTypes'
    BY <1>0, <1>4 DEF RuncTypes, Stats, StartCommand, NoChild, Commands
  <2>2. RuncRelated' /\ ZombiesSeen'
    BY <1>0, <1>4 DEF RuncTypes, RuncRelated, ZombiesSeen, Stats, StartCommand, NoChild, Commands
  <2>3. ResetKnows'
    BY <1>0, <1>4 DEF RuncTypes, RuncRelated, ResetKnows, Ended, Own, Stats, StartCommand, NoChild, Commands
  <2>. QED  BY <2>1, <2>2, <2>3 DEF RuncInv
<1>5. CASE ThawContainer
  <2>1. RuncTypes'
    BY <1>0, <1>5, ZenonT(40) DEF RuncTypes, Stats, ThawContainer, GoTo, End, Commands
  <2>2. RuncRelated' /\ ZombiesSeen'
    BY <1>0, <1>5 DEF RuncTypes, RuncRelated, ZombiesSeen, Stats, ThawContainer, GoTo, End, Commands
  <2>3. ResetKnows'
    BY <1>0, <1>5 DEF RuncTypes, RuncRelated, ResetKnows, Ended, Own, Stats, ThawContainer, GoTo, End, Commands
  <2>. QED  BY <2>1, <2>2, <2>3 DEF RuncInv
<1>6. CASE WaitForContainerExits
  <2>1. RuncTypes'
    <3>1. sigchld' \in BOOLEAN /\ reaping' \in BOOLEAN
      BY <1>0, <1>6 DEF RuncTypes, WaitForContainerExits
    <3>. QED  BY <1>0, <1>6, <3>1 DEF RuncTypes, Stats, WaitForContainerExits, GoTo, End, Commands
  <2>2. RuncRelated' /\ ZombiesSeen'
    BY <1>0, <1>6 DEF RuncTypes, RuncRelated, ZombiesSeen, Stats, WaitForContainerExits, GoTo, End, Commands
  <2>3. ResetKnows'
    BY <1>0, <1>6 DEF RuncTypes, RuncRelated, ResetKnows, Ended, Own, Stats, WaitForContainerExits, GoTo, End, Commands
  <2>. QED  BY <2>1, <2>2, <2>3 DEF RuncInv
<1>7. CASE Signalled
  <2>1. RuncTypes'
    <3>1. sigchld' \in BOOLEAN /\ reaping' \in BOOLEAN
      BY <1>0, <1>7 DEF RuncTypes, Signalled
    <3>. QED  BY <1>0, <1>7, <3>1 DEF RuncTypes, Stats, Signalled
  <2>2. RuncRelated' /\ ZombiesSeen'
    BY <1>0, <1>7 DEF RuncTypes, RuncRelated, ZombiesSeen, Stats, Signalled
  <2>3. ResetKnows'
    BY <1>0, <1>7 DEF RuncTypes, RuncRelated, ResetKnows, Ended, Own, Stats, Signalled
  <2>. QED  BY <2>1, <2>2, <2>3 DEF RuncInv
<1>8. CASE Wait4
  <2>1. RuncTypes'
    <3>1. sigchld' \in BOOLEAN /\ reaping' \in BOOLEAN
      BY <1>0, <1>8 DEF RuncTypes, Wait4
    <3>. QED  BY <1>0, <1>8, <3>1 DEF RuncTypes, Stats, Wait4
  <2>2. RuncRelated' /\ ZombiesSeen'
    BY <1>0, <1>8 DEF RuncTypes, RuncRelated, ZombiesSeen, Stats, Wait4, Commands
  <2>3. ResetKnows'
    BY <1>0, <1>8 DEF RuncTypes, RuncRelated, ResetKnows, Ended, Own, Stats, Wait4, Commands
  <2>. QED  BY <2>1, <2>2, <2>3 DEF RuncInv
<1>. QED  BY <1>1, <1>2, <1>3, <1>4, <1>5, <1>6, <1>7, <1>8

\* A reset that reports success has started the container it leaves, and no child is
\* forgotten, in every order in which the commands, their Wait and the reaper of
\* SetupSignalHandler run and whichever exit statuses are lost.
THEOREM ResetAlways == RuncInit /\ [][RuncNext]_runcVars => []ResetSafe
<1>1. RuncInit => RuncInv
  <2>. SUFFICES ASSUME RuncInit PROVE RuncInv
    OBVIOUS
  <2>1. RuncTypes
    BY DEF RuncInit, RuncTypes, Stats, NoChild, IdleJob, Commands
  <2>2. RuncRelated /\ ZombiesSeen /\ ResetKnows
    BY DEF RuncInit, RuncRelated, ZombiesSeen, ResetKnows, NoChild, IdleJob
  <2>. QED  BY <2>1, <2>2 DEF RuncInv
<1>2. RuncInv /\ [RuncNext]_runcVars => RuncInv'
  <2>1. RuncInv /\ RuncNext => RuncInv'
    BY RuncContinues, RuncExecutes, RuncOthers DEF RuncNext
  <2>2. RuncInv /\ UNCHANGED runcVars => RuncInv'
    BY DEF RuncInv, RuncTypes, RuncRelated, ResetKnows, ZombiesSeen, Ended, Own, runcVars
  <2>. QED  BY <2>1, <2>2
<1>3. RuncInv => ResetSafe
  BY DEF RuncInv, ResetKnows, ResetSafe, FreshAfterReset, Own
<1>. QED  BY <1>1, <1>2, <1>3, PTL

-----------------------------------------------------------------------------
(* The bridge *)

BridgeTypes ==
  /\ link \in [exists : BOOLEAN, addr : BOOLEAN, up : BOOLEAN]
  /\ rules \in [nat : BOOLEAN, accept : BOOLEAN, drop : BOOLEAN]
  /\ boot \in {"off", "add", "ip", "nat", "up", "address", "icc", "done"}
  /\ starts \in Nat

\* What InitNetwork has found or made at each step, and what the first start, which found no
\* bridge, has made.
BridgeMade ==
  /\ boot \in {"ip", "nat", "up", "address", "icc", "done"} => link.exists
  /\ boot \in {"nat", "up", "icc", "done"} => link.addr
  /\ starts = 0 => ~link.exists /\ boot = "off"
  /\ starts = 1 /\ boot \in {"up", "address", "icc", "done"} => rules.nat
  /\ starts = 1 /\ boot \in {"address", "icc", "done"} => link.up
  /\ ContainersIsolated

BridgeInv == BridgeTypes /\ BridgeMade

LEMMA BridgeInductive ==
  /\ BridgeInit => BridgeInv
  /\ BridgeInv /\ [BridgeNext]_bridgeVars => BridgeInv'
<1>1. BridgeInit => BridgeInv
  BY DEF BridgeInit, BridgeInv, BridgeTypes, BridgeMade, ContainersIsolated
<1>2. ASSUME BridgeInv, BridgeNext PROVE BridgeInv'
  <2>0. BridgeTypes /\ BridgeMade
    BY <1>2 DEF BridgeInv
  <2>1. CASE CreateBridgeLooks
    BY <2>0, <2>1 DEF BridgeInv, BridgeTypes, BridgeMade, ContainersIsolated, CreateBridgeLooks, BootTo
  <2>2. CASE LinkAdd
    BY <2>0, <2>2 DEF BridgeInv, BridgeTypes, BridgeMade, ContainersIsolated, LinkAdd, BootTo
  <2>3. CASE AddrAdd
    BY <2>0, <2>3 DEF BridgeInv, BridgeTypes, BridgeMade, ContainersIsolated, AddrAdd, BootTo
  <2>4. CASE SetupNATOut
    BY <2>0, <2>4 DEF BridgeInv, BridgeTypes, BridgeMade, ContainersIsolated, SetupNATOut, BootTo
  <2>5. CASE LinkSetUp
    BY <2>0, <2>5 DEF BridgeInv, BridgeTypes, BridgeMade, ContainersIsolated, LinkSetUp, BootTo
  <2>6. CASE getInterfaceAddr
    BY <2>0, <2>6 DEF BridgeInv, BridgeTypes, BridgeMade, ContainersIsolated, getInterfaceAddr, BootTo
  <2>7. CASE disableIcc
    BY <2>0, <2>7 DEF BridgeInv, BridgeTypes, BridgeMade, ContainersIsolated, disableIcc, BootTo
  <2>8. CASE BootFails
    BY <2>0, <2>8 DEF BridgeInv, BridgeTypes, BridgeMade, ContainersIsolated, BootFails
  <2>9. CASE AcceptInserted
    BY <2>0, <2>9 DEF BridgeInv, BridgeTypes, BridgeMade, ContainersIsolated, AcceptInserted
  <2>. QED  BY <1>2, <2>1, <2>2, <2>3, <2>4, <2>5, <2>6, <2>7, <2>8, <2>9 DEF BridgeNext
<1>3. BridgeInv /\ UNCHANGED bridgeVars => BridgeInv'
  BY DEF BridgeInv, BridgeTypes, BridgeMade, ContainersIsolated, bridgeVars
<1>. QED  BY <1>1, <1>2, <1>3

-----------------------------------------------------------------------------
(* The directories of containers *)

PathTypes ==
  /\ containersPath \in [Owners -> {NoPaths, Unnamed} \cup Names]
  /\ made \in 0..MaxPathNames
  /\ dirs \in [Names -> SUBSET {"spec", "data"}]
  /\ mounts \in [Names -> SUBSET Shared]
  /\ unloadCh \in Seq(Names \cup {Unnamed}) /\ clearCh \in Seq(Names)
  /\ remover \in [path : Names \cup {Unnamed}, empty : SUBSET Shared]

Held(p) == \E c \in Owners : containersPath[c] = p
Queued(p) == Contains(unloadCh, p)
Cleared(p) == Contains(clearCh, p)
AtRemover(p) == remover.path = p

\* A set of directories is in one place: a container's, in one of the queues, at the remover.
OnePlace(p) ==
  /\ \A c, d \in Owners : containersPath[c] = p /\ containersPath[d] = p => c = d
  /\ Once(unloadCh, p) /\ Once(clearCh, p)
  /\ Held(p) => ~Queued(p) /\ ~Cleared(p) /\ ~AtRemover(p)
  /\ Queued(p) => ~Cleared(p) /\ ~AtRemover(p)
  /\ Cleared(p) => ~AtRemover(p)
  /\ p > made => ~Held(p) /\ ~Queued(p) /\ ~Cleared(p) /\ ~AtRemover(p)

\* What is on the disk has a place or was given up, and what the remover has looked at has
\* not been mounted or unmounted since.
DiskAccounted(p) ==
  /\ dirs[p] # {} => Held(p) \/ Queued(p) \/ Cleared(p) \/ AtRemover(p) \/ p \in abandoned
  /\ Held(p) => dirs[p] = {"spec", "data"}
  /\ (Cleared(p) \/ AtRemover(p)) /\ mounts[p] # {} => p \in abandoned
  /\ AtRemover(p) => mounts[p] = remover.empty

PathInv ==
  /\ PathTypes /\ wiped = {}
  /\ \A p \in Names : OnePlace(p) /\ DiskAccounted(p)

LEMMA PathNumbers == Names \subseteq Nat \ {0} /\ Unnamed \notin Names /\ NoPaths \notin Names /\ Unnamed # NoPaths
  BY PathsAssumption DEF Names, Unnamed, NoPaths

\* A step that leaves a set of directories where and as it is.
LEMMA PathUntouched ==
  ASSUME NEW p \in Names, OnePlace(p), DiskAccounted(p), PathTypes,
         made' >= made, made' \in Int, dirs'[p] = dirs[p], mounts'[p] = mounts[p],
         abandoned \subseteq abandoned',
         \A c \in Owners : (containersPath'[c] = p) <=> (containersPath[c] = p),
         Once(unloadCh, p) => Once(unloadCh', p), Queued(p)' <=> Queued(p),
         Once(clearCh, p) => Once(clearCh', p), Cleared(p)' <=> Cleared(p),
         AtRemover(p)' <=> AtRemover(p), AtRemover(p) => remover' = remover
  PROVE  OnePlace(p)' /\ DiskAccounted(p)'
<1>1. Held(p)' <=> Held(p)
  BY DEF Held
<1>2. OnePlace(p)'
  <2>1. p > made' => p > made
    BY PathNumbers DEF PathTypes
  <2>. QED  BY <1>1, <2>1 DEF OnePlace
<1>3. DiskAccounted(p)'
  BY <1>1 DEF DiskAccounted, AtRemover
<1>. QED  BY <1>2, <1>3

LEMMA PathOwner ==
  ASSUME PathInv, NEW c \in Owners,
         newContainerPaths(c) \/ MkdirAll(c) \/ MkdirFails(c) \/ OutdatePaths(c)
  PROVE  PathInv'
<1>0. PathTypes /\ wiped = {} /\ \A p \in Names : OnePlace(p) /\ DiskAccounted(p)
  BY DEF PathInv
<1>1. CASE newContainerPaths(c)
  <2>1. PathTypes' /\ wiped' = {}
    BY <1>0, <1>1 DEF PathTypes, newContainerPaths
  <2>2. ASSUME NEW p \in Names PROVE OnePlace(p)' /\ DiskAccounted(p)'
    <3>1. \A d \in Owners : (containersPath'[d] = p) <=> (containersPath[d] = p)
      BY <1>0, <1>1, PathNumbers DEF PathTypes, newContainerPaths
    <3>. QED  BY <1>0, <1>1, <3>1, PathUntouched, SMTT(30)
             DEF newContainerPaths, Queued, Cleared, AtRemover, PathTypes
  <2>. QED  BY <2>1, <2>2 DEF PathInv
<1>2. CASE MkdirAll(c)
  <2>0. made + 1 \in Names /\ made + 1 > made /\ made \in Nat
    BY <1>0, <1>2, PathsAssumption DEF PathTypes, MkdirAll, Names
  <2>1. PathTypes' /\ wiped' = {}
    BY <1>0, <1>2, <2>0 DEF PathTypes, MkdirAll, Names
  <2>2. ASSUME NEW p \in Names PROVE OnePlace(p)' /\ DiskAccounted(p)'
    <3>1. CASE p # made + 1
      <4>1. \A d \in Owners : (containersPath'[d] = p) <=> (containersPath[d] = p)
        BY <1>0, <1>2, <3>1, PathNumbers DEF PathTypes, MkdirAll
      <4>2. dirs'[p] = dirs[p]
        BY <1>0, <1>2, <3>1 DEF PathTypes, MkdirAll
      <4>3. made' = made + 1
        BY <1>2 DEF MkdirAll
      <4>. QED  BY <1>0, <1>2, <2>0, <4>1, <4>2, <4>3, PathUntouched DEF MkdirAll, Queued, Cleared, AtRemover
    <3>2. CASE p = made + 1
      <4>1. ~Held(p) /\ ~Queued(p) /\ ~Cleared(p) /\ ~AtRemover(p)
            /\ Once(unloadCh, p) /\ Once(clearCh, p)
        BY <1>0, <2>0, <3>2 DEF OnePlace
      <4>2. made' = p /\ dirs'[p] = {"spec", "data"} /\ UNCHANGED <<unloadCh, clearCh, remover>>
        BY <1>0, <1>2, <3>2 DEF PathTypes, MkdirAll
      <4>3. \A d \in Owners : containersPath'[d] = p <=> d = c
        BY <1>0, <1>2, <3>2, <4>1 DEF PathTypes, MkdirAll, Held
      <4>4. Held(p)' /\ ~Queued(p)' /\ ~Cleared(p)' /\ ~AtRemover(p)'
        BY <4>1, <4>2, <4>3 DEF Held, Queued, Cleared, AtRemover
      <4>5. ~(p > made')
        BY <2>0, <3>2, <4>2
      <4>. QED  BY <4>1, <4>2, <4>3, <4>4, <4>5 DEF OnePlace, DiskAccounted
    <3>. QED  BY <3>1, <3>2
  <2>. QED  BY <2>1, <2>2 DEF PathInv
<1>3. CASE MkdirFails(c)
  <2>0. made + 1 \in Names /\ made + 1 > made /\ made \in Nat
    BY <1>0, <1>3, PathsAssumption DEF PathTypes, MkdirFails, Names
  <2>1. PathTypes' /\ wiped' = {}
    BY <1>0, <1>3, <2>0 DEF PathTypes, MkdirFails, Names
  <2>2. ASSUME NEW p \in Names PROVE OnePlace(p)' /\ DiskAccounted(p)'
    <3>0. /\ \A d \in Owners : (containersPath'[d] = p) <=> (containersPath[d] = p)
          /\ Once(unloadCh, p) => Once(unloadCh', p)
          /\ Queued(p)' <=> Queued(p)
      <4>1. \A d \in Owners : (containersPath'[d] = p) <=> (containersPath[d] = p)
        BY <1>0, <1>3, PathNumbers DEF PathTypes, MkdirFails
      <4>2. unloadCh' = Append(unloadCh, Unnamed) /\ unloadCh \in Seq(Names \cup {Unnamed})
            /\ p # Unnamed /\ Unnamed \in Names \cup {Unnamed}
        BY <1>0, <1>3, PathNumbers DEF PathTypes, MkdirFails
      <4>. QED  BY <4>1, <4>2, AppendFacts DEF Queued
    <3>1. CASE p # made + 1
      <4>1. dirs'[p] = dirs[p]
        BY <1>0, <1>3, <3>1 DEF PathTypes, MkdirFails
      <4>2. made' = made + 1
        BY <1>3 DEF MkdirFails
      <4>. QED  BY <1>0, <1>3, <2>0, <3>0, <4>1, <4>2, PathUntouched DEF MkdirFails, Cleared, AtRemover
    <3>2. CASE p = made + 1
      <4>1. ~Held(p) /\ ~Queued(p) /\ ~Cleared(p) /\ ~AtRemover(p)
            /\ Once(unloadCh, p) /\ Once(clearCh, p)
        BY <1>0, <2>0, <3>2 DEF OnePlace
      <4>2. made' = p /\ p \in abandoned' /\ UNCHANGED <<clearCh, remover>>
        BY <1>3, <3>2 DEF MkdirFails
      <4>3. ~Held(p)' /\ ~Queued(p)' /\ ~Cleared(p)' /\ ~AtRemover(p)'
        BY <3>0, <4>1, <4>2 DEF Held, Cleared, AtRemover
      <4>. QED  BY <3>0, <4>1, <4>2, <4>3 DEF OnePlace, DiskAccounted, Held
    <3>. QED  BY <3>1, <3>2
  <2>. QED  BY <2>1, <2>2 DEF PathInv
<1>4. CASE OutdatePaths(c)
  <2>0. /\ containersPath[c] \in Names
        /\ unloadCh' = Append(unloadCh, containersPath[c])
        /\ unloadCh \in Seq(Names \cup {Unnamed})
        /\ containersPath' = [containersPath EXCEPT ![c] = NoPaths]
        /\ UNCHANGED <<made, dirs, mounts, clearCh, remover, abandoned, wiped>>
    BY <1>0, <1>4 DEF PathTypes, OutdatePaths, NoPaths, Unnamed
  <2>1. PathTypes' /\ wiped' = {}
    <3>1. unloadCh' \in Seq(Names \cup {Unnamed})
      BY <2>0, AppendFacts
    <3>. QED  BY <1>0, <2>0, <3>1 DEF PathTypes
  <2>2. ASSUME NEW p \in Names PROVE OnePlace(p)' /\ DiskAccounted(p)'
    <3>0. /\ Queued(p)' <=> Queued(p) \/ p = containersPath[c]
          /\ Once(unloadCh, p) /\ (p = containersPath[c] => ~Queued(p)) => Once(unloadCh', p)
      BY <2>0, AppendFacts DEF Queued
    <3>1. CASE p # containersPath[c]
      <4>1. \A d \in Owners : (containersPath'[d] = p) <=> (containersPath[d] = p)
        BY <1>0, <2>0, <3>1, PathNumbers DEF PathTypes
      <4>2. (Queued(p)' <=> Queued(p)) /\ (Once(unloadCh, p) => Once(unloadCh', p))
        BY <3>0, <3>1
      <4>3. made' = made /\ made \in Int
        BY <1>0, <2>0 DEF PathTypes
      <4>. QED  BY <1>0, <2>0, <4>1, <4>2, <4>3, PathUntouched DEF Cleared, AtRemover
    <3>2. CASE p = containersPath[c]
      <4>1. Held(p) /\ ~Queued(p) /\ ~Cleared(p) /\ ~AtRemover(p) /\ ~(p > made) /\ Once(unloadCh, p) /\ Once(clearCh, p)
        BY <1>0, <3>2 DEF OnePlace, Held
      <4>2. \A d \in Owners : containersPath'[d] # p
        BY <1>0, <2>0, <3>2, PathNumbers DEF PathTypes, OnePlace
      <4>3. ~Held(p)' /\ Queued(p)' /\ ~Cleared(p)' /\ ~AtRemover(p)' /\ ~(p > made)'
        BY <2>0, <3>0, <3>2, <4>1, <4>2 DEF Held, Cleared, AtRemover
      <4>4. Once(unloadCh', p) /\ Once(clearCh', p)
        BY <2>0, <3>0, <4>1
      <4>. QED  BY <4>2, <4>3, <4>4 DEF OnePlace, DiskAccounted
    <3>. QED  BY <3>1, <3>2
  <2>. QED  BY <2>1, <2>2 DEF PathInv
<1>. QED  BY <1>1, <1>2, <1>3, <1>4

LEMMA PathMounts ==
  ASSUME PathInv, NEW c \in Owners, NEW S \in SUBSET Shared, BindMount(c, S)
  PROVE  PathInv'
<1>0. PathTypes /\ wiped = {} /\ \A p \in Names : OnePlace(p) /\ DiskAccounted(p)
  BY DEF PathInv
<1>1. /\ containersPath[c] \in Names
      /\ mounts' = [mounts EXCEPT ![containersPath[c]] = S]
      /\ UNCHANGED <<containersPath, made, dirs, unloadCh, clearCh, remover, abandoned, wiped>>
  BY <1>0 DEF PathTypes, BindMount, NoPaths, Unnamed
<1>2. PathTypes' /\ wiped' = {}
  BY <1>0, <1>1 DEF PathTypes
<1>3. ASSUME NEW p \in Names PROVE OnePlace(p)' /\ DiskAccounted(p)'
  <2>1. CASE p # containersPath[c]
    <3>1. mounts'[p] = mounts[p]
      BY <1>0, <1>1, <2>1 DEF PathTypes
    <3>. QED  BY <1>0, <1>1, <3>1, PathUntouched DEF PathTypes, Queued, Cleared, AtRemover
  <2>2. CASE p = containersPath[c]
    <3>1. Held(p) /\ ~Queued(p) /\ ~Cleared(p) /\ ~AtRemover(p)
      BY <1>0, <2>2 DEF OnePlace, Held
    <3>2. Held(p)' = Held(p) /\ Queued(p)' = Queued(p) /\ Cleared(p)' = Cleared(p) /\ AtRemover(p)' = AtRemover(p)
      BY <1>1 DEF Held, Queued, Cleared, AtRemover
    <3>. QED  BY <1>0, <1>1, <3>1, <3>2 DEF OnePlace, DiskAccounted
  <2>. QED  BY <2>1, <2>2
<1>. QED  BY <1>2, <1>3 DEF PathInv

LEMMA PathTasksStep ==
  ASSUME PathInv,
         \/ skipUnnamed \/ ParseMountedFails \/ RemoveChecks \/ RemoveAll
         \/ \E busy \in SUBSET Shared : UnmountAllByPathName(busy)
  PROVE  PathInv'
<1>0. PathTypes /\ wiped = {} /\ \A p \in Names : OnePlace(p) /\ DiskAccounted(p)
  BY DEF PathInv
<1>1. CASE skipUnnamed
  <2>0. /\ unloadCh \in Seq(Names \cup {Unnamed}) /\ unloadCh # << >> /\ Head(unloadCh) = Unnamed
        /\ unloadCh' = Tail(unloadCh)
        /\ UNCHANGED <<containersPath, made, dirs, mounts, clearCh, remover, abandoned, wiped>>
    BY <1>0, <1>1 DEF PathTypes, skipUnnamed
  <2>1. PathTypes' /\ wiped' = {}
    <3>1. unloadCh' \in Seq(Names \cup {Unnamed})
      BY <2>0, TailFacts
    <3>. QED  BY <1>0, <2>0, <3>1 DEF PathTypes
  <2>2. ASSUME NEW p \in Names PROVE OnePlace(p)' /\ DiskAccounted(p)'
    <3>1. (Queued(p)' <=> Queued(p)) /\ (Once(unloadCh, p) => Once(unloadCh', p))
      BY <2>0, TailFacts, PathNumbers DEF Queued
    <3>2. made' = made /\ made \in Int
      BY <1>0, <2>0 DEF PathTypes
    <3>. QED  BY <1>0, <2>0, <3>1, <3>2, PathUntouched DEF Cleared, AtRemover
  <2>. QED  BY <2>1, <2>2 DEF PathInv
<1>2. CASE ParseMountedFails
  <2>. DEFINE h == Head(unloadCh)
              t == Tail(unloadCh)
  <2>0. /\ unloadCh \in Seq(Names \cup {Unnamed}) /\ unloadCh # << >> /\ h # Unnamed
        /\ unloadCh' = Append(t, h)
        /\ UNCHANGED <<containersPath, made, dirs, mounts, clearCh, remover, abandoned, wiped>>
    BY <1>0, <1>2 DEF PathTypes, ParseMountedFails
  <2>1. h \in Names \cup {Unnamed} /\ t \in Seq(Names \cup {Unnamed})
    BY <2>0, TailFacts
  <2>. HIDE DEF h, t
  <2>2. PathTypes' /\ wiped' = {}
    <3>1. unloadCh' \in Seq(Names \cup {Unnamed})
      BY <2>0, <2>1, AppendFacts
    <3>. QED  BY <1>0, <2>0, <3>1 DEF PathTypes
  <2>3. ASSUME NEW p \in Names PROVE OnePlace(p)' /\ DiskAccounted(p)'
    <3>1. /\ Contains(unloadCh, p) <=> Contains(t, p) \/ p = h
          /\ Once(unloadCh, p) => Once(t, p)
          /\ Once(unloadCh, p) /\ p = h => ~Contains(t, p)
      BY <2>0, TailFacts DEF h, t
    <3>2. /\ Contains(Append(t, h), p) <=> Contains(t, p) \/ p = h
          /\ Once(t, p) /\ (p = h => ~Contains(t, p)) => Once(Append(t, h), p)
      BY <2>1, AppendFacts
    <3>3. (Queued(p)' <=> Queued(p)) /\ (Once(unloadCh, p) => Once(unloadCh', p))
      BY <2>0, <3>1, <3>2 DEF Queued
    <3>4. made' = made /\ made \in Int
      BY <1>0, <2>0 DEF PathTypes
    <3>. QED  BY <1>0, <2>0, <3>3, <3>4, PathUntouched DEF Cleared, AtRemover
  <2>. QED  BY <2>2, <2>3 DEF PathInv
<1>3. CASE RemoveChecks
  <2>. DEFINE h == Head(clearCh)
  <2>0. /\ clearCh \in Seq(Names) /\ clearCh # << >> /\ remover.path = Unnamed
        /\ clearCh' = Tail(clearCh)
        /\ remover' = IF FoundEmpty(h) THEN [path |-> h, empty |-> mounts[h] \ filled] ELSE remover
        /\ UNCHANGED <<containersPath, made, dirs, mounts, unloadCh, abandoned, wiped>>
    BY <1>0, <1>3 DEF PathTypes, RemoveChecks
  <2>1. h \in Names /\ mounts[h] \subseteq Shared /\ clearCh' \in Seq(Names)
    BY <1>0, <2>0, TailFacts DEF PathTypes
  <2>2. FoundEmpty(h) => mounts[h] \ filled = mounts[h]
    BY DEF FoundEmpty
  <2>3. PathTypes' /\ wiped' = {}
    BY <1>0, <2>0, <2>1 DEF PathTypes
  <2>4. ASSUME NEW p \in Names PROVE OnePlace(p)' /\ DiskAccounted(p)'
    <3>1. /\ Cleared(p) <=> Contains(clearCh', p) \/ p = h
          /\ Once(clearCh, p) => Once(clearCh', p)
          /\ Once(clearCh, p) /\ p = h => ~Contains(clearCh', p)
      BY <2>0, TailFacts DEF Cleared
    <3>2. made' = made /\ made \in Int
      BY <1>0, <2>0 DEF PathTypes
    <3>3. ~AtRemover(p) /\ (AtRemover(p)' => p = h)
      BY <2>0, PathNumbers DEF AtRemover
    <3>4. CASE p # h
      BY <1>0, <2>0, <3>1, <3>2, <3>3, <3>4, PathUntouched DEF Queued, Cleared
    <3>5. CASE p = h
      <4>1. Cleared(p) /\ ~Held(p) /\ ~Queued(p) /\ ~(p > made) /\ Once(clearCh, p)
            /\ Once(unloadCh, p)
        BY <1>0, <3>1, <3>5 DEF OnePlace
      <4>2. ~Held(p)' /\ ~Queued(p)' /\ ~Cleared(p)' /\ ~(p > made)' /\ Once(clearCh', p)
            /\ Once(unloadCh', p)
        BY <2>0, <3>1, <3>5, <4>1 DEF Held, Queued, Cleared
      <4>3. OnePlace(p)'
        BY <4>2 DEF OnePlace, Held
      <4>4. mounts[p] # {} => p \in abandoned
        BY <1>0, <4>1 DEF DiskAccounted
      <4>5. CASE FoundEmpty(h)
        <5>1. mounts'[p] = remover'.empty
          BY <2>0, <2>2, <3>5, <4>5
        <5>2. AtRemover(p)'
          BY <2>0, <3>5, <4>5 DEF AtRemover
        <5>. QED  BY <2>0, <4>2, <4>3, <4>4, <5>1, <5>2 DEF DiskAccounted
      <4>6. CASE ~FoundEmpty(h)
        <5>1. p \in abandoned /\ ~AtRemover(p)'
          BY <2>0, <3>3, <3>5, <4>4, <4>6 DEF FoundEmpty, AtRemover
        <5>. QED  BY <2>0, <4>2, <4>3, <5>1 DEF DiskAccounted
      <4>. QED  BY <4>3, <4>5, <4>6
    <3>. QED  BY <3>4, <3>5
  <2>. QED  BY <2>3, <2>4 DEF PathInv
<1>4. CASE RemoveAll
  <2>. DEFINE r == remover.path
  <2>0. /\ r \in Names /\ AtRemover(r) /\ OnePlace(r) /\ DiskAccounted(r)
        /\ dirs' = [dirs EXCEPT ![r] = IF mounts[r] = {} THEN {} ELSE {"data"}]
        /\ wiped' = wiped \cup ((mounts[r] \cap filled) \ remover.empty)
        /\ remover' = [path |-> Unnamed, empty |-> {}]
        /\ UNCHANGED <<containersPath, made, mounts, unloadCh, clearCh, abandoned>>
    BY <1>0, <1>4 DEF PathTypes, RemoveAll, AtRemover
  <2>1. wiped' = {}
    BY <1>0, <2>0 DEF DiskAccounted
  <2>2. PathTypes'
    BY <1>0, <2>0 DEF PathTypes
  <2>3. ASSUME NEW p \in Names PROVE OnePlace(p)' /\ DiskAccounted(p)'
    <3>1. ~AtRemover(p)'
      BY <2>0, PathNumbers DEF AtRemover
    <3>2. made' = made /\ made \in Int
      BY <1>0, <2>0 DEF PathTypes
    <3>3. CASE p # r
      <4>1. dirs'[p] = dirs[p] /\ ~AtRemover(p)
        BY <1>0, <2>0, <3>3 DEF PathTypes, AtRemover
      <4>. QED  BY <1>0, <2>0, <3>1, <3>2, <4>1, PathUntouched DEF Queued, Cleared
    <3>4. CASE p = r
      <4>1. ~Held(p) /\ ~Queued(p) /\ ~Cleared(p) /\ (mounts[p] # {} => p \in abandoned)
            /\ ~(p > made) /\ Once(clearCh, p) /\ Once(unloadCh, p)
        BY <2>0, <3>4 DEF OnePlace, DiskAccounted
      <4>2. ~Held(p)' /\ ~Queued(p)' /\ ~Cleared(p)' /\ ~(p > made)'
            /\ Once(clearCh', p) /\ Once(unloadCh', p)
        BY <2>0, <4>1 DEF Held, Queued, Cleared
      <4>3. dirs'[p] # {} => p \in abandoned'
        BY <1>0, <2>0, <3>4, <4>1 DEF PathTypes
      <4>. QED  BY <3>1, <4>2, <4>3 DEF OnePlace, DiskAccounted, Held
    <3>. QED  BY <3>3, <3>4
  <2>. QED  BY <2>1, <2>2, <2>3 DEF PathInv
<1>5. ASSUME NEW busy \in SUBSET Shared, UnmountAllByPathName(busy) PROVE PathInv'
  <2>. DEFINE h == Head(unloadCh)
  <2>0. /\ unloadCh \in Seq(Names \cup {Unnamed}) /\ unloadCh # << >> /\ h # Unnamed
        /\ clearCh \in Seq(Names)
        /\ unloadCh' = Tail(unloadCh) /\ clearCh' = Append(clearCh, h)
        /\ mounts' = [mounts EXCEPT ![h] = busy]
        /\ abandoned' = IF busy = {} THEN abandoned ELSE abandoned \cup {h}
        /\ UNCHANGED <<containersPath, made, dirs, remover, wiped>>
    BY <1>0, <1>5 DEF PathTypes, UnmountAllByPathName
  <2>1. h \in Names /\ unloadCh' \in Seq(Names \cup {Unnamed}) /\ clearCh' \in Seq(Names)
    <3>1. h \in Names /\ unloadCh' \in Seq(Names \cup {Unnamed})
      BY <2>0, TailFacts
    <3>. QED  BY <2>0, <3>1, AppendFacts
  <2>2. PathTypes' /\ wiped' = {}
    BY <1>0, <2>0, <2>1 DEF PathTypes
  <2>3. ASSUME NEW p \in Names PROVE OnePlace(p)' /\ DiskAccounted(p)'
    <3>1. /\ Queued(p) <=> Contains(unloadCh', p) \/ p = h
          /\ Once(unloadCh, p) => Once(unloadCh', p)
          /\ Once(unloadCh, p) /\ p = h => ~Contains(unloadCh', p)
      BY <2>0, TailFacts DEF Queued
    <3>2. /\ Contains(clearCh', p) <=> Cleared(p) \/ p = h
          /\ Once(clearCh, p) /\ (p = h => ~Cleared(p)) => Once(clearCh', p)
      BY <2>0, <2>1, AppendFacts DEF Cleared
    <3>3. made' = made /\ made \in Int
      BY <1>0, <2>0 DEF PathTypes
    <3>4. CASE p # h
      <4>1. mounts'[p] = mounts[p] /\ abandoned \subseteq abandoned'
        BY <1>0, <2>0, <3>4 DEF PathTypes
      <4>2. /\ (Queued(p)' <=> Queued(p)) /\ (Once(unloadCh, p) => Once(unloadCh', p))
            /\ (Cleared(p)' <=> Cleared(p)) /\ (Once(clearCh, p) => Once(clearCh', p))
        BY <3>1, <3>2, <3>4 DEF Queued, Cleared
      <4>. QED  BY <1>0, <2>0, <3>3, <4>1, <4>2, PathUntouched DEF AtRemover
    <3>5. CASE p = h
      <4>1. Queued(p) /\ ~Held(p) /\ ~Cleared(p) /\ ~AtRemover(p) /\ ~(p > made)
            /\ Once(clearCh, p) /\ Once(unloadCh, p)
        BY <1>0, <3>1, <3>5 DEF OnePlace
      <4>2. ~Held(p)' /\ ~Queued(p)' /\ Cleared(p)' /\ ~AtRemover(p)' /\ ~(p > made)'
            /\ Once(clearCh', p) /\ Once(unloadCh', p)
        BY <2>0, <3>1, <3>2, <3>5, <4>1 DEF Held, Queued, Cleared, AtRemover
      <4>3. mounts'[p] # {} => p \in abandoned'
        BY <1>0, <2>0, <3>5 DEF PathTypes
      <4>. QED  BY <4>2, <4>3 DEF OnePlace, DiskAccounted, Held
    <3>. QED  BY <3>4, <3>5
  <2>. QED  BY <2>2, <2>3 DEF PathInv
<1>. QED  BY <1>1, <1>2, <1>3, <1>4, <1>5

LEMMA PathStutters ==
  ASSUME PathInv, UnzipCode \/ UNCHANGED pathVars
  PROVE  PathInv'
  BY DEF PathInv, PathTypes, OnePlace, DiskAccounted, Held, Queued, Cleared, AtRemover, UnzipCode, pathVars

\* The tasks remove what they were given, all of it unless a call fails, and nothing else:
\* the directories of a running container stay whole, and nothing that is shared is emptied
\* through a mount that could not be taken away. For any number of containers, sets of
\* directories and faults.
THEOREM PathsAlways == PathInit /\ [][PathNext]_pathVars => []PathsSafe
<1>1. PathInit => PathInv
  <2>. SUFFICES ASSUME PathInit PROVE PathInv
    OBVIOUS
  <2>1. PathTypes /\ wiped = {}
    BY PathsAssumption DEF PathInit, PathTypes, Names
  <2>2. ASSUME NEW p \in Names PROVE ~Held(p) /\ ~Queued(p) /\ ~Cleared(p) /\ ~AtRemover(p) /\ dirs[p] = {}
                                    /\ Once(unloadCh, p) /\ Once(clearCh, p)
    BY PathNumbers DEF PathInit, Held, Queued, Cleared, AtRemover, Contains, Once
  <2>. QED  BY <2>1, <2>2 DEF PathInv, OnePlace, DiskAccounted, Held
<1>2. PathInv /\ [PathNext]_pathVars => PathInv'
  BY PathOwner, PathMounts, PathTasksStep, PathStutters DEF PathNext
<1>3. PathInv => PathsSafe
  <2>. SUFFICES ASSUME PathInv PROVE PathsSafe
    OBVIOUS
  <2>1. CurrentIsWhole
    BY DEF PathInv, PathTypes, DiskAccounted, Held, CurrentIsWhole, NoPaths, Unnamed
  <2>2. PathsAccounted
    BY DEF PathInv, DiskAccounted, Held, Queued, Cleared, AtRemover, PathsAccounted
  <2>. QED  BY <2>1, <2>2 DEF PathInv, PathsSafe, SharedSurvives
<1>. QED  BY <1>1, <1>2, <1>3, PTL

-----------------------------------------------------------------------------
(* The addresses of containers *)

Addresses == 1..(Hosts + 1)

\* The addresses that allocateIP looks at, in their order.
Round(f) == f = [i \in Addresses |-> IF i = 1 THEN IncreaseIP(lastIP) ELSE IncreaseIP(f[i - 1])]

LEMMA RoundExists ==
  ASSUME lastIP \in Addresses
  PROVE  \E f : Round(f)
<1>. DEFINE f == [i \in Addresses |-> IF lastIP + i <= Hosts + 1 THEN lastIP + i ELSE lastIP + i - (Hosts + 1)]
<1>1. Hosts \in Nat /\ lastIP \in Nat /\ lastIP >= 1 /\ lastIP <= Hosts + 1
  BY NetworkAssumption DEF Addresses
<1>2. ASSUME NEW i \in Addresses
      PROVE  f[i] = IF i = 1 THEN IncreaseIP(lastIP) ELSE IncreaseIP(f[i - 1])
  <2>1. i \in Nat /\ i >= 1 /\ i <= Hosts + 1
    BY <1>1 DEF Addresses
  <2>2. CASE i = 1
    BY <1>1, <2>1, <2>2 DEF IncreaseIP, Broadcast
  <2>3. CASE i # 1
    <3>1. i - 1 \in Addresses /\ f[i - 1] = IF lastIP + i <= Hosts + 2 THEN lastIP + i - 1 ELSE lastIP + i - (Hosts + 2)
      BY <1>1, <2>1, <2>3 DEF Addresses
    <3>2. f[i] = IF lastIP + i <= Hosts + 1 THEN lastIP + i ELSE lastIP + i - (Hosts + 1)
      OBVIOUS
    <3>. QED  BY <1>1, <2>1, <2>3, <3>1, <3>2 DEF IncreaseIP, Broadcast
  <2>. QED  BY <2>2, <2>3
<1>3. f = [i \in Addresses |-> IF i = 1 THEN IncreaseIP(lastIP) ELSE IncreaseIP(f[i - 1])]
  BY <1>2
<1>. QED  BY <1>3 DEF Round

LEMMA RoundStays ==
  ASSUME lastIP \in Addresses, NEW f, Round(f)
  PROVE  f[1] = IncreaseIP(lastIP) /\ \A i \in Addresses : f[i] \in Addresses
<1>0. Hosts \in Nat
  BY NetworkAssumption
<1>1. f[1] = IncreaseIP(lastIP)
  BY <1>0 DEF Round, Addresses
<1>. DEFINE T == {i \in Addresses : f[i] \notin Addresses}
<1>2. ASSUME T # {} PROVE FALSE
  <2>1. T \subseteq Nat
    BY <1>0 DEF Addresses
  <2>2. PICK i \in T : \A j \in T : i <= j
    BY <1>2, <2>1, LeastElement
  <2>3. ASSUME NEW ip \in Addresses PROVE IncreaseIP(ip) \in Addresses
    BY <1>0 DEF IncreaseIP, Broadcast, Addresses
  <2>4. i = 1 => f[i] \in Addresses
    BY <1>1, <2>3
  <2>5. i # 1 => i - 1 \in Addresses /\ ~(i <= i - 1)
    BY <1>0 DEF Addresses
  <2>6. i # 1 => f[i - 1] \in Addresses
    BY <2>2, <2>5
  <2>7. i # 1 => f[i] = IncreaseIP(f[i - 1])
    BY DEF Round
  <2>. QED  BY <2>3, <2>4, <2>6, <2>7
<1>. QED  BY <1>1, <1>2

\* allocateIP gives out unicast addresses, and the next one if it is free.
LEMMA AllocateFacts ==
  ASSUME lastIP \in Addresses
  PROVE  /\ allocateIP # 0 => allocateIP \in Addresses /\ isUnicastIP(allocateIP)
         /\ lastIP < Hosts /\ (lastIP + 1) \notin Answering => allocateIP = lastIP + 1
<1>. DEFINE s == CHOOSE f : Round(f)
            free == {i \in Addresses : isUnicastIP(s[i]) /\ s[i] \notin Answering}
            first == CHOOSE i \in free : \A j \in free : i <= j
<1>0. Hosts \in Nat
  BY NetworkAssumption
<1>1. Round(s)
  BY RoundExists
<1>2. allocateIP = IF free = {} THEN 0 ELSE s[first]
  BY DEF allocateIP, Round, Addresses
<1>. HIDE DEF s
<1>3. s[1] = IncreaseIP(lastIP) /\ \A i \in Addresses : s[i] \in Addresses
  BY <1>1, RoundStays
<1>4. free # {} => first \in free
  <2>1. free \subseteq Nat
    BY <1>0 DEF Addresses
  <2>. QED  BY <2>1, LeastElement
<1>5. ASSUME lastIP < Hosts, (lastIP + 1) \notin Answering PROVE allocateIP = lastIP + 1
  <2>1. s[1] = lastIP + 1
    BY <1>0, <1>3, <1>5 DEF IncreaseIP, Broadcast, Addresses
  <2>2. 1 \in free
    BY <1>0, <1>5, <2>1 DEF Addresses, isUnicastIP, Broadcast, BridgeIP
  <2>3. \A j \in free : 1 <= j
    BY <1>0 DEF Addresses
  <2>4. first = 1
    BY <1>0, <2>2, <2>3 DEF Addresses
  <2>. QED  BY <1>2, <2>1, <2>2, <2>4
<1>. QED  BY <1>2, <1>3, <1>4, <1>5

Boxes == [pc : {"none", "veth", "init", "bind", "idle", "unset"}, pid : Nat, alive : BOOLEAN,
          veth : Nat, bound : BOOLEAN, file : Nat]

NetTypes ==
  /\ veths \in Seq([IP : Addresses, ContainerPID : Nat])
  /\ veth \in Seq(Nat) /\ vethPool \in Seq(Nat)
  /\ lastIP \in Addresses
  /\ box \in [NetContainers -> Boxes]
  /\ nextPid \in Nat \ {0} /\ netFaults \in Nat

\* Until the addresses have been given out once, they were given out in order.
AddressesInOrder ==
  /\ \A v \in 1..Len(veths) : isUnicastIP(veths[v].IP)
  /\ Len(veths) < Hosts => lastIP = Len(veths) + 1 /\ \A v \in 1..Len(veths) : veths[v].IP = v + 1

\* What a container knows of its process and its Veth.
BoxGood(c) ==
  LET b == box[c] IN
  /\ b.pc = "none" => b = NewBox
  /\ b.pc # "none" => b.file = b.pid /\ b.pid \in 1..(nextPid - 1)
  /\ b.pc = "veth" => b.veth = 0
  /\ b.pc \in {"init", "bind"} \/ b.bound => b.veth # 0
  /\ b.veth # 0 => /\ b.veth \in 1..Len(veths) /\ ~Contains(vethPool, b.veth)
                   /\ veths[b.veth].ContainerPID \in {0, b.pid}
  /\ b.pc = "init" => veths[b.veth].ContainerPID = 0 /\ Contains(veth, b.veth)
  /\ b.pc = "bind" => veths[b.veth].ContainerPID = b.pid
  /\ b.pc \in {"veth", "init"} => \A v \in 1..Len(veths) : veths[v].ContainerPID # b.pid

\* No two containers have a process or a Veth in common.
BoxesApart ==
  \A c, d \in NetContainers : c # d =>
    /\ box[c].pc # "none" => box[c].pid # box[d].pid
    /\ box[c].veth # 0 => box[c].veth # box[d].veth

\* A Veth is in one list at most, and one that has a process is in the list of those in use.
VethGood(v) ==
  /\ veths[v].ContainerPID < nextPid
  /\ Once(veth, v) /\ Once(vethPool, v)
  /\ Contains(veth, v) => ~Contains(vethPool, v)
  /\ veths[v].ContainerPID # 0 => Contains(veth, v)

NetInv ==
  /\ NetTypes /\ AddressesInOrder /\ BoxesApart
  /\ \A c \in NetContainers : BoxGood(c)
  /\ \A v \in 1..Len(veths) : VethGood(v)
  /\ \A x \in Nat : Contains(veth, x) \/ Contains(vethPool, x) => x \in 1..Len(veths)
  /\ \A v, w \in 1..Len(veths) :
       veths[v].ContainerPID = veths[w].ContainerPID /\ veths[v].ContainerPID # 0 => v = w

LEMMA NetFacts ==
  ASSUME NetInv
  PROVE  /\ Len(veths) \in Nat
         /\ \A v \in 1..Len(veths) : veths[v].IP \in Addresses /\ veths[v].ContainerPID \in Nat
         /\ \A c \in NetContainers : BoxGood(c) /\ box[c] \in Boxes
<1>. DEFINE V == [IP : Addresses, ContainerPID : Nat]
<1>1. veths \in Seq(V)
  BY DEF NetInv, NetTypes
<1>2. Len(veths) \in Nat /\ \A v \in 1..Len(veths) : veths[v] \in V
  <2>. HIDE DEF V
  <2>. QED  BY <1>1
<1>3. \A c \in NetContainers : BoxGood(c) /\ box[c] \in Boxes
  BY DEF NetInv, NetTypes
<1>. QED  BY <1>2, <1>3

\* A container goes on with the process and the Veth it has.
LEMMA BoxMoves ==
  ASSUME NetInv, NEW c \in NetContainers, NEW b \in Boxes, box' = [box EXCEPT ![c] = b],
         b.pid = box[c].pid, b.file = box[c].file, b.veth = box[c].veth, box[c].pc # "none",
         b.pc \in {"idle", "unset", box[c].pc}, b.bound => b.veth # 0,
         UNCHANGED <<veths, veth, vethPool, lastIP, nextPid>>, netFaults' \in Nat
  PROVE  /\ NetInv'
         /\ LostVeths' \subseteq LostVeths \cup {v \in {box[c].veth} : box[c].pc = "init" /\ b.pc # "init"}
<1>1. box'[c] = b /\ \A d \in NetContainers \ {c} : box'[d] = box[d]
  BY DEF NetInv, NetTypes
<1>2. NetTypes'
  BY DEF NetInv, NetTypes
<1>3. AddressesInOrder' /\ BoxesApart'
  BY <1>1 DEF NetInv, AddressesInOrder, BoxesApart
<1>4. ASSUME NEW d \in NetContainers PROVE BoxGood(d)'
  <2>1. CASE d = c
    <3>1. BoxGood(c) /\ b.pc # "none"
      BY DEF NetInv
    <3>. QED  BY <1>1, <2>1, <3>1 DEF BoxGood
  <2>2. CASE d # c
    BY <1>1, <2>2 DEF NetInv, BoxGood
  <2>. QED  BY <2>1, <2>2
<1>5. \A v \in 1..Len(veths) : VethGood(v)'
  BY DEF NetInv, VethGood
<1>6. LostVeths' \subseteq LostVeths \cup {v \in {box[c].veth} : box[c].pc = "init" /\ b.pc # "init"}
  <2>. SUFFICES ASSUME NEW v \in LostVeths', v \notin LostVeths 
                PROVE  v = box[c].veth /\ box[c].pc = "init" /\ b.pc # "init"
    OBVIOUS
  <2>1. /\ v \in DOMAIN veths /\ \A k \in DOMAIN vethPool : vethPool[k] # v
        /\ \A d \in NetContainers : box'[d].file # 0 => box'[d].file # veths[v].ContainerPID
    BY DEF LostVeths
  <2>2. \A d \in NetContainers : box[d].file # 0 => box[d].file # veths[v].ContainerPID
    BY <1>1, <2>1
  <2>3. PICK d \in NetContainers : box[d].pc \in {"init", "bind"} /\ box[d].veth = v
    BY <2>1, <2>2 DEF LostVeths
  <2>4. d = c
    BY <1>1, <2>3 DEF LostVeths
  <2>5. box[c].pc # "bind"
    BY <2>2, <2>3, <2>4 DEF NetInv, BoxGood
  <2>6. b.pc # "init"
    BY <1>1, <2>3, <2>4 DEF LostVeths
  <2>. QED  BY <2>3, <2>4, <2>5, <2>6
<1>. QED  BY <1>2, <1>3, <1>4, <1>5, <1>6 DEF NetInv

LEMMA LostCount ==
  ASSUME NetInv, NetInv', LostByFaultsOnly,
         \/ LostVeths' \subseteq LostVeths /\ netFaults' >= netFaults
         \/ netFaults' = netFaults + 1 /\ \E x : LostVeths' \subseteq LostVeths \cup {x}
  PROVE  LostByFaultsOnly'
<1>1. IsFiniteSet(LostVeths)
  <2>1. LostVeths \subseteq 1..Len(veths) /\ Len(veths) \in Nat
    BY DEF LostVeths, NetInv, NetTypes
  <2>2. IsFiniteSet(1..Len(veths))
    BY <2>1, FS_Interval
  <2>. QED  BY <2>1, <2>2, FS_Subset
<1>2. Cardinality(LostVeths) \in Nat /\ netFaults \in Nat /\ netFaults' \in Nat
  BY <1>1, FS_CardinalityType DEF NetInv, NetTypes
<1>3. CASE LostVeths' \subseteq LostVeths /\ netFaults' >= netFaults
  <2>1. Cardinality(LostVeths') <= Cardinality(LostVeths)
    BY <1>1, <1>3, FS_Subset
  <2>2. Cardinality(LostVeths') \in Nat
    BY <1>1, <1>3, FS_Subset, FS_CardinalityType
  <2>. QED  BY <1>2, <1>3, <2>1, <2>2 DEF LostByFaultsOnly
<1>4. ASSUME netFaults' = netFaults + 1, NEW x, LostVeths' \subseteq LostVeths \cup {x}
      PROVE  LostByFaultsOnly'
  <2>1. IsFiniteSet(LostVeths \cup {x}) /\ Cardinality(LostVeths \cup {x}) <= Cardinality(LostVeths) + 1
    BY <1>1, <1>2, FS_AddElement
  <2>2. Cardinality(LostVeths') <= Cardinality(LostVeths \cup {x})
    BY <1>4, <2>1, FS_Subset
  <2>3. Cardinality(LostVeths') \in Nat /\ Cardinality(LostVeths \cup {x}) \in Nat
    BY <1>4, <2>1, FS_Subset, FS_CardinalityType
  <2>. QED  BY <1>2, <1>4, <2>1, <2>2, <2>3 DEF LostByFaultsOnly
<1>. QED  BY <1>3, <1>4

LEMMA BoxMovesSafely ==
  ASSUME NetInv, LostByFaultsOnly, NEW c \in NetContainers, NEW b \in Boxes, box' = [box EXCEPT ![c] = b],
         b.pid = box[c].pid, b.file = box[c].file, b.veth = box[c].veth, box[c].pc # "none",
         b.pc \in {"idle", "unset", box[c].pc}, b.bound => b.veth # 0,
         UNCHANGED <<veths, veth, vethPool, lastIP, nextPid>>,
         netFaults' = netFaults + 1 \/ (netFaults' = netFaults /\ (box[c].pc = "init" => b.pc = "init"))
  PROVE  NetInv' /\ LostByFaultsOnly'
<1>1. netFaults \in Nat /\ netFaults' \in Nat /\ netFaults' >= netFaults
  BY DEF NetInv, NetTypes
<1>2. NetInv' /\ LostVeths' \subseteq LostVeths \cup {v \in {box[c].veth} : box[c].pc = "init" /\ b.pc # "init"}
  BY <1>1, BoxMoves
<1>3. CASE netFaults' = netFaults + 1
  <2>1. LostVeths' \subseteq LostVeths \cup {box[c].veth}
    BY <1>2
  <2>. QED  BY <1>2, <1>3, <2>1, LostCount
<1>4. CASE box[c].pc = "init" => b.pc = "init"
  <2>1. LostVeths' \subseteq LostVeths
    BY <1>2, <1>4
  <2>. QED  BY <1>1, <1>2, <2>1, LostCount
<1>. QED  BY <1>3, <1>4

\* The steps that give a container no Veth, no address and no process.
LEMMA BoxSteps ==
  ASSUME NetInv, LostByFaultsOnly, NEW c \in NetContainers,
         getNewVethFails(c) \/ BindContainer(c) \/ StopBox(c) \/ ExitBox(c)
  PROVE  NetInv' /\ LostByFaultsOnly'
<1>0. BoxGood(c) /\ box[c] \in Boxes
  BY NetFacts
<1>1. UNCHANGED <<veths, veth, vethPool, lastIP, nextPid>>
  BY DEF getNewVethFails, BindContainer, StopBox, ExitBox
<1>2. box[c].bound => box[c].veth # 0
  BY <1>0 DEF BoxGood
<1>3. CASE getNewVethFails(c)
  <2>. DEFINE b == [box[c] EXCEPT !.pc = "idle"]
  <2>1. box' = [box EXCEPT ![c] = b] /\ box[c].pc = "veth"
    BY <1>3 DEF getNewVethFails, BoxAt
  <2>2. netFaults' = netFaults + 1 \/ netFaults' = netFaults
    BY <1>3 DEF getNewVethFails, NetFail
  <2>3. b \in Boxes /\ b.pid = box[c].pid /\ b.file = box[c].file /\ b.veth = box[c].veth
        /\ b.pc = "idle" /\ (b.bound <=> box[c].bound)
    BY <1>0 DEF Boxes
  <2>. HIDE DEF b
  <2>. QED  BY <1>1, <1>2, <2>1, <2>2, <2>3, BoxMovesSafely
<1>4. CASE BindContainer(c)
  <2>. DEFINE b == [box[c] EXCEPT !.pc = "idle"]
              bb == [box[c] EXCEPT !.pc = "idle", !.bound = TRUE]
  <2>1. (box' = [box EXCEPT ![c] = b] \/ box' = [box EXCEPT ![c] = bb]) /\ box[c].pc = "bind"
    BY <1>4 DEF BindContainer, BoxAt
  <2>2. netFaults' = netFaults + 1 \/ netFaults' = netFaults
    BY <1>4 DEF BindContainer, NetFail
  <2>3. b \in Boxes /\ b.pid = box[c].pid /\ b.file = box[c].file /\ b.veth = box[c].veth
        /\ b.pc = "idle" /\ (b.bound <=> box[c].bound)
    BY <1>0 DEF Boxes
  <2>4. bb \in Boxes /\ bb.pid = box[c].pid /\ bb.file = box[c].file /\ bb.veth = box[c].veth
        /\ bb.pc = "idle" /\ bb.veth # 0
    BY <1>0, <2>1 DEF Boxes, BoxGood
  <2>. HIDE DEF b, bb
  <2>. QED  BY <1>1, <1>2, <2>1, <2>2, <2>3, <2>4, BoxMovesSafely
<1>5. CASE StopBox(c)
  <2>. DEFINE b == [box[c] EXCEPT !.pc = "unset", !.alive = FALSE]
  <2>1. box' = [box EXCEPT ![c] = b] /\ box[c].pc = "idle" /\ netFaults' = netFaults
    BY <1>5 DEF StopBox, BoxAt
  <2>2. b \in Boxes /\ b.pid = box[c].pid /\ b.file = box[c].file /\ b.veth = box[c].veth
        /\ b.pc = "unset" /\ (b.bound <=> box[c].bound)
    BY <1>0 DEF Boxes
  <2>. HIDE DEF b
  <2>. QED  BY <1>1, <1>2, <2>1, <2>2, BoxMovesSafely
<1>6. CASE ExitBox(c)
  <2>. DEFINE b == [box[c] EXCEPT !.alive = FALSE]
  <2>1. box' = [box EXCEPT ![c] = b] /\ box[c].pc # "none" /\ netFaults' = netFaults
    BY <1>0, <1>6 DEF ExitBox, BoxGood, NewBox
  <2>2. b \in Boxes /\ b.pid = box[c].pid /\ b.file = box[c].file /\ b.veth = box[c].veth
        /\ b.pc = box[c].pc /\ (b.bound <=> box[c].bound)
    BY <1>0 DEF Boxes
  <2>. HIDE DEF b
  <2>. QED  BY <1>1, <1>2, <2>1, <2>2, BoxMovesSafely
<1>. QED  BY <1>3, <1>4, <1>5, <1>6

LEMMA StartBoxStep ==
  ASSUME NetInv, LostByFaultsOnly, NEW c \in NetContainers, StartBox(c)
  PROVE  NetInv' /\ LostByFaultsOnly'
<1>. DEFINE b == [pc |-> "veth", pid |-> nextPid, alive |-> TRUE, veth |-> 0, bound |-> FALSE, file |-> nextPid]
<1>0. /\ box[c].pc = "none" /\ box' = [box EXCEPT ![c] = b] /\ nextPid' = nextPid + 1
      /\ UNCHANGED <<veths, veth, vethPool, lastIP, netFaults>>
  BY DEF StartBox, BoxAt
<1>1. /\ Len(veths) \in Nat /\ nextPid \in Nat \ {0} /\ netFaults \in Nat
      /\ \A v \in 1..Len(veths) : veths[v].ContainerPID \in Nat
      /\ \A d \in NetContainers : BoxGood(d) /\ box[d] \in Boxes
  BY NetFacts DEF NetInv, NetTypes
<1>2. box'[c] = b /\ \A d \in NetContainers \ {c} : box'[d] = box[d]
  BY <1>0 DEF NetInv, NetTypes
<1>3. b \in Boxes
  BY <1>1 DEF Boxes
<1>4. NetTypes'
  BY <1>0, <1>1, <1>3 DEF NetInv, NetTypes
<1>5. \A d \in NetContainers : box[d].pid < nextPid
  BY <1>1 DEF BoxGood, NewBox, Boxes
<1>6. AddressesInOrder'
  BY <1>0 DEF NetInv, AddressesInOrder
<1>7. BoxesApart'
  <2>. SUFFICES ASSUME NEW d \in NetContainers, NEW e \in NetContainers, d # e
                PROVE  /\ box'[d].pc # "none" => box'[d].pid # box'[e].pid
                       /\ box'[d].veth # 0 => box'[d].veth # box'[e].veth
    BY DEF BoxesApart
  <2>1. box'[c].pid = nextPid /\ box'[c].veth = 0
    BY <1>2
  <2>2. box[d].pid # nextPid /\ box[e].pid # nextPid
    BY <1>1, <1>5
  <2>3. BoxesApart
    BY DEF NetInv
  <2>. QED  BY <1>2, <2>1, <2>2, <2>3 DEF BoxesApart
<1>8. ASSUME NEW d \in NetContainers PROVE BoxGood(d)'
  <2>1. CASE d = c
    <3>1. \A v \in 1..Len(veths) : veths[v].ContainerPID # nextPid
      BY <1>1 DEF NetInv, VethGood
    <3>. QED  BY <1>0, <1>1, <1>2, <2>1, <3>1 DEF BoxGood
  <2>2. CASE d # c
    <3>1. box[d].pid \in 1..(nextPid - 1) => box[d].pid \in 1..(nextPid' - 1)
      BY <1>0, <1>1
    <3>. QED  BY <1>0, <1>1, <1>2, <2>2, <3>1 DEF BoxGood
  <2>. QED  BY <2>1, <2>2
<1>9. \A v \in 1..Len(veths) : VethGood(v)'
  BY <1>0, <1>1 DEF NetInv, VethGood
<1>10. NetInv'
  BY <1>0, <1>4, <1>6, <1>7, <1>8, <1>9 DEF NetInv
<1>11. LostVeths' \subseteq LostVeths
  <2>1. box[c] = NewBox
    BY <1>0, <1>1 DEF BoxGood
  <2>. QED  BY <1>0, <1>2, <2>1 DEF LostVeths, NewBox
<1>. QED  BY <1>0, <1>1, <1>10, <1>11, LostCount

\* A Veth of the pool gets a container.
LEMMA takePooledVethStep ==
  ASSUME NetInv, LostByFaultsOnly, NEW c \in NetContainers, takePooledVeth(c)
  PROVE  NetInv' /\ LostByFaultsOnly'
<1>. DEFINE h == Head(vethPool)
            b == [box[c] EXCEPT !.pc = "init", !.veth = h]
<1>0. /\ box[c].pc = "veth" /\ vethPool # << >> /\ box' = [box EXCEPT ![c] = b]
      /\ veth' = Append(veth, h) /\ vethPool' = Tail(vethPool)
      /\ UNCHANGED <<veths, lastIP, nextPid, netFaults>>
  BY DEF takePooledVeth, BoxAt
<1>1. /\ Len(veths) \in Nat /\ nextPid \in Nat \ {0} /\ netFaults \in Nat
      /\ \A v \in 1..Len(veths) : veths[v].ContainerPID \in Nat
      /\ \A d \in NetContainers : BoxGood(d) /\ box[d] \in Boxes
      /\ veth \in Seq(Nat) /\ vethPool \in Seq(Nat)
  BY NetFacts DEF NetInv, NetTypes
<1>2. h \in Nat /\ vethPool' \in Seq(Nat) /\ veth' \in Seq(Nat)
  <2>1. h \in Nat /\ vethPool' \in Seq(Nat)
    BY <1>0, <1>1, TailFacts
  <2>. QED  BY <1>0, <1>1, <2>1, AppendFacts
<1>3. ASSUME NEW x
      PROVE  /\ Contains(vethPool, x) <=> Contains(vethPool', x) \/ x = h
             /\ Once(vethPool, x) => Once(vethPool', x)
             /\ Once(vethPool, x) /\ x = h => ~Contains(vethPool', x)
  BY <1>0, <1>1, TailFacts
<1>. HIDE DEF h
<1>4. ASSUME NEW x
      PROVE  /\ Contains(veth', x) <=> Contains(veth, x) \/ x = h
             /\ Once(veth, x) /\ (x = h => ~Contains(veth, x)) => Once(veth', x)
  BY <1>0, <1>1, <1>2, AppendFacts
<1>5. h \in 1..Len(veths) /\ Contains(vethPool, h) /\ VethGood(h)
  BY <1>2, <1>3 DEF NetInv
<1>6. veths[h].ContainerPID = 0 /\ ~Contains(veth, h) /\ ~Contains(vethPool', h)
  BY <1>3, <1>5 DEF VethGood
<1>7. b \in Boxes /\ b.pc = "init" /\ b.veth = h /\ b.pid = box[c].pid /\ b.file = box[c].file
  BY <1>1, <1>2 DEF Boxes
<1>. HIDE DEF b
<1>8. box'[c] = b /\ \A d \in NetContainers \ {c} : box'[d] = box[d]
  BY <1>0 DEF NetInv, NetTypes
<1>9. NetTypes' /\ AddressesInOrder'
  BY <1>0, <1>1, <1>2, <1>7 DEF NetInv, NetTypes, AddressesInOrder
<1>10. \A d \in NetContainers : box[d].veth # h
  BY <1>1, <1>5 DEF BoxGood
<1>11. BoxesApart'
  BY <1>0, <1>7, <1>8, <1>10 DEF NetInv, BoxesApart
<1>12. ASSUME NEW d \in NetContainers PROVE BoxGood(d)'
  <2>1. CASE d = c
    <3>1. BoxGood(c)
      BY <1>1
    <3>2. /\ box[c].file = box[c].pid /\ box[c].pid \in 1..(nextPid - 1)
          /\ \A v \in 1..Len(veths) : veths[v].ContainerPID # box[c].pid
      BY <1>0, <3>1 DEF BoxGood
    <3>3. Contains(veth', h) /\ h # 0
      BY <1>1, <1>4, <1>5
    <3>. QED  BY <1>0, <1>5, <1>6, <1>7, <1>8, <2>1, <3>2, <3>3 DEF BoxGood
  <2>2. CASE d # c
    <3>1. Contains(vethPool', box[d].veth) => Contains(vethPool, box[d].veth)
      BY <1>3
    <3>2. Contains(veth, box[d].veth) => Contains(veth', box[d].veth)
      BY <1>4
    <3>. QED  BY <1>0, <1>1, <1>8, <2>2, <3>1, <3>2 DEF BoxGood
  <2>. QED  BY <2>1, <2>2
<1>13. ASSUME NEW v \in 1..Len(veths) PROVE VethGood(v)'
  <2>1. VethGood(v)
    BY DEF NetInv
  <2>. QED  BY <1>0, <1>3, <1>4, <1>6, <2>1 DEF VethGood
<1>14. NetInv'
  <2>1. \A x \in Nat : Contains(veth', x) \/ Contains(vethPool', x) => x \in 1..Len(veths)
    BY <1>3, <1>4, <1>5 DEF NetInv
  <2>. QED  BY <1>0, <1>9, <1>11, <1>12, <1>13, <2>1 DEF NetInv
<1>15. LostVeths' \subseteq LostVeths
  <2>. SUFFICES ASSUME NEW v \in LostVeths' PROVE v \in LostVeths
    OBVIOUS
  <2>1. v \in DOMAIN veths /\ v # h
    BY <1>0, <1>7, <1>8 DEF LostVeths
  <2>2. ~Contains(vethPool', v)
    BY <1>2 DEF LostVeths, Contains
  <2>3. \A k \in DOMAIN vethPool : vethPool[k] # v
    <3>1. ~Contains(vethPool, v)
      BY <1>3, <2>1, <2>2
    <3>. QED  BY <1>1, <3>1 DEF Contains
  <2>4. \A d \in NetContainers : /\ box[d].pc \in {"init", "bind"} => box[d].veth # v
                                 /\ box[d].file # 0 => box[d].file # veths[v].ContainerPID
    BY <1>0, <1>7, <1>8 DEF LostVeths
  <2>. QED  BY <2>1, <2>3, <2>4 DEF LostVeths
<1>. QED  BY <1>0, <1>1, <1>14, <1>15, LostCount

\* A container gets a new address.
LEMMA getNewVethStep ==
  ASSUME NetInv, LostByFaultsOnly, NEW c \in NetContainers, getNewVeth(c)
  PROVE  NetInv' /\ LostByFaultsOnly'
<1>. DEFINE n == Len(veths) + 1
            a == allocateIP
            b == [box[c] EXCEPT !.pc = "init", !.veth = n]
            V == [IP : Addresses, ContainerPID : Nat]
<1>0. /\ box[c].pc = "veth" /\ a # 0 /\ box' = [box EXCEPT ![c] = b]
      /\ veths' = Append(veths, [IP |-> a, ContainerPID |-> 0])
      /\ veth' = Append(veth, n) /\ lastIP' = a
      /\ UNCHANGED <<vethPool, nextPid, netFaults>>
  BY DEF getNewVeth, BoxAt
<1>1. /\ Len(veths) \in Nat /\ nextPid \in Nat \ {0} /\ netFaults \in Nat /\ lastIP \in Addresses
      /\ \A v \in 1..Len(veths) : veths[v].ContainerPID \in Nat
      /\ \A d \in NetContainers : BoxGood(d) /\ box[d] \in Boxes
      /\ veth \in Seq(Nat) /\ vethPool \in Seq(Nat) /\ veths \in Seq(V)
  BY NetFacts DEF NetInv, NetTypes
<1>2. a \in Addresses /\ isUnicastIP(a)
      /\ (lastIP < Hosts /\ (lastIP + 1) \notin Answering => a = lastIP + 1)
  BY <1>0, <1>1, AllocateFacts
<1>. HIDE DEF a
<1>3. [IP |-> a, ContainerPID |-> 0] \in V
  BY <1>2
<1>4. /\ veths' \in Seq(V) /\ Len(veths') = n
      /\ \A v \in 1..Len(veths) : veths'[v] = veths[v]
      /\ veths'[n] = [IP |-> a, ContainerPID |-> 0]
  <2>. HIDE DEF V
  <2>. QED  BY <1>0, <1>1, <1>3
<1>5. n = Len(veths) + 1 /\ n \in Nat /\ n # 0 /\ n \notin 1..Len(veths) /\ 1..n = (1..Len(veths)) \cup {n}
  BY <1>1
<1>. HIDE DEF n
<1>6. ASSUME NEW x
      PROVE  /\ Contains(veth', x) <=> Contains(veth, x) \/ x = n
             /\ Once(veth, x) /\ (x = n => ~Contains(veth, x)) => Once(veth', x)
  <2>1. veth \in Seq(Nat) /\ n \in Nat /\ veth' = Append(veth, n)
    BY <1>0, <1>1, <1>5
  <2>. QED  BY <2>1, AppendFacts
<1>7. veth' \in Seq(Nat) /\ ~Contains(veth, n) /\ ~Contains(vethPool, n)
  BY <1>0, <1>1, <1>5, AppendFacts DEF NetInv
<1>8. b \in Boxes /\ b.pc = "init" /\ b.veth = n /\ b.pid = box[c].pid /\ b.file = box[c].file
  BY <1>1, <1>5 DEF Boxes
<1>. HIDE DEF b
<1>9. box'[c] = b /\ \A d \in NetContainers \ {c} : box'[d] = box[d]
  BY <1>0 DEF NetInv, NetTypes
<1>10. NetTypes'
  BY <1>0, <1>1, <1>2, <1>4, <1>7, <1>8 DEF NetInv, NetTypes
<1>11. AddressesInOrder'
  <2>0. AddressesInOrder /\ Hosts \in Nat
    BY NetworkAssumption DEF NetInv
  <2>1. \A v \in 1..Len(veths') : isUnicastIP(veths'[v].IP)
    BY <1>2, <1>4, <1>5, <2>0 DEF AddressesInOrder
  <2>2. ASSUME Len(veths') < Hosts
        PROVE  lastIP' = Len(veths') + 1 /\ \A v \in 1..Len(veths') : veths'[v].IP = v + 1
    <3>1. lastIP = n /\ n < Hosts /\ \A v \in 1..Len(veths) : veths[v].IP = v + 1
      BY <1>1, <1>4, <1>5, <2>0, <2>2 DEF AddressesInOrder
    <3>2. (lastIP + 1) \notin Answering
      <4>. SUFFICES ASSUME NEW d \in NetContainers, box[d].bound, veths[box[d].veth].IP = lastIP + 1
                    PROVE  FALSE
        BY DEF Answering
      <4>1. box[d].veth \in 1..Len(veths)
        BY <1>1 DEF BoxGood
      <4>2. veths[box[d].veth].IP = box[d].veth + 1
        BY <3>1, <4>1
      <4>. QED  BY <1>1, <1>5, <3>1, <4>1, <4>2
    <3>3. a = n + 1
      BY <1>2, <3>1, <3>2
    <3>. QED  BY <1>0, <1>4, <1>5, <3>1, <3>3
  <2>. QED  BY <2>1, <2>2 DEF AddressesInOrder
<1>12. \A d \in NetContainers : box[d].veth # n
  BY <1>1, <1>5 DEF BoxGood
<1>13. BoxesApart'
  BY <1>0, <1>8, <1>9, <1>12 DEF NetInv, BoxesApart
<1>14. ASSUME NEW d \in NetContainers PROVE BoxGood(d)'
  <2>1. CASE d = c
    <3>1. /\ box[c].file = box[c].pid /\ box[c].pid \in 1..(nextPid - 1)
          /\ \A v \in 1..Len(veths) : veths[v].ContainerPID # box[c].pid
      BY <1>0, <1>1 DEF BoxGood
    <3>2. ASSUME NEW v \in 1..Len(veths') PROVE veths'[v].ContainerPID # box[c].pid
      <4>1. box[c].pid # 0
        BY <1>1, <3>1
      <4>2. v \in 1..Len(veths) \/ v = n
        BY <1>4, <1>5
      <4>. QED  BY <1>4, <3>1, <4>1, <4>2
    <3>3. Contains(veth', n) /\ veths'[n].ContainerPID = 0 /\ n \in 1..Len(veths')
      BY <1>4, <1>5, <1>6
    <3>. QED  BY <1>0, <1>5, <1>7, <1>8, <1>9, <2>1, <3>1, <3>2, <3>3 DEF BoxGood
  <2>2. CASE d # c
    <3>1. Contains(veth, box[d].veth) => Contains(veth', box[d].veth)
      BY <1>6
    <3>2. BoxGood(d) /\ box'[d] = box[d]
      BY <1>1, <1>9, <2>2
    <3>3. box[d].veth # 0 => box[d].veth \in 1..Len(veths') /\ veths'[box[d].veth] = veths[box[d].veth]
      BY <1>4, <1>5, <3>2 DEF BoxGood
    <3>4. ASSUME box[d].pc \in {"veth", "init"}, NEW v \in 1..Len(veths') PROVE veths'[v].ContainerPID # box[d].pid
      <4>1. box[d].pid # 0 /\ \A w \in 1..Len(veths) : veths[w].ContainerPID # box[d].pid
        BY <1>1, <3>2, <3>4 DEF BoxGood
      <4>. QED  BY <1>4, <1>5, <4>1
    <3>5. box[d].pc \in {"init", "bind"} => box[d].veth # 0
      BY <3>2 DEF BoxGood
    <3>. QED  BY <1>0, <3>1, <3>2, <3>3, <3>4, <3>5 DEF BoxGood
  <2>. QED  BY <2>1, <2>2
<1>15. ASSUME NEW v \in 1..Len(veths') PROVE VethGood(v)'
  <2>1. CASE v = n
    <3>1. Once(veth, n) /\ Once(vethPool, n)
      BY <1>7 DEF Contains, Once
    <3>. QED  BY <1>0, <1>1, <1>4, <1>6, <1>7, <2>1, <3>1 DEF VethGood
  <2>2. CASE v # n
    <3>1. VethGood(v) /\ veths'[v] = veths[v]
      BY <1>4, <1>5, <2>2 DEF NetInv
    <3>. QED  BY <1>0, <1>6, <2>2, <3>1 DEF VethGood
  <2>. QED  BY <2>1, <2>2
<1>16. NetInv'
  <2>1. \A x \in Nat : Contains(veth', x) \/ Contains(vethPool', x) => x \in 1..Len(veths')
    BY <1>0, <1>4, <1>5, <1>6 DEF NetInv
  <2>2. ASSUME NEW v \in 1..Len(veths'), NEW w \in 1..Len(veths'),
               veths'[v].ContainerPID = veths'[w].ContainerPID, veths'[v].ContainerPID # 0
        PROVE  v = w
    <3>1. v \in 1..Len(veths) /\ w \in 1..Len(veths)
      BY <1>4, <1>5, <2>2
    <3>. QED  BY <1>4, <2>2, <3>1 DEF NetInv
  <2>. QED  BY <1>10, <1>11, <1>13, <1>14, <1>15, <2>1, <2>2 DEF NetInv
<1>17. LostVeths' \subseteq LostVeths
  <2>. SUFFICES ASSUME NEW v \in LostVeths' PROVE v \in LostVeths
    OBVIOUS
  <2>1. v \in 1..Len(veths')
    BY <1>4 DEF LostVeths
  <2>2. v # n
    BY <1>8, <1>9 DEF LostVeths
  <2>3. v \in 1..Len(veths) /\ veths'[v] = veths[v]
    BY <1>4, <1>5, <2>1, <2>2
  <2>4. \A d \in NetContainers : /\ box[d].pc \in {"init", "bind"} => box[d].veth # v
                                 /\ box[d].file # 0 => box[d].file # veths[v].ContainerPID
    BY <1>0, <1>8, <1>9, <2>3 DEF LostVeths
  <2>5. v \in DOMAIN veths
    BY <1>1, <2>3
  <2>. QED  BY <1>0, <2>4, <2>5 DEF LostVeths
<1>. QED  BY <1>0, <1>1, <1>16, <1>17, LostCount

\* One Veth gets another process, or none.
LEMMA PidSet ==
  ASSUME NetInv, NEW u \in 1..Len(veths), NEW p \in Nat, veths' = [veths EXCEPT ![u].ContainerPID = p]
  PROVE  /\ veths' \in Seq([IP : Addresses, ContainerPID : Nat]) /\ Len(veths') = Len(veths)
         /\ \A v \in 1..Len(veths) : veths'[v].IP = veths[v].IP
         /\ \A v \in 1..Len(veths) : veths'[v].ContainerPID = IF v = u THEN p ELSE veths[v].ContainerPID
<1>. DEFINE V == [IP : Addresses, ContainerPID : Nat]
            e == [veths[u] EXCEPT !.ContainerPID = p]
<1>1. veths \in Seq(V)
  BY DEF NetInv, NetTypes
<1>2. veths[u] \in V
  <2>. HIDE DEF V
  <2>. QED  BY <1>1
<1>3. e \in V /\ e.IP = veths[u].IP /\ e.ContainerPID = p
  BY <1>2
<1>4. veths' = [veths EXCEPT ![u] = e]
  OBVIOUS
<1>. HIDE DEF e
<1>5. /\ veths' \in Seq(V) /\ Len(veths') = Len(veths) /\ veths'[u] = e
      /\ \A v \in 1..Len(veths) : v # u => veths'[v] = veths[v]
  <2>. HIDE DEF V
  <2>. QED  BY <1>1, <1>3, <1>4
<1>. QED  BY <1>3, <1>5

\* The Veth of a container gets its process, whether or not the pair can be made.
LEMMA VethInitStep ==
  ASSUME NetInv, LostByFaultsOnly, NEW c \in NetContainers, VethInit(c)
  PROVE  NetInv' /\ LostByFaultsOnly'
<1>. DEFINE u == box[c].veth
            V == [IP : Addresses, ContainerPID : Nat]
<1>1. /\ Len(veths) \in Nat /\ nextPid \in Nat \ {0} /\ netFaults \in Nat
      /\ \A v \in 1..Len(veths) : veths[v].ContainerPID \in Nat
      /\ \A d \in NetContainers : BoxGood(d) /\ box[d] \in Boxes
      /\ veths \in Seq(V)
  BY NetFacts DEF NetInv, NetTypes
<1>2. box[c].pc = "init" /\ UNCHANGED <<veth, vethPool, lastIP, nextPid>>
  BY DEF VethInit, BoxAt
<1>3. /\ u \in 1..Len(veths) /\ veths[u].ContainerPID = 0 /\ Contains(veth, u) /\ u # 0
      /\ box[c].file = box[c].pid /\ box[c].pid \in 1..(nextPid - 1) /\ ~Contains(vethPool, u)
      /\ \A v \in 1..Len(veths) : veths[v].ContainerPID # box[c].pid
  BY <1>1, <1>2 DEF BoxGood
<1>4. ASSUME NEW pc \in {"bind", "idle"}, box' = [box EXCEPT ![c].pc = pc],
             veths' = [veths EXCEPT ![u].ContainerPID = box[c].pid], netFaults' \in {netFaults, netFaults + 1}
      PROVE  NetInv' /\ LostByFaultsOnly'
  <2>. DEFINE b == [box[c] EXCEPT !.pc = pc]
  <2>1. b \in Boxes /\ b.pc = pc /\ b.veth = u /\ b.pid = box[c].pid /\ b.file = box[c].file
        /\ (b.bound <=> box[c].bound)
    BY <1>1 DEF Boxes
  <2>2. box' = [box EXCEPT ![c] = b]
    BY <1>4
  <2>. HIDE DEF b
  <2>3. box'[c] = b /\ \A d \in NetContainers \ {c} : box'[d] = box[d]
    BY <2>2 DEF NetInv, NetTypes
  <2>4. /\ veths' \in Seq(V) /\ Len(veths') = Len(veths)
        /\ \A v \in 1..Len(veths) : veths'[v].IP = veths[v].IP
        /\ \A v \in 1..Len(veths) : veths'[v].ContainerPID = IF v = u THEN box[c].pid ELSE veths[v].ContainerPID
    <3>1. box[c].pid \in Nat
      BY <1>1 DEF Boxes
    <3>. QED  BY <1>3, <1>4, <3>1, PidSet
  <2>. HIDE DEF u
  <2>5. NetTypes' /\ AddressesInOrder'
    <3>1. NetTypes'
      <4>1. box' \in [NetContainers -> Boxes]
        BY <2>1, <2>2 DEF NetInv, NetTypes
      <4>2. netFaults' \in Nat
        BY <1>1, <1>4
      <4>. QED  BY <1>2, <2>4, <4>1, <4>2 DEF NetInv, NetTypes
    <3>2. AddressesInOrder'
      BY <1>2, <2>4 DEF NetInv, AddressesInOrder
    <3>. QED  BY <3>1, <3>2
  <2>6. BoxesApart'
    BY <1>2, <2>1, <2>3 DEF NetInv, BoxesApart, u
  <2>7. \A d \in NetContainers \ {c} : box[d].veth # u /\ (box[d].pc # "none" => box[d].pid # box[c].pid)
    BY <1>3 DEF NetInv, BoxesApart, u
  <2>8. ASSUME NEW d \in NetContainers PROVE BoxGood(d)'
    <3>1. CASE d = c
      BY <1>2, <1>3, <2>1, <2>3, <2>4, <3>1 DEF BoxGood
    <3>2. CASE d # c
      <4>1. BoxGood(d) /\ box'[d] = box[d]
        BY <1>1, <2>3, <3>2
      <4>2. box[d].veth # 0 => veths'[box[d].veth].ContainerPID = veths[box[d].veth].ContainerPID
        BY <2>4, <2>7, <3>2, <4>1 DEF BoxGood
      <4>3. ASSUME box[d].pc \in {"veth", "init"}, NEW v \in 1..Len(veths) PROVE veths'[v].ContainerPID # box[d].pid
        <5>1. veths[v].ContainerPID # box[d].pid /\ box[d].pid # box[c].pid
          BY <2>7, <3>2, <4>1, <4>3 DEF BoxGood
        <5>. QED  BY <2>4, <5>1
      <4>4. box[d].pc \in {"init", "bind"} => box[d].veth # 0
        BY <4>1 DEF BoxGood
      <4>. QED  BY <1>2, <2>4, <4>1, <4>2, <4>3, <4>4 DEF BoxGood
    <3>. QED  BY <3>1, <3>2
  <2>9. ASSUME NEW v \in 1..Len(veths') PROVE VethGood(v)'
    <3>1. VethGood(v) /\ v \in 1..Len(veths)
      BY <2>4 DEF NetInv
    <3>2. box[c].pid < nextPid
      BY <1>1, <1>3
    <3>. QED  BY <1>2, <1>3, <2>4, <3>1, <3>2 DEF VethGood
  <2>10. NetInv'
    <3>1. \A x \in Nat : Contains(veth', x) \/ Contains(vethPool', x) => x \in 1..Len(veths')
      BY <1>2, <2>4 DEF NetInv
    <3>2. ASSUME NEW v \in 1..Len(veths'), NEW w \in 1..Len(veths'),
                 veths'[v].ContainerPID = veths'[w].ContainerPID, veths'[v].ContainerPID # 0
          PROVE  v = w
      <4>1. v \in 1..Len(veths) /\ w \in 1..Len(veths)
        BY <2>4
      <4>. QED  BY <1>3, <2>4, <3>2, <4>1 DEF NetInv
    <3>. QED  BY <2>5, <2>6, <2>8, <2>9, <3>1, <3>2 DEF NetInv
  <2>11. LostVeths' \subseteq LostVeths
    <3>. SUFFICES ASSUME NEW v \in LostVeths' PROVE v \in LostVeths
      OBVIOUS
    <3>1. v \in 1..Len(veths) /\ v \in DOMAIN veths
      BY <1>1, <2>4 DEF LostVeths
    <3>2. box[c].pid # 0 /\ box'[c].file = box[c].pid
      BY <1>1, <1>3, <2>1, <2>3
    <3>3. v # u
      BY <1>3, <2>4, <3>1, <3>2 DEF LostVeths
    <3>4. veths'[v].ContainerPID = veths[v].ContainerPID
      BY <2>4, <3>1, <3>3
    <3>5. \A d \in NetContainers : box'[d].file = box[d].file
      BY <2>1, <2>3
    <3>6. \A d \in NetContainers : box[d].pc \in {"init", "bind"} => box[d].veth # v
      BY <2>3, <3>3 DEF LostVeths, u
    <3>. QED  BY <1>2, <3>1, <3>4, <3>5, <3>6 DEF LostVeths
  <2>. QED  BY <1>1, <1>4, <2>10, <2>11, LostCount
<1>5. CASE box' = [box EXCEPT ![c].pc = "idle"] /\ NetFail /\ UNCHANGED veths
  <2>. DEFINE b == [box[c] EXCEPT !.pc = "idle"]
  <2>1. b \in Boxes /\ b.pid = box[c].pid /\ b.file = box[c].file /\ b.veth = box[c].veth
        /\ b.pc = "idle" /\ (b.bound => box[c].bound)
    BY <1>1 DEF Boxes
  <2>2. box' = [box EXCEPT ![c] = b] /\ netFaults' = netFaults + 1 /\ veths' = veths
    BY <1>5 DEF NetFail
  <2>. HIDE DEF b
  <2>. QED  BY <1>2, <1>3, <2>1, <2>2, <1>5, BoxMovesSafely
<1>6. \/ \E pc \in {"bind", "idle"} : /\ box' = [box EXCEPT ![c].pc = pc] /\ netFaults' \in {netFaults, netFaults + 1}
                                      /\ veths' = [veths EXCEPT ![u].ContainerPID = box[c].pid]
      \/ box' = [box EXCEPT ![c].pc = "idle"] /\ NetFail /\ UNCHANGED veths
  BY DEF VethInit, NetFail
<1>. QED  BY <1>4, <1>5, <1>6

\* The container's Veth, if it has one with its process, goes to the pool.
LEMMA UnsetContainerNetStep ==
  ASSUME NetInv, LostByFaultsOnly, NEW c \in NetContainers, UnsetContainerNet(c)
  PROVE  NetInv' /\ LostByFaultsOnly'
<1>. DEFINE p == box[c].file
<1>0. box[c].pc = "unset" /\ box' = [box EXCEPT ![c] = NewBox] /\ UNCHANGED <<lastIP, nextPid>>
  BY DEF UnsetContainerNet, BoxAt
<1>1. /\ Len(veths) \in Nat /\ nextPid \in Nat \ {0} /\ netFaults \in Nat
      /\ \A v \in 1..Len(veths) : veths[v].ContainerPID \in Nat
      /\ \A d \in NetContainers : BoxGood(d) /\ box[d] \in Boxes
      /\ veth \in Seq(Nat) /\ vethPool \in Seq(Nat)
      /\ DOMAIN veths = 1..Len(veths) /\ DOMAIN veth = 1..Len(veth) /\ DOMAIN vethPool = 1..Len(vethPool)
  <2>1. veth \in Seq(Nat) /\ vethPool \in Seq(Nat) /\ nextPid \in Nat \ {0} /\ netFaults \in Nat
    BY DEF NetInv, NetTypes
  <2>2. DOMAIN veths = 1..Len(veths)
    BY DEF NetInv, NetTypes
  <2>. QED  BY <2>1, <2>2, NetFacts
<1>2. p = box[c].pid /\ p \in 1..(nextPid - 1) /\ p \in Nat /\ p # 0
  BY <1>0, <1>1 DEF BoxGood
<1>3. box'[c] = NewBox /\ \A d \in NetContainers \ {c} : box'[d] = box[d]
  BY <1>0 DEF NetInv, NetTypes
<1>4. NewBox \in Boxes /\ NewBox.pc = "none" /\ NewBox.pid = 0 /\ NewBox.veth = 0 /\ NewBox.file = 0 /\ ~NewBox.bound
  BY DEF NewBox, Boxes
<1>5. box' \in [NetContainers -> Boxes]
  BY <1>0, <1>4 DEF NetInv, NetTypes
<1>6. BoxesApart'
  <2>. SUFFICES ASSUME NEW d \in NetContainers, NEW e \in NetContainers, d # e
                PROVE  /\ box'[d].pc # "none" => box'[d].pid # box'[e].pid
                       /\ box'[d].veth # 0 => box'[d].veth # box'[e].veth
    BY DEF BoxesApart
  <2>1. CASE d = c
    BY <1>3, <1>4, <2>1
  <2>2. CASE e = c
    <3>1. box'[d] = box[d] /\ (box[d].pc # "none" => box[d].pid # 0)
      BY <1>1, <1>3, <2>2 DEF BoxGood
    <3>. QED  BY <1>3, <1>4, <2>2, <3>1
  <2>3. CASE d # c /\ e # c
    BY <1>3, <2>3 DEF NetInv, BoxesApart
  <2>. QED  BY <2>1, <2>2, <2>3
<1>. HIDE DEF p
\* Without a veth of that process, or when the pid file cannot be read, the lists stay.
<1>7. ASSUME UNCHANGED <<veths, veth, vethPool>>, netFaults' \in Nat, NEW x,
             \A v \in 1..Len(veths) : veths[v].ContainerPID = p => v = x
      PROVE  NetInv' /\ LostVeths' \subseteq LostVeths \cup {v \in {x} : \E w \in 1..Len(veths) : veths[w].ContainerPID = p}
  <2>1. NetTypes' /\ AddressesInOrder'
    BY <1>0, <1>5, <1>7 DEF NetInv, NetTypes, AddressesInOrder
  <2>2. ASSUME NEW d \in NetContainers PROVE BoxGood(d)'
    <3>1. CASE d = c
      BY <1>3, <1>4, <3>1 DEF BoxGood
    <3>2. CASE d # c
      BY <1>0, <1>1, <1>3, <1>7, <3>2 DEF BoxGood
    <3>. QED  BY <3>1, <3>2
  <2>3. \A v \in 1..Len(veths) : VethGood(v)'
    BY <1>0, <1>7 DEF NetInv, VethGood
  <2>4. NetInv'
    BY <1>6, <1>7, <2>1, <2>2, <2>3 DEF NetInv
  <2>5. ASSUME NEW v \in LostVeths', veths[v].ContainerPID # p PROVE v \in LostVeths
    <3>1. v \in DOMAIN veths /\ \A k \in DOMAIN vethPool : vethPool[k] # v
      BY <1>7 DEF LostVeths
    <3>2. ASSUME NEW d \in NetContainers
          PROVE  /\ box[d].pc \in {"init", "bind"} => box[d].veth # v
                 /\ box[d].file # 0 => box[d].file # veths[v].ContainerPID
      <4>1. CASE d = c
        BY <1>0, <2>5, <4>1 DEF p
      <4>2. CASE d # c
        BY <1>3, <1>7, <4>2 DEF LostVeths
      <4>. QED  BY <4>1, <4>2
    <3>. QED  BY <3>1, <3>2 DEF LostVeths
  <2>6. LostVeths' \subseteq 1..Len(veths)
    BY <1>1, <1>7 DEF LostVeths
  <2>. QED  BY <1>7, <2>4, <2>5, <2>6
<1>8. CASE NetFail /\ UNCHANGED <<veths, veth, vethPool>>
  <2>1. PICK x : \A v \in 1..Len(veths) : veths[v].ContainerPID = p => v = x
    <3>1. CASE \E x \in 1..Len(veths) : veths[x].ContainerPID = p
      BY <1>2, <3>1 DEF NetInv
    <3>. QED  BY <3>1
  <2>2. netFaults' = netFaults + 1 /\ netFaults' \in Nat
    BY <1>1, <1>8 DEF NetFail
  <2>3. NetInv' /\ LostVeths' \subseteq LostVeths \cup {x}
    BY <1>7, <1>8, <2>1, <2>2
  <2>. QED  BY <2>2, <2>3, LostCount
<1>. DEFINE at == {k \in 1..Len(veth) : veths[veth[k]].ContainerPID = p}
<1>9. VethOf(p) = IF at = {} THEN 0 ELSE CHOOSE k \in at : \A j \in at : k <= j
  BY <1>1 DEF VethOf
<1>10. CASE deleteVeth(p) /\ UNCHANGED netFaults /\ at = {}
  <2>1. UNCHANGED <<veths, veth, vethPool>>
    BY <1>9, <1>10 DEF deleteVeth
  <2>2. \A v \in 1..Len(veths) : veths[v].ContainerPID # p
    <3>. SUFFICES ASSUME NEW v \in 1..Len(veths), veths[v].ContainerPID = p PROVE FALSE
      OBVIOUS
    <3>1. Contains(veth, v)
      BY <1>2 DEF NetInv, VethGood
    <3>. QED  BY <1>10, <3>1 DEF Contains
  <2>3. NetInv' /\ LostVeths' \subseteq LostVeths
    BY <1>1, <1>7, <1>10, <2>1, <2>2
  <2>. QED  BY <1>1, <1>10, <2>3, LostCount
<1>11. CASE deleteVeth(p) /\ UNCHANGED netFaults /\ at # {}
  <2>. DEFINE k == VethOf(p)
              u == veth[k]
  <2>1. k \in 1..Len(veth) /\ veths[u].ContainerPID = p /\ k # 0
    <3>1. at \subseteq Nat
      OBVIOUS
    <3>2. k \in at
      BY <1>9, <1>11, <3>1, LeastElement
    <3>. QED  BY <3>2
  <2>2. /\ veths' = [veths EXCEPT ![u].ContainerPID = 0]
        /\ vethPool' = Append(vethPool, u) /\ veth' = RemoveAt(veth, k)
    BY <1>11, <2>1 DEF deleteVeth
  <2>. HIDE DEF k
  <2>3. u \in 1..Len(veths) /\ u \in Nat /\ Contains(veth, u)
    <3>1. u \in Nat
      BY <1>1, <2>1
    <3>2. Contains(veth, u)
      BY <2>1 DEF Contains
    <3>. QED  BY <3>1, <3>2 DEF NetInv
  <2>4. Once(veth, u) /\ ~Contains(vethPool, u)
    BY <2>3 DEF NetInv, VethGood
  <2>5. /\ veths' \in Seq([IP : Addresses, ContainerPID : Nat]) /\ Len(veths') = Len(veths)
        /\ \A v \in 1..Len(veths) : veths'[v].IP = veths[v].IP
        /\ \A v \in 1..Len(veths) : veths'[v].ContainerPID = IF v = u THEN 0 ELSE veths[v].ContainerPID
    <3>. HIDE DEF u
    <3>1. 0 \in Nat
      OBVIOUS
    <3>. QED  BY <2>2, <2>3, <3>1, PidSet
  <2>6. /\ veth' \in Seq(Nat)
        /\ \A x : Contains(veth', x) <=> Contains(veth, x) /\ x # u
        /\ \A x : Once(veth, x) => Once(veth', x)
    <3>1. \A x : /\ veth' \in Seq(Nat)
                 /\ Contains(veth, x) <=> Contains(veth', x) \/ x = u
                 /\ Once(veth, x) => Once(veth', x)
                 /\ Once(veth, x) /\ x = u => ~Contains(veth', x)
      BY <1>1, <2>1, <2>2, RemoveAtFacts
    <3>. QED  BY <2>4, <3>1
  <2>7. /\ vethPool' \in Seq(Nat)
        /\ \A x : Contains(vethPool', x) <=> Contains(vethPool, x) \/ x = u
        /\ \A x : Once(vethPool, x) => Once(vethPool', x)
    <3>1. \A x : /\ vethPool' \in Seq(Nat)
                 /\ Contains(vethPool', x) <=> Contains(vethPool, x) \/ x = u
                 /\ Once(vethPool, x) /\ (x = u => ~Contains(vethPool, x)) => Once(vethPool', x)
      <4>. HIDE DEF u
      <4>. QED  BY <1>1, <2>2, <2>3, AppendFacts
    <3>. QED  BY <2>4, <3>1
  <2>. HIDE DEF u
  <2>8. NetTypes' /\ AddressesInOrder'
    <3>1. NetTypes'
      BY <1>0, <1>1, <1>5, <1>11, <2>5, <2>6, <2>7 DEF NetInv, NetTypes
    <3>2. AddressesInOrder'
      BY <1>0, <2>5 DEF NetInv, AddressesInOrder
    <3>. QED  BY <3>1, <3>2
  <2>9. ASSUME NEW d \in NetContainers PROVE BoxGood(d)'
    <3>1. CASE d = c
      BY <1>3, <1>4, <3>1 DEF BoxGood
    <3>2. CASE d # c
      <4>1. BoxGood(d) /\ box'[d] = box[d] /\ box[d] \in Boxes /\ box[d].pid # p
        BY <1>0, <1>1, <1>2, <1>3, <3>2 DEF NetInv, BoxesApart
      <4>2. box[d].veth # 0 => box[d].veth # u /\ box[d].veth \in 1..Len(veths)
        BY <1>2, <2>1, <4>1 DEF BoxGood, u
      <4>3. box[d].veth # 0 => veths'[box[d].veth].ContainerPID = veths[box[d].veth].ContainerPID
        BY <2>5, <4>2
      <4>4. ASSUME box[d].pc \in {"veth", "init"}, NEW v \in 1..Len(veths) PROVE veths'[v].ContainerPID # box[d].pid
        <5>1. veths[v].ContainerPID # box[d].pid /\ box[d].pid # 0
          BY <1>1, <4>1, <4>4 DEF BoxGood
        <5>. QED  BY <2>5, <5>1
      <4>5. box[d].pc \in {"init", "bind"} => box[d].veth # 0
        BY <4>1 DEF BoxGood
      <4>. QED  BY <1>0, <2>5, <2>6, <2>7, <4>1, <4>2, <4>3, <4>4, <4>5 DEF BoxGood
    <3>. QED  BY <3>1, <3>2
  <2>10. ASSUME NEW v \in 1..Len(veths') PROVE VethGood(v)'
    <3>1. VethGood(v) /\ v \in 1..Len(veths)
      BY <2>5 DEF NetInv
    <3>2. veths'[v].ContainerPID < nextPid'
      <4>1. veths[v].ContainerPID < nextPid /\ 0 < nextPid /\ nextPid' = nextPid
        BY <1>0, <1>1, <3>1 DEF VethGood
      <4>. QED  BY <2>5, <3>1, <4>1
    <3>3. veths'[v].ContainerPID # 0 => Contains(veth', v)
      BY <2>5, <2>6, <3>1 DEF VethGood
    <3>4. /\ Once(veth', v) /\ Once(vethPool', v)
          /\ Contains(veth', v) => ~Contains(vethPool', v)
      BY <2>6, <2>7, <3>1 DEF VethGood
    <3>. QED  BY <3>2, <3>3, <3>4 DEF VethGood
  <2>11. NetInv'
    <3>1. \A x \in Nat : Contains(veth', x) \/ Contains(vethPool', x) => x \in 1..Len(veths')
      BY <2>3, <2>5, <2>6, <2>7 DEF NetInv
    <3>2. ASSUME NEW v \in 1..Len(veths'), NEW w \in 1..Len(veths'),
                 veths'[v].ContainerPID = veths'[w].ContainerPID, veths'[v].ContainerPID # 0
          PROVE  v = w
      <4>1. v \in 1..Len(veths) /\ w \in 1..Len(veths)
        BY <2>5
      <4>. QED  BY <2>5, <3>2, <4>1 DEF NetInv
    <3>. QED  BY <1>6, <2>8, <2>9, <2>10, <3>1, <3>2 DEF NetInv
  <2>12. LostVeths' \subseteq LostVeths
    <3>. SUFFICES ASSUME NEW v \in LostVeths' PROVE v \in LostVeths
      OBVIOUS
    <3>1. v \in 1..Len(veths) /\ ~Contains(vethPool', v)
      <4>1. DOMAIN veths' = 1..Len(veths) /\ DOMAIN vethPool' = 1..Len(vethPool')
        BY <2>5, <2>7
      <4>. QED  BY <4>1 DEF LostVeths, Contains
    <3>2. v # u /\ \A k2 \in DOMAIN vethPool : vethPool[k2] # v
      <4>1. v # u /\ ~Contains(vethPool, v)
        BY <2>7, <3>1
      <4>. QED  BY <1>1, <4>1 DEF Contains
    <3>3. veths'[v].ContainerPID = veths[v].ContainerPID /\ veths[v].ContainerPID # p
      BY <1>2, <2>1, <2>3, <2>5, <3>1, <3>2 DEF NetInv
    <3>4. ASSUME NEW d \in NetContainers
          PROVE  /\ box[d].pc \in {"init", "bind"} => box[d].veth # v
                 /\ box[d].file # 0 => box[d].file # veths[v].ContainerPID
      <4>1. CASE d = c
        BY <1>0, <3>3, <4>1 DEF p
      <4>2. CASE d # c
        BY <1>3, <3>3, <4>2 DEF LostVeths
      <4>. QED  BY <4>1, <4>2
    <3>. QED  BY <1>1, <3>1, <3>2, <3>4 DEF LostVeths
  <2>. QED  BY <1>1, <1>11, <2>11, <2>12, LostCount
<1>12. (NetFail /\ UNCHANGED <<veths, veth, vethPool>>) \/ (deleteVeth(p) /\ UNCHANGED netFaults)
  BY DEF UnsetContainerNet, p
<1>. QED  BY <1>8, <1>10, <1>11, <1>12

LEMMA NetInductive ==
  /\ NetInit => NetInv /\ LostByFaultsOnly
  /\ NetInv /\ LostByFaultsOnly /\ [NetNext]_netVars => NetInv' /\ LostByFaultsOnly'
<1>1. ASSUME NetInit PROVE NetInv /\ LostByFaultsOnly
  <2>1. veths = << >> /\ veth = << >> /\ vethPool = << >> /\ Len(veths) = 0 /\ Len(veth) = 0 /\ Len(vethPool) = 0
    BY <1>1 DEF NetInit
  <2>2. NewBox \in Boxes /\ \A c \in NetContainers : box[c] = NewBox
    BY <1>1 DEF NetInit, NewBox, Boxes
  <2>3. NetTypes
    <3>1. lastIP \in Addresses
      BY <1>1, NetworkAssumption DEF NetInit, BridgeIP, Addresses
    <3>2. box \in [NetContainers -> Boxes]
      BY <1>1, <2>2 DEF NetInit
    <3>. QED  BY <1>1, <2>1, <3>1, <3>2 DEF NetInit, NetTypes
  <2>4. AddressesInOrder
    BY <1>1, <2>1 DEF NetInit, AddressesInOrder, BridgeIP
  <2>5. BoxesApart /\ \A c \in NetContainers : BoxGood(c)
    BY <2>2 DEF BoxesApart, BoxGood, NewBox
  <2>6. NetInv
    BY <2>1, <2>3, <2>4, <2>5 DEF NetInv, Contains
  <2>7. LostVeths = {}
    BY <2>1 DEF LostVeths
  <2>. QED  BY <1>1, <2>6, <2>7, FS_EmptySet DEF NetInit, LostByFaultsOnly
<1>2. ASSUME NetInv, LostByFaultsOnly, NetNext PROVE NetInv' /\ LostByFaultsOnly'
  BY <1>2, StartBoxStep, takePooledVethStep, getNewVethStep, VethInitStep, BoxSteps, UnsetContainerNetStep DEF NetNext
<1>3. ASSUME NetInv, LostByFaultsOnly, UNCHANGED netVars PROVE NetInv' /\ LostByFaultsOnly'
  BY <1>3 DEF netVars, NetInv, NetTypes, AddressesInOrder, BoxesApart, BoxGood, VethGood, LostByFaultsOnly, LostVeths
<1>. QED  BY <1>1, <1>2, <1>3

\* Network (NetworkSafe), for every number of containers, addresses, processes, failing calls
\* and restarts: addresses are given out once until they run out, what the pool gives out is
\* nobody's, only failing calls lose addresses, and containers cannot reach each other over the
\* bridge (getNewVeth, deleteVeth, allocateIP, Veth.Init, InitNetwork, disableIcc).
THEOREM NetworkAlways ==
  NetInit /\ BridgeInit /\ [][NetNext]_netVars /\ [][BridgeNext]_bridgeVars => []NetworkSafe
<1>1. NetInit => NetInv /\ LostByFaultsOnly
  BY NetInductive
<1>2. NetInv /\ LostByFaultsOnly /\ [NetNext]_netVars => NetInv' /\ LostByFaultsOnly'
  BY NetInductive
<1>3. BridgeInit => BridgeInv
  BY BridgeInductive
<1>4. BridgeInv /\ [BridgeNext]_bridgeVars => BridgeInv'
  BY BridgeInductive
<1>5. ASSUME NetInv, LostByFaultsOnly, BridgeInv PROVE NetworkSafe
  <2>0. Len(veths) \in Nat /\ DOMAIN veths = 1..Len(veths) /\ Hosts \in Nat /\ vethPool \in Seq(Nat)
        /\ \A v \in 1..Len(veths) : veths[v].IP \in Addresses
    <3>1. DOMAIN veths = 1..Len(veths) /\ vethPool \in Seq(Nat)
      BY <1>5 DEF NetInv, NetTypes
    <3>. QED  BY <1>5, <3>1, NetFacts, NetworkAssumption
  <2>1. AddressesDistinct
    <3>1. ASSUME NEW v \in 1..Len(veths) PROVE veths[v].IP \notin {0, BridgeIP, Broadcast}
      BY <1>5, <2>0 DEF NetInv, AddressesInOrder, isUnicastIP, Addresses
    <3>2. ASSUME Len(veths) < Hosts, NEW v \in 1..Len(veths), NEW w \in 1..Len(veths), veths[v].IP = veths[w].IP
          PROVE  v = w
      BY <1>5, <2>0, <3>2 DEF NetInv, AddressesInOrder
    <3>. QED  BY <2>0, <3>1, <3>2 DEF AddressesDistinct
  <2>2. PoolIsFree
    <3>1. ASSUME NEW k \in DOMAIN vethPool
          PROVE  vethPool[k] \in 1..Len(veths) /\ k \in 1..Len(vethPool) /\ Contains(vethPool, vethPool[k])
      <4>1. k \in 1..Len(vethPool) /\ vethPool[k] \in Nat
        BY <2>0
      <4>2. Contains(vethPool, vethPool[k])
        BY <4>1 DEF Contains
      <4>. QED  BY <1>5, <4>1, <4>2 DEF NetInv
    <3>2. ASSUME NEW k \in DOMAIN vethPool, NEW c \in NetContainers PROVE box[c].veth # vethPool[k]
      <4>1. BoxGood(c) /\ vethPool[k] # 0
        BY <1>5, <2>0, <3>1 DEF NetInv
      <4>. QED  BY <3>1, <4>1 DEF BoxGood
    <3>3. ASSUME NEW j \in DOMAIN vethPool, NEW k \in DOMAIN vethPool, vethPool[j] = vethPool[k] PROVE j = k
      <4>1. Once(vethPool, vethPool[k])
        BY <1>5, <3>1 DEF NetInv, VethGood
      <4>. QED  BY <3>1, <3>3, <4>1 DEF Once
    <3>. QED  BY <3>2, <3>3 DEF PoolIsFree
  <2>3. BridgeReady /\ ContainersIsolated
    BY <1>5 DEF BridgeInv, BridgeMade, BridgeReady
  <2>. QED  BY <1>5, <2>1, <2>2, <2>3 DEF NetworkSafe
<1>. QED  BY <1>1, <1>2, <1>3, <1>4, <1>5, PTL

-----------------------------------------------------------------------------
(* The storage of pods *)

Files == {NoFile} \cup (Pods \X Nat)
PodAts == {"down", "free", "set", "mkfs", "mount", "up", "serving"}
PodRecords == [at : PodAts, dev : LoopDevices \cup {NoDevice}, mounted : Files, raced : BOOLEAN]

StorageTypes ==
  /\ backing \in [LoopDevices -> Files]
  /\ generation \in [Pods -> Nat]
  /\ pod \in [Pods -> PodRecords]
  /\ recycler = [p \in Pods |-> recycler[p]]

HostFits == hostDir.xfs /\ hostDir.pquota /\ hostDir.available >= RequiredSize

\* A pod that lost no race has its own file on its device from SetFd on, formatted before it
\* is mounted.
PodGood(p) ==
  /\ pod[p].at \in {"set", "mkfs", "mount"} => pod[p].dev \in LoopDevices
  /\ pod[p].at \notin {"up", "serving"} => pod[p].mounted = NoFile
  /\ pod[p].at \in {"mkfs", "mount"} /\ ~pod[p].raced => backing[pod[p].dev] = FileOf(p)
  /\ pod[p].at = "mount" /\ ~pod[p].raced => FileOf(p) \in formatted
  /\ pod[p].at \notin {"down", "up"} => StorageType[p] = "loop"
  /\ pod[p].at \in {"up", "serving"} /\ StorageType[p] = "loop" /\ ~pod[p].raced =>
       pod[p].mounted = FileOf(p) /\ FileOf(p) \in formatted
  /\ pod[p].at \in {"up", "serving"} /\ StorageType[p] # "loop" => HostFits /\ pod[p].mounted = NoFile

\* The files of pods that exist have names, and what is to be recycled has none.
DeletedGood ==
  /\ \A p \in Pods, n \in Nat : n >= generation[p] => <<p, n>> \notin deleted
  /\ \A p \in Pods : \A x \in recycler[p] : x[2] \in deleted

StorageInv == StorageTypes /\ DeletedGood /\ \A p \in Pods : PodGood(p)

LEMMA FilesOfPods ==
  ASSUME StorageTypes
  PROVE  \A p \in Pods : /\ FileOf(p) \in Files /\ FileOf(p) # NoFile
                         /\ \A q \in Pods : FileOf(p) = FileOf(q) => p = q
BY DEF StorageTypes, Files, FileOf, NoFile

\* One pod p moves; the files of the others stay on their devices, and formatted.
LEMMA PodMoves ==
  ASSUME StorageInv, NEW p \in Pods, NEW s \in PodRecords, pod' = [pod EXCEPT ![p] = s],
         UNCHANGED <<hostDir, generation>>,
         \A d \in LoopDevices : backing[d] # NoFile => backing'[d] = backing[d],
         \A f \in formatted : f # FileOf(p) => f \in formatted',
         PodGood(p)'
  PROVE  pod' \in [Pods -> PodRecords] /\ \A q \in Pods : PodGood(q)'
<1>1. StorageTypes
  BY DEF StorageInv
<1>2. pod' \in [Pods -> PodRecords]
  BY <1>1 DEF StorageTypes
<1>3. ASSUME NEW q \in Pods, q # p PROVE PodGood(q)'
  <2>1. pod'[q] = pod[q] /\ FileOf(q)' = FileOf(q) /\ HostFits' = HostFits
    BY <1>1, <1>3 DEF StorageTypes, FileOf, HostFits
  <2>2. FileOf(q) # NoFile /\ FileOf(q) # FileOf(p)
    BY <1>1, <1>3, FilesOfPods
  <2>3. PodGood(q)
    BY DEF StorageInv
  <2>. QED  BY <2>1, <2>2, <2>3 DEF PodGood
<1>. QED  BY <1>2, <1>3

LEMMA FreeDevice ==
  ASSUME Free # {}
  PROVE  Min(Free) \in LoopDevices
<1>1. Free \subseteq Nat
  BY StorageAssumption DEF Free
<1>2. \E x \in Free : \A y \in Free : x <= y
  BY <1>1, LeastElement
<1>3. Min(Free) \in Free
  BY <1>2 DEF Min
<1>. QED  BY <1>3 DEF Free

\* The start of a pod.
LEMMA StorageStarts ==
  ASSUME StorageInv, NEW p \in Pods,
         Allocate(p) \/ GetFree(p) \/ SetFd(p) \/ setInfoFails(p) \/ MkfsXfs(p)
           \/ MountProjectQuota(p) \/ UseHostPath(p)
  PROVE  StorageInv'
<1>1. StorageTypes /\ PodGood(p) /\ pod[p] \in PodRecords /\ FileOf(p) \in Files
  BY FilesOfPods DEF StorageInv, StorageTypes
<1>2. UNCHANGED <<hostDir, generation, deleted, recycler>>
  BY DEF Allocate, GetFree, SetFd, setInfoFails, MkfsXfs, MountProjectQuota, UseHostPath
<1>3. DeletedGood' /\ FileOf(p)' = FileOf(p) /\ HostFits' = HostFits
  BY <1>2 DEF StorageInv, DeletedGood, FileOf, HostFits
<1>4. ASSUME NEW s \in PodRecords, pod' = [pod EXCEPT ![p] = s], backing' \in [LoopDevices -> Files],
             \A d \in LoopDevices : backing[d] # NoFile => backing'[d] = backing[d],
             \A f \in formatted : f # FileOf(p) => f \in formatted',
             PodGood(p)'
      PROVE  StorageInv'
  BY <1>1, <1>2, <1>3, <1>4, PodMoves DEF StorageInv, StorageTypes
<1>5. Down \in PodRecords
  BY DEF Down, PodRecords, PodAts, Files
<1>6. CASE Allocate(p)
  <2>. DEFINE s == [pod[p] EXCEPT !.at = "free"]
  <2>1. s \in PodRecords /\ pod' = [pod EXCEPT ![p] = s]
    BY <1>1, <1>6 DEF Allocate, Step, PodRecords, PodAts, StorageTypes
  <2>2. PodGood(p)'
    BY <1>1, <1>3, <1>6, <2>1 DEF Allocate, PodGood, PodRecords, StorageTypes
  <2>. QED  BY <1>1, <1>4, <1>6, <2>1, <2>2 DEF Allocate, StorageTypes
<1>7. CASE GetFree(p)
  <2>. DEFINE s == [pod[p] EXCEPT !.at = "set", !.dev = Min(Free)]
  <2>1. s \in PodRecords /\ pod' = [pod EXCEPT ![p] = s]
    BY <1>1, <1>7, FreeDevice DEF GetFree, PodRecords, PodAts, StorageTypes
  <2>2. PodGood(p)'
    BY <1>1, <1>3, <1>7, <2>1, FreeDevice DEF GetFree, PodGood, PodRecords, StorageTypes
  <2>. QED  BY <1>1, <1>4, <1>7, <2>1, <2>2 DEF GetFree, StorageTypes
<1>8. CASE SetFd(p)
  <2>1. pod[p].dev \in LoopDevices /\ StorageType[p] = "loop" /\ pod[p].mounted = NoFile
    BY <1>1, <1>8 DEF SetFd, PodGood
  <2>2. CASE backing[pod[p].dev] = NoFile
    <3>. DEFINE s == [pod[p] EXCEPT !.at = "mkfs"]
    <3>1. s \in PodRecords /\ pod' = [pod EXCEPT ![p] = s]
      BY <1>1, <1>8, <2>2 DEF SetFd, Step, PodRecords, PodAts, StorageTypes
    <3>2. backing' = [backing EXCEPT ![pod[p].dev] = FileOf(p)] /\ formatted' = formatted
      BY <1>8, <2>2 DEF SetFd
    <3>3. PodGood(p)'
      BY <1>1, <1>3, <2>1, <3>1, <3>2 DEF PodGood, PodRecords, StorageTypes
    <3>. QED  BY <1>1, <1>4, <2>1, <2>2, <3>1, <3>2, <3>3 DEF StorageTypes
  <2>3. CASE backing[pod[p].dev] # NoFile
    <3>. DEFINE s == [pod[p] EXCEPT !.at = "mkfs", !.raced = TRUE]
    <3>1. s \in PodRecords /\ pod' = [pod EXCEPT ![p] = s]
      BY <1>1, <1>8, <2>3 DEF SetFd, PodRecords, PodAts, StorageTypes
    <3>2. backing' = backing /\ formatted' = formatted
      BY <1>8, <2>3 DEF SetFd
    <3>3. PodGood(p)'
      BY <1>1, <1>3, <2>1, <3>1, <3>2 DEF PodGood, PodRecords, StorageTypes
    <3>. QED  BY <1>1, <1>4, <3>1, <3>2, <3>3 DEF StorageTypes
  <2>. QED  BY <2>2, <2>3
<1>9. ASSUME StartFails(p), backing' = backing, formatted' = formatted PROVE StorageInv'
  <2>1. pod' = [pod EXCEPT ![p] = Down] /\ pod'[p] = Down
    BY <1>1, <1>9 DEF StartFails, StorageTypes
  <2>2. PodGood(p)'
    BY <2>1 DEF PodGood, Down
  <2>. QED  BY <1>1, <1>4, <1>5, <1>9, <2>1, <2>2 DEF StorageTypes
<1>10. CASE setInfoFails(p)
  BY <1>9, <1>10 DEF setInfoFails
<1>11. CASE MkfsXfs(p)
  <2>1. CASE StartFails(p) /\ UNCHANGED formatted
    BY <1>9, <1>11, <2>1 DEF MkfsXfs
  <2>2. CASE formatted' = formatted \cup {backing[pod[p].dev]} /\ Step(p, "mount")
    <3>. DEFINE s == [pod[p] EXCEPT !.at = "mount"]
    <3>1. s \in PodRecords /\ pod' = [pod EXCEPT ![p] = s] /\ backing' = backing
      BY <1>1, <1>11, <2>2 DEF MkfsXfs, Step, PodRecords, PodAts, StorageTypes
    <3>2. PodGood(p)'
      BY <1>1, <1>3, <1>11, <2>2, <3>1 DEF MkfsXfs, PodGood, PodRecords, StorageTypes
    <3>. QED  BY <1>1, <1>4, <2>2, <3>1, <3>2 DEF StorageTypes
  <2>. QED  BY <1>11, <2>1, <2>2 DEF MkfsXfs
<1>12. CASE MountProjectQuota(p)
  <2>. DEFINE f == backing[pod[p].dev]
  <2>0. backing' = backing /\ formatted' = formatted /\ pod[p].at = "mount"
    BY <1>12 DEF MountProjectQuota
  <2>1. CASE StartFails(p)
    BY <1>9, <2>0, <2>1
  <2>2. CASE f \in formatted /\ pod' = [pod EXCEPT ![p].at = "up", ![p].mounted = f]
    <3>. DEFINE s == [pod[p] EXCEPT !.at = "up", !.mounted = f]
    <3>0. f \in Files
      BY <1>1, <2>0 DEF PodGood, StorageTypes
    <3>1. s \in PodRecords /\ pod' = [pod EXCEPT ![p] = s]
      BY <1>1, <2>2, <3>0 DEF PodRecords, PodAts, StorageTypes
    <3>2. PodGood(p)'
      BY <1>1, <1>3, <2>0, <2>2, <3>1 DEF PodGood, PodRecords, StorageTypes
    <3>. QED  BY <1>1, <1>4, <2>0, <3>1, <3>2 DEF StorageTypes
  <2>. QED  BY <1>12, <2>1, <2>2 DEF MountProjectQuota
<1>13. CASE UseHostPath(p)
  <2>0. backing' = backing /\ formatted' = formatted /\ pod[p].at = "down" /\ StorageType[p] = "host-path"
    BY <1>13 DEF UseHostPath
  <2>1. CASE HostFits /\ Step(p, "up")
    <3>. DEFINE s == [pod[p] EXCEPT !.at = "up"]
    <3>1. s \in PodRecords /\ pod' = [pod EXCEPT ![p] = s]
      BY <1>1, <2>1 DEF Step, PodRecords, PodAts, StorageTypes
    <3>2. PodGood(p)'
      BY <1>1, <1>3, <2>0, <2>1, <3>1 DEF PodGood, PodRecords, StorageTypes
    <3>. QED  BY <1>1, <1>4, <2>0, <3>1, <3>2 DEF StorageTypes
  <2>2. CASE UNCHANGED pod
    <3>1. pod' = [pod EXCEPT ![p] = pod[p]]
      BY <1>1, <2>2 DEF StorageTypes
    <3>2. PodGood(p)'
      BY <1>1, <1>3, <2>0, <2>2 DEF PodGood
    <3>. QED  BY <1>1, <1>4, <2>0, <3>1, <3>2 DEF StorageTypes
  <2>. QED  BY <1>13, <2>1, <2>2 DEF UseHostPath, HostFits, AllocateHostPath, PrepareXfs, MountProjQuota
<1>. QED  BY <1>6, <1>7, <1>8, <1>10, <1>11, <1>12, <1>13

\* Recycling, crashes and new pods.
LEMMA StorageEnds ==
  ASSUME StorageInv, NEW p \in Pods, Recycle(p) \/ Crash(p) \/ Replaced(p)
  PROVE  StorageInv'
<1>1. StorageTypes /\ PodGood(p) /\ pod[p] \in PodRecords /\ DeletedGood
  BY DEF StorageInv, StorageTypes
<1>2. UNCHANGED <<hostDir, backing, formatted>> /\ HostFits' = HostFits
  BY DEF Recycle, Crash, Replaced, HostFits
<1>3. CASE Recycle(p)
  <2>. DEFINE s == [pod[p] EXCEPT !.at = "serving"]
  <2>0. UNCHANGED <<generation, deleted>> /\ FileOf(p)' = FileOf(p)
    BY <1>3 DEF Recycle, FileOf
  <2>1. s \in PodRecords /\ pod' = [pod EXCEPT ![p] = s]
    BY <1>1, <1>3 DEF Recycle, Step, PodRecords, PodAts, StorageTypes
  <2>2. PodGood(p)'
    BY <1>1, <1>2, <1>3, <2>0, <2>1 DEF Recycle, PodGood, PodRecords, StorageTypes
  <2>3. pod' \in [Pods -> PodRecords] /\ \A q \in Pods : PodGood(q)'
    BY <1>2, <2>0, <2>1, <2>2, PodMoves
  <2>. DEFINE R == {<<d, backing[d]>> : d \in {e \in GetLoopDeviceMap : Recyclable(e)}}
  <2>4. \A x \in R : x[2] \in deleted
    BY DEF Recyclable
  <2>5. recycler' = [recycler EXCEPT ![p] = R]
    BY <1>3 DEF Recycle
  <2>6. recycler' = [q \in Pods |-> recycler'[q]] /\ \A q \in Pods : recycler'[q] = IF q = p THEN R ELSE recycler[q]
    <3>. HIDE DEF R
    <3>. QED  BY <1>1, <2>5 DEF StorageTypes
  <2>7. DeletedGood'
    <3>. HIDE DEF R
    <3>. QED  BY <1>1, <2>0, <2>4, <2>6 DEF DeletedGood
  <2>. QED  BY <1>1, <1>2, <2>0, <2>3, <2>6, <2>7 DEF StorageInv, StorageTypes
<1>4. CASE Crash(p)
  <2>0. UNCHANGED <<generation, deleted>>
    BY <1>4 DEF Crash
  <2>1. Down \in PodRecords /\ pod' = [pod EXCEPT ![p] = Down] /\ pod'[p] = Down
    BY <1>1, <1>4 DEF Crash, StartFails, Down, PodRecords, PodAts, Files, StorageTypes
  <2>2. PodGood(p)'
    BY <2>1 DEF PodGood, Down
  <2>3. pod' \in [Pods -> PodRecords] /\ \A q \in Pods : PodGood(q)'
    BY <1>2, <2>0, <2>1, <2>2, PodMoves
  <2>4. recycler' = [q \in Pods |-> recycler'[q]] /\ \A q \in Pods : recycler'[q] \subseteq recycler[q]
    BY <1>1, <1>4 DEF Crash, StorageTypes
  <2>. QED  BY <1>1, <1>2, <2>0, <2>3, <2>4 DEF StorageInv, StorageTypes, DeletedGood
<1>5. CASE Replaced(p)
  <2>1. /\ UNCHANGED <<pod, recycler>> /\ pod[p].at = "down"
        /\ generation' = [generation EXCEPT ![p] = @ + 1] /\ deleted' = deleted \cup {FileOf(p)}
    BY <1>5 DEF Replaced
  <2>2. generation' \in [Pods -> Nat] /\ generation[p] \in Nat
    BY <1>1, <2>1 DEF StorageTypes
  <2>3. ASSUME NEW q \in Pods PROVE PodGood(q)'
    <3>1. CASE q = p
      BY <1>1, <2>1, <3>1 DEF PodGood
    <3>2. CASE q # p
      <4>1. FileOf(q)' = FileOf(q) /\ PodGood(q)
        BY <1>1, <2>1, <3>2 DEF StorageTypes, FileOf, StorageInv
      <4>. QED  BY <1>2, <2>1, <4>1 DEF PodGood
    <3>. QED  BY <3>1, <3>2
  <2>4. DeletedGood'
    <3>1. ASSUME NEW q \in Pods, NEW n \in Nat, n >= generation'[q] PROVE <<q, n>> \notin deleted'
      <4>1. n >= generation[q] /\ (q = p => n # generation[p])
        BY <1>1, <2>1, <2>2, <3>1 DEF StorageTypes
      <4>2. <<q, n>> \notin deleted
        BY <1>1, <4>1 DEF DeletedGood
      <4>3. <<q, n>> # FileOf(p)
        BY <4>1 DEF FileOf
      <4>. QED  BY <2>1, <4>2, <4>3
    <3>. QED  BY <1>1, <2>1, <3>1 DEF DeletedGood
  <2>. QED  BY <1>1, <1>2, <2>1, <2>2, <2>3, <2>4 DEF StorageInv, StorageTypes
<1>. QED  BY <1>3, <1>4, <1>5

\* What is detached is the file of no pod that exists, unless the device was reused: then its
\* pod has lost a race.
LEMMA StorageDetaches ==
  ASSUME StorageInv, NEW p \in Pods, NEW d \in LoopDevices, NEW f, Detach(p, d, f)
  PROVE  StorageInv'
<1>1. StorageTypes /\ DeletedGood
  BY DEF StorageInv
<1>2. UNCHANGED <<hostDir, generation, deleted, formatted>> /\ HostFits' = HostFits
  BY DEF Detach, HostFits
<1>3. f \in deleted
  BY <1>1 DEF Detach, DeletedGood
<1>4. ASSUME NEW q \in Pods PROVE f # FileOf(q) /\ FileOf(q)' = FileOf(q)
  BY <1>1, <1>2, <1>3 DEF DeletedGood, FileOf, StorageTypes
<1>5. backing' \in [LoopDevices -> Files] /\ \A e \in LoopDevices : e # d => backing'[e] = backing[e]
  BY <1>1 DEF Detach, StorageTypes, Files
<1>6. ASSUME NEW q \in Pods
      PROVE  /\ pod'[q] \in PodRecords /\ PodGood(q)'
  <2>1. pod[q] \in PodRecords /\ PodGood(q)
    BY <1>1 DEF StorageInv, StorageTypes
  <2>2. pod'[q] = IF pod[q].dev = d /\ pod[q].at \in {"mkfs", "mount"}
                    THEN [pod[q] EXCEPT !.raced = TRUE] ELSE pod[q]
    BY <1>4 DEF Detach
  <2>3. CASE pod[q].dev = d /\ pod[q].at \in {"mkfs", "mount"}
    <3>1. pod'[q] = [pod[q] EXCEPT !.raced = TRUE]
      BY <2>2, <2>3
    <3>. QED  BY <1>2, <1>4, <2>1, <2>3, <3>1 DEF PodGood, PodRecords
  <2>4. CASE ~(pod[q].dev = d /\ pod[q].at \in {"mkfs", "mount"})
    <3>1. pod'[q] = pod[q]
      BY <2>2, <2>4
    <3>. QED  BY <1>2, <1>4, <1>5, <2>1, <2>4, <3>1 DEF PodGood
  <2>. QED  BY <2>3, <2>4
<1>7. pod' \in [Pods -> PodRecords]
  BY <1>6 DEF Detach
<1>8. recycler' = [q \in Pods |-> recycler'[q]] /\ \A q \in Pods : recycler'[q] \subseteq recycler[q]
  BY <1>1 DEF Detach, StorageTypes
<1>9. DeletedGood'
  BY <1>1, <1>2, <1>8 DEF DeletedGood
<1>. QED  BY <1>1, <1>2, <1>5, <1>6, <1>7, <1>8, <1>9 DEF StorageInv, StorageTypes

\* A pod's temporary files are on its own file, formatted and with room, whatever other pods
\* of the host start, stop and recycle, unless it lost one of the two races of device/loop.
THEOREM StorageAlways ==
  StorageInit /\ [][StorageNext]_storageVars => [](StorageOwn /\ StorageFits)
<1>1. ASSUME StorageInit PROVE StorageInv
  <2>1. Down \in PodRecords /\ NoFile \in Files
    BY DEF Down, PodRecords, PodAts, Files
  <2>2. StorageTypes
    BY <1>1, <2>1 DEF StorageInit, StorageTypes
  <2>3. \A p \in Pods : PodGood(p)
    BY <1>1 DEF StorageInit, PodGood, Down
  <2>. QED  BY <1>1, <2>2, <2>3 DEF StorageInit, StorageInv, DeletedGood
<1>2. StorageInv /\ [StorageNext]_storageVars => StorageInv'
  <2>1. StorageInv /\ StorageNext => StorageInv'
    BY StorageStarts, StorageEnds, StorageDetaches DEF StorageNext
  <2>2. StorageInv /\ UNCHANGED storageVars => StorageInv'
    BY DEF StorageInv, StorageTypes, DeletedGood, PodGood, FileOf, HostFits, storageVars
  <2>. QED  BY <2>1, <2>2
<1>3. ASSUME StorageInv PROVE StorageOwn /\ StorageFits
  <2>1. ASSUME NEW p \in Pods PROVE PodGood(p) /\ StorageType[p] \in {"loop", "host-path"}
    BY <1>3, StorageAssumption DEF StorageInv
  <2>. QED  BY <2>1 DEF PodGood, StorageOwn, StorageFits, HostFits
<1>. QED  BY <1>1, <1>2, <1>3, PTL

-----------------------------------------------------------------------------
(* Temporary files and project IDs *)

Lines == Nat \X TmpPaths
TmpPcs == {"down", "paths", "id", "file", "project", "map", "limit", "rollback", "up"}
Allocs == [pc : TmpPcs, path : TmpPaths \cup {NoTmpPath}, id : Nat, gen : Nat]
Removals == [pc : {"none", "file", "map", "push", "erase"}, path : TmpPaths \cup {NoTmpPath}, id : Nat]

QuotaTypes ==
  /\ projectsFile \in Seq(Lines) /\ projIDPool \in Seq(Nat)
  /\ pathIDs \in [DOMAIN pathIDs -> Nat] /\ DOMAIN pathIDs \subseteq TmpPaths
  /\ tmpDirs \subseteq TmpPaths
  /\ kernel \in [project : [TmpPaths -> Nat], limited : SUBSET Nat]
  /\ current \in [TmpContainers -> TmpPaths \cup {NoTmpPath}]
  /\ alloc \in [TmpContainers -> Allocs]
  /\ removal \in [Removers -> Removals]
  /\ recycle \in [pc : {"idle", "sync", "list", "decide", "remove"}, round : Nat,
                  snapshot : Seq(Lines), todo : SUBSET TmpPaths, list : SUBSET TmpPaths]
  /\ strayed \in BOOLEAN /\ tmpFaults \in Nat

\* No two lines are of the same path.
OnePerPath(s) == \A i, j \in 1..Len(s) : s[i][2] = s[j][2] => i = j

\* The container's directory has been generated, and its init still knows it.
Made(c) == alloc[c].pc \in {"id", "file", "project", "map", "limit", "rollback", "up"}

\* The path that a container has is the last one generated for it.
PathGood(c) ==
  /\ alloc[c].gen <= Generations[c]
  /\ Made(c) => alloc[c].path = <<c, alloc[c].gen>> /\ current[c] = alloc[c].path /\ current[c] \in tmpDirs
  /\ alloc[c].pc = "paths" => current[c] = NoTmpPath /\ alloc[c].gen < Generations[c]
  /\ current[c] # NoTmpPath => current[c] = <<c, alloc[c].gen>>

\* What is written down anywhere is a path that has been generated, ...
Old(p) == p[2] <= alloc[p[1]].gen

KnownAreOld ==
  /\ \A l \in Lines : Contains(projectsFile, l) \/ Contains(recycle.snapshot, l) => Old(l[2])
  /\ \A p \in DOMAIN pathIDs \cup recycle.todo \cup recycle.list : Old(p)
  /\ \A p \in recycle.list : p # current[p[1]]

\* ... and only a rollback removes a path that is not outdated, which it does before the
\* container is up.
RemovalGood(a) ==
  removal[a].pc # "none" =>
    /\ removal[a].path \in TmpPaths /\ Old(removal[a].path)
    /\ removal[a].path = current[removal[a].path[1]] =>
         LET c == removal[a].path[1] IN a = Rollback(c) /\ alloc[c].pc = "rollback"
    /\ \A c \in TmpContainers : a = Rollback(c) =>
         /\ alloc[c].pc = "rollback" /\ removal[a].path = alloc[c].path /\ removal[a].pc # "erase"
    /\ removal[a].pc = "map" => \A l \in Lines : Contains(projectsFile, l) => l[2] # removal[a].path

\* All that is written down of the path that a container has says the ID that its init took.
LineGood(c) ==
  /\ alloc[c].pc \in {"project", "map", "limit", "up"} => Contains(projectsFile, <<alloc[c].id, alloc[c].path>>)
  /\ Made(c) =>
       /\ \A l \in Lines : (Contains(projectsFile, l) \/ Contains(recycle.snapshot, l)) /\ l[2] = alloc[c].path =>
            l[1] = alloc[c].id /\ alloc[c].pc \notin {"id", "file"}
       /\ alloc[c].path \in DOMAIN pathIDs =>
            pathIDs[alloc[c].path] = alloc[c].id /\ alloc[c].pc \notin {"id", "file"}
  /\ alloc[c].pc \in {"map", "limit", "up"} => kernel.project[alloc[c].path] = alloc[c].id
  /\ alloc[c].pc = "up" => alloc[c].id \in kernel.limited

\* An ID belongs to a path, to an init that has not written it down yet, or to a removal
\* that has taken it from the map.
OfPath(x, p) == Contains(projectsFile, <<x, p>>) \/ (p \in DOMAIN pathIDs /\ pathIDs[p] = x)
OfAlloc(x, c) == alloc[c].pc = "file" /\ alloc[c].id = x
OfRemoval(x, a) == removal[a].pc = "push" /\ removal[a].id = x

\* It has one owner, or is in the pool once.
IdGood(x) ==
  /\ Once(projIDPool, x)
  /\ x = 0 \/ Contains(projIDPool, x) =>
       /\ \A p \in TmpPaths : ~OfPath(x, p)
       /\ \A c \in TmpContainers : ~OfAlloc(x, c)
       /\ \A a \in Removers : ~OfRemoval(x, a)
  /\ ~Contains(projIDPool, 0)
  /\ \A p \in TmpPaths : OfPath(x, p) =>
       /\ \A q \in TmpPaths : OfPath(x, q) => p = q
       /\ \A c \in TmpContainers : ~OfAlloc(x, c)
       /\ \A a \in Removers : ~OfRemoval(x, a)
  /\ \A c \in TmpContainers : OfAlloc(x, c) =>
       /\ \A d \in TmpContainers : OfAlloc(x, d) => c = d
       /\ \A a \in Removers : ~OfRemoval(x, a)
  /\ \A a, b \in Removers : OfRemoval(x, a) /\ OfRemoval(x, b) => a = b

QuotaInv ==
  /\ QuotaTypes /\ OnePerPath(projectsFile) /\ OnePerPath(recycle.snapshot) /\ KnownAreOld
  /\ \A c \in TmpContainers : PathGood(c) /\ LineGood(c)
  /\ \A a \in Removers : RemovalGood(a)
  /\ ~strayed => \A x \in Nat : IdGood(x)

-----------------------------------------------------------------------------
(* The lines of the file *)

\* The recursion of WithoutLines, for the lines s and the path p.
LeavesOut(f, s, p) ==
  f = [i \in 0..Len(s) |->
         IF i = 0 THEN << >> ELSE IF s[i][2] = p THEN f[i - 1] ELSE Append(f[i - 1], s[i])]

\* It has one solution.
LEMMA LeavesOutUnique ==
  ASSUME NEW S, NEW s \in Seq(S), NEW p, NEW f, NEW g, LeavesOut(f, s, p), LeavesOut(g, s, p)
  PROVE  f[Len(s)] = g[Len(s)]
<1>. DEFINE T == {i \in 0..Len(s) : f[i] # g[i]}
<1>1. Len(s) \in Nat
  OBVIOUS
<1>2. ASSUME T # {} PROVE FALSE
  <2>1. T \subseteq Nat
    BY <1>1
  <2>2. PICK i \in T : \A j \in T : i <= j
    BY <1>2, <2>1, LeastElement
  <2>3. \A k \in 0..Len(s) :
          /\ f[k] = IF k = 0 THEN << >> ELSE IF s[k][2] = p THEN f[k - 1] ELSE Append(f[k - 1], s[k])
          /\ g[k] = IF k = 0 THEN << >> ELSE IF s[k][2] = p THEN g[k - 1] ELSE Append(g[k - 1], s[k])
    BY <1>1 DEF LeavesOut
  <2>4. i \in 0..Len(s) /\ f[i] # g[i]
    OBVIOUS
  <2>5. i # 0
    BY <2>3, <2>4
  <2>6. i - 1 \in 0..Len(s) /\ ~(i <= i - 1)
    BY <1>1, <2>4, <2>5
  <2>7. f[i - 1] = g[i - 1]
    BY <2>2, <2>6
  <2>. QED  BY <2>3, <2>4, <2>5, <2>7
<1>3. Len(s) \in 0..Len(s)
  BY <1>1
<1>. QED  BY <1>2, <1>3

\* When the path has one line, at k, or none, the solution can be written down.
LEMMA LeavesOutExists ==
  ASSUME NEW S, NEW s \in Seq(S), NEW p
  PROVE  /\ (\A i \in 1..Len(s) : s[i][2] # p) => \E f : LeavesOut(f, s, p) /\ f[Len(s)] = s
         /\ \A k \in 1..Len(s) :
              s[k][2] = p /\ (\A i \in 1..Len(s) : s[i][2] = p => i = k) =>
                \E f : LeavesOut(f, s, p) /\ f[Len(s)] = RemoveAt(s, k)
<1>. DEFINE n == Len(s)
<1>1. n \in Nat
  OBVIOUS
<1>2. ASSUME NEW i \in 1..n
      PROVE  SubSeq(s, 1, i) = Append(SubSeq(s, 1, i - 1), s[i])
  BY <1>1, <1>2, SubSeqRecursiveSecond
<1>3. SubSeq(s, 1, 0) = << >>
  BY <1>1, SubSeqEmpty
<1>4. SubSeq(s, 1, n) = s
  BY SubSeqFull
<1>5. ASSUME \A i \in 1..n : s[i][2] # p
      PROVE  \E f : LeavesOut(f, s, p) /\ f[n] = s
  <2>. DEFINE f == [i \in 0..n |-> SubSeq(s, 1, i)]
  <2>1. ASSUME NEW i \in 0..n, i # 0
        PROVE  SubSeq(s, 1, i) = IF s[i][2] = p THEN f[i - 1] ELSE Append(f[i - 1], s[i])
    <3>1. i \in 1..n /\ i - 1 \in 0..n
      BY <1>1, <2>1
    <3>. QED  BY <1>2, <1>5, <3>1
  <2>2. LeavesOut(f, s, p)
    BY <1>1, <1>3, <2>1 DEF LeavesOut
  <2>3. f[n] = s
    BY <1>1, <1>4
  <2>. QED  BY <2>2, <2>3
<1>6. ASSUME NEW k \in 1..n, s[k][2] = p, \A i \in 1..n : s[i][2] = p => i = k
      PROVE  \E f : LeavesOut(f, s, p) /\ f[n] = RemoveAt(s, k)
  <2>. DEFINE a == SubSeq(s, 1, k - 1)
              f == [i \in 0..n |-> IF i < k THEN SubSeq(s, 1, i) ELSE a \o SubSeq(s, k + 1, i)]
  <2>0. k \in Nat /\ k >= 1 /\ k <= n /\ a \in Seq(S)
    BY <1>1, SubSeqProperties
  <2>1. ASSUME NEW i \in 0..n, i # 0
        PROVE  f[i] = IF s[i][2] = p THEN f[i - 1] ELSE Append(f[i - 1], s[i])
    <3>1. i \in 1..n /\ i - 1 \in 0..n /\ (s[i][2] = p <=> i = k)
      BY <1>1, <1>6, <2>1
    <3>2. CASE i < k
      <4>1. f[i] = SubSeq(s, 1, i) /\ f[i - 1] = SubSeq(s, 1, i - 1)
        BY <1>1, <2>0, <3>1, <3>2
      <4>2. i # k
        BY <2>0, <3>1, <3>2
      <4>. HIDE DEF f
      <4>. QED  BY <1>2, <3>1, <4>1, <4>2
    <3>3. CASE i = k
      <4>1. f[i] = a \o SubSeq(s, k + 1, k) /\ f[i - 1] = a
        BY <1>1, <2>0, <3>1, <3>3, SMTT(30)
      <4>2. SubSeq(s, k + 1, k) = << >>
        BY <1>1, <2>0, SubSeqEmpty
      <4>3. a \o << >> = a
        BY <2>0, ConcatEmptySeq
      <4>. QED  BY <3>1, <3>3, <4>1, <4>2, <4>3
    <3>4. CASE i > k
      <4>1. f[i] = a \o SubSeq(s, k + 1, i) /\ f[i - 1] = a \o SubSeq(s, k + 1, i - 1)
        BY <1>1, <2>0, <3>1, <3>4
      <4>. DEFINE b == SubSeq(s, k + 1, i - 1)
      <4>2. b \in Seq(S) /\ s[i] \in S
        BY <1>1, <2>0, <3>1, <3>4, SubSeqProperties
      <4>3. SubSeq(s, k + 1, i) = Append(b, s[i])
        BY <1>1, <2>0, <3>1, <3>4, SubSeqRecursiveSecond
      <4>4. a \o Append(b, s[i]) = Append(a \o b, s[i])
        <5>. HIDE DEF a, b
        <5>1. <<s[i]>> \in Seq(S) /\ a \o b \in Seq(S)
          BY <2>0, <4>2
        <5>2. Append(b, s[i]) = b \o <<s[i]>> /\ Append(a \o b, s[i]) = (a \o b) \o <<s[i]>>
          BY <4>2, <5>1, AppendIsConcat
        <5>. QED  BY <2>0, <4>2, <5>1, <5>2, ConcatAssociative
      <4>5. i # k
        BY <2>0, <3>1, <3>4
      <4>. HIDE DEF f, a
      <4>. QED  BY <3>1, <4>1, <4>3, <4>4, <4>5
    <3>. QED  BY <1>1, <2>0, <3>1, <3>2, <3>3, <3>4
  <2>2. f[0] = << >>
    BY <1>1, <1>3, <2>0
  <2>3. f = [i \in 0..Len(s) |->
               IF i = 0 THEN << >> ELSE IF s[i][2] = p THEN f[i - 1] ELSE Append(f[i - 1], s[i])]
    <3>. HIDE DEF a
    <3>. QED  BY <2>1, <2>2
  <2>4. f[n] = RemoveAt(s, k)
    <3>0. n \in 0..n /\ ~(n < k)
      BY <1>1, <2>0
    <3>1. f[n] = a \o SubSeq(s, k + 1, n)
      <4>. HIDE DEF a, n
      <4>. QED  BY <3>0
    <3>. HIDE DEF f
    <3>. QED  BY <3>1 DEF RemoveAt
  <2>. QED  BY <2>3, <2>4 DEF LeavesOut
<1>. QED  BY <1>5, <1>6

LEMMA TmpPathFacts ==
  /\ \A p \in TmpPaths : /\ p[1] \in TmpContainers /\ p[2] \in Nat /\ p[2] <= Generations[p[1]]
                         /\ p = <<p[1], p[2]>> /\ p # NoTmpPath
  /\ \A c \in TmpContainers, n \in Nat : n <= Generations[c] => <<c, n>> \in TmpPaths
<1>1. \A c \in TmpContainers : Generations[c] \in Nat
  BY TmpQuotaAssumption
<1>2. ASSUME NEW p \in TmpPaths
      PROVE  /\ p[1] \in TmpContainers /\ p[2] \in Nat /\ p[2] <= Generations[p[1]]
             /\ p = <<p[1], p[2]>> /\ p # NoTmpPath
  <2>1. PICK c \in TmpContainers : p \in {c} \X (0..Generations[c])
    BY DEF TmpPaths
  <2>2. p[1] = c /\ p[2] \in 0..Generations[c] /\ p = <<p[1], p[2]>>
    BY <2>1
  <2>3. p # NoTmpPath
    <3>1. Len(<<p[1], p[2]>>) = 2 /\ Len(<< >>) = 0
      OBVIOUS
    <3>. QED  BY <2>2, <3>1 DEF NoTmpPath
  <2>. QED  BY <1>1, <2>2, <2>3
<1>3. ASSUME NEW c \in TmpContainers, NEW n \in Nat, n <= Generations[c]
      PROVE  <<c, n>> \in TmpPaths
  <2>1. <<c, n>> \in {c} \X (0..Generations[c])
    BY <1>1, <1>3
  <2>. QED  BY <2>1 DEF TmpPaths
<1>. QED  BY <1>2, <1>3

LEMMA RemoverFacts ==
  /\ Recycler \in Removers /\ \A p \in TmpPaths : Resetter(p) \in Removers /\ Recycler # Resetter(p)
  /\ \A c \in TmpContainers : /\ Rollback(c) \in Removers /\ Recycler # Rollback(c)
                              /\ \A p : Rollback(c) # Resetter(p)
                              /\ \A d : Rollback(c) = Rollback(d) => c = d
BY DEF Removers, Recycler, Resetter, Rollback

\* One line per path, as a fact about the lines instead of their places.
LEMMA OnePerPathFacts ==
  ASSUME NEW s \in Seq(Lines)
  PROVE  OnePerPath(s) <=>
           /\ \A l \in Lines : Once(s, l)
           /\ \A l, m \in Lines : Contains(s, l) /\ Contains(s, m) /\ l[2] = m[2] => l = m
<1>1. \A i \in 1..Len(s) : s[i] \in Lines
  OBVIOUS
<1>2. ASSUME OnePerPath(s), NEW l \in Lines PROVE Once(s, l)
  BY <1>2 DEF OnePerPath, Once
<1>3. ASSUME OnePerPath(s), NEW l \in Lines, NEW m \in Lines, Contains(s, l), Contains(s, m), l[2] = m[2]
      PROVE  l = m
  BY <1>3 DEF OnePerPath, Contains
<1>4. ASSUME \A l \in Lines : Once(s, l),
             \A l, m \in Lines : Contains(s, l) /\ Contains(s, m) /\ l[2] = m[2] => l = m,
             NEW i \in 1..Len(s), NEW j \in 1..Len(s), s[i][2] = s[j][2]
      PROVE  i = j
  <2>1. s[i] \in Lines /\ s[j] \in Lines /\ Contains(s, s[i]) /\ Contains(s, s[j])
    BY <1>1 DEF Contains
  <2>2. s[i] = s[j] /\ Once(s, s[i])
    BY <1>4, <2>1
  <2>. QED  BY <2>2 DEF Once
<1>. QED  BY <1>2, <1>3, <1>4 DEF OnePerPath

\* What removeFromFile leaves.
LEMMA WithoutFacts ==
  ASSUME projectsFile \in Seq(Lines), OnePerPath(projectsFile), NEW p
  PROVE  /\ WithoutLines(p) \in Seq(Lines) /\ OnePerPath(WithoutLines(p))
         /\ \A l \in Lines : Contains(WithoutLines(p), l) <=> Contains(projectsFile, l) /\ l[2] # p
<1>. DEFINE s == projectsFile
            left == CHOOSE f : LeavesOut(f, s, p)
<1>1. WithoutLines(p) = left[Len(s)]
  BY DEF WithoutLines, LeavesOut
<1>2. CASE \A i \in 1..Len(s) : s[i][2] # p
  <2>1. PICK f : LeavesOut(f, s, p) /\ f[Len(s)] = s
    BY <1>2, LeavesOutExists
  <2>2. LeavesOut(left, s, p)
    BY <2>1
  <2>3. left[Len(s)] = s
    <3>. HIDE DEF left
    <3>. QED  BY <2>1, <2>2, LeavesOutUnique
  <2>4. \A l \in Lines : Contains(s, l) => l[2] # p
    BY <1>2 DEF Contains
  <2>. HIDE DEF left
  <2>. QED  BY <1>1, <2>3, <2>4
<1>3. ASSUME NEW k \in 1..Len(s), s[k][2] = p
      PROVE  /\ WithoutLines(p) \in Seq(Lines) /\ OnePerPath(WithoutLines(p))
             /\ \A l \in Lines : Contains(WithoutLines(p), l) <=> Contains(projectsFile, l) /\ l[2] # p
  <2>0. \A i \in 1..Len(s) : s[i][2] = p => i = k
    BY <1>3 DEF OnePerPath
  <2>1. PICK f : LeavesOut(f, s, p) /\ f[Len(s)] = RemoveAt(s, k)
    <3>1. s[k][2] = p /\ (\A i \in 1..Len(s) : s[i][2] = p => i = k) =>
            \E f : LeavesOut(f, s, p) /\ f[Len(s)] = RemoveAt(s, k)
      BY <1>1, LeavesOutExists, Zenon
    <3>. QED  BY <1>3, <2>0, <3>1, Zenon
  <2>2. LeavesOut(left, s, p)
    BY <2>1
  <2>3. left[Len(s)] = RemoveAt(s, k)
    <3>. HIDE DEF left
    <3>. QED  BY <2>1, <2>2, LeavesOutUnique
  <2>. DEFINE r == RemoveAt(s, k)
  <2>4. ASSUME NEW l \in Lines
        PROVE  /\ Contains(s, l) <=> Contains(r, l) \/ l = s[k]
               /\ Once(s, l) => Once(r, l)
               /\ Once(s, l) /\ l = s[k] => ~Contains(r, l)
    BY RemoveAtFacts
  <2>5. r \in Seq(Lines)
    BY RemoveAtFacts
  <2>6. /\ \A l \in Lines : Once(s, l)
        /\ \A l, m \in Lines : Contains(s, l) /\ Contains(s, m) /\ l[2] = m[2] => l = m
    BY OnePerPathFacts
  <2>7. s[k] \in Lines /\ Contains(s, s[k])
    BY DEF Contains
  <2>. HIDE DEF r, left, s
  <2>8. OnePerPath(r)
    BY <2>4, <2>5, <2>6, OnePerPathFacts
  <2>9. \A l \in Lines : Contains(r, l) <=> Contains(s, l) /\ l[2] # p
    BY <1>3, <2>4, <2>6, <2>7
  <2>10. WithoutLines(p) = r
    BY <1>1, <2>3 DEF r
  <2>. QED  BY <2>5, <2>8, <2>9, <2>10 DEF s
<1>. QED  BY <1>2, <1>3

\* What addToFile adds.
LEMMA AddedFacts ==
  ASSUME projectsFile \in Seq(Lines), OnePerPath(projectsFile), NEW l \in Lines,
         \A m \in Lines : Contains(projectsFile, m) => m[2] # l[2]
  PROVE  /\ Append(projectsFile, l) \in Seq(Lines) /\ OnePerPath(Append(projectsFile, l))
         /\ \A m \in Lines : Contains(Append(projectsFile, l), m) <=> Contains(projectsFile, m) \/ m = l
<1>. DEFINE s == projectsFile
            r == Append(s, l)
<1>1. ASSUME NEW m \in Lines
      PROVE  /\ r \in Seq(Lines)
             /\ Contains(r, m) <=> Contains(s, m) \/ m = l
             /\ Once(s, m) /\ (m = l => ~Contains(s, m)) => Once(r, m)
  BY AppendFacts
<1>2. /\ \A m \in Lines : Once(s, m)
      /\ \A k, m \in Lines : Contains(s, k) /\ Contains(s, m) /\ k[2] = m[2] => k = m
  BY OnePerPathFacts
<1>. HIDE DEF r
<1>3. OnePerPath(r)
  BY <1>1, <1>2, OnePerPathFacts
<1>. QED  BY <1>1, <1>3 DEF r

-----------------------------------------------------------------------------
(* What a step must respect *)

LEMMA LineStays ==
  ASSUME QuotaInv, NEW d \in TmpContainers, alloc'[d] = alloc[d],
         Made(d) =>
           /\ \A l \in Lines : l[2] = alloc[d].path =>
                /\ Contains(projectsFile, l) /\ alloc[d].pc # "rollback" => Contains(projectsFile', l)
                /\ Contains(projectsFile', l) \/ Contains(recycle'.snapshot, l) =>
                     Contains(projectsFile, l) \/ Contains(recycle.snapshot, l)
           /\ alloc[d].path \in DOMAIN pathIDs' =>
                \/ alloc[d].path \in DOMAIN pathIDs /\ pathIDs'[alloc[d].path] = pathIDs[alloc[d].path]
                \/ <<pathIDs'[alloc[d].path], alloc[d].path>> \in Lines
                   /\ Contains(recycle.snapshot, <<pathIDs'[alloc[d].path], alloc[d].path>>)
           /\ kernel'.project[alloc[d].path] = kernel.project[alloc[d].path],
         kernel.limited \subseteq kernel'.limited
  PROVE  LineGood(d)'
<1>1. LineGood(d) /\ PathGood(d) /\ alloc[d] \in Allocs
  BY DEF QuotaInv, QuotaTypes
<1>2. Made(d) => alloc[d].path \in TmpPaths /\ <<alloc[d].id, alloc[d].path>> \in Lines
  BY <1>1, TmpPathFacts DEF PathGood, Allocs, Lines
<1>3. Made(d)' <=> Made(d)
  BY DEF Made
<1>4. alloc[d].pc \in {"project", "map", "limit", "up"} => Made(d) /\ Contains(projectsFile', <<alloc[d].id, alloc[d].path>>)
  BY <1>1, <1>2 DEF LineGood, Made
<1>5. ASSUME Made(d)
      PROVE  /\ \A l \in Lines : (Contains(projectsFile', l) \/ Contains(recycle'.snapshot, l)) /\ l[2] = alloc[d].path =>
                  l[1] = alloc[d].id /\ alloc[d].pc \notin {"id", "file"}
             /\ alloc[d].path \in DOMAIN pathIDs' =>
                  pathIDs'[alloc[d].path] = alloc[d].id /\ alloc[d].pc \notin {"id", "file"}
  <2>1. \A l \in Lines : (Contains(projectsFile, l) \/ Contains(recycle.snapshot, l)) /\ l[2] = alloc[d].path =>
          l[1] = alloc[d].id /\ alloc[d].pc \notin {"id", "file"}
    BY <1>1, <1>5 DEF LineGood
  <2>2. alloc[d].path \in DOMAIN pathIDs => pathIDs[alloc[d].path] = alloc[d].id /\ alloc[d].pc \notin {"id", "file"}
    BY <1>1, <1>5 DEF LineGood
  <2>. QED  BY <1>5, <2>1, <2>2
<1>6. alloc[d].pc \in {"map", "limit", "up"} => Made(d) /\ kernel'.project[alloc[d].path] = alloc[d].id
  BY <1>1 DEF LineGood, Made
<1>7. alloc[d].pc = "up" => alloc[d].id \in kernel'.limited
  BY <1>1 DEF LineGood
<1>. QED  BY <1>3, <1>4, <1>5, <1>6, <1>7 DEF LineGood

LEMMA RemovalStays ==
  ASSUME QuotaInv, NEW a \in Removers, removal'[a] = removal[a],
         removal[a].pc # "none" =>
           /\ Old(removal[a].path)'
           /\ removal[a].path = current'[removal[a].path[1]] => removal[a].path = current[removal[a].path[1]]
           /\ \A c \in TmpContainers : alloc[c].pc = "rollback" /\ (a = Rollback(c) \/ c = removal[a].path[1]) =>
                alloc'[c] = alloc[c]
           /\ \A l \in Lines : Contains(projectsFile', l) /\ l[2] = removal[a].path => Contains(projectsFile, l)
  PROVE  RemovalGood(a)'
<1>1. RemovalGood(a)
  BY DEF QuotaInv
<1>2. CASE removal[a].pc = "none"
  BY <1>2 DEF RemovalGood
<1>3. CASE removal[a].pc # "none"
  <2>1. removal[a].path[1] \in TmpContainers
    BY <1>1, <1>3, TmpPathFacts DEF RemovalGood
  <2>2. /\ removal[a].path \in TmpPaths
        /\ removal[a].path = current[removal[a].path[1]] =>
             a = Rollback(removal[a].path[1]) /\ alloc[removal[a].path[1]].pc = "rollback"
        /\ \A c \in TmpContainers : a = Rollback(c) =>
             /\ alloc[c].pc = "rollback" /\ removal[a].path = alloc[c].path /\ removal[a].pc # "erase"
        /\ removal[a].pc = "map" => \A l \in Lines : Contains(projectsFile, l) => l[2] # removal[a].path
    BY <1>1, <1>3 DEF RemovalGood
  <2>3. removal[a].path = current'[removal[a].path[1]] =>
          a = Rollback(removal[a].path[1]) /\ alloc'[removal[a].path[1]].pc = "rollback"
    BY <1>3, <2>1, <2>2
  <2>4. \A c \in TmpContainers : a = Rollback(c) =>
          /\ alloc'[c].pc = "rollback" /\ removal[a].path = alloc'[c].path /\ removal[a].pc # "erase"
    BY <1>3, <2>2
  <2>5. removal[a].pc = "map" => \A l \in Lines : Contains(projectsFile', l) => l[2] # removal[a].path
    BY <1>3, <2>2
  <2>. QED  BY <1>3, <2>2, <2>3, <2>4, <2>5 DEF RemovalGood
<1>. QED  BY <1>2, <1>3

\* IDs that lose owners, and get none, are as good as before.
LEMMA OwnersStay ==
  ASSUME QuotaInv, ~strayed', projIDPool' = projIDPool, ~strayed,
         \A x \in Nat :
           /\ \A p \in TmpPaths : OfPath(x, p)' => OfPath(x, p)
           /\ \A c \in TmpContainers : OfAlloc(x, c)' => OfAlloc(x, c)
           /\ \A a \in Removers : OfRemoval(x, a)' => OfRemoval(x, a)
  PROVE  \A x \in Nat : IdGood(x)'
<1>. SUFFICES ASSUME NEW x \in Nat PROVE IdGood(x)'
  OBVIOUS
<1>1. IdGood(x)
  BY DEF QuotaInv
<1>. QED  BY <1>1 DEF IdGood

\* Paths of different containers are different, and so are those of containers and what
\* removals work on.
LEMMA MadeFacts ==
  ASSUME QuotaInv, NEW c \in TmpContainers, Made(c)
  PROVE  /\ alloc[c].path \in TmpPaths /\ alloc[c].path[1] = c /\ alloc[c].path = current[c]
         /\ alloc[c].path[2] = alloc[c].gen /\ alloc[c].path # NoTmpPath
         /\ <<alloc[c].id, alloc[c].path>> \in Lines
         /\ \A d \in TmpContainers : Made(d) /\ d # c => alloc[d].path # alloc[c].path
         /\ \A a \in Removers : removal[a].pc # "none" /\ alloc[c].pc # "rollback" => removal[a].path # alloc[c].path
<1>1. \A d \in TmpContainers : PathGood(d) /\ alloc[d] \in Allocs
  BY DEF QuotaInv, QuotaTypes
<1>2. \A d \in TmpContainers : Made(d) => alloc[d].path = <<d, alloc[d].gen>> /\ current[d] = alloc[d].path
  BY <1>1 DEF PathGood
<1>3. alloc[c].path \in TmpPaths /\ alloc[c].path # NoTmpPath
  <2>1. alloc[c].gen \in Nat /\ alloc[c].gen <= Generations[c]
    BY <1>1 DEF PathGood, Allocs
  <2>2. <<c, alloc[c].gen>> \in TmpPaths
    BY <2>1, TmpPathFacts
  <2>. QED  BY <1>2, <2>2, TmpPathFacts
<1>4. <<alloc[c].id, alloc[c].path>> \in Lines
  BY <1>1, <1>3 DEF Allocs, Lines
<1>5. ASSUME NEW a \in Removers, removal[a].pc # "none", removal[a].path = alloc[c].path
      PROVE  alloc[c].pc = "rollback"
  <2>1. RemovalGood(a) /\ removal[a].path[1] = c /\ removal[a].path = current[c]
    BY <1>2, <1>5 DEF QuotaInv
  <2>. QED  BY <1>5, <2>1 DEF RemovalGood
<1>. QED  BY <1>2, <1>3, <1>4, <1>5

\* An init goes on with the path it has.
LEMMA InitMoves ==
  ASSUME QuotaInv, NEW c \in TmpContainers, Made(c), alloc[c].pc # "rollback",
         NEW s \in Allocs, alloc' = [alloc EXCEPT ![c] = s],
         s.path = alloc[c].path, s.gen = alloc[c].gen, s.pc # "paths",
         UNCHANGED <<current, tmpDirs>>
  PROVE  /\ alloc' \in [TmpContainers -> Allocs] /\ alloc'[c] = s
         /\ \A d \in TmpContainers : PathGood(d)' /\ (d # c => alloc'[d] = alloc[d])
         /\ \A p \in TmpPaths : Old(p)' <=> Old(p)
<1>1. alloc \in [TmpContainers -> Allocs] /\ \A d \in TmpContainers : PathGood(d)
  BY DEF QuotaInv, QuotaTypes
<1>2. alloc' \in [TmpContainers -> Allocs] /\ alloc'[c] = s /\ \A d \in TmpContainers : d # c => alloc'[d] = alloc[d]
  BY <1>1
<1>3. \A p \in TmpPaths : Old(p)' <=> Old(p)
  BY <1>2, TmpPathFacts DEF Old
<1>4. \A d \in TmpContainers : d # c => PathGood(d)'
  BY <1>1, <1>2 DEF PathGood, Made
<1>5. PathGood(c)'
  BY <1>1, <1>2 DEF PathGood, Made
<1>. QED  BY <1>2, <1>3, <1>4, <1>5

LEMMA getNextProjectIDStep ==
  ASSUME QuotaInv, NEW c \in TmpContainers, getNextProjectID(c)
  PROVE  QuotaInv'
<1>. DEFINE x == Head(projIDPool)
            s == [alloc[c] EXCEPT !.pc = "file", !.id = x]
<1>1. /\ alloc[c].pc = "id" /\ projIDPool # << >> /\ projIDPool' = Tail(projIDPool)
      /\ UNCHANGED <<projectsFile, pathIDs, tmpDirs, kernel, current, removal, recycle, strayed, tmpFaults>>
  BY DEF getNextProjectID, At
<1>2. QuotaTypes /\ alloc[c] \in Allocs /\ Made(c) /\ LineGood(c)
  BY <1>1 DEF QuotaInv, QuotaTypes, Made
<1>3. x \in Nat /\ Tail(projIDPool) \in Seq(Nat)
  BY <1>1, <1>2 DEF QuotaTypes
<1>4. alloc' = [alloc EXCEPT ![c] = s] /\ s \in Allocs /\ s.pc = "file" /\ s.path = alloc[c].path /\ s.gen = alloc[c].gen /\ s.id = x
  BY <1>2, <1>3 DEF getNextProjectID, Allocs, TmpPcs
<1>. HIDE DEF s, x
<1>5. /\ alloc' \in [TmpContainers -> Allocs] /\ alloc'[c] = s
      /\ \A d \in TmpContainers : PathGood(d)' /\ (d # c => alloc'[d] = alloc[d])
      /\ \A p \in TmpPaths : Old(p)' <=> Old(p)
  BY <1>1, <1>2, <1>4, InitMoves
<1>6. QuotaTypes' /\ OnePerPath(projectsFile)' /\ OnePerPath(recycle.snapshot)'
  BY <1>1, <1>2, <1>3, <1>5 DEF QuotaInv, QuotaTypes, OnePerPath
<1>7. KnownAreOld'
  BY <1>1, <1>2, <1>5 DEF QuotaInv, KnownAreOld, QuotaTypes, Lines
<1>8. ASSUME NEW d \in TmpContainers PROVE LineGood(d)'
  <2>1. CASE d # c
    BY <1>1, <1>5, <2>1, LineStays
  <2>2. CASE d = c
    BY <1>1, <1>2, <1>4, <1>5, <2>2 DEF LineGood, Made
  <2>. QED  BY <2>1, <2>2
<1>9. ASSUME NEW a \in Removers PROVE RemovalGood(a)'
  <2>1. RemovalGood(a)
    BY DEF QuotaInv
  <2>. QED  BY <1>1, <1>5, <2>1, RemovalStays DEF RemovalGood
<1>10. ASSUME ~strayed', NEW y \in Nat PROVE IdGood(y)'
  <2>1. ~strayed /\ IdGood(y) /\ IdGood(x)
    BY <1>1, <1>3, <1>10 DEF QuotaInv
  <2>2. /\ \A p \in TmpPaths : OfPath(y, p)' <=> OfPath(y, p)
        /\ \A a \in Removers : OfRemoval(y, a)' <=> OfRemoval(y, a)
    BY <1>1 DEF OfPath, OfRemoval
  <2>3. \A d \in TmpContainers : OfAlloc(y, d)' => OfAlloc(y, d) \/ (d = c /\ y = x)
    BY <1>4, <1>5 DEF OfAlloc
  <2>4. /\ Contains(projIDPool, y) <=> Contains(Tail(projIDPool), y) \/ y = x
        /\ Once(projIDPool, y) => Once(Tail(projIDPool), y)
        /\ Once(projIDPool, y) /\ y = x => ~Contains(Tail(projIDPool), y)
    BY <1>1, <1>2, TailFacts DEF QuotaTypes, x
  <2>5. /\ Contains(projIDPool, 0) <=> Contains(Tail(projIDPool), 0) \/ 0 = x
    BY <1>1, <1>2, TailFacts DEF QuotaTypes, x
  <2>6. Contains(projIDPool', y) <=> Contains(Tail(projIDPool), y)
    BY <1>1
  <2>. QED  BY <1>1, <2>1, <2>2, <2>3, <2>4, <2>5, <2>6 DEF IdGood
<1>. QED  BY <1>5, <1>6, <1>7, <1>8, <1>9, <1>10 DEF QuotaInv

LEMMA addToFileStep ==
  ASSUME QuotaInv, NEW c \in TmpContainers, addToFile(c)
  PROVE  QuotaInv'
<1>1. /\ alloc[c].pc = "file"
      /\ UNCHANGED <<pathIDs, projIDPool, tmpDirs, kernel, current, removal, recycle, strayed>>
  BY DEF addToFile, At
<1>2. QuotaTypes /\ alloc[c] \in Allocs /\ Made(c) /\ LineGood(c)
  BY <1>1 DEF QuotaInv, QuotaTypes, Made
<1>. DEFINE l == <<alloc[c].id, alloc[c].path>>
<1>3. /\ alloc[c].path \in TmpPaths /\ l \in Lines
      /\ \A d \in TmpContainers : Made(d) /\ d # c => alloc[d].path # alloc[c].path
      /\ \A a \in Removers : removal[a].pc # "none" => removal[a].path # alloc[c].path
  BY <1>1, <1>2, MadeFacts
<1>4. \A m \in Lines : Contains(projectsFile, m) \/ Contains(recycle.snapshot, m) => m[2] # alloc[c].path
  BY <1>1, <1>2 DEF LineGood
<1>5. alloc[c].path \notin DOMAIN pathIDs /\ Old(alloc[c].path)
  <2>1. alloc[c].path \notin DOMAIN pathIDs
    BY <1>1, <1>2 DEF LineGood
  <2>2. alloc[c].path[1] = c /\ alloc[c].path[2] = alloc[c].gen /\ alloc[c].gen \in Nat
    BY <1>2, MadeFacts DEF Allocs
  <2>. QED  BY <2>1, <2>2 DEF Old
\* The line is written, or not.
<1>6. PICK pc \in {"project", "down"} :
        /\ Goto(c, pc) /\ tmpFaults' \in Nat
        /\ pc = "project" => projectsFile' = Append(projectsFile, l)
        /\ pc = "down" => projectsFile' = projectsFile
  BY <1>2 DEF addToFile, TmpWork, TmpFail, QuotaTypes
<1>. DEFINE s == [alloc[c] EXCEPT !.pc = pc]
<1>7. alloc' = [alloc EXCEPT ![c] = s] /\ s \in Allocs /\ s.pc = pc /\ s.path = alloc[c].path /\ s.gen = alloc[c].gen /\ s.id = alloc[c].id
  BY <1>2, <1>6 DEF Goto, Allocs, TmpPcs
<1>. HIDE DEF s, l
<1>8. /\ alloc' \in [TmpContainers -> Allocs] /\ alloc'[c] = s
      /\ \A d \in TmpContainers : PathGood(d)' /\ (d # c => alloc'[d] = alloc[d])
      /\ \A p \in TmpPaths : Old(p)' <=> Old(p)
  BY <1>1, <1>2, <1>7, InitMoves
<1>9. /\ projectsFile' \in Seq(Lines) /\ OnePerPath(projectsFile')
      /\ \A m \in Lines : Contains(projectsFile', m) <=> Contains(projectsFile, m) \/ (pc = "project" /\ m = l)
  <2>1. CASE pc = "down"
    BY <1>2, <1>6, <2>1 DEF QuotaInv, QuotaTypes
  <2>2. CASE pc = "project"
    <3>1. projectsFile \in Seq(Lines) /\ OnePerPath(projectsFile) /\ \A m \in Lines : Contains(projectsFile, m) => m[2] # l[2]
      BY <1>2, <1>4 DEF QuotaInv, QuotaTypes, l
    <3>. QED  BY <1>3, <1>6, <2>2, <3>1, AddedFacts
  <2>. QED  BY <2>1, <2>2
<1>10. QuotaTypes' /\ OnePerPath(projectsFile)' /\ OnePerPath(recycle.snapshot)'
  BY <1>1, <1>2, <1>6, <1>8, <1>9 DEF QuotaInv, QuotaTypes, OnePerPath
<1>11. l[2] = alloc[c].path /\ l[1] = alloc[c].id
  BY DEF l
<1>12. KnownAreOld'
  BY <1>1, <1>2, <1>3, <1>5, <1>8, <1>9, <1>11 DEF QuotaInv, KnownAreOld, QuotaTypes, Lines
<1>13. ASSUME NEW d \in TmpContainers PROVE LineGood(d)'
  <2>1. CASE d # c
    BY <1>1, <1>3, <1>8, <1>9, <1>11, <2>1, LineStays
  <2>2. CASE d = c
    <3>1. /\ \A m \in Lines : (Contains(projectsFile', m) \/ Contains(recycle'.snapshot, m)) /\ m[2] = alloc[c].path =>
               m[1] = alloc[c].id /\ pc = "project"
          /\ pc = "project" => Contains(projectsFile', l)
      BY <1>1, <1>3, <1>4, <1>9, <1>11
    <3>. QED  BY <1>1, <1>5, <1>6, <1>7, <1>8, <2>2, <3>1 DEF LineGood, Made, l
  <2>. QED  BY <2>1, <2>2
<1>14. ASSUME NEW a \in Removers PROVE RemovalGood(a)'
  <2>1. RemovalGood(a)
    BY DEF QuotaInv
  <2>. QED  BY <1>1, <1>3, <1>8, <1>9, <1>11, <2>1, RemovalStays DEF RemovalGood
<1>15. ASSUME ~strayed', NEW y \in Nat PROVE IdGood(y)'
  <2>1. ~strayed /\ IdGood(y)
    BY <1>1, <1>15 DEF QuotaInv
  <2>2. \A p \in TmpPaths : OfPath(y, p)' => OfPath(y, p) \/ (y = alloc[c].id /\ p = alloc[c].path)
    <3>1. \A p \in TmpPaths : <<y, p>> \in Lines
      BY DEF Lines
    <3>. QED  BY <1>1, <1>9, <3>1 DEF OfPath, l
  <2>3. \A a \in Removers : OfRemoval(y, a)' <=> OfRemoval(y, a)
    BY <1>1 DEF OfRemoval
  <2>4. \A d \in TmpContainers : OfAlloc(y, d)' => OfAlloc(y, d) /\ d # c
    BY <1>6, <1>7, <1>8 DEF OfAlloc
  <2>5. y = alloc[c].id => OfAlloc(y, c)
    BY <1>1 DEF OfAlloc
  <2>. QED  BY <1>1, <2>1, <2>2, <2>3, <2>4, <2>5 DEF IdGood
<1>. QED  BY <1>8, <1>10, <1>12, <1>13, <1>14, <1>15 DEF QuotaInv

LEMMA setProjectStep ==
  ASSUME QuotaInv, NEW c \in TmpContainers, setProject(c)
  PROVE  QuotaInv'
<1>1. /\ alloc[c].pc = "project"
      /\ UNCHANGED <<projectsFile, pathIDs, projIDPool, tmpDirs, current, removal, recycle, strayed>>
  BY DEF setProject, At
<1>2. QuotaTypes /\ alloc[c] \in Allocs /\ Made(c) /\ LineGood(c)
  BY <1>1 DEF QuotaInv, QuotaTypes, Made
<1>3. /\ alloc[c].path \in TmpPaths
      /\ \A d \in TmpContainers : Made(d) /\ d # c => alloc[d].path # alloc[c].path
  BY <1>1, <1>2, MadeFacts
<1>4. PICK pc \in {"map", "down"} :
        /\ Goto(c, pc) /\ tmpFaults' \in Nat
        /\ pc = "map" => kernel' = [kernel EXCEPT !.project[alloc[c].path] = alloc[c].id]
        /\ pc = "down" => kernel' = kernel
  BY <1>2 DEF setProject, TmpWork, TmpFail, QuotaTypes
<1>5. /\ kernel' \in [project : [TmpPaths -> Nat], limited : SUBSET Nat] /\ kernel'.limited = kernel.limited
      /\ \A p \in TmpPaths : p # alloc[c].path => kernel'.project[p] = kernel.project[p]
      /\ pc = "map" => kernel'.project[alloc[c].path] = alloc[c].id
  <2>1. kernel \in [project : [TmpPaths -> Nat], limited : SUBSET Nat] /\ alloc[c].id \in Nat
    BY <1>2 DEF QuotaTypes, Allocs
  <2>. QED  BY <1>3, <1>4, <2>1
<1>. DEFINE s == [alloc[c] EXCEPT !.pc = pc]
<1>7. alloc' = [alloc EXCEPT ![c] = s] /\ s \in Allocs /\ s.pc = pc /\ s.path = alloc[c].path /\ s.gen = alloc[c].gen /\ s.id = alloc[c].id
  BY <1>2, <1>4 DEF Goto, Allocs, TmpPcs
<1>. HIDE DEF s
<1>8. /\ alloc' \in [TmpContainers -> Allocs] /\ alloc'[c] = s
      /\ \A d \in TmpContainers : PathGood(d)' /\ (d # c => alloc'[d] = alloc[d])
      /\ \A p \in TmpPaths : Old(p)' <=> Old(p)
  BY <1>1, <1>2, <1>7, InitMoves
<1>10. QuotaTypes' /\ OnePerPath(projectsFile)' /\ OnePerPath(recycle.snapshot)'
  BY <1>1, <1>2, <1>4, <1>5, <1>8 DEF QuotaInv, QuotaTypes, OnePerPath
<1>12. KnownAreOld'
  BY <1>1, <1>2, <1>8 DEF QuotaInv, KnownAreOld, QuotaTypes, Lines
<1>13. ASSUME NEW d \in TmpContainers PROVE LineGood(d)'
  <2>1. CASE d # c
    <3>1. Made(d) => alloc[d].path \in TmpPaths /\ alloc[d].path # alloc[c].path
      BY <1>3, <2>1, MadeFacts
    <3>. QED  BY <1>1, <1>5, <1>8, <2>1, <3>1, LineStays
  <2>2. CASE d = c
    BY <1>1, <1>2, <1>4, <1>5, <1>7, <1>8, <2>2 DEF LineGood, Made
  <2>. QED  BY <2>1, <2>2
<1>14. ASSUME NEW a \in Removers PROVE RemovalGood(a)'
  <2>1. RemovalGood(a)
    BY DEF QuotaInv
  <2>. QED  BY <1>1, <1>8, <2>1, RemovalStays DEF RemovalGood
<1>15. ASSUME ~strayed' PROVE \A x \in Nat : IdGood(x)'
  BY <1>1, <1>4, <1>7, <1>8, <1>15, OwnersStay DEF OfPath, OfAlloc, OfRemoval
<1>. QED  BY <1>8, <1>10, <1>12, <1>13, <1>14, <1>15 DEF QuotaInv

LEMMA mapProjectStep ==
  ASSUME QuotaInv, NEW c \in TmpContainers, mapProject(c)
  PROVE  QuotaInv'
<1>1. /\ alloc[c].pc = "map" /\ Goto(c, "limit")
      /\ pathIDs' = [p \in DOMAIN pathIDs \cup {alloc[c].path} |->
                       IF p = alloc[c].path THEN alloc[c].id ELSE pathIDs[p]]
      /\ UNCHANGED <<projectsFile, projIDPool, tmpDirs, kernel, current, removal, recycle, strayed, tmpFaults>>
  BY DEF mapProject, At
<1>2. QuotaTypes /\ alloc[c] \in Allocs /\ Made(c) /\ LineGood(c) /\ alloc[c].id \in Nat
  BY <1>1 DEF QuotaInv, QuotaTypes, Made, Allocs
<1>3. /\ alloc[c].path \in TmpPaths
      /\ \A d \in TmpContainers : Made(d) /\ d # c => alloc[d].path # alloc[c].path
      /\ alloc[c].path[1] = c /\ alloc[c].path[2] = alloc[c].gen
  BY <1>1, <1>2, MadeFacts
<1>4. /\ DOMAIN pathIDs' = DOMAIN pathIDs \cup {alloc[c].path} /\ pathIDs'[alloc[c].path] = alloc[c].id
      /\ \A p \in DOMAIN pathIDs : p # alloc[c].path => pathIDs'[p] = pathIDs[p]
      /\ pathIDs' \in [DOMAIN pathIDs' -> Nat] /\ DOMAIN pathIDs' \subseteq TmpPaths
  <2>1. pathIDs \in [DOMAIN pathIDs -> Nat] /\ DOMAIN pathIDs \subseteq TmpPaths
    BY <1>2 DEF QuotaTypes
  <2>. QED  BY <1>1, <1>2, <1>3, <2>1
<1>. DEFINE s == [alloc[c] EXCEPT !.pc = "limit"]
<1>7. alloc' = [alloc EXCEPT ![c] = s] /\ s \in Allocs /\ s.pc = "limit" /\ s.path = alloc[c].path /\ s.gen = alloc[c].gen /\ s.id = alloc[c].id
  BY <1>1, <1>2 DEF Goto, Allocs, TmpPcs
<1>. HIDE DEF s
<1>8. /\ alloc' \in [TmpContainers -> Allocs] /\ alloc'[c] = s
      /\ \A d \in TmpContainers : PathGood(d)' /\ (d # c => alloc'[d] = alloc[d])
      /\ \A p \in TmpPaths : Old(p)' <=> Old(p)
  BY <1>1, <1>2, <1>7, InitMoves
<1>10. QuotaTypes' /\ OnePerPath(projectsFile)' /\ OnePerPath(recycle.snapshot)'
  BY <1>1, <1>2, <1>4, <1>8 DEF QuotaInv, QuotaTypes, OnePerPath
<1>11. Old(alloc[c].path)
  BY <1>2, <1>3 DEF Old, Allocs
<1>12. KnownAreOld'
  BY <1>1, <1>2, <1>3, <1>4, <1>8, <1>11 DEF QuotaInv, KnownAreOld, QuotaTypes, Lines
<1>13. ASSUME NEW d \in TmpContainers PROVE LineGood(d)'
  <2>1. CASE d # c
    BY <1>1, <1>3, <1>4, <1>8, <2>1, LineStays
  <2>2. CASE d = c
    BY <1>1, <1>2, <1>4, <1>7, <1>8, <2>2 DEF LineGood, Made
  <2>. QED  BY <2>1, <2>2
<1>14. ASSUME NEW a \in Removers PROVE RemovalGood(a)'
  <2>1. RemovalGood(a)
    BY DEF QuotaInv
  <2>. QED  BY <1>1, <1>8, <2>1, RemovalStays DEF RemovalGood
\* The line has said before whose the ID is.
<1>15. ASSUME ~strayed' PROVE \A x \in Nat : IdGood(x)'
  <2>1. ASSUME NEW x \in Nat, NEW p \in TmpPaths, OfPath(x, p)' PROVE OfPath(x, p)
    <3>1. Contains(projectsFile, <<alloc[c].id, alloc[c].path>>)
      BY <1>1, <1>2 DEF LineGood
    <3>. QED  BY <1>1, <1>4, <2>1, <3>1 DEF OfPath
  <2>. QED  BY <1>1, <1>7, <1>8, <1>15, <2>1, OwnersStay DEF OfAlloc, OfRemoval
<1>. QED  BY <1>8, <1>10, <1>12, <1>13, <1>14, <1>15 DEF QuotaInv

LEMMA setQuotaStep ==
  ASSUME QuotaInv, NEW c \in TmpContainers, setQuota(c)
  PROVE  QuotaInv'
<1>1. /\ alloc[c].pc = "limit"
      /\ UNCHANGED <<projectsFile, pathIDs, projIDPool, tmpDirs, current, recycle, strayed>>
  BY DEF setQuota, At
<1>2. QuotaTypes /\ alloc[c] \in Allocs /\ Made(c) /\ LineGood(c) /\ alloc[c].id \in Nat
  BY <1>1 DEF QuotaInv, QuotaTypes, Made, Allocs
<1>3. /\ alloc[c].path \in TmpPaths
      /\ \A d \in TmpContainers : Made(d) /\ d # c => alloc[d].path # alloc[c].path
      /\ alloc[c].path[1] = c /\ alloc[c].path[2] = alloc[c].gen
  BY <1>1, <1>2, MadeFacts
<1>. DEFINE start == [pc |-> "file", path |-> alloc[c].path, id |-> 0]
<1>4. PICK pc \in {"up", "rollback"} :
        /\ Goto(c, pc) /\ tmpFaults' \in Nat
        /\ pc = "up" => /\ removal' = removal /\ alloc[c].path \in DOMAIN pathIDs
                        /\ kernel' = [kernel EXCEPT !.limited = @ \cup {pathIDs[alloc[c].path]}]
        /\ pc = "rollback" => removal' = [removal EXCEPT ![Rollback(c)] = start] /\ kernel' = kernel
  BY <1>2 DEF setQuota, Start, TmpWork, TmpFail, QuotaTypes
<1>5. /\ kernel' \in [project : [TmpPaths -> Nat], limited : SUBSET Nat] /\ kernel'.project = kernel.project
      /\ kernel.limited \subseteq kernel'.limited /\ (pc = "up" => alloc[c].id \in kernel'.limited)
  <2>1. kernel \in [project : [TmpPaths -> Nat], limited : SUBSET Nat]
    BY <1>2 DEF QuotaTypes
  <2>2. pc = "up" => pathIDs[alloc[c].path] = alloc[c].id
    BY <1>2, <1>4 DEF LineGood
  <2>. QED  BY <1>2, <1>4, <2>1, <2>2
<1>6. /\ removal' \in [Removers -> Removals]
      /\ \A a \in Removers : removal'[a] = removal[a] \/ (pc = "rollback" /\ a = Rollback(c) /\ removal'[a] = start)
  <2>1. removal \in [Removers -> Removals] /\ start \in Removals
    BY <1>2, <1>3 DEF QuotaTypes, Removals
  <2>. QED  BY <1>4, <2>1, RemoverFacts
<1>. DEFINE s == [alloc[c] EXCEPT !.pc = pc]
<1>7. alloc' = [alloc EXCEPT ![c] = s] /\ s \in Allocs /\ s.pc = pc /\ s.path = alloc[c].path /\ s.gen = alloc[c].gen /\ s.id = alloc[c].id
  BY <1>2, <1>4 DEF Goto, Allocs, TmpPcs
<1>. HIDE DEF s
<1>8. /\ alloc' \in [TmpContainers -> Allocs] /\ alloc'[c] = s
      /\ \A d \in TmpContainers : PathGood(d)' /\ (d # c => alloc'[d] = alloc[d])
      /\ \A p \in TmpPaths : Old(p)' <=> Old(p)
  BY <1>1, <1>2, <1>7, InitMoves
<1>10. QuotaTypes' /\ OnePerPath(projectsFile)' /\ OnePerPath(recycle.snapshot)'
  BY <1>1, <1>2, <1>4, <1>5, <1>6, <1>8 DEF QuotaInv, QuotaTypes, OnePerPath
<1>11. Old(alloc[c].path)
  BY <1>2, <1>3 DEF Old, Allocs
<1>12. KnownAreOld'
  BY <1>1, <1>2, <1>8 DEF QuotaInv, KnownAreOld, QuotaTypes, Lines
<1>13. ASSUME NEW d \in TmpContainers PROVE LineGood(d)'
  <2>1. CASE d # c
    BY <1>1, <1>5, <1>8, <2>1, LineStays
  <2>2. CASE d = c
    BY <1>1, <1>2, <1>4, <1>5, <1>7, <1>8, <2>2 DEF LineGood, Made
  <2>. QED  BY <2>1, <2>2
<1>14. ASSUME NEW a \in Removers PROVE RemovalGood(a)'
  <2>1. CASE removal'[a] = removal[a]
    <3>1. RemovalGood(a)
      BY DEF QuotaInv
    <3>. QED  BY <1>1, <1>8, <2>1, <3>1, RemovalStays DEF RemovalGood
  <2>2. CASE pc = "rollback" /\ a = Rollback(c) /\ removal'[a] = start
    BY <1>3, <1>7, <1>8, <1>11, <2>2, RemoverFacts DEF RemovalGood
  <2>. QED  BY <1>6, <2>1, <2>2
<1>15. ASSUME ~strayed' PROVE \A x \in Nat : IdGood(x)'
  BY <1>1, <1>4, <1>6, <1>7, <1>8, <1>15, OwnersStay DEF OfPath, OfAlloc, OfRemoval
<1>. QED  BY <1>8, <1>10, <1>12, <1>13, <1>14, <1>15 DEF QuotaInv

LEMMA ResetTmpStep ==
  ASSUME QuotaInv, NEW c \in TmpContainers, ResetTmp(c)
  PROVE  QuotaInv'
<1>. DEFINE p == current[c]
            start == [pc |-> "file", path |-> p, id |-> 0]
            s == [alloc[c] EXCEPT !.pc = "paths"]
<1>1. /\ alloc[c].pc \in {"up", "down"} /\ alloc[c].gen < Generations[c]
      /\ p = NoTmpPath => removal' = removal
      /\ p # NoTmpPath => removal' = [removal EXCEPT ![Resetter(p)] = start]
      /\ current' = [current EXCEPT ![c] = NoTmpPath] /\ Goto(c, "paths")
      /\ UNCHANGED <<projectsFile, pathIDs, projIDPool, tmpDirs, kernel, recycle, strayed, tmpFaults>>
  BY DEF ResetTmp, Start
<1>2. QuotaTypes /\ alloc[c] \in Allocs /\ PathGood(c) /\ alloc \in [TmpContainers -> Allocs]
      /\ current \in [TmpContainers -> TmpPaths \cup {NoTmpPath}]
  BY DEF QuotaInv, QuotaTypes
<1>3. p # NoTmpPath => p \in TmpPaths /\ p[1] = c /\ Old(p)
  BY <1>2, TmpPathFacts DEF PathGood, Allocs, Old
<1>4. alloc' = [alloc EXCEPT ![c] = s] /\ s \in Allocs /\ s.pc = "paths" /\ s.path = alloc[c].path /\ s.gen = alloc[c].gen /\ s.id = alloc[c].id
  BY <1>1, <1>2 DEF Goto, Allocs, TmpPcs
<1>. HIDE DEF s
<1>5. /\ alloc' \in [TmpContainers -> Allocs] /\ alloc'[c] = s
      /\ \A d \in TmpContainers : d # c => alloc'[d] = alloc[d]
  BY <1>2, <1>4
<1>6. /\ current' \in [TmpContainers -> TmpPaths \cup {NoTmpPath}] /\ current'[c] = NoTmpPath
      /\ \A d \in TmpContainers : d # c => current'[d] = current[d]
  BY <1>1, <1>2
<1>7. \A q \in TmpPaths : Old(q)' <=> Old(q)
  BY <1>4, <1>5, TmpPathFacts DEF Old
<1>8. /\ removal' \in [Removers -> Removals]
      /\ \A a \in Removers : removal'[a] = removal[a] \/ (p # NoTmpPath /\ a = Resetter(p) /\ removal'[a] = start)
  <2>1. removal \in [Removers -> Removals]
    BY <1>2 DEF QuotaTypes
  <2>2. p # NoTmpPath => start \in Removals /\ Resetter(p) \in Removers
    BY <1>3, RemoverFacts DEF Removals
  <2>. QED  BY <1>1, <2>1, <2>2
<1>. HIDE DEF p
<1>9. ASSUME NEW d \in TmpContainers PROVE PathGood(d)'
  <2>1. CASE d # c
    BY <1>1, <1>5, <1>6, <2>1 DEF QuotaInv, PathGood, Made
  <2>2. CASE d = c
    BY <1>1, <1>2, <1>4, <1>5, <1>6, <2>2 DEF PathGood, Made
  <2>. QED  BY <2>1, <2>2
<1>10. QuotaTypes' /\ OnePerPath(projectsFile)' /\ OnePerPath(recycle.snapshot)'
  BY <1>1, <1>2, <1>5, <1>6, <1>8 DEF QuotaInv, QuotaTypes, OnePerPath
<1>11. \A q \in TmpPaths : q = current'[q[1]] => q = current[q[1]]
  BY <1>6, TmpPathFacts
<1>12. KnownAreOld'
  BY <1>1, <1>2, <1>7, <1>11 DEF QuotaInv, KnownAreOld, QuotaTypes, Lines
<1>13. ASSUME NEW d \in TmpContainers PROVE LineGood(d)'
  <2>1. CASE d # c
    BY <1>1, <1>5, <2>1, LineStays
  <2>2. CASE d = c
    BY <1>4, <1>5, <2>2 DEF LineGood, Made
  <2>. QED  BY <2>1, <2>2
<1>14. ASSUME NEW a \in Removers PROVE RemovalGood(a)'
  <2>1. CASE removal'[a] = removal[a]
    <3>1. RemovalGood(a)
      BY DEF QuotaInv
    <3>. QED  BY <1>1, <1>5, <1>7, <1>11, <2>1, <3>1, RemovalStays DEF RemovalGood
  <2>2. CASE p # NoTmpPath /\ a = Resetter(p) /\ removal'[a] = start
    BY <1>3, <1>6, <1>7, <2>2, RemoverFacts DEF RemovalGood
  <2>. QED  BY <1>8, <2>1, <2>2
<1>15. ASSUME ~strayed' PROVE \A x \in Nat : IdGood(x)'
  BY <1>1, <1>4, <1>5, <1>8, <1>15, OwnersStay DEF OfPath, OfAlloc, OfRemoval
<1>. QED  BY <1>9, <1>10, <1>12, <1>13, <1>14, <1>15 DEF QuotaInv

\* The path is new: nothing that is written down anywhere is about it.
LEMMA GenerateTmpPathStep ==
  ASSUME QuotaInv, NEW c \in TmpContainers, GenerateTmpPath(c)
  PROVE  QuotaInv'
<1>. DEFINE p == <<c, alloc[c].gen + 1>>
<1>1. /\ alloc[c].pc = "paths"
      /\ UNCHANGED <<projectsFile, pathIDs, projIDPool, kernel, removal, recycle, strayed>>
  BY DEF GenerateTmpPath, At
<1>2. QuotaTypes /\ alloc[c] \in Allocs /\ PathGood(c) /\ alloc \in [TmpContainers -> Allocs]
      /\ current \in [TmpContainers -> TmpPaths \cup {NoTmpPath}]
  BY DEF QuotaInv, QuotaTypes
<1>3. /\ current[c] = NoTmpPath /\ alloc[c].gen \in Nat /\ alloc[c].gen < Generations[c] /\ Generations[c] \in Nat
  BY <1>1, <1>2, TmpQuotaAssumption DEF PathGood, Allocs
<1>4. p \in TmpPaths /\ p # NoTmpPath /\ p[1] = c /\ ~Old(p)
  BY <1>3, TmpPathFacts DEF Old
<1>. DEFINE fresh == [pc |-> "id", path |-> p, id |-> 0, gen |-> alloc[c].gen + 1]
            gave == [alloc[c] EXCEPT !.pc = "down"]
<1>5. PICK s \in {fresh, gave} :
        /\ alloc' = [alloc EXCEPT ![c] = s] /\ tmpFaults' \in Nat
        /\ s = fresh => current' = [current EXCEPT ![c] = p] /\ tmpDirs' = tmpDirs \cup {p}
        /\ s # fresh => current' = [current EXCEPT ![c] = NoTmpPath] /\ tmpDirs' = tmpDirs
  <2>1. fresh.pc = "id" /\ gave.pc = "down"
    BY <1>2 DEF Allocs
  <2>2. fresh # gave
    BY <2>1
  <2>. QED  BY <1>2, <2>2 DEF GenerateTmpPath, Goto, TmpWork, TmpFail, QuotaTypes
<1>6. /\ s \in Allocs /\ (s = fresh \/ s.pc = "down") /\ s.gen >= alloc[c].gen /\ s.gen <= Generations[c]
      /\ s # fresh => s.gen = alloc[c].gen
  BY <1>2, <1>3, <1>4, <1>5, SMTT(30) DEF Allocs, TmpPcs
<1>7. /\ alloc' \in [TmpContainers -> Allocs] /\ alloc'[c] = s
      /\ \A d \in TmpContainers : d # c => alloc'[d] = alloc[d]
  BY <1>2, <1>5, <1>6
<1>8. /\ current' \in [TmpContainers -> TmpPaths \cup {NoTmpPath}] /\ current'[c] = IF s = fresh THEN p ELSE NoTmpPath
      /\ \A d \in TmpContainers : d # c => current'[d] = current[d]
  BY <1>2, <1>4, <1>5
<1>9. fresh.pc = "id" /\ fresh.path = p /\ fresh.gen = alloc[c].gen + 1 /\ fresh.id = 0
  OBVIOUS
<1>10. tmpDirs' \subseteq TmpPaths /\ tmpDirs \subseteq tmpDirs' /\ (s = fresh => p \in tmpDirs')
  BY <1>2, <1>4, <1>5 DEF QuotaTypes
<1>. HIDE DEF fresh, gave
<1>11. \A q \in TmpPaths : /\ Old(q) => Old(q)' /\ q # p
                           /\ Old(q) /\ q = current'[q[1]] => q = current[q[1]]
  <2>1. ASSUME NEW q \in TmpPaths, Old(q) PROVE Old(q)' /\ q # p
    <3>1. q[1] \in TmpContainers /\ q[2] \in Nat /\ alloc[q[1]].gen \in Nat
      BY <1>2, TmpPathFacts DEF Allocs
    <3>2. q[2] <= alloc'[q[1]].gen
      <4>1. CASE q[1] # c
        BY <1>7, <2>1, <3>1, <4>1 DEF Old
      <4>2. CASE q[1] = c
        BY <1>3, <1>6, <1>7, <2>1, <3>1, <4>2 DEF Old, Allocs
      <4>. QED  BY <4>1, <4>2
    <3>. QED  BY <1>4, <2>1, <3>2 DEF Old
  <2>2. ASSUME NEW q \in TmpPaths, Old(q), q = current'[q[1]] PROVE q = current[q[1]]
    <3>1. q[1] \in TmpContainers /\ q # NoTmpPath /\ q # p
      BY <2>1, <2>2, TmpPathFacts
    <3>. QED  BY <1>8, <2>2, <3>1
  <2>. QED  BY <2>1, <2>2
<1>12. ASSUME NEW d \in TmpContainers PROVE PathGood(d)'
  <2>1. CASE d # c
    <3>1. PathGood(d)
      BY DEF QuotaInv
    <3>. QED  BY <1>7, <1>8, <1>10, <2>1, <3>1 DEF PathGood, Made
  <2>2. CASE d = c
    BY <1>4, <1>6, <1>7, <1>8, <1>9, <1>10, <2>2 DEF PathGood, Made
  <2>. QED  BY <2>1, <2>2
<1>13. QuotaTypes' /\ OnePerPath(projectsFile)' /\ OnePerPath(recycle.snapshot)'
  BY <1>1, <1>2, <1>5, <1>7, <1>8, <1>10 DEF QuotaInv, QuotaTypes, OnePerPath
<1>14. KnownAreOld /\ KnownAreOld'
  BY <1>1, <1>2, <1>11 DEF QuotaInv, KnownAreOld, QuotaTypes, Lines
<1>15. ASSUME NEW d \in TmpContainers PROVE LineGood(d)'
  <2>1. CASE d # c
    BY <1>1, <1>7, <2>1, LineStays
  <2>2. CASE d = c
    <3>1. \A l \in Lines : (Contains(projectsFile, l) \/ Contains(recycle.snapshot, l)) => l[2] # p
      BY <1>11, <1>14 DEF KnownAreOld, Lines
    <3>2. p \notin DOMAIN pathIDs
      BY <1>2, <1>11, <1>14 DEF KnownAreOld, QuotaTypes
    <3>. QED  BY <1>1, <1>6, <1>7, <1>9, <2>2, <3>1, <3>2 DEF LineGood, Made
  <2>. QED  BY <2>1, <2>2
<1>16. ASSUME NEW a \in Removers PROVE RemovalGood(a)'
  <2>1. RemovalGood(a)
    BY DEF QuotaInv
  <2>. QED  BY <1>1, <1>7, <1>11, <2>1, RemovalStays DEF RemovalGood
<1>17. ASSUME ~strayed' PROVE \A x \in Nat : IdGood(x)'
  BY <1>1, <1>6, <1>7, <1>9, <1>17, OwnersStay DEF OfPath, OfAlloc, OfRemoval
<1>. QED  BY <1>12, <1>13, <1>14, <1>15, <1>16, <1>17 DEF QuotaInv

-----------------------------------------------------------------------------
(* The removals *)

\* A removal comes to its end.
LEMMA RemovalEnds ==
  ASSUME QuotaInv, NEW a \in Removers, removal[a].pc # "none", EndRemoval(a),
         tmpDirs' \subseteq tmpDirs, \A p \in tmpDirs : p = current[p[1]] => p \in tmpDirs',
         tmpFaults' \in Nat, projIDPool' \in Seq(Nat),
         UNCHANGED <<projectsFile, pathIDs, kernel, current, recycle, strayed>>
  PROVE  /\ (~strayed' => \A x \in Nat : IdGood(x)') => QuotaInv'
         /\ \A x \in Nat :
              /\ \A p \in TmpPaths : OfPath(x, p)' <=> OfPath(x, p)
              /\ \A c \in TmpContainers : OfAlloc(x, c)' => OfAlloc(x, c)
              /\ \A b \in Removers : OfRemoval(x, b)' => OfRemoval(x, b) /\ b # a
<1>1. QuotaTypes /\ alloc \in [TmpContainers -> Allocs] /\ removal \in [Removers -> Removals]
  BY DEF QuotaInv, QuotaTypes
<1>2. NoRemoval \in Removals /\ NoRemoval.pc = "none"
  BY DEF NoRemoval, Removals
<1>3. /\ removal' \in [Removers -> Removals] /\ removal'[a] = NoRemoval
      /\ \A b \in Removers : b # a => removal'[b] = removal[b]
  BY <1>1, <1>2 DEF EndRemoval
<1>4. ASSUME NEW d \in TmpContainers
      PROVE  /\ alloc'[d] \in Allocs /\ alloc'[d].gen = alloc[d].gen
             /\ a = Rollback(d) => alloc'[d].pc = "down"
             /\ a # Rollback(d) => alloc'[d] = alloc[d]
  BY <1>1 DEF EndRemoval, Allocs, TmpPcs
<1>5. alloc' \in [TmpContainers -> Allocs]
  <2>1. alloc' = [d \in TmpContainers |-> alloc'[d]]
    BY DEF EndRemoval
  <2>. QED  BY <1>4, <2>1
<1>6. \A p \in TmpPaths : Old(p)' <=> Old(p)
  BY <1>4, TmpPathFacts DEF Old
<1>7. ASSUME NEW d \in TmpContainers PROVE PathGood(d)'
  <2>1. PathGood(d)
    BY DEF QuotaInv
  <2>2. CASE a = Rollback(d)
    BY <1>4, <2>1, <2>2 DEF PathGood, Made
  <2>3. CASE a # Rollback(d)
    <3>1. Made(d) => current[d][1] = d
      BY MadeFacts
    <3>. QED  BY <1>4, <2>1, <2>3, <3>1 DEF PathGood, Made
  <2>. QED  BY <2>2, <2>3
<1>8. QuotaTypes' /\ OnePerPath(projectsFile)' /\ OnePerPath(recycle.snapshot)'
  BY <1>1, <1>3, <1>5 DEF QuotaInv, QuotaTypes, OnePerPath
<1>9. KnownAreOld'
  BY <1>1, <1>6 DEF QuotaInv, KnownAreOld, QuotaTypes, Lines
<1>10. ASSUME NEW d \in TmpContainers PROVE LineGood(d)'
  <2>1. CASE a # Rollback(d)
    BY <1>4, <2>1, LineStays
  <2>2. CASE a = Rollback(d)
    BY <1>4, <2>2 DEF LineGood, Made
  <2>. QED  BY <2>1, <2>2
<1>11. ASSUME NEW b \in Removers PROVE RemovalGood(b)'
  <2>1. CASE b = a
    BY <1>2, <1>3, <2>1 DEF RemovalGood
  <2>2. CASE b # a
    <3>1. RemovalGood(b) /\ RemovalGood(a)
      BY DEF QuotaInv
    <3>2. CASE removal[b].pc = "none"
      BY <1>3, <2>2, <3>2 DEF RemovalGood
    <3>3. CASE removal[b].pc # "none"
      <4>1. ASSUME NEW d \in TmpContainers, a = Rollback(d) PROVE b # Rollback(d) /\ removal[b].path # current[d]
        <5>1. alloc[d].pc = "rollback" /\ Made(d)
          BY <3>1, <4>1 DEF RemovalGood, Made
        <5>2. current[d] = alloc[d].path /\ alloc[d].path[1] = d
          BY <5>1, MadeFacts
        <5>. QED  BY <2>2, <3>1, <3>3, <4>1, <5>2 DEF RemovalGood
      <4>2. removal[b].path \in TmpPaths /\ removal[b].path[1] \in TmpContainers
        BY <3>1, <3>3, TmpPathFacts DEF RemovalGood
      <4>3. removal[b].path = current[removal[b].path[1]] =>
              a # Rollback(removal[b].path[1])
        BY <4>1, <4>2
      <4>4. \A c \in TmpContainers : b = Rollback(c) => alloc'[c] = alloc[c]
        BY <1>4, <4>1
      <4>5. removal[b].path = current[removal[b].path[1]] => alloc'[removal[b].path[1]] = alloc[removal[b].path[1]]
        BY <1>4, <4>2, <4>3
      <4>. QED  BY <1>3, <1>6, <2>2, <3>1, <3>3, <4>2, <4>4, <4>5 DEF RemovalGood
    <3>. QED  BY <3>2, <3>3
  <2>. QED  BY <2>1, <2>2
<1>12. ASSUME NEW x \in Nat
       PROVE  /\ \A p \in TmpPaths : OfPath(x, p)' <=> OfPath(x, p)
              /\ \A c \in TmpContainers : OfAlloc(x, c)' => OfAlloc(x, c)
              /\ \A b \in Removers : OfRemoval(x, b)' => OfRemoval(x, b) /\ b # a
  BY <1>2, <1>3, <1>4 DEF OfPath, OfAlloc, OfRemoval
<1>. QED  BY <1>7, <1>8, <1>9, <1>10, <1>11, <1>12 DEF QuotaInv

LEMMA EraseFileStep ==
  ASSUME QuotaInv, NEW a \in Removers, EraseFile(a)
  PROVE  QuotaInv'
<1>1. /\ removal[a].pc = "erase" /\ EndRemoval(a) /\ tmpFaults' \in Nat
      /\ tmpDirs' = tmpDirs \ {removal[a].path} \/ tmpDirs' = tmpDirs
      /\ UNCHANGED <<projectsFile, pathIDs, projIDPool, kernel, current, recycle, strayed>>
  BY DEF EraseFile, Removing, TmpWork, TmpFail, QuotaInv, QuotaTypes
\* The directory that is erased is outdated.
<1>2. removal[a].path # current[removal[a].path[1]]
  <2>1. RemovalGood(a) /\ removal[a].path \in TmpPaths
    BY <1>1 DEF QuotaInv, RemovalGood
  <2>2. removal[a].path[1] \in TmpContainers
    BY <2>1, TmpPathFacts
  <2>. QED  BY <1>1, <2>1, <2>2 DEF RemovalGood
<1>3. projIDPool' \in Seq(Nat)
  BY <1>1 DEF QuotaInv, QuotaTypes
<1>4. /\ (~strayed' => \A x \in Nat : IdGood(x)') => QuotaInv'
      /\ \A x \in Nat :
           /\ \A p \in TmpPaths : OfPath(x, p)' <=> OfPath(x, p)
           /\ \A c \in TmpContainers : OfAlloc(x, c)' => OfAlloc(x, c)
           /\ \A b \in Removers : OfRemoval(x, b)' => OfRemoval(x, b) /\ b # a
  BY <1>1, <1>2, <1>3, RemovalEnds
<1>. QED  BY <1>1, <1>4, OwnersStay

\* The step of a removal that goes on.
LEMMA RemovalMoves ==
  ASSUME QuotaInv, NEW a \in Removers, NEW s \in Removals, removal' = [removal EXCEPT ![a] = s],
         removal[a].pc # "none", s.path = removal[a].path, s.pc # "none",
         s.pc = "erase" => \A c \in TmpContainers : a # Rollback(c),
         s.pc = "map" => \A l \in Lines : Contains(projectsFile', l) => l[2] # s.path,
         \A l \in Lines : Contains(projectsFile', l) <=>
                            Contains(projectsFile, l) /\ (s.pc = "map" => l[2] # s.path),
         DOMAIN pathIDs' \subseteq DOMAIN pathIDs, \A p \in DOMAIN pathIDs' : pathIDs'[p] = pathIDs[p],
         pathIDs' \in [DOMAIN pathIDs' -> Nat],
         projectsFile' \in Seq(Lines), OnePerPath(projectsFile'), projIDPool' \in Seq(Nat),
         strayed' \in BOOLEAN,
         UNCHANGED <<tmpDirs, kernel, current, alloc, recycle, tmpFaults>>
  PROVE  /\ (~strayed' => \A x \in Nat : IdGood(x)') => QuotaInv'
         /\ removal'[a] = s /\ \A b \in Removers : b # a => removal'[b] = removal[b]
<1>1. QuotaTypes /\ removal \in [Removers -> Removals]
  BY DEF QuotaInv, QuotaTypes
<1>2. /\ removal' \in [Removers -> Removals] /\ removal'[a] = s
      /\ \A b \in Removers : b # a => removal'[b] = removal[b]
  BY <1>1
<1>3. \A p \in TmpPaths : Old(p)' <=> Old(p)
  BY DEF Old
<1>4. QuotaTypes' /\ OnePerPath(projectsFile)' /\ OnePerPath(recycle.snapshot)'
  BY <1>1, <1>2 DEF QuotaInv, QuotaTypes, OnePerPath
<1>5. KnownAreOld'
  BY <1>1, <1>3 DEF QuotaInv, KnownAreOld, QuotaTypes, Lines
<1>6. ASSUME NEW d \in TmpContainers PROVE PathGood(d)' /\ LineGood(d)'
  <2>1. PathGood(d)'
    BY DEF QuotaInv, PathGood, Made
  <2>2. ASSUME Made(d), s.path = alloc[d].path PROVE alloc[d].pc = "rollback"
    <3>1. \A b \in Removers : removal[b].pc # "none" /\ alloc[d].pc # "rollback" => removal[b].path # alloc[d].path
      BY <2>2, MadeFacts
    <3>. QED  BY <2>2, <3>1
  <2>3. LineGood(d)'
    BY <2>2, LineStays
  <2>. QED  BY <2>1, <2>3
<1>7. ASSUME NEW b \in Removers PROVE RemovalGood(b)'
  <2>1. RemovalGood(b)
    BY DEF QuotaInv
  <2>2. CASE b = a
    BY <1>2, <1>3, <2>1, <2>2, TmpPathFacts DEF RemovalGood
  <2>3. CASE b # a
    BY <1>2, <1>3, <2>1, <2>3, RemovalStays DEF RemovalGood
  <2>. QED  BY <2>2, <2>3
<1>. QED  BY <1>2, <1>4, <1>5, <1>6, <1>7 DEF QuotaInv

LEMMA removeFromFileStep ==
  ASSUME QuotaInv, NEW a \in Removers, removeFromFile(a)
  PROVE  QuotaInv'
<1>1. /\ removal[a].pc = "file"
      /\ UNCHANGED <<pathIDs, projIDPool, tmpDirs, kernel, current, recycle, strayed>>
  BY DEF removeFromFile, Removing
<1>2. QuotaTypes /\ removal[a] \in Removals /\ OnePerPath(projectsFile)
  BY DEF QuotaInv, QuotaTypes
<1>3. projIDPool' \in Seq(Nat) /\ pathIDs' \in [DOMAIN pathIDs' -> Nat] /\ strayed' \in BOOLEAN
  BY <1>1, <1>2 DEF QuotaTypes
<1>4. CASE TmpFail /\ EndRemoval(a) /\ UNCHANGED projectsFile
  <2>1. tmpFaults' \in Nat
    BY <1>2, <1>4 DEF TmpFail, QuotaTypes
  <2>2. /\ (~strayed' => \A x \in Nat : IdGood(x)') => QuotaInv'
        /\ \A x \in Nat :
             /\ \A p \in TmpPaths : OfPath(x, p)' <=> OfPath(x, p)
             /\ \A c \in TmpContainers : OfAlloc(x, c)' => OfAlloc(x, c)
             /\ \A b \in Removers : OfRemoval(x, b)' => OfRemoval(x, b) /\ b # a
    BY <1>1, <1>3, <1>4, <2>1, RemovalEnds
  <2>. QED  BY <1>1, <2>2, OwnersStay
<1>5. CASE /\ projectsFile' = WithoutLines(removal[a].path)
           /\ removal' = [removal EXCEPT ![a].pc = "map"]
           /\ TmpWork /\ UNCHANGED alloc
  <2>. DEFINE s == [removal[a] EXCEPT !.pc = "map"]
  <2>1. removal' = [removal EXCEPT ![a] = s] /\ s \in Removals /\ s.path = removal[a].path /\ s.pc = "map"
    BY <1>2, <1>5 DEF Removals
  <2>. HIDE DEF s
  <2>2. /\ projectsFile' \in Seq(Lines) /\ OnePerPath(projectsFile')
        /\ \A l \in Lines : Contains(projectsFile', l) <=> Contains(projectsFile, l) /\ l[2] # s.path
    BY <1>2, <1>5, <2>1, WithoutFacts DEF QuotaTypes
  <2>3. UNCHANGED tmpFaults
    BY <1>5 DEF TmpWork
  <2>4. /\ (~strayed' => \A x \in Nat : IdGood(x)') => QuotaInv'
        /\ removal'[a] = s /\ \A b \in Removers : b # a => removal'[b] = removal[b]
    <3>1. /\ s.pc = "map" => \A l \in Lines : Contains(projectsFile', l) => l[2] # s.path
          /\ \A l \in Lines : Contains(projectsFile', l) <=>
                               Contains(projectsFile, l) /\ (s.pc = "map" => l[2] # s.path)
          /\ removal[a].pc # "none" /\ s.pc # "none" /\ s.pc # "erase"
      BY <1>1, <2>1, <2>2
    <3>2. DOMAIN pathIDs' \subseteq DOMAIN pathIDs /\ \A p \in DOMAIN pathIDs' : pathIDs'[p] = pathIDs[p]
      BY <1>1
    <3>. QED  BY <1>1, <1>3, <1>5, <2>1, <2>2, <2>3, <3>1, <3>2, RemovalMoves
  <2>5. ASSUME NEW x \in Nat
        PROVE  /\ \A p \in TmpPaths : OfPath(x, p)' => OfPath(x, p)
               /\ \A c \in TmpContainers : OfAlloc(x, c)' => OfAlloc(x, c)
               /\ \A b \in Removers : OfRemoval(x, b)' => OfRemoval(x, b)
    <3>1. \A p \in TmpPaths : <<x, p>> \in Lines
      BY DEF Lines
    <3>. QED  BY <1>1, <1>5, <2>1, <2>2, <2>4, <3>1 DEF OfPath, OfAlloc, OfRemoval
  <2>. QED  BY <1>1, <2>4, <2>5, OwnersStay
<1>. QED  BY <1>4, <1>5 DEF removeFromFile

\* The ID passes from the path to the removal, unless the map has none.
LEMMA removeFromMapStep ==
  ASSUME QuotaInv, NEW a \in Removers, removeFromMap(a)
  PROVE  QuotaInv'
<1>. DEFINE p == removal[a].path
            s == [removal[a] EXCEPT !.pc = "push", !.id = IdOf(p)]
<1>1. /\ removal[a].pc = "map"
      /\ pathIDs' = [q \in DOMAIN pathIDs \ {p} |-> pathIDs[q]]
      /\ strayed' = (strayed \/ p \notin DOMAIN pathIDs)
      /\ UNCHANGED <<projectsFile, projIDPool, tmpDirs, kernel, current, alloc, recycle, tmpFaults>>
  BY DEF removeFromMap, Removing
<1>2. QuotaTypes /\ removal[a] \in Removals /\ OnePerPath(projectsFile) /\ RemovalGood(a)
  BY DEF QuotaInv, QuotaTypes
<1>3. /\ pathIDs' \in [DOMAIN pathIDs' -> Nat] /\ DOMAIN pathIDs' = DOMAIN pathIDs \ {p}
      /\ \A q \in DOMAIN pathIDs' : pathIDs'[q] = pathIDs[q]
      /\ IdOf(p) \in Nat
  <2>1. pathIDs \in [DOMAIN pathIDs -> Nat]
    BY <1>2 DEF QuotaTypes
  <2>. QED  BY <1>1, <2>1 DEF IdOf
<1>4. removal' = [removal EXCEPT ![a] = s] /\ s \in Removals /\ s.path = p /\ s.pc = "push" /\ s.id = IdOf(p)
  BY <1>2, <1>3 DEF removeFromMap, Removals
<1>5. projIDPool' \in Seq(Nat) /\ projectsFile' \in Seq(Lines) /\ OnePerPath(projectsFile') /\ strayed' \in BOOLEAN
  BY <1>1, <1>2 DEF QuotaTypes, OnePerPath
<1>6. p \in TmpPaths /\ \A l \in Lines : Contains(projectsFile, l) => l[2] # p
  BY <1>1, <1>2 DEF RemovalGood
<1>. HIDE DEF s
<1>7. /\ (~strayed' => \A x \in Nat : IdGood(x)') => QuotaInv'
      /\ removal'[a] = s /\ \A b \in Removers : b # a => removal'[b] = removal[b]
  BY <1>1, <1>3, <1>4, <1>5, RemovalMoves
<1>8. ASSUME ~strayed', NEW x \in Nat PROVE IdGood(x)'
  <2>1. ~strayed /\ p \in DOMAIN pathIDs /\ IdOf(p) = pathIDs[p]
    BY <1>1, <1>8 DEF IdOf
  <2>2. IdGood(x)
    BY <2>1 DEF QuotaInv
  <2>3. ASSUME NEW q \in TmpPaths, OfPath(x, q)' PROVE OfPath(x, q) /\ q # p
    <3>1. <<x, q>> \in Lines
      BY DEF Lines
    <3>. QED  BY <1>1, <1>3, <1>6, <2>3, <3>1 DEF OfPath
  <2>4. \A c \in TmpContainers : OfAlloc(x, c)' <=> OfAlloc(x, c)
    BY <1>1 DEF OfAlloc
  <2>5. \A b \in Removers : OfRemoval(x, b)' => OfRemoval(x, b) \/ (b = a /\ x = IdOf(p))
    BY <1>4, <1>7 DEF OfRemoval
  <2>6. x = IdOf(p) => OfPath(x, p)
    BY <2>1 DEF OfPath
  <2>. QED  BY <1>1, <1>6, <2>2, <2>3, <2>4, <2>5, <2>6 DEF IdGood
<1>. QED  BY <1>7, <1>8

\* The ID passes from the removal to the pool.
LEMMA putProjectIDStep ==
  ASSUME QuotaInv, NEW a \in Removers, putProjectID(a)
  PROVE  QuotaInv'
<1>. DEFINE x == removal[a].id
<1>1. /\ removal[a].pc = "push" /\ projIDPool' = Append(projIDPool, x)
      /\ UNCHANGED <<projectsFile, pathIDs, tmpDirs, kernel, current, recycle, strayed, tmpFaults>>
  BY DEF putProjectID, Removing
<1>2. QuotaTypes /\ removal[a] \in Removals /\ OnePerPath(projectsFile) /\ x \in Nat
  BY DEF QuotaInv, QuotaTypes, Removals
<1>3. projIDPool' \in Seq(Nat) /\ pathIDs' \in [DOMAIN pathIDs' -> Nat] /\ strayed' \in BOOLEAN /\ tmpFaults' \in Nat
      /\ projectsFile' \in Seq(Lines) /\ OnePerPath(projectsFile')
  BY <1>1, <1>2 DEF QuotaTypes, OnePerPath
<1>4. /\ (~strayed' => \A y \in Nat : IdGood(y)') => QuotaInv'
      /\ \A y \in Nat :
           /\ \A p \in TmpPaths : OfPath(y, p)' <=> OfPath(y, p)
           /\ \A c \in TmpContainers : OfAlloc(y, c)' => OfAlloc(y, c)
           /\ \A b \in Removers : OfRemoval(y, b)' => OfRemoval(y, b) /\ b # a
  <2>1. CASE \E c \in TmpContainers : a = Rollback(c)
    <3>1. EndRemoval(a)
      BY <2>1 DEF putProjectID
    <3>. QED  BY <1>1, <1>3, <3>1, RemovalEnds
  <2>2. CASE ~\E c \in TmpContainers : a = Rollback(c)
    <3>. DEFINE s == [removal[a] EXCEPT !.pc = "erase"]
    <3>1. alloc' = alloc /\ removal' = [removal EXCEPT ![a].pc = "erase"]
      BY <2>2 DEF putProjectID
    <3>2. removal' = [removal EXCEPT ![a] = s] /\ s \in Removals /\ s.path = removal[a].path /\ s.pc = "erase"
      BY <1>2, <3>1 DEF Removals
    <3>. HIDE DEF s
    <3>3. /\ (~strayed' => \A y \in Nat : IdGood(y)') => QuotaInv'
          /\ removal'[a] = s /\ \A b \in Removers : b # a => removal'[b] = removal[b]
      BY <1>1, <1>3, <2>2, <3>1, <3>2, RemovalMoves
    <3>. QED  BY <1>1, <3>1, <3>2, <3>3 DEF OfPath, OfAlloc, OfRemoval
  <2>. QED  BY <2>1, <2>2
<1>5. ASSUME ~strayed', NEW y \in Nat PROVE IdGood(y)'
  <2>1. ~strayed /\ IdGood(y) /\ IdGood(x)
    BY <1>1, <1>2, <1>5 DEF QuotaInv
  <2>2. OfRemoval(x, a)
    BY <1>1 DEF OfRemoval
  <2>3. /\ Contains(projIDPool', y) <=> Contains(projIDPool, y) \/ y = x
        /\ Once(projIDPool, y) /\ (y = x => ~Contains(projIDPool, y)) => Once(projIDPool', y)
        /\ Contains(projIDPool', 0) <=> Contains(projIDPool, 0) \/ 0 = x
    <3>. HIDE DEF x
    <3>1. ASSUME NEW z \in Nat
          PROVE  /\ Contains(Append(projIDPool, x), z) <=> Contains(projIDPool, z) \/ z = x
                 /\ Once(projIDPool, z) /\ (z = x => ~Contains(projIDPool, z)) => Once(Append(projIDPool, x), z)
      BY <1>2, AppendFacts DEF QuotaTypes
    <3>. QED  BY <1>1, <3>1
  <2>. HIDE DEF x
  <2>. QED  BY <1>4, <2>1, <2>2, <2>3 DEF IdGood
<1>. QED  BY <1>4, <1>5

-----------------------------------------------------------------------------
(* The recycle task *)

\* The maps that are read from the lines.
LEMMA MapOfFacts ==
  ASSUME NEW s \in Seq(Lines), OnePerPath(s)
  PROVE  /\ MapOf(s) \in [DOMAIN MapOf(s) -> Nat] /\ DOMAIN MapOf(s) \subseteq TmpPaths
         /\ \A p \in DOMAIN MapOf(s) : <<MapOf(s)[p], p>> \in Lines /\ Contains(s, <<MapOf(s)[p], p>>)
<1>1. DOMAIN s = 1..Len(s) /\ \A i \in 1..Len(s) : s[i] \in Lines
  OBVIOUS
<1>2. DOMAIN MapOf(s) = {s[i][2] : i \in 1..Len(s)}
  BY <1>1 DEF MapOf
<1>3. ASSUME NEW p \in DOMAIN MapOf(s)
      PROVE  p \in TmpPaths /\ <<MapOf(s)[p], p>> \in Lines /\ Contains(s, <<MapOf(s)[p], p>>)
  <2>1. PICK k \in 1..Len(s) : s[k][2] = p
    BY <1>2
  <2>. DEFINE Latest(i) == s[i][2] = p /\ \A j \in DOMAIN s : s[j][2] = p => j <= i
              c == CHOOSE i \in DOMAIN s : Latest(i)
  <2>2. k \in DOMAIN s /\ Latest(k)
    BY <1>1, <2>1 DEF OnePerPath
  <2>3. c \in DOMAIN s /\ Latest(c)
    BY <2>2
  <2>4. MapOf(s)[p] = s[c][1]
    BY <1>1, <1>3 DEF MapOf
  <2>. HIDE DEF c
  <2>5. s[c] \in Lines /\ s[c][2] = p
    BY <1>1, <2>3
  <2>6. s[c] = <<s[c][1], p>> /\ p \in TmpPaths /\ s[c][1] \in Nat
    BY <2>5 DEF Lines
  <2>. QED  BY <1>1, <2>3, <2>4, <2>5, <2>6 DEF Contains
<1>4. \A p \in DOMAIN MapOf(s) : MapOf(s)[p] \in Nat
  BY <1>3 DEF Lines
<1>5. MapOf(s) = [p \in DOMAIN MapOf(s) |-> MapOf(s)[p]]
  BY DEF MapOf
<1>. QED  BY <1>3, <1>4, <1>5

LEMMA RecycleStep ==
  ASSUME QuotaInv, syncRead \/ syncInstall \/ SnapshotProjectPaths \/ decideRecycle \/ recycleNext
  PROVE  QuotaInv'
<1>1. UNCHANGED <<projectsFile, projIDPool, tmpDirs, kernel, current, alloc, tmpFaults>>
  BY DEF syncRead, syncInstall, SnapshotProjectPaths, decideRecycle, recycleNext
<1>2. /\ QuotaTypes /\ OnePerPath(projectsFile) /\ OnePerPath(recycle.snapshot) /\ KnownAreOld
      /\ recycle \in [pc : {"idle", "sync", "list", "decide", "remove"}, round : Nat,
                      snapshot : Seq(Lines), todo : SUBSET TmpPaths, list : SUBSET TmpPaths]
  BY DEF QuotaInv, QuotaTypes
<1>3. \A p \in TmpPaths : Old(p)' <=> Old(p)
  BY <1>1 DEF Old
<1>4. ASSUME NEW l PROVE ~Contains(<< >>, l)
  BY DEF Contains
\* What the task writes down comes from the file, the map or its lists.
<1>5. /\ recycle' \in [pc : {"idle", "sync", "list", "decide", "remove"}, round : Nat,
                       snapshot : Seq(Lines), todo : SUBSET TmpPaths, list : SUBSET TmpPaths]
      /\ recycle'.snapshot \in {projectsFile, recycle.snapshot, << >>}
      /\ recycle'.todo \subseteq DOMAIN pathIDs \cup recycle.todo
      /\ recycle'.list \subseteq recycle.todo \cup recycle.list
      /\ \A p \in recycle'.list : p # current[p[1]]
  <2>0. projectsFile \in Seq(Lines) /\ DOMAIN pathIDs \subseteq TmpPaths /\ \A p \in recycle.list : p # current[p[1]]
    BY <1>2 DEF QuotaTypes, KnownAreOld
  <2>1. CASE syncRead
    <3>1. recycle' = [recycle EXCEPT !.pc = "sync", !.round = recycle.round + 1, !.snapshot = projectsFile]
      BY <1>2, <2>1 DEF syncRead
    <3>2. recycle'.snapshot = projectsFile /\ recycle'.todo = recycle.todo /\ recycle'.list = recycle.list
      BY <1>2, <3>1
    <3>3. recycle.round + 1 \in Nat
      BY <1>2
    <3>. QED  BY <1>2, <2>0, <3>1, <3>2, <3>3, Zenon
  <2>2. CASE syncInstall
    <3>1. recycle' = [recycle EXCEPT !.pc = "list", !.snapshot = << >>]
      BY <2>2 DEF syncInstall
    <3>2. recycle'.snapshot = << >> /\ recycle'.todo = recycle.todo /\ recycle'.list = recycle.list
      BY <1>2, <3>1
    <3>3. << >> \in Seq(Lines)
      OBVIOUS
    <3>. QED  BY <1>2, <2>0, <3>1, <3>2, <3>3, Zenon
  <2>3. CASE SnapshotProjectPaths
    BY <1>2, <2>0, <2>3 DEF SnapshotProjectPaths
  <2>4. CASE decideRecycle
    <3>. DEFINE D == {p \in recycle.todo : OutdatedPath(p)}
    <3>1. D \subseteq recycle.todo /\ D \subseteq TmpPaths /\ \A p \in D : p # current[p[1]]
      BY <1>2 DEF OutdatedPath
    <3>2. recycle' = [recycle EXCEPT !.pc = "remove", !.todo = {}, !.list = D]
      BY <2>4 DEF decideRecycle
    <3>. HIDE DEF D
    <3>. QED  BY <1>2, <3>1, <3>2
  <2>5. CASE recycleNext
    <3>. DEFINE D == recycle.list \ {CHOOSE q \in recycle.list : TRUE}
    <3>1. D \subseteq recycle.list /\ D \subseteq TmpPaths
      BY <1>2
    <3>2. recycle' = [recycle EXCEPT !.pc = "idle"] \/ recycle' = [recycle EXCEPT !.list = D]
      BY <1>2, <2>5 DEF recycleNext
    <3>. HIDE DEF D
    <3>. QED  BY <1>2, <2>0, <3>1, <3>2
  <2>. QED  BY <2>1, <2>2, <2>3, <2>4, <2>5
<1>6. \/ pathIDs' = pathIDs /\ strayed' = strayed
      \/ pathIDs' = MapOf(recycle.snapshot) /\ strayed' = (strayed \/ pathIDs' # pathIDs)
  BY DEF syncRead, syncInstall, SnapshotProjectPaths, decideRecycle, recycleNext
<1>7. /\ pathIDs' \in [DOMAIN pathIDs' -> Nat] /\ DOMAIN pathIDs' \subseteq TmpPaths
      /\ \A p \in DOMAIN pathIDs' :
           \/ p \in DOMAIN pathIDs /\ pathIDs'[p] = pathIDs[p]
           \/ <<pathIDs'[p], p>> \in Lines /\ Contains(recycle.snapshot, <<pathIDs'[p], p>>)
      /\ strayed' \in BOOLEAN /\ (~strayed' => ~strayed /\ pathIDs' = pathIDs)
  <2>1. CASE pathIDs' = pathIDs /\ strayed' = strayed
    BY <1>2, <2>1 DEF QuotaTypes
  <2>2. CASE pathIDs' = MapOf(recycle.snapshot) /\ strayed' = (strayed \/ pathIDs' # pathIDs)
    BY <1>2, <2>2, MapOfFacts
  <2>. QED  BY <1>6, <2>1, <2>2
<1>. DEFINE start(p) == [pc |-> "file", path |-> p, id |-> 0]
<1>8. /\ removal' \in [Removers -> Removals]
      /\ \A a \in Removers :
           \/ removal'[a] = removal[a]
           \/ a = Recycler /\ \E p \in recycle.list : removal'[a] = start(p)
  <2>1. removal \in [Removers -> Removals] /\ \A p \in recycle.list : start(p) \in Removals
    BY <1>2 DEF QuotaTypes, Removals
  <2>2. CASE removal' = removal
    BY <2>1, <2>2
  <2>3. CASE removal' # removal
    <3>1. \E p \in recycle.list : removal' = [removal EXCEPT ![Recycler] = start(p)]
      BY <2>3 DEF syncRead, syncInstall, SnapshotProjectPaths, decideRecycle, recycleNext, Start
    <3>. QED  BY <2>1, <3>1, RemoverFacts
  <2>. QED  BY <2>2, <2>3
<1>9. \A l \in Lines : Contains(recycle'.snapshot, l) => Contains(projectsFile, l) \/ Contains(recycle.snapshot, l)
  BY <1>4, <1>5
<1>10. QuotaTypes'
  BY <1>1, <1>2, <1>5, <1>7, <1>8 DEF QuotaTypes
<1>11. OnePerPath(projectsFile)' /\ OnePerPath(recycle.snapshot)'
  <2>1. OnePerPath(<< >>)
    BY DEF OnePerPath
  <2>2. OnePerPath(projectsFile') /\ OnePerPath(recycle'.snapshot)
    BY <1>1, <1>2, <1>5, <2>1
  <2>. QED  BY <2>2 DEF OnePerPath
<1>12. KnownAreOld'
  <2>1. \A p \in DOMAIN pathIDs' : Old(p)
    <3>1. \A l \in Lines : Contains(recycle.snapshot, l) => Old(l[2])
      BY <1>2 DEF KnownAreOld
    <3>2. \A p \in DOMAIN pathIDs : Old(p)
      BY <1>2 DEF KnownAreOld
    <3>. QED  BY <1>7, <3>1, <3>2
  <2>2. \A p \in recycle'.todo \cup recycle'.list : Old(p) /\ p \in TmpPaths
    BY <1>2, <1>5 DEF KnownAreOld
  <2>3. \A l \in Lines : Contains(projectsFile', l) \/ Contains(recycle'.snapshot, l) => Old(l[2])'
    <3>1. \A l \in Lines : l[2] \in TmpPaths
      BY DEF Lines
    <3>2. \A l \in Lines : Contains(projectsFile, l) \/ Contains(recycle.snapshot, l) => Old(l[2])
      BY <1>2 DEF KnownAreOld
    <3>3. \A l \in Lines : Old(l[2])' <=> Old(l[2])
      BY <1>1 DEF Old
    <3>. QED  BY <1>1, <1>9, <3>2, <3>3
  <2>. QED  BY <1>1, <1>3, <1>5, <1>7, <2>1, <2>2, <2>3 DEF KnownAreOld
<1>13. ASSUME NEW d \in TmpContainers PROVE PathGood(d)' /\ LineGood(d)'
  <2>1. PathGood(d)'
    BY <1>1 DEF QuotaInv, PathGood, Made
  <2>2. LineGood(d)'
    BY <1>1, <1>7, <1>9, LineStays
  <2>. QED  BY <2>1, <2>2
<1>14. ASSUME NEW a \in Removers PROVE RemovalGood(a)'
  <2>1. CASE removal'[a] = removal[a]
    <3>1. RemovalGood(a)
      BY DEF QuotaInv
    <3>. QED  BY <1>1, <1>3, <2>1, <3>1, RemovalStays DEF RemovalGood
  <2>2. ASSUME a = Recycler, NEW p \in recycle.list, removal'[a] = start(p) PROVE RemovalGood(a)'
    <3>1. p \in TmpPaths /\ Old(p)' /\ p # current'[p[1]]
      BY <1>1, <1>2, <1>3 DEF KnownAreOld
    <3>. QED  BY <2>2, <3>1, RemoverFacts DEF RemovalGood
  <2>. QED  BY <1>8, <2>1, <2>2
<1>15. ASSUME ~strayed' PROVE \A x \in Nat : IdGood(x)'
  <2>1. \A x \in Nat : /\ \A p \in TmpPaths : OfPath(x, p)' => OfPath(x, p)
                       /\ \A c \in TmpContainers : OfAlloc(x, c)' => OfAlloc(x, c)
    BY <1>1, <1>7, <1>15 DEF OfPath, OfAlloc
  <2>2. \A x \in Nat, a \in Removers : OfRemoval(x, a)' => OfRemoval(x, a)
    BY <1>8 DEF OfRemoval
  <2>. QED  BY <1>1, <1>7, <1>15, <2>1, <2>2, OwnersStay
<1>. QED  BY <1>10, <1>11, <1>12, <1>13, <1>14, <1>15 DEF QuotaInv

-----------------------------------------------------------------------------
(* Temporary files: the result *)

\* The IDs that the pool starts with.
LEMMA FreshFacts ==
  ASSUME NEW lines, lines = << <<1, LeftOver>> >>, NEW pool, pool = FreshIDs(lines)
  PROVE  /\ pool \in Seq(Nat) /\ Len(pool) = IdPoolSize
         /\ \A i \in 1..IdPoolSize : pool[i] \in Nat /\ pool[i] > 1
         /\ \A i, j \in 1..IdPoolSize : pool[i] = pool[j] => i = j
<1>. DEFINE used == {lines[i][1] : i \in DOMAIN lines}
            free == (1..(IdPoolSize + Len(lines))) \ used
            Fresh(ids) ==
              /\ \A i, j \in 1..IdPoolSize : i < j => ids[i] < ids[j]
              /\ \A i \in 1..IdPoolSize, n \in free : n < ids[i] => \E j \in 1..IdPoolSize : ids[j] = n
            c == CHOOSE ids \in [1..IdPoolSize -> free] : Fresh(ids)
            w == [i \in 1..IdPoolSize |-> i + 1]
<1>1. IdPoolSize \in Nat
  BY TmpQuotaAssumption
<1>2. pool = c
  BY DEF FreshIDs
<1>3. used = {1} /\ Len(lines) = 1
  <2>1. Len(lines) = 1 /\ DOMAIN lines = 1..1 /\ lines[1] = <<1, LeftOver>>
    OBVIOUS
  <2>2. \A i \in 1..1 : i = 1
    OBVIOUS
  <2>3. lines[1][1] = 1
    BY <2>1
  <2>. HIDE DEF used
  <2>4. \A x : x \in used <=> x = 1
    BY <2>1, <2>2, <2>3 DEF used
  <2>. QED  BY <2>1, <2>4
<1>4. free = 2..(IdPoolSize + 1)
  <2>1. free = (1..(IdPoolSize + 1)) \ {1}
    BY <1>3
  <2>. HIDE DEF free
  <2>. QED  BY <1>1, <2>1
<1>. HIDE DEF used, free
<1>5. w \in [1..IdPoolSize -> free]
  BY <1>1, <1>4
<1>6. Fresh(w)
  <2>1. \A i, j \in 1..IdPoolSize : i < j => w[i] < w[j]
    BY <1>1
  <2>2. ASSUME NEW n \in free PROVE n - 1 \in 1..IdPoolSize /\ w[n - 1] = n
    BY <1>1, <1>4
  <2>. HIDE DEF w
  <2>. QED  BY <2>1, <2>2
<1>7. c \in [1..IdPoolSize -> free] /\ Fresh(c)
  <2>. HIDE DEF Fresh, w
  <2>. QED  BY <1>5, <1>6
<1>. HIDE DEF c
<1>8. \A i \in 1..IdPoolSize : c[i] \in Nat /\ c[i] > 1
  BY <1>1, <1>4, <1>7
<1>9. c \in Seq(Nat) /\ Len(c) = IdPoolSize
  <2>1. c \in [1..IdPoolSize -> Nat]
    BY <1>7, <1>8
  <2>. QED  BY <1>1, <2>1
<1>10. \A i, j \in 1..IdPoolSize : c[i] = c[j] => i = j
  <2>1. \A i, j \in 1..IdPoolSize : i < j => c[i] < c[j]
    BY <1>7
  <2>. QED  BY <1>1, <1>8, <2>1
<1>. QED  BY <1>2, <1>8, <1>9, <1>10

LEMMA QuotaStarts ==
  ASSUME QuotaInit
  PROVE  QuotaInv
<1>. DEFINE l == <<1, LeftOver>>
<1>1. /\ projectsFile = <<l>> /\ pathIDs = MapOf(projectsFile) /\ projIDPool = FreshIDs(projectsFile)
      /\ tmpDirs = {LeftOver} /\ kernel = [project |-> [p \in TmpPaths |-> 0], limited |-> {}]
      /\ current = [c \in TmpContainers |-> NoTmpPath]
      /\ alloc = [c \in TmpContainers |-> [pc |-> "down", path |-> NoTmpPath, id |-> 0, gen |-> 0]]
      /\ removal = [a \in Removers |-> NoRemoval]
      /\ recycle = IdleRecycle /\ strayed = FALSE /\ tmpFaults = 0
  BY DEF QuotaInit
<1>2. LeftOver \in TmpPaths /\ LeftOver[2] = 0 /\ LeftOver[1] \in TmpContainers
  <2>1. (CHOOSE c \in TmpContainers : TRUE) \in TmpContainers
    BY TmpQuotaAssumption
  <2>2. \A c \in TmpContainers : Generations[c] \in Nat
    BY TmpQuotaAssumption
  <2>. QED  BY <2>1, <2>2, TmpPathFacts DEF LeftOver
<1>3. l \in Lines /\ l[2] = LeftOver /\ l[1] = 1
  BY <1>2 DEF Lines
<1>. HIDE DEF l
<1>4. projectsFile \in Seq(Lines) /\ Len(projectsFile) = 1 /\ projectsFile[1] = l
  BY <1>1, <1>3
<1>5. OnePerPath(projectsFile) /\ \A m : Contains(projectsFile, m) <=> m = l
  BY <1>4 DEF OnePerPath, Contains
<1>6. /\ pathIDs \in [DOMAIN pathIDs -> Nat] /\ DOMAIN pathIDs \subseteq TmpPaths
      /\ \A p \in DOMAIN pathIDs : p = LeftOver /\ pathIDs[p] = 1
  <2>1. \A p \in DOMAIN pathIDs : Contains(projectsFile, <<pathIDs[p], p>>)
    BY <1>1, <1>4, <1>5, MapOfFacts
  <2>2. \A p \in DOMAIN pathIDs : <<pathIDs[p], p>> = l
    BY <1>5, <2>1
  <2>3. \A p \in DOMAIN pathIDs : p = LeftOver /\ pathIDs[p] = 1
    BY <1>3, <2>2
  <2>. QED  BY <1>1, <1>4, <1>5, <2>3, MapOfFacts
<1>7. /\ projIDPool \in Seq(Nat) /\ Len(projIDPool) = IdPoolSize
      /\ \A i \in 1..IdPoolSize : projIDPool[i] \in Nat /\ projIDPool[i] > 1
      /\ \A i, j \in 1..IdPoolSize : projIDPool[i] = projIDPool[j] => i = j
  BY <1>1, FreshFacts DEF l
<1>8. NoRemoval \in Removals /\ NoRemoval.pc = "none"
  BY DEF NoRemoval, Removals
<1>9. recycle.snapshot = << >> /\ recycle.todo = {} /\ recycle.list = {}
      /\ recycle \in [pc : {"idle", "sync", "list", "decide", "remove"}, round : Nat,
                      snapshot : Seq(Lines), todo : SUBSET TmpPaths, list : SUBSET TmpPaths]
  BY <1>1 DEF IdleRecycle
<1>10. ASSUME NEW c \in TmpContainers
       PROVE  /\ alloc[c] \in Allocs /\ alloc[c].pc = "down" /\ alloc[c].gen = 0 /\ current[c] = NoTmpPath
              /\ Generations[c] \in Nat
  BY <1>1, TmpQuotaAssumption DEF Allocs, TmpPcs
<1>11. QuotaTypes
  <2>1. kernel \in [project : [TmpPaths -> Nat], limited : SUBSET Nat]
    BY <1>1
  <2>2. alloc \in [TmpContainers -> Allocs] /\ current \in [TmpContainers -> TmpPaths \cup {NoTmpPath}]
    BY <1>1, <1>10
  <2>3. removal \in [Removers -> Removals]
    BY <1>1, <1>8
  <2>. QED  BY <1>1, <1>2, <1>4, <1>6, <1>7, <1>9, <2>1, <2>2, <2>3 DEF QuotaTypes
<1>12. \A m : ~Contains(recycle.snapshot, m)
  BY <1>9 DEF Contains
<1>13. OnePerPath(recycle.snapshot)
  BY <1>9 DEF OnePerPath
<1>14. KnownAreOld
  <2>1. Old(LeftOver)
    BY <1>2, <1>10 DEF Old
  <2>. QED  BY <1>3, <1>5, <1>6, <1>9, <1>12, <2>1 DEF KnownAreOld
<1>15. \A c \in TmpContainers : PathGood(c) /\ LineGood(c)
  BY <1>10 DEF PathGood, LineGood, Made
<1>16. \A a \in Removers : RemovalGood(a)
  BY <1>1, <1>8 DEF RemovalGood
<1>17. ASSUME NEW x \in Nat PROVE IdGood(x)
  <2>1. Once(projIDPool, x) /\ (Contains(projIDPool, x) => x > 1) /\ ~Contains(projIDPool, 0)
    BY <1>7 DEF Once, Contains
  <2>2. \A p \in TmpPaths : OfPath(x, p) => x = 1 /\ p = LeftOver
    BY <1>3, <1>5, <1>6 DEF OfPath
  <2>3. /\ \A c \in TmpContainers : ~OfAlloc(x, c)
        /\ \A a \in Removers : ~OfRemoval(x, a)
    BY <1>1, <1>8, <1>10 DEF OfAlloc, OfRemoval
  <2>. QED  BY <2>1, <2>2, <2>3 DEF IdGood
<1>. QED  BY <1>5, <1>11, <1>13, <1>14, <1>15, <1>16, <1>17 DEF QuotaInv

\* The invariant gives the properties.
LEMMA QuotaSafe ==
  ASSUME QuotaInv
  PROVE  TmpKept /\ TmpLimited /\ ProjectsDistinct
<1>1. QuotaTypes /\ DOMAIN projectsFile = 1..Len(projectsFile) /\ DOMAIN projIDPool = 1..Len(projIDPool)
  BY DEF QuotaInv, QuotaTypes
<1>2. ASSUME NEW c \in TmpContainers, At(c, "up")
      PROVE  /\ current[c] = alloc[c].path /\ current[c] \in tmpDirs
             /\ \E i \in DOMAIN projectsFile : projectsFile[i] = <<alloc[c].id, current[c]>>
             /\ kernel.project[current[c]] = alloc[c].id /\ alloc[c].id \in kernel.limited
  <2>1. PathGood(c) /\ LineGood(c) /\ Made(c)
    BY <1>2 DEF QuotaInv, Made, At
  <2>2. current[c] = alloc[c].path /\ current[c] \in tmpDirs
    BY <2>1 DEF PathGood
  <2>3. Contains(projectsFile, <<alloc[c].id, alloc[c].path>>)
    BY <1>2, <2>1 DEF LineGood, At
  <2>. QED  BY <1>1, <1>2, <2>1, <2>2, <2>3 DEF LineGood, At, Contains
<1>3. ASSUME ~strayed
      PROVE  /\ \A i, j \in DOMAIN projectsFile : projectsFile[i][1] = projectsFile[j][1] => i = j
             /\ \A i \in DOMAIN projIDPool :
                  /\ projIDPool[i] # 0
                  /\ \A j \in DOMAIN projectsFile : projIDPool[i] # projectsFile[j][1]
                  /\ \A j \in DOMAIN projIDPool : projIDPool[i] = projIDPool[j] => i = j
  <2>1. \A x \in Nat : IdGood(x)
    BY <1>3 DEF QuotaInv
  <2>2. ASSUME NEW i \in DOMAIN projectsFile
        PROVE  projectsFile[i][1] \in Nat /\ projectsFile[i][2] \in TmpPaths /\ OfPath(projectsFile[i][1], projectsFile[i][2])
    <3>1. projectsFile[i] \in Lines
      BY <1>1 DEF QuotaTypes
    <3>2. projectsFile[i] = <<projectsFile[i][1], projectsFile[i][2]>> /\ projectsFile[i][1] \in Nat /\ projectsFile[i][2] \in TmpPaths
      BY <3>1 DEF Lines
    <3>3. Contains(projectsFile, <<projectsFile[i][1], projectsFile[i][2]>>)
      BY <1>1, <3>2 DEF Contains
    <3>. QED  BY <3>2, <3>3 DEF OfPath
  <2>3. ASSUME NEW i \in DOMAIN projectsFile, NEW j \in DOMAIN projectsFile, projectsFile[i][1] = projectsFile[j][1]
        PROVE  i = j
    <3>1. projectsFile[i][2] = projectsFile[j][2]
      BY <2>1, <2>2, <2>3 DEF IdGood
    <3>2. OnePerPath(projectsFile)
      BY DEF QuotaInv
    <3>. QED  BY <1>1, <3>1, <3>2 DEF OnePerPath
  <2>4. ASSUME NEW i \in DOMAIN projIDPool
        PROVE  /\ projIDPool[i] # 0
               /\ \A j \in DOMAIN projectsFile : projIDPool[i] # projectsFile[j][1]
               /\ \A j \in DOMAIN projIDPool : projIDPool[i] = projIDPool[j] => i = j
    <3>1. projIDPool[i] \in Nat /\ Contains(projIDPool, projIDPool[i])
      BY <1>1 DEF QuotaTypes, Contains
    <3>2. IdGood(projIDPool[i])
      BY <2>1, <3>1
    <3>3. Once(projIDPool, projIDPool[i]) /\ projIDPool[i] # 0 /\ \A p \in TmpPaths : ~OfPath(projIDPool[i], p)
      BY <3>1, <3>2 DEF IdGood
    <3>. QED  BY <1>1, <2>2, <3>3 DEF Once
  <2>. QED  BY <2>3, <2>4
<1>4. TmpKept
  BY <1>2 DEF TmpKept
<1>5. TmpLimited
  BY <1>2 DEF TmpLimited
<1>. QED  BY <1>3, <1>4, <1>5 DEF ProjectsDistinct

\* Temporary files, for any number of containers, generations and failures, any size of the
\* pool and any number of rounds of the recycle task: a container that is up has its directory,
\* its line and a limit on its own project, and no project ID is given out twice as long as the
\* maps have not strayed from the file.
THEOREM TmpAlways ==
  QuotaInit /\ [][QuotaNext]_quotaVars => [](TmpKept /\ TmpLimited /\ ProjectsDistinct)
<1>1. QuotaInv /\ QuotaNext => QuotaInv'
  BY ResetTmpStep, GenerateTmpPathStep, getNextProjectIDStep, addToFileStep, setProjectStep, mapProjectStep,
     setQuotaStep, removeFromFileStep, removeFromMapStep, putProjectIDStep, EraseFileStep, RecycleStep
     DEF QuotaNext
<1>2. QuotaInv /\ UNCHANGED quotaVars => QuotaInv'
  <2>. SUFFICES ASSUME QuotaInv, UNCHANGED quotaVars PROVE QuotaInv'
    OBVIOUS
  <2>1. /\ UNCHANGED <<projectsFile, pathIDs, projIDPool, tmpDirs, kernel, current, alloc, removal, recycle>>
        /\ UNCHANGED <<strayed, tmpFaults>>
    BY DEF quotaVars
  <2>2. QuotaTypes' /\ OnePerPath(projectsFile)' /\ OnePerPath(recycle.snapshot)' /\ KnownAreOld'
    BY <2>1 DEF QuotaInv, QuotaTypes, OnePerPath, KnownAreOld, Old
  <2>3. \A c \in TmpContainers : PathGood(c)' /\ LineGood(c)'
    BY <2>1, LineStays DEF QuotaInv, PathGood, Made
  <2>4. \A a \in Removers : RemovalGood(a)'
    BY <2>1 DEF QuotaInv, RemovalGood, Old
  <2>5. ~strayed' => \A x \in Nat : IdGood(x)'
    BY <2>1, OwnersStay DEF OfPath, OfAlloc, OfRemoval
  <2>. QED  BY <2>2, <2>3, <2>4, <2>5 DEF QuotaInv
<1>. QED  BY <1>1, <1>2, QuotaStarts, QuotaSafe, PTL

\* The temporary files of a node, on the storage of its pods: TmpStorageSafe of the run
\* node_parts, for any number of pods, devices and containers.
THEOREM TmpStorageAlways ==
  QuotaInit /\ StorageInit /\ [][QuotaNext]_quotaVars /\ [][StorageNext]_storageVars => []TmpStorageSafe
<1>1. TmpKept /\ TmpLimited /\ ProjectsDistinct /\ StorageOwn /\ StorageFits => TmpStorageSafe
  BY DEF TmpStorageSafe
<1>. QED  BY <1>1, TmpAlways, StorageAlways, PTL

-----------------------------------------------------------------------------
(* Memory and cpu *)

Roles == {"idle", "busy", "merged", "reclaiming", "failed"}
Merges == {"check", "freeze", "stats", "shrink"}
NodePcs == Merges \cup {"none", "quota", "reset"}

\* The base size, the target's new limit, the least quota.
Base == node.default.mem
MaxMilli == Max({node.milli, QuotaToMilliCPU(MinQuotaPeriod)})

\* What NewResourceManager has found.
NodeTypes ==
  /\ node.booted \in BOOLEAN
  /\ node.booted =>
       /\ node.memory \in Int /\ node.milli \in Int /\ node.baseMilli \in Int
       /\ node.default.mem \in Nat /\ node.default.mem > 1 /\ node.default.quota \in Int
       /\ node.milli > 0
       /\ node.default.mem * Cardinality(Cgroups) <= node.memory
       /\ node.baseMilli <= node.milli
  /\ ~node.booted => \A c \in Cgroups : job[c] = NoJob /\ role[c].is = "idle" /\ cg[c] = NoCgroup

CgTypes == [exists : BOOLEAN, mem : Nat, quota : Int, frozen : BOOLEAN, usage : Nat]
RoleTypes == [is : Roles, mem : Nat]
JobTypes == [pc : NodePcs, todo : SUBSET Cgroups, done : SUBSET Cgroups, seen : Nat]

ResourceTypes ==
  /\ NodeTypes
  /\ cg \in [Cgroups -> [exists : BOOLEAN, mem : Nat, quota : Int, frozen : BOOLEAN, usage : Nat]]
  /\ role \in [Cgroups -> [is : Roles, mem : Nat]]
  /\ job \in [Cgroups -> [pc : NodePcs, todo : SUBSET Cgroups, done : SUBSET Cgroups, seen : Nat]]
  /\ refused \in SUBSET Cgroups
  /\ lost \in Nat /\ writeFaults \in Nat

\* The reset of t is done with t itself.
Past(t) == job[t].pc = "reset" /\ t \notin job[t].todo
\* The containers that the scale-up of t has yet to freeze.
Pending(t) ==
  IF job[t].pc \in {"check", "freeze"} THEN job[t].todo
    ELSE IF job[t].pc \in {"stats", "shrink"} THEN job[t].todo \ {Min(job[t].todo)} ELSE {}

\* A scale-up works for a busy target on containers of its own, a reset on ones that
\* were retrieved.
MergeJob(t) ==
  /\ role[t].is = "busy" /\ job[t].todo \subseteq job[t].done
  /\ Cardinality(job[t].done) = scaleCount(role[t].mem)
  /\ job[t].pc \in {"stats", "shrink"} => Min(job[t].todo) \in job[t].todo
ResetJob(t) ==
  /\ \A c \in job[t].done : role[c].is \in {"reclaiming", "failed"}
  /\ job[t].todo = {t} \/ job[t].todo \subseteq job[t].done
  /\ \/ role[t].is = "busy" /\ Cardinality(job[t].done) <= scaleCount(role[t].mem)
     \/ role[t].is = "failed" /\ job[t].done = {}
JobKept(t) ==
  /\ job[t].pc = "none" => job[t] = NoJob
  /\ job[t].pc \in Merges => MergeJob(t)
  /\ job[t].pc = "quota" => role[t].is = "busy" /\ job[t].todo = {}
  /\ job[t].pc = "reset" => ResetJob(t)
  /\ job[t].pc \in Merges \cup {"quota"} => \A c \in job[t].done : Retrievable(c)
  /\ role[t].is = "busy" => role[t].mem > Base
JobsKept ==
  /\ \A t \in Cgroups : JobKept(t) /\ (cg[t].frozen => Retrievable(t))
  /\ \A t, u \in Cgroups : t # u /\ job[t].pc \in Merges /\ job[u].pc \in Merges
                             => job[t].done \cap job[u].done = {}

\* Limits: only a target that was scaled up has more than a base size and a buffer.
LimitKept(c) ==
  /\ cg[c].usage <= cg[c].mem
  /\ role[c].is # "busy" => cg[c].mem <= Base + 1
  /\ role[c].is = "idle" => cg[c].mem <= Base
  /\ role[c].is = "busy" /\ cg[c].mem > Base =>
       /\ cg[c].mem = role[c].mem /\ ~Past(c)
       /\ job[c].pc \in {"none", "quota", "reset"}
MergeLimits(t) ==
  job[t].pc \in Merges =>
    /\ \A c \in job[t].todo : cg[c].mem <= Base
    /\ job[t].pc = "shrink" => job[t].seen <= Base
LimitsKept == node.booted => \A c \in Cgroups : LimitKept(c) /\ MergeLimits(c)

\* What was read of a merged container is still true.
StatsOf(t) ==
  job[t].pc \in {"stats", "shrink"} /\ role[Min(job[t].todo)].is = "merged" =>
    /\ cg[Min(job[t].todo)].frozen
    /\ job[t].pc = "shrink" => job[t].seen = cg[Min(job[t].todo)].usage
StatsFresh ==
  /\ \A c \in refused : role[c].is \in {"reclaiming", "failed"}
  /\ \A t \in Cgroups : StatsOf(t)

QuotasKept == node.booted =>
  /\ \A c \in Cgroups : QuotaToMilliCPU(cg[c].quota) <= MaxMilli
  /\ QuotaToMilliCPU(node.default.quota) <= MaxMilli

\* A reset may thaw the container, or a failure has given it up.
Charged(c) == role[c].is = "failed" \/ \E t \in Cgroups : Past(t) /\ c \in job[t].todo
\* Containers that are frozen, or will be, and stay so.
Promised == {c \in Cgroups : /\ cg[c].frozen \/ \E t \in Cgroups : c \in Pending(t)
                             /\ ~Charged(c)}
\* The containers that a target needs to be frozen for its memory.
Need(t) == IF role[t].is = "busy" /\ ~Past(t) THEN scaleCount(role[t].mem) ELSE 0
Ledger == node.booted => SumFunction([t \in Cgroups |-> Need(t)]) <= Cardinality(Promised) + lost

ResourceInv == ResourceTypes /\ JobsKept /\ LimitsKept /\ StatsFresh /\ QuotasKept /\ Ledger

LEMMA MaxOfTwo ==
  ASSUME NEW a \in Int, NEW b \in Int
  PROVE  Max({a, b}) \in Int /\ Max({a, b}) >= a /\ Max({a, b}) >= b /\ Max({a, b}) \in {a, b}
<1>1. \E x \in {a, b} : \A y \in {a, b} : x >= y
  <2>1. CASE a >= b
    BY <2>1
  <2>2. CASE b >= a
    BY <2>2
  <2>. QED  BY <2>1, <2>2
<1>2. Max({a, b}) \in {a, b} /\ \A y \in {a, b} : Max({a, b}) >= y
  BY <1>1 DEF Max
<1>. QED  BY <1>2

\* The quota of a cpu limit stands for that limit, or for the least quota.
LEMMA QuotaOfMilli ==
  ASSUME NEW m \in Int
  PROVE  /\ MilliCPUToQuota(m) \in Int
         /\ m = 0 => MilliCPUToQuota(m) = 0
         /\ QuotaToMilliCPU(MilliCPUToQuota(m)) <= m \/ QuotaToMilliCPU(MilliCPUToQuota(m)) <= 10
<1>1. (m * Period) \div MilliCPUToCPU = m * 100
  BY DEF Period, MilliCPUToCPU
<1>2. (m * 100) \in Int /\ MinQuotaPeriod \in Int
  BY DEF MinQuotaPeriod
<1>3. CASE m = 0
  BY <1>3 DEF MilliCPUToQuota, QuotaToMilliCPU, MilliCPUToCPU, Period
<1>4. CASE m # 0
  <2>. DEFINE q == MilliCPUToQuota(m)
  <2>1. q = Max({m * 100, MinQuotaPeriod})
    BY <1>1, <1>4 DEF MilliCPUToQuota
  <2>2. q \in Int /\ q \in {m * 100, 1000} /\ q >= 1000
    BY <1>2, <2>1, MaxOfTwo DEF MinQuotaPeriod
  <2>. HIDE DEF q
  <2>3. QuotaToMilliCPU(q) = (q * 1000) \div 100000
    BY <2>2 DEF QuotaToMilliCPU, MilliCPUToCPU, Period
  <2>4. QuotaToMilliCPU(q) \in {m, 10}
    <3>1. CASE q = 1000
      BY <2>3, <3>1
    <3>2. CASE q = m * 100
      <4>1. (q * 1000) \div 100000 = m
        BY <3>2
      <4>. QED  BY <2>3, <4>1
    <3>. QED  BY <2>2, <3>1, <3>2
  <2>5. q = MilliCPUToQuota(m)
    BY DEF q
  <2>. QED  BY <1>4, <2>2, <2>4, <2>5
<1>. QED  BY <1>3, <1>4

LEMMA MaxMilliFacts ==
  ASSUME node.milli \in Int
  PROVE  MaxMilli \in Int /\ node.milli <= MaxMilli /\ 10 <= MaxMilli
<1>1. QuotaToMilliCPU(MinQuotaPeriod) = 10
  BY DEF QuotaToMilliCPU, MinQuotaPeriod, MilliCPUToCPU, Period
<1>2. MaxMilli = Max({node.milli, 10})
  BY <1>1 DEF MaxMilli
<1>. QED  BY <1>2, MaxOfTwo

\* A limit within the node gives a quota within the node.
LEMMA ConfigFits ==
  ASSUME node.milli \in Int, node.milli > 0, NEW mem, NEW m \in Int, m <= node.milli
  PROVE  /\ GetResourcesConfig(mem, m).mem = mem
         /\ GetResourcesConfig(mem, m).quota \in Int
         /\ QuotaToMilliCPU(GetResourcesConfig(mem, m).quota) <= MaxMilli
<1>1. MaxMilli \in Int /\ node.milli <= MaxMilli /\ 10 <= MaxMilli
  BY MaxMilliFacts
<1>2. GetResourcesConfig(mem, m).mem = mem
  BY DEF GetResourcesConfig
<1>3. CASE m = -MilliCPUToCPU
  <2>1. GetResourcesConfig(mem, m).quota = -1
    BY <1>3 DEF GetResourcesConfig, CPUNoLimits
  <2>2. QuotaToMilliCPU(-1) = -1
    BY DEF QuotaToMilliCPU
  <2>. QED  BY <1>1, <1>2, <2>1, <2>2
<1>4. CASE m # -MilliCPUToCPU
  <2>1. GetResourcesConfig(mem, m).quota = MilliCPUToQuota(m)
    BY <1>4 DEF GetResourcesConfig
  <2>2. QuotaToMilliCPU(MilliCPUToQuota(m)) \in Int
    BY QuotaOfMilli DEF QuotaToMilliCPU, MilliCPUToCPU, Period
  <2>. QED  BY <1>1, <1>2, <2>1, <2>2, QuotaOfMilli
<1>. QED  BY <1>3, <1>4

LEMMA TargetConfigFits ==
  ASSUME NodeTypes, node.booted, NEW mem \in Nat
  PROVE  /\ TargetConfig(mem).mem = mem /\ TargetConfig(mem).quota \in Int
         /\ QuotaToMilliCPU(TargetConfig(mem).quota) <= MaxMilli
<1>. DEFINE milli == (mem \div node.default.mem) * node.baseMilli
            m == IF milli > node.milli THEN (node.milli \div MilliCPUToCPU) * MilliCPUToCPU
                                       ELSE milli
<1>1. mem \div node.default.mem \in Int
  BY DEF NodeTypes
<1>2. milli \in Int /\ node.milli \in Int /\ node.milli > 0
  BY <1>1 DEF NodeTypes
<1>3. /\ (node.milli \div MilliCPUToCPU) * MilliCPUToCPU \in Int
      /\ (node.milli \div MilliCPUToCPU) * MilliCPUToCPU <= node.milli
  BY <1>2 DEF MilliCPUToCPU
<1>4. m \in Int /\ m <= node.milli
  <2>. HIDE DEF milli
  <2>. QED  BY <1>2, <1>3
<1>5. TargetConfig(mem) = GetResourcesConfig(mem, m)
  BY DEF TargetConfig
<1>. HIDE DEF m
<1>. QED  BY <1>2, <1>4, <1>5, ConfigFits

\* A funclet that has not started has nothing to do; afterwards nothing changes the node.
LEMMA OnlyStarts ==
  ASSUME NodeTypes, ~node.booted, NodeNext
  PROVE  \E o \in NodeOptions : NewResourceManager(o)
<1>1. \A c \in Cgroups : /\ job[c].pc = "none" /\ job[c].todo = {} /\ role[c].is = "idle"
                         /\ ~cg[c].exists /\ job[c] = NoJob
  BY DEF NodeTypes, NoJob, NoCgroup
<1>. QED
  BY <1>1, Zenon DEF NodeNext, Use, RequestScaleUp, RequestReset, RequestResetAlone, RequestResetRefused,
       Recommends, RequestReborn, scaleUpChecks, scaleUpFindsNone, scaleUpMemory, scaleUpQuota,
       ScaleUpFails, ResetEnds, GoesTo

LEMMA NodeStays ==
  ASSUME NodeTypes, node.booted, NodeNext
  PROVE  node' = node
  BY ZenonT(60) DEF NodeNext, NewResourceManager, Use, RequestScaleUp, RequestReset, RequestResetAlone, RequestResetRefused,
       RequestReborn, scaleUpChecks, scaleUpFindsNone, scaleUpMemory, scaleUpQuota,
       ScaleUpFails, ResetEnds, FrozenContainer, ContainerResourceStats, scaleDownContainerToMinimum,
       CgroupNotExist, ResetRemoves, ResetInits, ResetFails

LEMMA TypesFacts ==
  ASSUME ResourceTypes, NEW c \in Cgroups
  PROVE  /\ cg \in [Cgroups -> CgTypes] /\ role \in [Cgroups -> RoleTypes] /\ job \in [Cgroups -> JobTypes]
         /\ cg[c].exists \in BOOLEAN /\ cg[c].frozen \in BOOLEAN /\ cg[c].mem \in Nat /\ cg[c].quota \in Int
         /\ cg[c].usage \in Nat
         /\ role[c].is \in Roles /\ role[c].mem \in Nat
         /\ job[c].pc \in NodePcs /\ job[c].todo \subseteq Cgroups /\ job[c].done \subseteq Cgroups
         /\ job[c].seen \in Nat
  BY DEF ResourceTypes, CgTypes, RoleTypes, JobTypes

LEMMA SetsSmall ==
  ASSUME NEW S \in SUBSET Cgroups
  PROVE  IsFiniteSet(S) /\ Cardinality(S) \in Nat
  BY CgroupsAssumption, FS_Subset, FS_CardinalityType

\* The start: what HasSufficientResources has checked.
LEMMA BootStep ==
  ASSUME ResourceTypes, NEW o \in NodeOptions, NewResourceManager(o)
  PROVE  /\ ResourceTypes' /\ QuotasKept'
         /\ node'.booted /\ \A c \in Cgroups : cg'[c].mem = node'.default.mem /\ cg'[c].usage = 0 /\ ~cg'[c].frozen
         /\ \A c \in Cgroups : job'[c] = NoJob /\ role'[c].is = "idle"
<1>1. /\ o.cgroupMemory \in Nat /\ o.totalMemory \in Nat /\ o.reservedMemory \in Nat /\ o.memory \in Nat
      /\ o.cgroupQuota \in Int /\ o.totalMilli \in Int /\ o.reservedMilli \in Int /\ o.milli \in Int
      /\ o.memory > 1
  BY CgroupsAssumption
<1>2. getMemoryCapacity(o) \in Nat
  BY <1>1 DEF getMemoryCapacity
<1>3. getMilliCPUCapacity(o) \in Int
  BY <1>1 DEF getMilliCPUCapacity, QuotaToMilliCPU, MilliCPUToCPU, Period
<1>4. /\ node'.booted = TRUE /\ node'.memory = getMemoryCapacity(o) - o.reservedMemory
      /\ node'.milli = getMilliCPUCapacity(o) - o.reservedMilli /\ node'.baseMilli = o.milli
      /\ node'.default = GetResourcesConfig(o.memory, o.milli)
  BY DEF NewResourceManager
<1>5. node'.memory \in Int /\ node'.milli \in Int /\ node'.milli > 0 /\ node'.baseMilli \in Int
  BY <1>1, <1>2, <1>3, <1>4 DEF NewResourceManager, HasSufficientResources
<1>6. /\ node'.default.mem = o.memory /\ node'.default.quota = GetResourcesConfig(o.memory, o.milli).quota
  BY <1>4 DEF GetResourcesConfig
<1>7. GetResourcesConfig(o.memory, o.milli).quota \in Int
  BY <1>1, QuotaOfMilli DEF GetResourcesConfig, CPUNoLimits
<1>8. \A c \in Cgroups : cg'[c] = [exists |-> TRUE, mem |-> o.memory,
                                   quota |-> GetResourcesConfig(o.memory, o.milli).quota,
                                   frozen |-> FALSE, usage |-> 0]
  BY DEF NewResourceManager
<1>9. cg' \in [Cgroups -> CgTypes]
  <2>. DEFINE q == GetResourcesConfig(o.memory, o.milli).quota
  <2>3. q \in Int /\ \A c \in Cgroups : cg'[c] = [exists |-> TRUE, mem |-> o.memory, quota |-> q,
                                                           frozen |-> FALSE, usage |-> 0]
    BY <1>7, <1>8
  <2>. HIDE DEF q
  <2>. DEFINE m == o.memory
  <2>4. m \in Nat
    BY <1>1
  <2>5. \A c \in Cgroups : cg'[c] = [exists |-> TRUE, mem |-> m, quota |-> q, frozen |-> FALSE, usage |-> 0]
    BY <2>3
  <2>. HIDE DEF m
  <2>1. \A c \in Cgroups : cg'[c] \in CgTypes
    <3>1. [exists |-> TRUE, mem |-> m, quota |-> q, frozen |-> FALSE, usage |-> 0] \in CgTypes
      BY <2>3, <2>4 DEF CgTypes
    <3>. QED  BY <2>5, <3>1
  <2>2. cg' = [c \in Cgroups |-> cg'[c]]
    BY DEF NewResourceManager
  <2>. QED  BY <2>1, <2>2
<1>10. node'.default.mem * Cardinality(Cgroups) <= node'.memory /\ node'.baseMilli <= node'.milli
  BY <1>4, <1>6 DEF NewResourceManager, HasSufficientResources
<1>11. ~node.booted /\ role' = role /\ job' = job /\ refused' = refused /\ lost' = lost /\ writeFaults' = writeFaults
  BY DEF NewResourceManager
<1>12. ResourceTypes'
  BY <1>1, <1>4, <1>5, <1>6, <1>7, <1>9, <1>10, <1>11 DEF ResourceTypes, NodeTypes, CgTypes
<1>13. QuotasKept'
  <2>. DEFINE q == GetResourcesConfig(o.memory, o.milli).quota
  <2>1. QuotaToMilliCPU(q) <= MaxMilli'
    <3>. DEFINE mm == MaxMilli'
    <3>1. mm = Max({node'.milli, QuotaToMilliCPU(MinQuotaPeriod)})
      BY DEF MaxMilli
    <3>2. QuotaToMilliCPU(MinQuotaPeriod) = 10
      BY DEF QuotaToMilliCPU, MinQuotaPeriod, MilliCPUToCPU, Period
    <3>. HIDE DEF mm
    <3>7. mm = Max({node'.milli, 10})
      BY <3>1, <3>2
    <3>3. mm \in Int /\ mm >= node'.milli /\ mm >= 10
      BY <1>5, <3>7, MaxOfTwo
    <3>4. o.milli <= mm
      BY <1>1, <1>4, <1>5, <1>10, <3>3
    <3>5. ASSUME o.milli = -MilliCPUToCPU PROVE QuotaToMilliCPU(q) <= mm
      BY <3>3, <3>5 DEF GetResourcesConfig, CPUNoLimits, QuotaToMilliCPU
    <3>6. ASSUME o.milli # -MilliCPUToCPU PROVE QuotaToMilliCPU(q) <= mm
      <4>1. q = MilliCPUToQuota(o.milli)
        BY <3>6 DEF GetResourcesConfig
      <4>2. QuotaToMilliCPU(MilliCPUToQuota(o.milli)) \in Int
        BY <1>1, QuotaOfMilli DEF QuotaToMilliCPU, MilliCPUToCPU, Period
      <4>. HIDE DEF q
      <4>. QED  BY <1>1, <3>3, <3>4, <4>1, <4>2, QuotaOfMilli
    <3>. QED  BY <3>5, <3>6 DEF mm
  <2>2. \A c \in Cgroups : cg'[c].quota = q
    BY <1>8
  <2>3. node'.default.quota = q
    BY <1>6
  <2>. HIDE DEF q
  <2>. QED  BY <2>1, <2>2, <2>3 DEF QuotasKept, QuotaToMilliCPU
<1>. QED  BY <1>1, <1>4, <1>6, <1>8, <1>11, <1>12, <1>13 DEF ResourceTypes, NodeTypes

\* Where the variables go, for the steps of a funclet that runs.
LEMMA TypesStep ==
  ASSUME ResourceTypes, node.booted, NodeNext
  PROVE  ResourceTypes'
<1>1. node' = node
  BY NodeStays DEF ResourceTypes
<1>2. NodeTypes'
  BY <1>1 DEF ResourceTypes, NodeTypes
<1>3. /\ cg \in [Cgroups -> CgTypes] /\ role \in [Cgroups -> RoleTypes] /\ job \in [Cgroups -> JobTypes]
      /\ refused \subseteq Cgroups /\ lost \in Nat /\ writeFaults \in Nat
  BY DEF ResourceTypes, CgTypes, RoleTypes, JobTypes
<1>4. \A t \in Cgroups : Cardinality(job[t].done) \in Nat
  BY <1>3, SetsSmall DEF JobTypes
<1>5. node.default.mem \in Nat /\ node.default.quota \in Int
  BY DEF ResourceTypes, NodeTypes
<1>6. NoJob \in JobTypes /\ NoCgroup \in CgTypes
  BY DEF NoJob, NoCgroup, JobTypes, CgTypes, NodePcs
<1>28. ASSUME NEW t \in Cgroups, NEW p \in NodePcs, NEW T \in SUBSET Cgroups, NEW n \in Nat
       PROVE  /\ [job[t] EXCEPT !.pc = p] \in JobTypes /\ [job[t] EXCEPT !.pc = p, !.seen = n] \in JobTypes
              /\ [job[t] EXCEPT !.pc = p, !.todo = T] \in JobTypes
  <2>1. job[t] \in JobTypes
    BY <1>3
  <2>. QED  BY <2>1 DEF JobTypes
<1>29. {"quota", "stats", "shrink", "freeze"} \subseteq NodePcs
  BY DEF NodePcs, Merges
<1>7. ASSUME NEW t \in Cgroups, NEW n \in Usages[t], Use(t, n)
      PROVE  cg' \in [Cgroups -> CgTypes] /\ role' = role /\ job' = job /\ refused' = refused /\ lost' = lost
             /\ writeFaults' = writeFaults
  <2>1. n \in Nat
    BY CgroupsAssumption
  <2>. QED  BY <1>3, <1>7, <2>1 DEF Use, CgTypes
<1>8. ASSUME NEW t \in Cgroups, NEW mem \in TargetSizes, NEW S \in SUBSET Cgroups, RequestScaleUp(t, mem, S)
      PROVE  /\ role' \in [Cgroups -> RoleTypes] /\ job' \in [Cgroups -> JobTypes]
             /\ cg' = cg /\ refused' = refused /\ lost' = lost /\ writeFaults' = writeFaults
  <2>1. mem \in Nat
    BY CgroupsAssumption
  <2>2. [is |-> "busy", mem |-> mem] \in RoleTypes /\ [is |-> "merged", mem |-> 0] \in RoleTypes
    BY <2>1 DEF RoleTypes, Roles
  <2>3. role' \in [Cgroups -> RoleTypes]
    BY <1>3, <1>8, <2>2 DEF RequestScaleUp
  <2>4. [pc |-> "check", todo |-> S, done |-> S, seen |-> 0] \in JobTypes
    BY DEF JobTypes, NodePcs, Merges
  <2>. QED  BY <1>3, <1>8, <2>3, <2>4 DEF RequestScaleUp
<1>9. ASSUME NEW S \in SUBSET Cgroups
      PROVE  Retrieved(S) \in [Cgroups -> RoleTypes] /\ Failed(S) \in [Cgroups -> RoleTypes]
  <2>1. [is |-> "reclaiming", mem |-> 0] \in RoleTypes /\ [is |-> "failed", mem |-> 0] \in RoleTypes
    BY DEF RoleTypes, Roles
  <2>. QED  BY <1>3, <2>1 DEF Retrieved, Failed
<1>10. ASSUME NEW t \in Cgroups, NEW S \in SUBSET Cgroups, RequestReset(t, S) \/ RequestResetAlone(t, S)
       PROVE  /\ role' \in [Cgroups -> RoleTypes] /\ job' \in [Cgroups -> JobTypes]
              /\ cg' = cg /\ refused' = refused /\ lost' = lost /\ writeFaults' = writeFaults
  <2>1. /\ [pc |-> "reset", todo |-> {t}, done |-> S, seen |-> 0] \in JobTypes
        /\ [pc |-> "reset", todo |-> {t}, done |-> {}, seen |-> 0] \in JobTypes
    BY DEF JobTypes, NodePcs, Merges
  <2>. QED  BY <1>3, <1>9, <1>10, <2>1 DEF RequestReset, RequestResetAlone, Ends
<1>11. ASSUME NEW t \in Cgroups, NEW S \in SUBSET Cgroups, RequestResetRefused(t, S)
       PROVE  /\ role' \in [Cgroups -> RoleTypes] /\ job' = job
              /\ cg' = cg /\ refused' = refused /\ lost' \in Nat /\ writeFaults' \in Nat
  BY <1>3, <1>9, <1>11, SetsSmall DEF RequestResetRefused, Abandons
<1>12. ASSUME NEW t \in Cgroups, RequestReborn(t)
       PROVE  job' \in [Cgroups -> JobTypes] /\ UNCHANGED <<cg, role, refused, lost, writeFaults>>
  <2>1. [pc |-> "reset", todo |-> {t}, done |-> {}, seen |-> 0] \in JobTypes
    BY DEF JobTypes, NodePcs, Merges
  <2>. QED  BY <1>3, <1>12, <2>1 DEF RequestReborn, Ends
<1>13. ASSUME NEW t \in Cgroups, scaleUpChecks(t)
       PROVE  job' \in [Cgroups -> JobTypes] /\ UNCHANGED <<cg, role, refused, lost, writeFaults>>
  BY <1>3, <1>13 DEF scaleUpChecks, GoesTo, JobTypes, NodePcs, Merges
<1>14. ASSUME NEW t \in Cgroups, Fails(t)
       PROVE  job' \in [Cgroups -> JobTypes] /\ lost' \in Nat
  BY <1>3, <1>4, <1>6, <1>14 DEF Fails, Abandons, Ends
<1>15. ASSUME NEW t \in Cgroups, scaleUpFindsNone(t) \/ ScaleUpFails(t)
       PROVE  job' \in [Cgroups -> JobTypes] /\ lost' \in Nat /\ writeFaults' \in Nat
              /\ UNCHANGED <<cg, role, refused>>
  BY <1>3, <1>14, <1>15 DEF scaleUpFindsNone, ScaleUpFails
<1>16. ASSUME NEW t \in Cgroups, scaleUpMemory(t)
       PROVE  cg' \in [Cgroups -> CgTypes] /\ job' \in [Cgroups -> JobTypes] /\ lost' \in Nat
              /\ UNCHANGED <<role, refused, writeFaults>>
  <2>1. role[t].mem \in Nat
    BY <1>3 DEF RoleTypes
  <2>2. TargetConfig(role[t].mem).mem = role[t].mem
    BY <2>1, TargetConfigFits DEF ResourceTypes
  <2>3. CASE role[t].mem < cg[t].mem
    BY <1>3, <1>14, <1>16, <2>3 DEF scaleUpMemory
  <2>4. CASE ~(role[t].mem < cg[t].mem)
    <3>1. cg' = [cg EXCEPT ![t].mem = role[t].mem]
      BY <1>16, <2>2, <2>4 DEF scaleUpMemory, WriteMemory
    <3>2. cg' \in [Cgroups -> CgTypes]
      BY <1>3, <2>1, <3>1 DEF CgTypes
    <3>3. job' \in [Cgroups -> JobTypes]
      BY <1>3, <1>16, <1>28, <1>29, <2>4, ZenonT(60) DEF scaleUpMemory, Ends
    <3>. QED  BY <1>3, <1>16, <2>4, <3>2, <3>3 DEF scaleUpMemory
  <2>. QED  BY <2>3, <2>4
<1>17. ASSUME NEW t \in Cgroups, scaleUpQuota(t)
       PROVE  cg' \in [Cgroups -> CgTypes] /\ job' \in [Cgroups -> JobTypes]
              /\ UNCHANGED <<role, refused, writeFaults, lost>>
  <2>. DEFINE q == TargetConfig(role[t].mem).quota
  <2>1. q \in Int
    BY <1>3, TargetConfigFits DEF ResourceTypes, RoleTypes
  <2>2. cg' = [cg EXCEPT ![t].quota = IF q = 0 THEN @ ELSE q]
    BY <1>17 DEF scaleUpQuota, WriteQuota
  <2>. HIDE DEF q
  <2>3. cg' \in [Cgroups -> CgTypes]
    BY <1>3, <2>1, <2>2 DEF CgTypes
  <2>. QED  BY <1>3, <1>6, <1>17, <2>3 DEF scaleUpQuota, Ends
<1>18. ASSUME NEW t \in Cgroups, ResetEnds(t)
       PROVE  role' \in [Cgroups -> RoleTypes] /\ job' \in [Cgroups -> JobTypes]
              /\ UNCHANGED <<cg, refused, writeFaults, lost>>
  <2>1. [is |-> "idle", mem |-> 0] \in RoleTypes
    BY DEF RoleTypes, Roles
  <2>. QED  BY <1>3, <1>6, <1>18, <2>1 DEF ResetEnds, Ends
<1>19. ASSUME NEW t \in Cgroups, NEW c \in job[t].todo, FrozenContainer(t, c)
       PROVE  cg' \in [Cgroups -> CgTypes] /\ job' \in [Cgroups -> JobTypes]
              /\ UNCHANGED <<role, refused, writeFaults, lost>>
  <2>1. cg' \in [Cgroups -> CgTypes]
    BY <1>3, <1>19 DEF FrozenContainer, CgTypes
  <2>. QED  BY <1>3, <1>19, <1>28, <1>29, <2>1 DEF FrozenContainer, GoesTo
<1>20. ASSUME NEW t \in Cgroups, NEW c \in job[t].todo, ContainerResourceStats(t, c)
       PROVE  job' \in [Cgroups -> JobTypes] /\ UNCHANGED <<cg, role, refused, writeFaults, lost>>
  <2>1. cg[c].usage \in Nat
    BY <1>3 DEF CgTypes, JobTypes
  <2>. QED  BY <1>3, <1>20, <1>28, <1>29, <2>1 DEF ContainerResourceStats, Ends
<1>21. ASSUME NEW t \in Cgroups, NEW c \in job[t].todo, scaleDownContainerToMinimum(t, c)
       PROVE  cg' \in [Cgroups -> CgTypes] /\ job' \in [Cgroups -> JobTypes] /\ lost' \in Nat
              /\ refused' \subseteq Cgroups /\ UNCHANGED <<role, writeFaults>>
  <2>1. c \in Cgroups /\ job[t].seen \in Nat
    BY <1>3 DEF JobTypes
  <2>2. CASE Refuses(c, job[t].seen + 1)
    BY <1>3, <1>14, <1>21, <2>1, <2>2 DEF scaleDownContainerToMinimum
  <2>3. CASE ~Refuses(c, job[t].seen + 1)
    <3>1. cg' \in [Cgroups -> CgTypes]
      BY <1>3, <1>21, <2>1, <2>3 DEF scaleDownContainerToMinimum, WriteMemory, CgTypes
    <3>2. job' \in [Cgroups -> JobTypes]
      <4>1. job[t].todo \ {c} \in SUBSET Cgroups
        BY <1>3 DEF JobTypes
      <4>2. job' = [job EXCEPT ![t] = [job[t] EXCEPT !.pc = "freeze", !.todo = job[t].todo \ {c}]]
        BY <1>21, <2>3 DEF scaleDownContainerToMinimum, Ends
      <4>. QED  BY <1>3, <1>28, <1>29, <4>1, <4>2
    <3>. QED  BY <1>3, <1>21, <2>3, <3>1, <3>2 DEF scaleDownContainerToMinimum
  <2>. QED  BY <2>2, <2>3
<1>22. ASSUME NEW t \in Cgroups, NEW c \in job[t].todo, CgroupNotExist(t, c)
       PROVE  job' \in [Cgroups -> JobTypes] /\ lost' \in Nat /\ UNCHANGED <<cg, role, refused, writeFaults>>
  BY <1>14, <1>22 DEF CgroupNotExist
<1>23. ASSUME NEW t \in Cgroups, NEW c \in job[t].todo, ResetRemoves(t, c)
       PROVE  cg' \in [Cgroups -> CgTypes] /\ UNCHANGED <<job, role, refused, writeFaults, lost>>
  BY <1>3, <1>6, <1>23 DEF ResetRemoves
<1>24. ASSUME NEW t \in Cgroups, NEW c \in job[t].todo
       PROVE  AfterReset(t, c) \in JobTypes
  BY <1>3 DEF AfterReset, JobTypes
<1>25. ASSUME NEW t \in Cgroups, NEW c \in job[t].todo, ResetInits(t, c)
       PROVE  cg' \in [Cgroups -> CgTypes] /\ job' \in [Cgroups -> JobTypes]
              /\ UNCHANGED <<role, refused, writeFaults, lost>>
  <2>1. [NoCgroup EXCEPT !.exists = TRUE, !.mem = node.default.mem, !.quota = node.default.quota] \in CgTypes
    BY <1>5, <1>6 DEF CgTypes
  <2>. QED  BY <1>3, <1>24, <1>25, <2>1 DEF ResetInits, Ends
<1>26. ASSUME NEW t \in Cgroups, NEW c \in job[t].todo, ResetFails(t, c)
       PROVE  /\ cg' \in [Cgroups -> CgTypes] /\ job' \in [Cgroups -> JobTypes] /\ role' \in [Cgroups -> RoleTypes]
              /\ lost' \in Nat /\ writeFaults' \in Nat /\ refused' = refused
  <2>1. c \in Cgroups /\ job[t].done \in SUBSET Cgroups
    BY <1>3 DEF JobTypes
  <2>2. cg' \in [Cgroups -> CgTypes]
    BY <1>3, <1>26, <2>1, ZenonT(60) DEF ResetFails, CgTypes
  <2>3. role' \in [Cgroups -> RoleTypes]
    BY <1>9, <1>26, <2>1 DEF ResetFails
  <2>4. job' \in [Cgroups -> JobTypes] /\ lost' \in Nat
    BY <1>3, <1>14, <1>24, <1>26 DEF ResetFails, Ends
  <2>. QED  BY <1>3, <1>26, <2>2, <2>3, <2>4 DEF ResetFails
<1>27. /\ cg' \in [Cgroups -> CgTypes] /\ job' \in [Cgroups -> JobTypes] /\ role' \in [Cgroups -> RoleTypes]
       /\ lost' \in Nat /\ writeFaults' \in Nat /\ refused' \subseteq Cgroups
  <2>1. ~\E o \in NodeOptions : NewResourceManager(o)
    BY DEF NewResourceManager
  <2>. QED
    BY <1>3, <1>7, <1>8, <1>10, <1>11, <1>12, <1>13, <1>15, <1>16, <1>17, <1>18, <1>19, <1>20, <1>21, <1>22,
       <1>23, <1>25, <1>26, <2>1, ZenonT(40) DEF NodeNext
<1>. QED  BY <1>2, <1>27 DEF ResourceTypes, CgTypes, RoleTypes, JobTypes

\* A reset, or its failure, moves on the roles of containers that it may retrieve.
RolesMove ==
  \A c \in Cgroups : \/ role'[c] = role[c]
                     \/ Retrievable(c) /\ role'[c].is = "failed"
                     \/ role[c].is = "merged" /\ role'[c].is = "reclaiming"

LEMMA RetrievedMoves ==
  ASSUME ResourceTypes, NEW S \in SUBSET Cgroups, role' = Retrieved(S)
  PROVE  RolesMove
  BY DEF RolesMove, Retrieved

LEMMA FailedMoves ==
  ASSUME ResourceTypes, NEW S \in SUBSET Cgroups, \A c \in S : Retrievable(c), role' = Failed(S)
  PROVE  RolesMove
  BY DEF RolesMove, Failed

LEMMA JobStays ==
  ASSUME ResourceTypes, node' = node, NEW t \in Cgroups, JobKept(t), job'[t] = job[t],
         RolesMove \/ role' = role
  PROVE  JobKept(t)'
<1>1. \A c \in Cgroups : role'[c] = role[c] \/ (Retrievable(c) /\ role'[c].is \in {"reclaiming", "failed"})
  BY DEF RolesMove, Retrievable
<1>2. role[t].is \in {"busy", "idle"} => role'[t] = role[t]
  BY <1>1 DEF Retrievable
<1>3. role'[t].is = "busy" => role'[t] = role[t]
  BY <1>1
<1>4. role[t].is = "failed" => role'[t].is = "failed"
  BY DEF RolesMove
<1>5. \A c \in job[t].done : c \in Cgroups
  BY TypesFacts
<1>6. job[t].pc \in Merges => MergeJob(t)'
  BY <1>2 DEF JobKept, MergeJob, scaleCount
<1>7. job[t].pc = "reset" => ResetJob(t)'
  BY <1>1, <1>2, <1>4, <1>5 DEF JobKept, ResetJob, scaleCount
<1>8. job[t].pc \in Merges \cup {"quota"} => \A c \in job[t].done : Retrievable(c)'
  BY <1>1, <1>5 DEF JobKept, Retrievable
<1>9. job[t].pc = "quota" => role'[t].is = "busy" /\ job[t].todo = {}
  BY <1>2 DEF JobKept
<1>10. role'[t].is = "busy" => role'[t].mem > node'.default.mem
  BY <1>3 DEF JobKept, Base
<1>. QED  BY <1>6, <1>7, <1>8, <1>9, <1>10 DEF JobKept, Base

LEMMA JobMoves ==
  ASSUME ResourceTypes, node' = node, JobsKept, RolesMove \/ role' = role,
         NEW t \in Cgroups, \A u \in Cgroups \ {t} : job'[u] = job[u], JobKept(t)',
         job'[t].pc \in Merges => job[t].pc \in Merges /\ job'[t].done = job[t].done,
         \A c \in Cgroups : cg'[c].frozen => cg[c].frozen \/ Retrievable(c)
  PROVE  JobsKept'
<1>1. \A u \in Cgroups : JobKept(u)'
  BY JobStays DEF JobsKept
<1>2. \A c \in Cgroups : Retrievable(c) => Retrievable(c)'
  BY DEF RolesMove, Retrievable
<1>3. \A c \in Cgroups : cg'[c].frozen => Retrievable(c)'
  BY <1>2 DEF JobsKept
<1>4. \A u \in Cgroups : job'[u].pc \in Merges => job[u].pc \in Merges /\ job'[u].done = job[u].done
  OBVIOUS
<1>5. \A u, v \in Cgroups : u # v /\ job'[u].pc \in Merges /\ job'[v].pc \in Merges
                             => job'[u].done \cap job'[v].done = {}
  BY <1>4 DEF JobsKept
<1>. QED  BY <1>1, <1>3, <1>5 DEF JobsKept

LEMMA ScaleUpJob ==
  ASSUME ResourceTypes, node.booted, JobsKept, NEW t \in Cgroups, NEW mem \in TargetSizes, NEW S \in SUBSET Cgroups,
         RequestScaleUp(t, mem, S)
  PROVE  /\ node' = node /\ cg' = cg /\ refused' = refused /\ lost' = lost
         /\ role'[t] = [is |-> "busy", mem |-> mem] /\ role[t].is = "idle" /\ mem > Base /\ mem \in Nat
         /\ \A c \in S : role'[c] = [is |-> "merged", mem |-> 0] /\ role[c].is = "idle" /\ c # t
         /\ \A c \in Cgroups \ (S \cup {t}) : role'[c] = role[c]
         /\ job'[t] = [pc |-> "check", todo |-> S, done |-> S, seen |-> 0]
         /\ \A u \in Cgroups \ {t} : job'[u] = job[u]
         /\ \A c \in S \cup {t} : job[c] = NoJob /\ ~cg[c].frozen
         /\ \A u \in Cgroups : job[u].done \cap (S \cup {t}) = {}
<1>1. /\ node' = node /\ cg' = cg /\ refused' = refused /\ lost' = lost
      /\ role'[t] = [is |-> "busy", mem |-> mem] /\ role[t].is = "idle" /\ mem > Base /\ mem \in Nat
      /\ \A c \in S : role'[c] = [is |-> "merged", mem |-> 0] /\ role[c].is = "idle" /\ c # t
      /\ \A c \in Cgroups \ (S \cup {t}) : role'[c] = role[c]
  BY CgroupsAssumption DEF RequestScaleUp, Base
<1>2. /\ job'[t] = [pc |-> "check", todo |-> S, done |-> S, seen |-> 0]
      /\ \A u \in Cgroups \ {t} : job'[u] = job[u]
  BY DEF RequestScaleUp, ResourceTypes
<1>3. ASSUME NEW c \in Cgroups, role[c].is = "idle"
      PROVE  /\ job[c] = NoJob /\ ~cg[c].frozen
             /\ \A u \in Cgroups : c \notin job[u].done
  <2>1. JobKept(c) /\ job[c].pc \in NodePcs /\ ~Retrievable(c)
    BY <1>3, TypesFacts DEF JobsKept, Retrievable
  <2>2. ~cg[c].frozen
    BY <2>1 DEF JobsKept
  <2>3. job[c] = NoJob
    BY <1>3, <2>1 DEF JobKept, MergeJob, ResetJob, NodePcs
  <2>4. ASSUME NEW u \in Cgroups, c \in job[u].done
        PROVE  FALSE
    <3>1. JobKept(u) /\ job[u].pc \in NodePcs
      BY TypesFacts DEF JobsKept
    <3>2. CASE job[u].pc \in Merges \cup {"quota"}
      BY <2>1, <2>4, <3>1, <3>2 DEF JobKept
    <3>3. CASE job[u].pc = "reset"
      BY <1>3, <2>4, <3>1, <3>3 DEF JobKept, ResetJob
    <3>4. CASE job[u].pc = "none"
      BY <2>4, <3>1, <3>4 DEF JobKept, NoJob
    <3>. QED  BY <3>1, <3>2, <3>3, <3>4 DEF NodePcs
  <2>. QED  BY <2>2, <2>3, <2>4
<1>. QED  BY <1>1, <1>2, <1>3

LEMMA JobsScaleUp ==
  ASSUME ResourceTypes, node.booted, JobsKept, NEW t \in Cgroups, NEW mem \in TargetSizes, NEW S \in SUBSET Cgroups,
         RequestScaleUp(t, mem, S)
  PROVE  JobsKept'
<1>1. /\ node' = node /\ cg' = cg
      /\ role'[t] = [is |-> "busy", mem |-> mem] /\ mem > Base /\ mem \in Nat
      /\ \A c \in S : role'[c] = [is |-> "merged", mem |-> 0] /\ c # t
      /\ \A c \in Cgroups \ (S \cup {t}) : role'[c] = role[c]
      /\ job'[t] = [pc |-> "check", todo |-> S, done |-> S, seen |-> 0]
      /\ \A u \in Cgroups \ {t} : job'[u] = job[u]
      /\ \A c \in S \cup {t} : job[c] = NoJob /\ ~cg[c].frozen
      /\ \A u \in Cgroups : job[u].done \cap (S \cup {t}) = {}
  BY ScaleUpJob
<1>2. JobKept(t)'
  <2>1. Cardinality(S) = scaleCount(mem)
    BY DEF RequestScaleUp
  <2>2. \A c \in S : Retrievable(c)'
    BY <1>1 DEF Retrievable
  <2>. QED  BY <1>1, <2>1, <2>2 DEF JobKept, MergeJob, scaleCount, Base, Merges
<1>3. ASSUME NEW u \in Cgroups \ {t}
      PROVE  JobKept(u)'
  <2>1. CASE u \in S
    BY <1>1, <2>1 DEF JobKept, NoJob, Merges
  <2>2. CASE u \notin S
    <3>1. role'[u] = role[u] /\ job'[u] = job[u] /\ JobKept(u) /\ job[u].done \subseteq Cgroups
      BY <1>1, <2>2, TypesFacts DEF JobsKept
    <3>2. \A c \in job[u].done : role'[c] = role[c]
      BY <1>1, <3>1
    <3>3. job[u].pc \in Merges => MergeJob(u)'
      BY <1>1, <3>1 DEF JobKept, MergeJob, scaleCount
    <3>4. job[u].pc = "reset" => ResetJob(u)'
      BY <1>1, <3>1, <3>2 DEF JobKept, ResetJob, scaleCount
    <3>5. job[u].pc \in Merges \cup {"quota"} => \A c \in job[u].done : Retrievable(c)'
      BY <3>1, <3>2 DEF JobKept, Retrievable
    <3>. QED  BY <1>1, <3>1, <3>3, <3>4, <3>5 DEF JobKept, Base
  <2>. QED  BY <2>1, <2>2
<1>4. \A c \in Cgroups : cg'[c].frozen => Retrievable(c)'
  BY <1>1 DEF JobsKept, Retrievable
<1>5. \A u, v \in Cgroups : u # v /\ job'[u].pc \in Merges /\ job'[v].pc \in Merges
                             => job'[u].done \cap job'[v].done = {}
  <2>1. \A u \in Cgroups \ {t} : job'[u].done \cap job'[t].done = {}
    BY <1>1
  <2>2. \A u, v \in Cgroups \ {t} : u # v /\ job'[u].pc \in Merges /\ job'[v].pc \in Merges
                             => job'[u].done \cap job'[v].done = {}
    BY <1>1 DEF JobsKept
  <2>. QED  BY <2>1, <2>2
<1>. QED  BY <1>2, <1>3, <1>4, <1>5 DEF JobsKept

LEMMA JobsEnd ==
  ASSUME ResourceTypes, node.booted, JobsKept, NEW t \in Cgroups, ResetEnds(t)
  PROVE  JobsKept'
<1>1. /\ node' = node /\ cg' = cg /\ job'[t] = NoJob
      /\ \A u \in Cgroups \ {t} : job'[u] = job[u] /\ role'[u] = role[u]
      /\ role'[t] = role[t] \/ (role[t].is = "busy" /\ role'[t].is = "idle")
  BY DEF ResetEnds, Ends, ResourceTypes
<1>2. \A c \in Cgroups : Retrievable(c) => role'[c] = role[c]
  BY <1>1 DEF Retrievable
<1>3. ASSUME NEW u \in Cgroups \ {t}
      PROVE  JobKept(u)'
  <2>1. job'[u] = job[u] /\ JobKept(u) /\ job[u].done \subseteq Cgroups /\ role'[u] = role[u]
    BY <1>1, TypesFacts DEF JobsKept
  <2>2. job[u].pc \in Merges => MergeJob(u)'
    BY <1>1, <2>1 DEF JobKept, MergeJob, scaleCount
  <2>3. job[u].pc = "reset" => ResetJob(u)'
    <3>1. job[u].pc = "reset" => \A c \in job[u].done : Retrievable(c)
      BY <2>1 DEF JobKept, ResetJob, Retrievable
    <3>. QED  BY <1>1, <1>2, <2>1, <3>1 DEF JobKept, ResetJob, scaleCount
  <2>4. job[u].pc \in Merges \cup {"quota"} => \A c \in job[u].done : Retrievable(c)'
    BY <1>2, <2>1 DEF JobKept, Retrievable
  <2>. QED  BY <1>1, <2>1, <2>2, <2>3, <2>4 DEF JobKept, Base
<1>4. JobKept(t)'
  <2>1. JobKept(t)
    BY DEF JobsKept
  <2>2. role'[t].is = "busy" => role'[t].mem > node'.default.mem
    BY <1>1, <2>1 DEF JobKept, Base
  <2>. QED  BY <1>1, <2>2 DEF JobKept, NoJob, Merges, Base
<1>5. \A c \in Cgroups : cg'[c].frozen => Retrievable(c)'
  BY <1>1, <1>2 DEF JobsKept, Retrievable
<1>6. \A u, v \in Cgroups : u # v /\ job'[u].pc \in Merges /\ job'[v].pc \in Merges
                             => job'[u].done \cap job'[v].done = {}
  BY <1>1 DEF JobsKept, NoJob
<1>. QED  BY <1>3, <1>4, <1>5, <1>6 DEF JobsKept

\* A job that ends leaves nothing to keep.
LEMMA NoJobKept ==
  ASSUME JobsKept, NEW t \in Cgroups, node' = node, job'[t] = NoJob, role'[t] = role[t] \/ role'[t].is # "busy"
  PROVE  JobKept(t)'
<1>1. JobKept(t)
  BY DEF JobsKept
<1>2. role'[t].is = "busy" => role'[t].mem > node'.default.mem
  BY <1>1 DEF JobKept, Base
<1>. QED  BY <1>2 DEF JobKept, NoJob, Merges, Base

\* The containers of a reset but the target itself are among those it has retrieved.
LEMMA ResetOthers ==
  ASSUME ResourceTypes, JobsKept, NEW t \in Cgroups, job[t].pc = "reset", NEW c \in job[t].todo
  PROVE  /\ c \in Cgroups /\ ResetJob(t)
         /\ c # t => c \in job[t].done /\ job[t].todo \subseteq job[t].done /\ t \notin job[t].done
         /\ c = t => job[t].todo = {t}
         /\ \A d \in job[t].done : Retrievable(d)
<1>1. JobKept(t) /\ c \in Cgroups
  BY TypesFacts DEF JobsKept
<1>2. ResetJob(t)
  BY <1>1 DEF JobKept
<1>3. \A d \in job[t].done : Retrievable(d)
  BY <1>2 DEF ResetJob, Retrievable
<1>4. t \notin job[t].done
  BY <1>2 DEF ResetJob
<1>. QED  BY <1>1, <1>2, <1>3, <1>4 DEF ResetJob

LEMMA JobsReset ==
  ASSUME ResourceTypes, node.booted, JobsKept, NEW t \in Cgroups, NEW c \in job[t].todo, node' = node,
         job[t].pc = "reset", job' = [job EXCEPT ![t] = AfterReset(t, c)],
         role' = role \/ (c # t /\ role' = Failed({c})), \A d \in Cgroups : cg'[d].frozen => cg[d].frozen
  PROVE  JobsKept'
<1>1. /\ c \in Cgroups /\ ResetJob(t)
      /\ c # t => c \in job[t].done /\ job[t].todo \subseteq job[t].done /\ t \notin job[t].done
      /\ c = t => job[t].todo = {t}
      /\ \A d \in job[t].done : Retrievable(d)
  BY ResetOthers
<1>2. RolesMove \/ role' = role
  BY <1>1, FailedMoves
<1>3. /\ \A u \in Cgroups \ {t} : job'[u] = job[u]
      /\ job'[t].pc = "reset" /\ job'[t].done = job[t].done
      /\ job'[t].todo = IF c = t THEN job[t].done ELSE job[t].todo \ {c}
  BY DEF ResourceTypes, AfterReset
<1>4. role'[t] = role[t]
  BY <1>2, <1>1 DEF Failed
<1>5. \A d \in job[t].done : role'[d].is \in {"reclaiming", "failed"}
  <2>1. job[t].done \subseteq Cgroups
    BY TypesFacts
  <2>. QED  BY <1>1, <1>2, <2>1 DEF RolesMove, ResetJob
<1>6. ResetJob(t)'
  <2>1. job'[t].todo \subseteq job'[t].done
    BY <1>1, <1>3
  <2>2. \/ role'[t].is = "busy" /\ Cardinality(job'[t].done) <= scaleCount(role[t].mem)
        \/ role'[t].is = "failed" /\ job'[t].done = {}
    BY <1>1, <1>3, <1>4 DEF ResetJob
  <2>. QED  BY <1>3, <1>4, <1>5, <2>1, <2>2 DEF ResetJob, scaleCount
<1>7. JobKept(t)'
  <2>1. JobKept(t)
    BY DEF JobsKept
  <2>. QED  BY <1>3, <1>4, <1>6, <2>1 DEF JobKept, Merges, Base
<1>8. ~(job'[t].pc \in Merges)
  BY <1>3 DEF Merges
<1>. QED  BY <1>2, <1>3, <1>7, <1>8, JobMoves

\* A scale-up goes on.
LEMMA JobsMerge ==
  ASSUME ResourceTypes, node.booted, JobsKept, NEW t \in Cgroups, node' = node, role' = role,
         job[t].pc \in Merges, job'[t].pc \in Merges,
         job'[t].done = job[t].done, job'[t].todo \subseteq job[t].todo,
         job'[t].pc \in {"stats", "shrink"} => Min(job'[t].todo) \in job'[t].todo,
         \A u \in Cgroups \ {t} : job'[u] = job[u],
         \A d \in Cgroups : cg'[d].frozen => cg[d].frozen \/ d \in job[t].todo
  PROVE  JobsKept'
<1>1. JobKept(t) /\ MergeJob(t) /\ \A d \in job[t].done : Retrievable(d)
  BY DEF JobsKept, JobKept
<1>2. MergeJob(t)'
  BY <1>1 DEF MergeJob, scaleCount
<1>3. \A d \in job[t].done : Retrievable(d)'
  BY <1>1 DEF Retrievable
<1>4. JobKept(t)'
  BY <1>1, <1>2, <1>3 DEF JobKept, Merges, Base
<1>5. \A d \in Cgroups : cg'[d].frozen => cg[d].frozen \/ Retrievable(d)
  BY <1>1 DEF MergeJob
<1>. QED  BY <1>4, <1>5, JobMoves

LEMMA JobsStep ==
  ASSUME ResourceTypes, node.booted, JobsKept, NodeNext
  PROVE  JobsKept'
<1>1. node' = node
  BY NodeStays DEF ResourceTypes
<1>2. job \in [Cgroups -> JobTypes] /\ cg \in [Cgroups -> CgTypes] /\ role \in [Cgroups -> RoleTypes]
  BY DEF ResourceTypes, CgTypes, RoleTypes, JobTypes
<1>3. ASSUME NEW t \in Cgroups, NEW n \in Usages[t], Use(t, n)
      PROVE  JobsKept'
  <2>1. \A c \in Cgroups : cg'[c].frozen => cg[c].frozen
    BY <1>2, <1>3 DEF Use, CgTypes
  <2>2. job' = job /\ role' = role
    BY <1>3 DEF Use
  <2>3. JobKept(t)'
    BY <1>1, <2>2, JobStays DEF JobsKept
  <2>. QED  BY <1>1, <2>1, <2>2, <2>3, JobMoves
<1>4. ASSUME NEW t \in Cgroups, NEW mem \in TargetSizes, NEW S \in SUBSET Cgroups, RequestScaleUp(t, mem, S)
      PROVE  JobsKept'
  BY <1>4, JobsScaleUp
<1>5. ASSUME NEW t \in Cgroups, NEW S \in SUBSET Cgroups, RequestReset(t, S) \/ RequestResetAlone(t, S)
      PROVE  JobsKept'
  <2>1. /\ cg' = cg /\ role' = Retrieved(S) /\ \A u \in Cgroups \ {t} : job'[u] = job[u]
        /\ job'[t].pc = "reset" /\ job'[t].todo = {t} /\ role[t].is = "busy" /\ \A c \in S : Retrievable(c)
        /\ \/ job'[t].done = S /\ Cardinality(S) = scaleCount(role[t].mem)
           \/ job'[t].done = {} /\ Cardinality(S) < scaleCount(role[t].mem)
    BY <1>2, <1>5 DEF RequestReset, RequestResetAlone, Recommends, Ends
  <2>2. RolesMove /\ role'[t] = role[t] /\ \A c \in S : role'[c].is \in {"reclaiming", "failed"}
    BY <2>1, RetrievedMoves DEF Retrieved, Retrievable
  <2>3. Cardinality(S) \in Nat /\ Cardinality({}) = 0 /\ role[t].mem \in Nat
    BY <1>2, SetsSmall, FS_EmptySet DEF RoleTypes
  <2>4. node.default.mem \in Nat /\ node.default.mem > 1
    BY DEF ResourceTypes, NodeTypes
  <2>5. scaleCount(role[t].mem) \in Int
    BY <2>3, <2>4 DEF scaleCount
  <2>6. Cardinality(job'[t].done) <= scaleCount(role[t].mem)
    BY <2>1, <2>3, <2>5
  <2>7. ResetJob(t)'
    BY <1>1, <2>1, <2>2, <2>6 DEF ResetJob, scaleCount
  <2>8. JobKept(t)'
    <3>1. JobKept(t)
      BY DEF JobsKept
    <3>. QED  BY <1>1, <2>1, <2>2, <2>7, <3>1 DEF JobKept, Merges, Base
  <2>. QED  BY <1>1, <2>1, <2>2, <2>8, JobMoves DEF Merges
<1>6. ASSUME NEW t \in Cgroups, NEW S \in SUBSET Cgroups, RequestResetRefused(t, S)
      PROVE  JobsKept'
  <2>1. role' = Failed(S) /\ job' = job /\ cg' = cg /\ \A c \in S : Retrievable(c)
    BY <1>6 DEF RequestResetRefused, Recommends
  <2>2. RolesMove
    BY <2>1, FailedMoves
  <2>3. JobKept(t)'
    BY <1>1, <2>1, <2>2, JobStays DEF JobsKept
  <2>. QED  BY <1>1, <2>1, <2>2, <2>3, JobMoves
<1>7. ASSUME NEW t \in Cgroups, RequestReborn(t)
      PROVE  JobsKept'
  <2>1. /\ cg' = cg /\ role' = role /\ \A u \in Cgroups \ {t} : job'[u] = job[u]
        /\ job'[t] = [pc |-> "reset", todo |-> {t}, done |-> {}, seen |-> 0] /\ role[t].is = "failed"
    BY <1>2, <1>7 DEF RequestReborn, Ends
  <2>2. JobKept(t)'
    <3>1. ResetJob(t)'
      BY <2>1 DEF ResetJob
    <3>. QED  BY <2>1, <3>1 DEF JobKept, Merges
  <2>. QED  BY <1>1, <2>1, <2>2, JobMoves DEF Merges
<1>8. ASSUME NEW t \in Cgroups, Fails(t), role' = role, cg' = cg
      PROVE  JobsKept'
  <2>1. \A u \in Cgroups \ {t} : job'[u] = job[u]
    BY <1>2, <1>8 DEF Fails, Ends
  <2>2. job'[t] = NoJob
    BY <1>2, <1>8 DEF Fails, Ends
  <2>3. JobKept(t)'
    BY <1>1, <1>8, <2>2, NoJobKept
  <2>. QED  BY <1>1, <1>8, <2>1, <2>2, <2>3, JobMoves DEF NoJob, Merges
<1>9. ASSUME NEW t \in Cgroups, scaleUpFindsNone(t) \/ ScaleUpFails(t)
      PROVE  JobsKept'
  BY <1>8, <1>9 DEF scaleUpFindsNone, ScaleUpFails
<1>10. ASSUME NEW t \in Cgroups, scaleUpChecks(t)
       PROVE  JobsKept'
  <2>1. /\ cg' = cg /\ role' = role /\ \A u \in Cgroups \ {t} : job'[u] = job[u] /\ job[t].pc = "check"
        /\ job'[t].pc = "freeze" /\ job'[t].todo = job[t].todo /\ job'[t].done = job[t].done
    BY <1>2, <1>10 DEF scaleUpChecks, GoesTo, JobTypes
  <2>2. job[t].pc = "check"
    BY <1>10 DEF scaleUpChecks, GoesTo
  <2>. QED  BY <1>1, <2>1, <2>2, JobsMerge DEF Merges
<1>11. ASSUME NEW t \in Cgroups, scaleUpMemory(t)
       PROVE  JobsKept'
  <2>1. CASE role[t].mem < cg[t].mem
    BY <1>8, <1>11, <2>1 DEF scaleUpMemory
  <2>2. CASE ~(role[t].mem < cg[t].mem)
    <3>1. /\ role' = role /\ \A u \in Cgroups \ {t} : job'[u] = job[u]
          /\ job[t].pc = "freeze" /\ job[t].todo = {} /\ job'[t].pc = "quota" /\ job'[t].todo = {}
          /\ job'[t].done = job[t].done
      BY <1>2, <1>11, <2>2, SMTT(30) DEF scaleUpMemory, Ends, JobTypes
    <3>2. \A c \in Cgroups : cg'[c].frozen => cg[c].frozen
      BY <1>2, <1>11, <2>2 DEF scaleUpMemory, WriteMemory, CgTypes
    <3>3. JobKept(t)'
      <4>1. JobKept(t) /\ MergeJob(t)
        BY <3>1 DEF JobsKept, JobKept, Merges
      <4>2. \A c \in job[t].done : Retrievable(c)'
        BY <3>1, <4>1 DEF JobKept, Merges, Retrievable
      <4>. QED  BY <1>1, <3>1, <4>1, <4>2 DEF JobKept, Merges, MergeJob, Base
    <3>. QED  BY <1>1, <3>1, <3>2, <3>3, JobMoves DEF Merges
  <2>. QED  BY <2>1, <2>2
<1>12. ASSUME NEW t \in Cgroups, scaleUpQuota(t)
       PROVE  JobsKept'
  <2>1. \A u \in Cgroups \ {t} : job'[u] = job[u]
    BY <1>2, <1>12 DEF scaleUpQuota, Ends
  <2>2. job'[t] = NoJob /\ role' = role
    BY <1>2, <1>12 DEF scaleUpQuota, Ends
  <2>3. \A c \in Cgroups : cg'[c].frozen => cg[c].frozen
    BY <1>2, <1>12 DEF scaleUpQuota, WriteQuota, CgTypes
  <2>4. JobKept(t)'
    BY <1>1, <2>2, NoJobKept
  <2>. QED  BY <1>1, <2>1, <2>2, <2>3, <2>4, JobMoves DEF NoJob, Merges
<1>13. ASSUME NEW t \in Cgroups, ResetEnds(t)
       PROVE  JobsKept'
  BY <1>13, JobsEnd
<1>14. ASSUME NEW t \in Cgroups, NEW c \in job[t].todo, FrozenContainer(t, c)
       PROVE  JobsKept'
  <2>1. /\ role' = role /\ \A u \in Cgroups \ {t} : job'[u] = job[u]
        /\ job[t].pc = "freeze" /\ job'[t].pc = "stats" /\ job'[t].todo = job[t].todo /\ job'[t].done = job[t].done
        /\ Min(job[t].todo) \in job[t].todo
    BY <1>2, <1>14 DEF FrozenContainer, GoesTo, JobTypes
  <2>2. \A d \in Cgroups : cg'[d].frozen => cg[d].frozen \/ d \in job[t].todo
    BY <1>2, <1>14 DEF FrozenContainer, CgTypes
  <2>. QED  BY <1>1, <2>1, <2>2, JobsMerge DEF Merges
<1>15. ASSUME NEW t \in Cgroups, NEW c \in job[t].todo, ContainerResourceStats(t, c)
       PROVE  JobsKept'
  <2>1. /\ role' = role /\ cg' = cg /\ \A u \in Cgroups \ {t} : job'[u] = job[u]
        /\ job[t].pc = "stats" /\ job'[t].pc = "shrink" /\ job'[t].todo = job[t].todo /\ job'[t].done = job[t].done
        /\ Min(job[t].todo) \in job[t].todo
    BY <1>2, <1>15 DEF ContainerResourceStats, Ends, JobTypes
  <2>. QED  BY <1>1, <2>1, JobsMerge DEF Merges
<1>16. ASSUME NEW t \in Cgroups, NEW c \in job[t].todo, scaleDownContainerToMinimum(t, c)
       PROVE  JobsKept'
  <2>1. CASE Refuses(c, job[t].seen + 1)
    BY <1>8, <1>16, <2>1 DEF scaleDownContainerToMinimum
  <2>2. CASE ~Refuses(c, job[t].seen + 1)
    <3>1. /\ role' = role /\ \A u \in Cgroups \ {t} : job'[u] = job[u]
          /\ job[t].pc = "shrink" /\ job'[t].pc = "freeze" /\ job'[t].todo = job[t].todo \ {c}
          /\ job'[t].done = job[t].done
      <4>1. job' = [job EXCEPT ![t] = [job[t] EXCEPT !.pc = "freeze", !.todo = job[t].todo \ {c}]]
        BY <1>16, <2>2 DEF scaleDownContainerToMinimum, Ends
      <4>2. role' = role /\ job[t].pc = "shrink"
        BY <1>16 DEF scaleDownContainerToMinimum
      <4>. QED  BY <1>2, <4>1, <4>2 DEF JobTypes
    <3>2. \A d \in Cgroups : cg'[d].frozen => cg[d].frozen
      BY <1>2, <1>16, <2>2 DEF scaleDownContainerToMinimum, WriteMemory, CgTypes
    <3>3. job'[t].todo \subseteq job[t].todo /\ ~(job'[t].pc \in {"stats", "shrink"})
      BY <3>1
    <3>. QED  BY <1>1, <3>1, <3>2, <3>3, JobsMerge DEF Merges
  <2>. QED  BY <2>1, <2>2
<1>17. ASSUME NEW t \in Cgroups, NEW c \in job[t].todo, CgroupNotExist(t, c)
       PROVE  JobsKept'
  BY <1>8, <1>17 DEF CgroupNotExist
<1>18. ASSUME NEW t \in Cgroups, NEW c \in job[t].todo, ResetRemoves(t, c)
       PROVE  JobsKept'
  <2>1. job' = job /\ role' = role
    BY <1>18 DEF ResetRemoves
  <2>2. \A d \in Cgroups : cg'[d].frozen => cg[d].frozen
    BY <1>2, <1>18 DEF ResetRemoves, NoCgroup
  <2>3. JobKept(t)'
    BY <1>1, <2>1, JobStays DEF JobsKept
  <2>. QED  BY <1>1, <2>1, <2>2, <2>3, JobMoves
<1>19. ASSUME NEW t \in Cgroups, NEW c \in job[t].todo, ResetInits(t, c)
       PROVE  JobsKept'
  <2>1. \A d \in Cgroups : cg'[d].frozen => cg[d].frozen
    BY <1>2, <1>19 DEF ResetInits, NoCgroup
  <2>. QED  BY <1>1, <1>19, <2>1, JobsReset DEF ResetInits, Ends
<1>20. ASSUME NEW t \in Cgroups, NEW c \in job[t].todo, ResetFails(t, c)
       PROVE  JobsKept'
  <2>1. \A d \in Cgroups : cg'[d].frozen => cg[d].frozen
    BY <1>2, <1>20 DEF ResetFails, CgTypes
  <2>2. CASE c # t
    BY <1>1, <1>20, <2>1, <2>2, JobsReset DEF ResetFails, Ends
  <2>3. CASE c = t
    <3>1. job' = [job EXCEPT ![t] = NoJob] /\ role' = Failed(job[t].done) /\ job[t].pc = "reset"
      BY <1>20, <2>3 DEF ResetFails, Fails, Ends
    <3>2. job[t].done \in SUBSET Cgroups /\ \A d \in job[t].done : Retrievable(d)
      BY <3>1, ResetOthers, TypesFacts
    <3>3. RolesMove
      BY <3>1, <3>2, FailedMoves
    <3>4. JobKept(t)'
      <4>1. role'[t] = role[t] \/ role'[t].is # "busy"
        BY <3>3 DEF RolesMove
      <4>. QED  BY <1>1, <1>2, <3>1, <4>1, NoJobKept
    <3>. QED  BY <1>1, <1>2, <2>1, <3>1, <3>3, <3>4, JobMoves DEF NoJob, Merges
  <2>. QED  BY <2>2, <2>3
<1>21. ~\E o \in NodeOptions : NewResourceManager(o)
  BY DEF NewResourceManager
<1>. QED
  BY <1>3, <1>4, <1>5, <1>6, <1>7, <1>9, <1>10, <1>11, <1>12, <1>13, <1>14, <1>15, <1>16, <1>17, <1>18, <1>19,
     <1>20, <1>21, ZenonT(40) DEF NodeNext

LEMMA LimitsFrame ==
  ASSUME ResourceTypes, ResourceTypes', node.booted, node' = node, JobsKept, LimitsKept,
         RolesMove \/ role' = role,
         NEW t \in Cgroups, \A u \in Cgroups \ {t} : job'[u] = job[u],
         \A c \in Cgroups : cg'[c].usage <= cg'[c].mem /\ (cg'[c].mem = cg[c].mem \/ cg'[c].mem <= Base),
         role[t].is = "busy" /\ cg'[t].mem > Base => ~Past(t)' /\ job'[t].pc \in {"none", "quota", "reset"},
         job'[t].pc \in Merges =>
           job[t].pc \in Merges /\ job'[t].todo \subseteq job[t].todo /\ (job'[t].pc = "shrink" => job'[t].seen <= Base)
  PROVE  LimitsKept'
<1>. SUFFICES ASSUME NEW c \in Cgroups
              PROVE  LimitKept(c)' /\ MergeLimits(c)'
  BY DEF LimitsKept
<1>1. LimitKept(c) /\ MergeLimits(c) /\ Base' = Base /\ node.default.mem \in Nat /\ Base = node.default.mem
  BY DEF LimitsKept, Base, ResourceTypes, NodeTypes
<1>2. \/ role'[c] = role[c]
      \/ role[c].is \notin {"idle", "busy"} /\ role'[c].is \notin {"idle", "busy"}
  BY DEF RolesMove, Retrievable
<1>3. cg'[c].mem \in Nat /\ cg[c].mem \in Nat
  <2>1. cg'[c].mem \in Nat
    BY DEF ResourceTypes
  <2>. QED  BY <2>1, TypesFacts
<1>4. cg'[c].mem > Base => cg'[c].mem = cg[c].mem
  BY <1>1, <1>3
<1>5. role'[c].is # "busy" => cg'[c].mem <= Base + 1
  BY <1>1, <1>2, <1>3 DEF LimitKept
<1>6. role'[c].is = "idle" => cg'[c].mem <= Base
  BY <1>1, <1>2, <1>3 DEF LimitKept
<1>7. ASSUME role'[c].is = "busy", cg'[c].mem > Base
      PROVE  cg'[c].mem = role'[c].mem /\ ~Past(c)' /\ job'[c].pc \in {"none", "quota", "reset"}
  <2>1. role'[c] = role[c] /\ cg'[c].mem = cg[c].mem /\ role[c].is = "busy"
    BY <1>2, <1>4, <1>7
  <2>2. CASE c = t
    BY <1>1, <1>7, <2>1, <2>2 DEF LimitKept
  <2>3. CASE c # t
    BY <1>1, <1>7, <2>1, <2>3 DEF LimitKept, Past
  <2>. QED  BY <2>2, <2>3
<1>8. LimitKept(c)'
  <2>1. cg'[c].usage <= cg'[c].mem
    OBVIOUS
  <2>. QED  BY <1>1, <1>5, <1>6, <1>7, <2>1, Zenon DEF LimitKept
<1>9. MergeLimits(c)'
  <2>. SUFFICES ASSUME job'[c].pc \in Merges
                PROVE  /\ \A d \in job'[c].todo : cg'[d].mem <= Base
                       /\ job'[c].pc = "shrink" => job'[c].seen <= Base
    BY <1>1 DEF MergeLimits
  <2>1. job[c].pc \in Merges /\ job'[c].todo \subseteq job[c].todo /\ (job'[c].pc = "shrink" => job'[c].seen <= Base)
    BY <1>1 DEF MergeLimits
  <2>2. \A d \in job[c].todo : cg[d].mem <= Base /\ d \in Cgroups
    BY <1>1, <2>1, TypesFacts DEF MergeLimits
  <2>. QED  BY <2>1, <2>2
<1>. QED  BY <1>8, <1>9

LEMMA LimitsScaleUp ==
  ASSUME ResourceTypes, node.booted, JobsKept, LimitsKept,
         NEW t \in Cgroups, NEW mem \in TargetSizes, NEW S \in SUBSET Cgroups, RequestScaleUp(t, mem, S)
  PROVE  LimitsKept'
<1>1. /\ node' = node /\ cg' = cg
      /\ role'[t] = [is |-> "busy", mem |-> mem] /\ role[t].is = "idle"
      /\ \A c \in S : role'[c] = [is |-> "merged", mem |-> 0] /\ role[c].is = "idle" /\ c # t
      /\ \A c \in Cgroups \ (S \cup {t}) : role'[c] = role[c]
      /\ job'[t] = [pc |-> "check", todo |-> S, done |-> S, seen |-> 0]
      /\ \A u \in Cgroups \ {t} : job'[u] = job[u]
  BY ScaleUpJob
<1>2. node.default.mem \in Nat /\ \A c \in Cgroups : cg[c].mem \in Nat
  BY TypesFacts DEF ResourceTypes, NodeTypes
<1>3. \A c \in S \cup {t} : cg[c].mem <= Base /\ cg[c].usage <= cg[c].mem
  BY <1>1 DEF LimitsKept, LimitKept
<1>4. ASSUME NEW c \in Cgroups
      PROVE  LimitKept(c)'
  <2>1. LimitKept(c)
    BY DEF LimitsKept
  <2>2. CASE c \in S \cup {t}
    BY <1>1, <1>2, <1>3, <2>2 DEF LimitKept, Base
  <2>3. CASE c \notin S \cup {t}
    BY <1>1, <2>1, <2>3 DEF LimitKept, Base, Past
  <2>. QED  BY <2>2, <2>3
<1>5. ASSUME NEW c \in Cgroups
      PROVE  MergeLimits(c)'
  <2>1. MergeLimits(c)
    BY DEF LimitsKept
  <2>2. CASE c = t
    BY <1>1, <1>3, <2>2 DEF MergeLimits, Base
  <2>3. CASE c # t
    BY <1>1, <2>1, <2>3 DEF MergeLimits, Base
  <2>. QED  BY <2>2, <2>3
<1>. QED  BY <1>4, <1>5 DEF LimitsKept

LEMMA LimitsEnd ==
  ASSUME ResourceTypes, node.booted, JobsKept, LimitsKept, NEW t \in Cgroups, ResetEnds(t)
  PROVE  LimitsKept'
<1>1. /\ node' = node /\ cg' = cg /\ job'[t] = NoJob
      /\ \A u \in Cgroups \ {t} : job'[u] = job[u] /\ role'[u] = role[u]
      /\ role'[t] = role[t] \/ (role[t].is = "busy" /\ role'[t].is = "idle")
  BY DEF ResetEnds, Ends, ResourceTypes
<1>2. Past(t)
  BY DEF ResetEnds, Past
<1>3. node.default.mem \in Nat /\ cg[t].mem \in Nat
  BY TypesFacts DEF ResourceTypes, NodeTypes
<1>4. LimitKept(t)'
  <2>1. LimitKept(t)
    BY DEF LimitsKept
  <2>2. role[t].is = "busy" => cg[t].mem <= Base
    BY <1>2, <1>3, <2>1 DEF LimitKept, Base
  <2>. QED  BY <1>1, <1>3, <2>1, <2>2 DEF LimitKept, Base, NoJob, Past
<1>5. \A c \in Cgroups \ {t} : LimitKept(c)'
  BY <1>1 DEF LimitsKept, LimitKept, Base, Past
<1>6. \A c \in Cgroups : MergeLimits(c)'
  BY <1>1 DEF LimitsKept, MergeLimits, Base, NoJob, Merges
<1>. QED  BY <1>4, <1>5, <1>6 DEF LimitsKept

\* What the two steps write that change a limit.
LEMMA MemoryEffect ==
  ASSUME ResourceTypes, node.booted, NEW t \in Cgroups, scaleUpMemory(t), ~(role[t].mem < cg[t].mem)
  PROVE  /\ node' = node /\ role' = role /\ refused' = refused /\ lost' = lost
         /\ job[t].pc = "freeze" /\ job[t].todo = {}
         /\ job'[t].pc = "quota" /\ job'[t].todo = {} /\ job'[t].done = job[t].done
         /\ \A u \in Cgroups \ {t} : job'[u] = job[u] /\ cg'[u] = cg[u]
         /\ cg'[t].mem = role[t].mem /\ cg'[t].frozen = cg[t].frozen /\ cg'[t].usage = cg[t].usage
         /\ cg'[t].quota = cg[t].quota
<1>1. cg \in [Cgroups -> CgTypes] /\ job \in [Cgroups -> JobTypes] /\ role[t].mem \in Nat
  BY TypesFacts
<1>2. TargetConfig(role[t].mem).mem = role[t].mem
  BY <1>1, TargetConfigFits DEF ResourceTypes
<1>3. cg' = [cg EXCEPT ![t].mem = role[t].mem]
  BY <1>2 DEF scaleUpMemory, WriteMemory
<1>4. job' = [job EXCEPT ![t] = [job[t] EXCEPT !.pc = "quota"]]
  BY DEF scaleUpMemory, Ends
<1>5. /\ node' = node /\ role' = role /\ refused' = refused /\ lost' = lost
      /\ job[t].pc = "freeze" /\ job[t].todo = {}
  BY DEF scaleUpMemory
<1>. QED  BY <1>1, <1>3, <1>4, <1>5 DEF CgTypes, JobTypes

LEMMA ShrinkEffect ==
  ASSUME ResourceTypes, node.booted, NEW t \in Cgroups, NEW c \in job[t].todo, scaleDownContainerToMinimum(t, c),
         ~Refuses(c, job[t].seen + 1)
  PROVE  /\ node' = node /\ role' = role /\ refused' = refused /\ lost' = lost
         /\ c \in Cgroups /\ c = Min(job[t].todo)
         /\ job[t].pc = "shrink" /\ job'[t].pc = "freeze" /\ job'[t].todo = job[t].todo \ {c}
         /\ job'[t].done = job[t].done
         /\ \A u \in Cgroups \ {t} : job'[u] = job[u]
         /\ \A d \in Cgroups \ {c} : cg'[d] = cg[d]
         /\ cg'[c].mem = job[t].seen + 1 /\ cg'[c].frozen = cg[c].frozen /\ cg'[c].usage = cg[c].usage
         /\ cg'[c].quota = cg[c].quota /\ cg[c].usage <= job[t].seen + 1
<1>1. cg \in [Cgroups -> CgTypes] /\ job \in [Cgroups -> JobTypes] /\ c \in Cgroups /\ job[t].seen \in Nat
      /\ cg[c].usage \in Nat
  BY TypesFacts
<1>2. cg' = [cg EXCEPT ![c].mem = job[t].seen + 1]
  BY DEF scaleDownContainerToMinimum, WriteMemory
<1>3. job' = [job EXCEPT ![t] = [job[t] EXCEPT !.pc = "freeze", !.todo = job[t].todo \ {c}]]
  BY DEF scaleDownContainerToMinimum, Ends
<1>4. /\ node' = node /\ role' = role /\ refused' = refused /\ lost' = lost
      /\ c \in Cgroups /\ c = Min(job[t].todo) /\ job[t].pc = "shrink"
  BY <1>1 DEF scaleDownContainerToMinimum
<1>5. cg[c].usage <= job[t].seen + 1
  BY <1>1 DEF Refuses
<1>6. /\ \A d \in Cgroups \ {c} : cg'[d] = cg[d]
      /\ cg'[c].mem = job[t].seen + 1 /\ cg'[c].frozen = cg[c].frozen /\ cg'[c].usage = cg[c].usage
      /\ cg'[c].quota = cg[c].quota
  BY <1>1, <1>2 DEF CgTypes
<1>7. /\ job'[t].pc = "freeze" /\ job'[t].todo = job[t].todo \ {c} /\ job'[t].done = job[t].done
      /\ \A u \in Cgroups \ {t} : job'[u] = job[u]
  BY <1>1, <1>3 DEF JobTypes
<1>. QED  BY <1>4, <1>5, <1>6, <1>7

LEMMA LimitsMemory ==
  ASSUME ResourceTypes, node.booted, JobsKept, LimitsKept, NEW t \in Cgroups, scaleUpMemory(t),
         ~(role[t].mem < cg[t].mem)
  PROVE  LimitsKept'
<1>1. /\ node' = node /\ role' = role
      /\ job[t].pc = "freeze" /\ job[t].todo = {}
      /\ job'[t].pc = "quota"
      /\ \A u \in Cgroups \ {t} : job'[u] = job[u] /\ cg'[u] = cg[u]
      /\ cg'[t].mem = role[t].mem /\ cg'[t].usage = cg[t].usage
  BY MemoryEffect
<1>2. MergeJob(t) /\ role[t].is = "busy"
  BY <1>1 DEF JobsKept, JobKept, Merges, MergeJob
<1>3. cg[t].usage \in Nat /\ cg[t].mem \in Nat /\ role[t].mem \in Nat /\ cg[t].usage <= cg[t].mem
  BY TypesFacts DEF LimitsKept, LimitKept
<1>4. LimitKept(t)'
  BY <1>1, <1>2, <1>3 DEF LimitKept, Base, Past
<1>5. \A c \in Cgroups \ {t} : LimitKept(c)'
  BY <1>1 DEF LimitsKept, LimitKept, Base, Past
<1>6. ASSUME NEW u \in Cgroups
      PROVE  MergeLimits(u)'
  <2>1. CASE u = t
    BY <1>1, <2>1 DEF MergeLimits, Merges
  <2>2. CASE u # t
    <3>1. job[u].pc \in Merges => t \notin job[u].todo /\ job[u].todo \subseteq Cgroups
      BY <1>2, TypesFacts DEF JobsKept, JobKept, MergeJob, Retrievable
    <3>. QED  BY <1>1, <2>2, <3>1 DEF LimitsKept, MergeLimits, Base
  <2>. QED  BY <2>1, <2>2
<1>. QED  BY <1>4, <1>5, <1>6 DEF LimitsKept

LEMMA LimitsShrink ==
  ASSUME ResourceTypes, node.booted, JobsKept, LimitsKept, NEW t \in Cgroups, NEW c \in job[t].todo,
         scaleDownContainerToMinimum(t, c), ~Refuses(c, job[t].seen + 1)
  PROVE  LimitsKept'
<1>1. /\ node' = node /\ role' = role
      /\ c \in Cgroups
      /\ job[t].pc = "shrink" /\ job'[t].pc = "freeze" /\ job'[t].todo = job[t].todo \ {c}
      /\ \A u \in Cgroups \ {t} : job'[u] = job[u]
      /\ \A d \in Cgroups \ {c} : cg'[d] = cg[d]
      /\ cg'[c].mem = job[t].seen + 1 /\ cg'[c].usage = cg[c].usage /\ cg[c].usage <= job[t].seen + 1
  BY ShrinkEffect
<1>2. MergeJob(t) /\ Retrievable(c) /\ c \in job[t].done /\ role[t].is = "busy"
  BY <1>1 DEF JobsKept, JobKept, Merges, MergeJob
<1>3. job[t].seen <= Base /\ job[t].seen \in Nat /\ node.default.mem \in Nat
  BY <1>1, TypesFacts DEF LimitsKept, MergeLimits, Merges, ResourceTypes, NodeTypes
<1>4. LimitKept(c)'
  BY <1>1, <1>2, <1>3 DEF LimitKept, Base, Retrievable
<1>5. ASSUME NEW d \in Cgroups \ {c}
      PROVE  LimitKept(d)'
  <2>1. LimitKept(d)
    BY DEF LimitsKept
  <2>2. CASE d = t
    <3>1. ~(cg[t].mem > Base)
      BY <1>1, <1>2, <2>1, <2>2 DEF LimitKept
    <3>. QED  BY <1>1, <2>1, <2>2, <3>1 DEF LimitKept, Base
  <2>3. CASE d # t
    BY <1>1, <2>1, <2>3 DEF LimitKept, Base, Past
  <2>. QED  BY <2>2, <2>3
<1>6. ASSUME NEW u \in Cgroups
      PROVE  MergeLimits(u)'
  <2>1. MergeLimits(u) /\ job[u].todo \subseteq Cgroups
    BY TypesFacts DEF LimitsKept
  <2>2. CASE u = t
    BY <1>1, <2>1, <2>2 DEF MergeLimits, Base, Merges
  <2>3. CASE u # t
    <3>1. job[u].pc \in Merges => c \notin job[u].todo
      BY <1>1, <1>2, <2>3 DEF JobsKept, JobKept, MergeJob, Merges
    <3>. QED  BY <1>1, <2>1, <2>3, <3>1 DEF MergeLimits, Base
  <2>. QED  BY <2>2, <2>3
<1>. QED  BY <1>4, <1>5, <1>6 DEF LimitsKept

\* What the other steps write.
LEMMA UseEffect ==
  ASSUME ResourceTypes, NEW t \in Cgroups, NEW n \in Usages[t], Use(t, n)
  PROVE  /\ role' = role /\ job' = job /\ refused' = refused /\ lost' = lost
         /\ \A u \in Cgroups \ {t} : cg'[u] = cg[u]
         /\ cg'[t].usage = n /\ n <= cg[t].mem /\ ~cg[t].frozen /\ ~cg'[t].frozen
         /\ cg'[t].mem = cg[t].mem /\ cg'[t].quota = cg[t].quota
<1>1. cg \in [Cgroups -> CgTypes]
  BY TypesFacts
<1>. QED  BY <1>1 DEF Use, CgTypes

LEMMA FailEffect ==
  ASSUME ResourceTypes, NEW t \in Cgroups, Fails(t)
  PROVE  /\ job'[t] = NoJob /\ \A u \in Cgroups \ {t} : job'[u] = job[u]
         /\ lost' = lost + Cardinality(job[t].done)
  BY DEF ResourceTypes, Fails, Ends, Abandons

LEMMA QuotaEffect ==
  ASSUME ResourceTypes, NEW t \in Cgroups, scaleUpQuota(t)
  PROVE  /\ role' = role /\ refused' = refused /\ lost' = lost /\ job[t].pc = "quota"
         /\ job'[t] = NoJob /\ \A u \in Cgroups \ {t} : job'[u] = job[u] /\ cg'[u] = cg[u]
         /\ cg'[t].usage = cg[t].usage /\ cg'[t].mem = cg[t].mem /\ cg'[t].frozen = cg[t].frozen
         /\ cg'[t].quota = cg[t].quota \/ cg'[t].quota = TargetConfig(role[t].mem).quota
<1>. DEFINE q == TargetConfig(role[t].mem).quota
<1>1. cg \in [Cgroups -> CgTypes] /\ job \in [Cgroups -> JobTypes]
  BY TypesFacts
<1>2. cg' = [cg EXCEPT ![t].quota = IF q = 0 THEN @ ELSE q]
  BY DEF scaleUpQuota, WriteQuota
<1>. HIDE DEF q
<1>3. /\ \A u \in Cgroups \ {t} : cg'[u] = cg[u]
      /\ cg'[t].usage = cg[t].usage /\ cg'[t].mem = cg[t].mem /\ cg'[t].frozen = cg[t].frozen
      /\ cg'[t].quota = cg[t].quota \/ cg'[t].quota = q
  BY <1>1, <1>2 DEF CgTypes
<1>4. /\ role' = role /\ refused' = refused /\ lost' = lost /\ job[t].pc = "quota"
      /\ job'[t] = NoJob /\ \A u \in Cgroups \ {t} : job'[u] = job[u]
  BY <1>1 DEF scaleUpQuota, Ends
<1>. QED  BY <1>3, <1>4 DEF q

LEMMA RequestEffect ==
  ASSUME ResourceTypes, NEW t \in Cgroups, NEW S \in SUBSET Cgroups, RequestReset(t, S) \/ RequestResetAlone(t, S)
  PROVE  /\ cg' = cg /\ refused' = refused /\ lost' = lost /\ RolesMove
         /\ role[t].is = "busy" /\ role'[t] = role[t] /\ job[t] = NoJob
         /\ \A c \in Cgroups : role'[c].is = "failed" => role[c].is = "failed"
         /\ job'[t].pc = "reset" /\ job'[t].todo = {t} /\ \A u \in Cgroups \ {t} : job'[u] = job[u]
<1>1. role' = Retrieved(S)
  BY DEF RequestReset, RequestResetAlone
<1>2. RolesMove
  BY <1>1, RetrievedMoves
<1>3. \A c \in Cgroups : role'[c].is = "failed" => role[c].is = "failed"
  BY <1>1 DEF Retrieved
<1>4. /\ cg' = cg /\ refused' = refused /\ lost' = lost /\ role[t].is = "busy" /\ job[t] = NoJob
      /\ job'[t].pc = "reset" /\ job'[t].todo = {t} /\ \A u \in Cgroups \ {t} : job'[u] = job[u]
  BY DEF RequestReset, RequestResetAlone, Recommends, Ends, ResourceTypes
<1>. QED  BY <1>2, <1>3, <1>4 DEF RolesMove, Retrievable

LEMMA RefusedEffect ==
  ASSUME ResourceTypes, NEW t \in Cgroups, NEW S \in SUBSET Cgroups, RequestResetRefused(t, S)
  PROVE  /\ cg' = cg /\ job' = job /\ refused' = refused /\ RolesMove
         /\ lost' = lost + Cardinality(S)
         /\ \A c \in Cgroups \ S : role'[c] = role[c]
         /\ \A c \in S : Retrievable(c) /\ role'[c].is = "failed"
<1>1. role' = Failed(S) /\ \A c \in S : Retrievable(c)
  BY DEF RequestResetRefused, Recommends
<1>. QED  BY <1>1, FailedMoves DEF RequestResetRefused, Abandons, Failed

LEMMA RebornEffect ==
  ASSUME ResourceTypes, NEW t \in Cgroups, RequestReborn(t)
  PROVE  /\ cg' = cg /\ role' = role /\ refused' = refused /\ lost' = lost /\ role[t].is = "failed"
         /\ job[t] = NoJob /\ \A u \in Cgroups \ {t} : job'[u] = job[u]
         /\ job'[t] = [pc |-> "reset", todo |-> {t}, done |-> {}, seen |-> 0]
  BY DEF ResourceTypes, RequestReborn, Ends

LEMMA ChecksEffect ==
  ASSUME ResourceTypes, NEW t \in Cgroups, scaleUpChecks(t)
  PROVE  /\ cg' = cg /\ role' = role /\ refused' = refused /\ lost' = lost
         /\ \A u \in Cgroups \ {t} : job'[u] = job[u]
         /\ job[t].pc = "check" /\ job'[t].pc = "freeze"
         /\ job'[t].todo = job[t].todo /\ job'[t].done = job[t].done
<1>1. job \in [Cgroups -> JobTypes]
  BY TypesFacts
<1>. QED  BY <1>1 DEF scaleUpChecks, GoesTo, JobTypes

LEMMA FreezeEffect ==
  ASSUME ResourceTypes, NEW t \in Cgroups, NEW c \in job[t].todo, FrozenContainer(t, c)
  PROVE  /\ role' = role /\ refused' = refused /\ lost' = lost
         /\ c \in Cgroups /\ c = Min(job[t].todo) /\ \A u \in Cgroups \ {t} : job'[u] = job[u]
         /\ job[t].pc = "freeze" /\ job'[t].pc = "stats"
         /\ job'[t].todo = job[t].todo /\ job'[t].done = job[t].done
         /\ \A d \in Cgroups \ {c} : cg'[d] = cg[d]
         /\ cg'[c].frozen /\ cg'[c].usage = cg[c].usage /\ cg'[c].mem = cg[c].mem /\ cg'[c].quota = cg[c].quota
<1>1. cg \in [Cgroups -> CgTypes] /\ job \in [Cgroups -> JobTypes] /\ c \in Cgroups
  BY TypesFacts
<1>2. cg' = [cg EXCEPT ![c].frozen = TRUE]
  BY DEF FrozenContainer
<1>3. /\ \A d \in Cgroups \ {c} : cg'[d] = cg[d]
      /\ cg'[c].frozen /\ cg'[c].usage = cg[c].usage /\ cg'[c].mem = cg[c].mem /\ cg'[c].quota = cg[c].quota
  BY <1>1, <1>2 DEF CgTypes
<1>4. job' = [job EXCEPT ![t].pc = "stats"]
  BY DEF FrozenContainer, GoesTo
<1>5. /\ \A u \in Cgroups \ {t} : job'[u] = job[u]
      /\ job'[t].pc = "stats" /\ job'[t].todo = job[t].todo /\ job'[t].done = job[t].done
  BY <1>1, <1>4 DEF JobTypes
<1>. QED  BY <1>1, <1>3, <1>5 DEF FrozenContainer, GoesTo

LEMMA StatsEffect ==
  ASSUME ResourceTypes, NEW t \in Cgroups, NEW c \in job[t].todo, ContainerResourceStats(t, c)
  PROVE  /\ cg' = cg /\ role' = role /\ refused' = refused /\ lost' = lost
         /\ c \in Cgroups /\ c = Min(job[t].todo) /\ \A u \in Cgroups \ {t} : job'[u] = job[u]
         /\ job[t].pc = "stats" /\ job'[t].pc = "shrink" /\ job'[t].seen = cg[c].usage
         /\ job'[t].todo = job[t].todo /\ job'[t].done = job[t].done
<1>1. job \in [Cgroups -> JobTypes] /\ c \in Cgroups
  BY TypesFacts
<1>. QED  BY <1>1 DEF ContainerResourceStats, Ends, JobTypes

LEMMA RemovesEffect ==
  ASSUME ResourceTypes, NEW t \in Cgroups, NEW c \in job[t].todo, ResetRemoves(t, c)
  PROVE  /\ role' = role /\ job' = job /\ refused' = refused /\ lost' = lost
         /\ job[t].pc = "reset" /\ c \in Cgroups
         /\ \A d \in Cgroups \ {c} : cg'[d] = cg[d]
         /\ cg'[c] = NoCgroup
<1>1. cg \in [Cgroups -> CgTypes] /\ c \in Cgroups
  BY TypesFacts
<1>. QED  BY <1>1 DEF ResetRemoves

LEMMA AfterEffect ==
  ASSUME ResourceTypes, NEW t \in Cgroups, NEW c \in job[t].todo, job' = [job EXCEPT ![t] = AfterReset(t, c)]
  PROVE  /\ \A u \in Cgroups \ {t} : job'[u] = job[u]
         /\ job'[t].pc = job[t].pc /\ job'[t].done = job[t].done
         /\ job'[t].todo = IF c = t THEN job[t].done ELSE job[t].todo \ {c}
  BY DEF ResourceTypes, AfterReset

LEMMA InitsEffect ==
  ASSUME ResourceTypes, NEW t \in Cgroups, NEW c \in job[t].todo, ResetInits(t, c)
  PROVE  /\ role' = role /\ refused' = refused /\ lost' = lost
         /\ job[t].pc = "reset" /\ c \in Cgroups
         /\ \A d \in Cgroups \ {c} : cg'[d] = cg[d]
         /\ cg'[c].mem = node.default.mem /\ cg'[c].quota = node.default.quota /\ cg'[c].usage = 0 /\ ~cg'[c].frozen
         /\ job' = [job EXCEPT ![t] = AfterReset(t, c)]
<1>1. cg \in [Cgroups -> CgTypes] /\ c \in Cgroups
  BY TypesFacts
<1>2. cg'[c] = [NoCgroup EXCEPT !.exists = TRUE, !.mem = node.default.mem, !.quota = node.default.quota]
  BY <1>1 DEF ResetInits
<1>3. cg'[c].mem = node.default.mem /\ cg'[c].quota = node.default.quota /\ cg'[c].usage = 0 /\ ~cg'[c].frozen
  BY <1>2 DEF NoCgroup
<1>. QED  BY <1>1, <1>3 DEF ResetInits, Ends

LEMMA ResetFailsEffect ==
  ASSUME ResourceTypes, JobsKept, NEW t \in Cgroups, NEW c \in job[t].todo, ResetFails(t, c)
  PROVE  /\ refused' = refused /\ job[t].pc = "reset" /\ c \in Cgroups /\ RolesMove
         /\ \A d \in Cgroups \ {c} : cg'[d] = cg[d]
         /\ cg'[c].mem = cg[c].mem /\ cg'[c].quota = cg[c].quota /\ cg'[c].usage = cg[c].usage
         /\ cg'[c].frozen => cg[c].frozen
         /\ c # t => /\ job' = [job EXCEPT ![t] = AfterReset(t, c)] /\ lost' = lost
                     /\ role'[c].is = "failed" /\ \A d \in Cgroups \ {c} : role'[d] = role[d]
         /\ c = t => /\ job'[t] = NoJob /\ \A u \in Cgroups \ {t} : job'[u] = job[u]
                     /\ lost' = lost + Cardinality(job[t].done)
                     /\ \A d \in job[t].done : role'[d].is = "failed"
                     /\ \A d \in Cgroups \ job[t].done : role'[d] = role[d]
<1>1. cg \in [Cgroups -> CgTypes] /\ c \in Cgroups /\ job[t].done \in SUBSET Cgroups
  BY TypesFacts
<1>2. job[t].pc = "reset" /\ refused' = refused
  BY DEF ResetFails
<1>3. /\ \A d \in Cgroups \ {c} : cg'[d] = cg[d]
      /\ cg'[c].mem = cg[c].mem /\ cg'[c].quota = cg[c].quota /\ cg'[c].usage = cg[c].usage
      /\ cg'[c].frozen => cg[c].frozen
  BY <1>1 DEF ResetFails, CgTypes
<1>4. /\ c # t => c \in job[t].done /\ t \notin job[t].done
      /\ \A d \in job[t].done : Retrievable(d)
  BY <1>2, ResetOthers
<1>5. c # t => /\ job' = [job EXCEPT ![t] = AfterReset(t, c)] /\ lost' = lost /\ role' = Failed({c})
  BY DEF ResetFails, Ends
<1>6. c = t => Fails(t) /\ role' = Failed(job[t].done)
  BY DEF ResetFails
<1>7. RolesMove
  BY <1>1, <1>4, <1>5, <1>6, FailedMoves
<1>8. c = t => /\ job'[t] = NoJob /\ \A u \in Cgroups \ {t} : job'[u] = job[u]
               /\ lost' = lost + Cardinality(job[t].done)
  BY <1>6, FailEffect
<1>. QED  BY <1>1, <1>2, <1>3, <1>5, <1>6, <1>7, <1>8 DEF Failed

LEMMA LimitsFail ==
  ASSUME ResourceTypes, ResourceTypes', node.booted, node' = node, JobsKept, LimitsKept,
         NEW t \in Cgroups, Fails(t), role' = role, cg' = cg
  PROVE  LimitsKept'
<1>1. job'[t] = NoJob /\ \A u \in Cgroups \ {t} : job'[u] = job[u]
  BY FailEffect
<1>2. \A c \in Cgroups : cg'[c].usage <= cg'[c].mem /\ (cg'[c].mem = cg[c].mem \/ cg'[c].mem <= Base)
  BY DEF LimitsKept, LimitKept
<1>3. ~Past(t)' /\ job'[t].pc = "none"
  BY <1>1 DEF NoJob, Past
<1>. QED  BY <1>1, <1>2, <1>3, LimitsFrame DEF Merges

LEMMA LimitsStep ==
  ASSUME ResourceTypes, ResourceTypes', node.booted, JobsKept, LimitsKept, NodeNext
  PROVE  LimitsKept'
<1>1. node' = node
  BY NodeStays DEF ResourceTypes
<1>2. /\ \A c \in Cgroups : LimitKept(c) /\ MergeLimits(c) /\ cg[c].mem \in Nat
      /\ node.default.mem \in Nat /\ Base = node.default.mem
  BY TypesFacts DEF LimitsKept, Base, ResourceTypes, NodeTypes
<1>3. \A c \in Cgroups : cg[c].usage <= cg[c].mem
  BY <1>2 DEF LimitKept
<1>4. ASSUME NEW t \in Cgroups, NEW n \in Usages[t], Use(t, n)
      PROVE  LimitsKept'
  <2>1. /\ role' = role /\ job' = job
        /\ \A u \in Cgroups \ {t} : cg'[u] = cg[u]
        /\ cg'[t].usage = n /\ n <= cg[t].mem /\ cg'[t].mem = cg[t].mem
    BY <1>4, UseEffect
  <2>2. \A c \in Cgroups : cg'[c].usage <= cg'[c].mem /\ (cg'[c].mem = cg[c].mem \/ cg'[c].mem <= Base)
    BY <1>3, <2>1
  <2>3. role[t].is = "busy" /\ cg'[t].mem > Base => ~Past(t)' /\ job'[t].pc \in {"none", "quota", "reset"}
    BY <1>2, <2>1 DEF LimitKept, Past
  <2>4. job'[t].pc = "shrink" => job'[t].seen <= Base
    BY <1>2, <2>1 DEF MergeLimits, Merges
  <2>. QED  BY <1>1, <2>1, <2>2, <2>3, <2>4, LimitsFrame
<1>5. ASSUME NEW t \in Cgroups, NEW mem \in TargetSizes, NEW S \in SUBSET Cgroups, RequestScaleUp(t, mem, S)
      PROVE  LimitsKept'
  BY <1>5, LimitsScaleUp
<1>6. ASSUME NEW t \in Cgroups, NEW S \in SUBSET Cgroups, RequestReset(t, S) \/ RequestResetAlone(t, S)
      PROVE  LimitsKept'
  <2>1. /\ cg' = cg /\ RolesMove /\ job'[t].pc = "reset" /\ job'[t].todo = {t}
        /\ \A u \in Cgroups \ {t} : job'[u] = job[u]
    BY <1>6, RequestEffect
  <2>2. ~Past(t)' /\ ~(job'[t].pc \in Merges) /\ job'[t].pc \in {"none", "quota", "reset"}
    BY <2>1 DEF Past, Merges
  <2>. QED  BY <1>1, <1>3, <2>1, <2>2, LimitsFrame
<1>7. ASSUME NEW t \in Cgroups, NEW S \in SUBSET Cgroups, RequestResetRefused(t, S)
      PROVE  LimitsKept'
  <2>1. cg' = cg /\ RolesMove /\ job' = job
    BY <1>7, RefusedEffect
  <2>2. role[t].is = "busy" /\ cg'[t].mem > Base => ~Past(t)' /\ job'[t].pc \in {"none", "quota", "reset"}
    BY <1>2, <2>1 DEF LimitKept, Past
  <2>3. job'[t].pc = "shrink" => job'[t].seen <= Base
    BY <1>2, <2>1 DEF MergeLimits, Merges
  <2>. QED  BY <1>1, <1>3, <2>1, <2>2, <2>3, LimitsFrame
<1>8. ASSUME NEW t \in Cgroups, RequestReborn(t)
      PROVE  LimitsKept'
  <2>3. /\ cg' = cg /\ role' = role /\ \A u \in Cgroups \ {t} : job'[u] = job[u]
        /\ job'[t] = [pc |-> "reset", todo |-> {t}, done |-> {}, seen |-> 0]
    BY <1>8, RebornEffect
  <2>1. /\ cg' = cg /\ role' = role /\ job'[t].pc = "reset" /\ job'[t].todo = {t}
        /\ \A u \in Cgroups \ {t} : job'[u] = job[u]
    BY <2>3
  <2>2. ~Past(t)' /\ ~(job'[t].pc \in Merges) /\ job'[t].pc \in {"none", "quota", "reset"}
    BY <2>1 DEF Past, Merges
  <2>. QED  BY <1>1, <1>3, <2>1, <2>2, LimitsFrame
<1>9. ASSUME NEW t \in Cgroups, scaleUpFindsNone(t) \/ ScaleUpFails(t)
      PROVE  LimitsKept'
  BY <1>1, <1>9, LimitsFail DEF scaleUpFindsNone, ScaleUpFails
<1>10. ASSUME NEW t \in Cgroups, job[t].pc \in Merges
       PROVE  role[t].is = "busy" => ~(cg[t].mem > Base)
  BY <1>2, <1>10 DEF LimitKept, Merges
<1>11. ASSUME NEW t \in Cgroups, scaleUpChecks(t)
       PROVE  LimitsKept'
  <2>1. /\ cg' = cg /\ role' = role /\ \A u \in Cgroups \ {t} : job'[u] = job[u]
        /\ job[t].pc = "check" /\ job'[t].pc = "freeze" /\ job'[t].todo = job[t].todo
    BY <1>11, ChecksEffect
  <2>2. job[t].pc \in Merges
    BY <2>1 DEF Merges
  <2>. QED  BY <1>1, <1>3, <1>10, <2>1, <2>2, LimitsFrame
<1>12. ASSUME NEW t \in Cgroups, scaleUpMemory(t)
       PROVE  LimitsKept'
  <2>1. CASE role[t].mem < cg[t].mem
    BY <1>1, <1>12, <2>1, LimitsFail DEF scaleUpMemory
  <2>. QED  BY <1>12, <2>1, LimitsMemory
<1>13. ASSUME NEW t \in Cgroups, scaleUpQuota(t)
       PROVE  LimitsKept'
  <2>1. /\ role' = role /\ job'[t] = NoJob /\ \A u \in Cgroups \ {t} : job'[u] = job[u] /\ cg'[u] = cg[u]
        /\ cg'[t].usage = cg[t].usage /\ cg'[t].mem = cg[t].mem
    BY <1>13, QuotaEffect
  <2>2. ~Past(t)' /\ job'[t].pc = "none"
    BY <2>1 DEF NoJob, Past
  <2>3. \A c \in Cgroups : cg'[c].usage <= cg'[c].mem /\ (cg'[c].mem = cg[c].mem \/ cg'[c].mem <= Base)
    BY <1>3, <2>1
  <2>. QED  BY <1>1, <2>1, <2>2, <2>3, LimitsFrame DEF Merges
<1>14. ASSUME NEW t \in Cgroups, ResetEnds(t)
       PROVE  LimitsKept'
  BY <1>14, LimitsEnd
<1>15. ASSUME NEW t \in Cgroups, NEW c \in job[t].todo, FrozenContainer(t, c)
       PROVE  LimitsKept'
  <2>1. /\ role' = role /\ \A u \in Cgroups \ {t} : job'[u] = job[u]
        /\ job[t].pc = "freeze" /\ job'[t].pc = "stats" /\ job'[t].todo = job[t].todo
        /\ \A d \in Cgroups \ {c} : cg'[d] = cg[d]
        /\ cg'[c].usage = cg[c].usage /\ cg'[c].mem = cg[c].mem
    BY <1>15, FreezeEffect
  <2>2. job[t].pc \in Merges
    BY <2>1 DEF Merges
  <2>3. \A d \in Cgroups : cg'[d].mem = cg[d].mem /\ cg'[d].usage = cg[d].usage
    BY <2>1
  <2>. QED  BY <1>1, <1>3, <1>10, <2>1, <2>2, <2>3, LimitsFrame
<1>16. ASSUME NEW t \in Cgroups, NEW c \in job[t].todo, ContainerResourceStats(t, c)
       PROVE  LimitsKept'
  <2>1. /\ cg' = cg /\ role' = role /\ \A u \in Cgroups \ {t} : job'[u] = job[u]
        /\ job[t].pc = "stats" /\ job'[t].todo = job[t].todo /\ job'[t].seen = cg[c].usage /\ c \in Cgroups
    BY <1>16, StatsEffect
  <2>2. job[t].pc \in Merges /\ cg[c].mem <= Base
    BY <1>2, <2>1 DEF Merges, MergeLimits
  <2>3. cg[c].usage <= Base
    <3>1. cg[c].usage \in Nat /\ cg[c].mem \in Nat /\ cg[c].usage <= cg[c].mem
      BY <1>3, <2>1, TypesFacts
    <3>. QED  BY <1>2, <2>2, <3>1
  <2>. QED  BY <1>1, <1>3, <1>10, <2>1, <2>2, <2>3, LimitsFrame
<1>17. ASSUME NEW t \in Cgroups, NEW c \in job[t].todo, scaleDownContainerToMinimum(t, c)
       PROVE  LimitsKept'
  <2>1. CASE Refuses(c, job[t].seen + 1)
    BY <1>1, <1>17, <2>1, LimitsFail DEF scaleDownContainerToMinimum
  <2>. QED  BY <1>17, <2>1, LimitsShrink
<1>18. ASSUME NEW t \in Cgroups, NEW c \in job[t].todo, CgroupNotExist(t, c)
       PROVE  LimitsKept'
  BY <1>1, <1>18, LimitsFail DEF CgroupNotExist
<1>19. ASSUME NEW t \in Cgroups, NEW c \in job[t].todo, ResetRemoves(t, c)
       PROVE  LimitsKept'
  <2>1. /\ role' = role /\ job' = job /\ job[t].pc = "reset" /\ c \in Cgroups
        /\ \A d \in Cgroups \ {c} : cg'[d] = cg[d]
        /\ cg'[c].mem = 0 /\ cg'[c].usage = 0
    BY <1>19, RemovesEffect DEF NoCgroup
  <2>2. \A d \in Cgroups : cg'[d].usage <= cg'[d].mem /\ (cg'[d].mem = cg[d].mem \/ cg'[d].mem <= Base)
    BY <1>2, <1>3, <2>1
  <2>3. role[t].is = "busy" /\ cg'[t].mem > Base => ~Past(t)' /\ job'[t].pc \in {"none", "quota", "reset"}
    <3>1. cg'[t].mem > Base => cg'[t].mem = cg[t].mem
      BY <1>2, <2>1
    <3>. QED  BY <1>2, <2>1, <3>1 DEF LimitKept, Past
  <2>. QED  BY <1>1, <2>1, <2>2, <2>3, LimitsFrame DEF Merges
<1>20. ASSUME NEW t \in Cgroups, NEW c \in job[t].todo, ResetInits(t, c)
       PROVE  LimitsKept'
  <2>1. /\ role' = role /\ job[t].pc = "reset" /\ c \in Cgroups
        /\ \A d \in Cgroups \ {c} : cg'[d] = cg[d]
        /\ cg'[c].mem = node.default.mem /\ cg'[c].usage = 0
        /\ job' = [job EXCEPT ![t] = AfterReset(t, c)]
    BY <1>20, InitsEffect
  <2>2. /\ \A u \in Cgroups \ {t} : job'[u] = job[u]
        /\ job'[t].pc = "reset" /\ job'[t].todo = IF c = t THEN job[t].done ELSE job[t].todo \ {c}
    BY <2>1, AfterEffect, ZenonT(60)
  <2>3. \A d \in Cgroups : cg'[d].usage <= cg'[d].mem /\ (cg'[d].mem = cg[d].mem \/ cg'[d].mem <= Base)
    BY <1>2, <1>3, <2>1
  <2>4. role[t].is = "busy" /\ cg'[t].mem > Base => ~Past(t)' /\ job'[t].pc \in {"none", "quota", "reset"}
    <3>1. CASE c = t
      BY <1>2, <2>1, <3>1
    <3>2. CASE c # t
      <4>1. job[t].todo \subseteq job[t].done /\ t \notin job[t].done
        BY <2>1, <3>2, ResetOthers
      <4>2. Past(t) /\ cg'[t] = cg[t]
        BY <2>1, <3>2, <4>1 DEF Past
      <4>. QED  BY <1>2, <4>2 DEF LimitKept
    <3>. QED  BY <3>1, <3>2
  <2>. QED  BY <1>1, <2>1, <2>2, <2>3, <2>4, LimitsFrame DEF Merges
<1>21. ASSUME NEW t \in Cgroups, NEW c \in job[t].todo, ResetFails(t, c)
       PROVE  LimitsKept'
  <2>1. /\ job[t].pc = "reset" /\ c \in Cgroups /\ RolesMove
        /\ \A d \in Cgroups \ {c} : cg'[d] = cg[d]
        /\ cg'[c].mem = cg[c].mem /\ cg'[c].usage = cg[c].usage
        /\ c # t => job' = [job EXCEPT ![t] = AfterReset(t, c)]
        /\ c = t => job'[t] = NoJob /\ \A u \in Cgroups \ {t} : job'[u] = job[u]
    BY <1>21, ResetFailsEffect
  <2>2. \A d \in Cgroups : cg'[d].usage <= cg'[d].mem /\ cg'[d].mem = cg[d].mem
    BY <1>3, <2>1
  <2>3. \A u \in Cgroups \ {t} : job'[u] = job[u]
    BY <2>1, AfterEffect, ZenonT(60)
  <2>4. job'[t].pc \in {"reset", "none"}
    <3>1. c # t => job'[t].pc = "reset"
      BY <2>1, AfterEffect, ZenonT(60)
    <3>2. c = t => job'[t].pc = "none"
      BY <2>1 DEF NoJob
    <3>. QED  BY <3>1, <3>2
  <2>5. role[t].is = "busy" /\ cg'[t].mem > Base => ~Past(t)' /\ job'[t].pc \in {"none", "quota", "reset"}
    <3>1. CASE c = t
      BY <2>1, <3>1 DEF NoJob, Past
    <3>2. CASE c # t
      <4>1. job[t].todo \subseteq job[t].done /\ t \notin job[t].done
        BY <2>1, <3>2, ResetOthers
      <4>2. Past(t) /\ cg'[t] = cg[t]
        BY <2>1, <3>2, <4>1 DEF Past
      <4>. QED  BY <1>2, <4>2 DEF LimitKept
    <3>. QED  BY <3>1, <3>2
  <2>. QED  BY <1>1, <2>1, <2>2, <2>3, <2>4, <2>5, LimitsFrame DEF Merges
<1>22. ~\E o \in NodeOptions : NewResourceManager(o)
  BY DEF NewResourceManager
<1>. QED
  BY <1>4, <1>5, <1>6, <1>7, <1>8, <1>9, <1>11, <1>12, <1>13, <1>14, <1>15, <1>16, <1>17, <1>18, <1>19,
     <1>20, <1>21, <1>22, ZenonT(40) DEF NodeNext

LEMMA StatsFrame ==
  ASSUME ResourceTypes, JobsKept, StatsFresh, NEW t \in Cgroups, \A u \in Cgroups \ {t} : job'[u] = job[u],
         StatsOf(t)',
         \A c \in Cgroups : role'[c].is = "merged" => role[c].is \in {"merged", "idle"},
         \A c \in Cgroups : role[c].is = "merged" /\ cg[c].frozen => cg'[c].frozen /\ cg'[c].usage = cg[c].usage,
         \A c \in refused' : role'[c].is \in {"reclaiming", "failed"}
  PROVE  StatsFresh'
<1>1. ASSUME NEW u \in Cgroups \ {t}
      PROVE  StatsOf(u)'
  <2>. DEFINE m == Min(job[u].todo)
  <2>. SUFFICES ASSUME job[u].pc \in {"stats", "shrink"}, role'[m].is = "merged"
                PROVE  cg'[m].frozen /\ (job[u].pc = "shrink" => job[u].seen = cg'[m].usage)
    BY DEF StatsOf
  <2>1. MergeJob(u) /\ \A c \in job[u].done : Retrievable(c)
    BY DEF JobsKept, JobKept, Merges
  <2>2. m \in Cgroups /\ Retrievable(m)
    BY <2>1, TypesFacts DEF MergeJob
  <2>3. role[m].is = "merged"
    BY <2>2 DEF Retrievable
  <2>4. cg[m].frozen /\ (job[u].pc = "shrink" => job[u].seen = cg[m].usage)
    BY <2>3 DEF StatsFresh, StatsOf
  <2>. HIDE DEF m
  <2>. QED  BY <2>2, <2>3, <2>4
<1>. QED  BY <1>1 DEF StatsFresh

\* The container of a reset is not merged.
LEMMA ResetNotMerged ==
  ASSUME ResourceTypes, JobsKept, NEW t \in Cgroups, job[t].pc = "reset", NEW c \in job[t].todo
  PROVE  c \in Cgroups /\ role[c].is # "merged"
<1>1. /\ c \in Cgroups /\ ResetJob(t)
      /\ c # t => c \in job[t].done
  BY ResetOthers
<1>. QED  BY <1>1 DEF ResetJob

LEMMA MovesKeepRefused ==
  ASSUME ResourceTypes, StatsFresh, RolesMove \/ role' = role, refused' = refused
  PROVE  /\ \A c \in Cgroups : role'[c].is = "merged" => role[c].is \in {"merged", "idle"}
         /\ \A c \in refused' : role'[c].is \in {"reclaiming", "failed"}
  BY DEF RolesMove, StatsFresh, ResourceTypes

LEMMA StatsFail ==
  ASSUME ResourceTypes, JobsKept, StatsFresh, NEW t \in Cgroups, Fails(t), role' = role, cg' = cg,
         \A c \in refused' \ refused : role[c].is \in {"reclaiming", "failed"}
  PROVE  StatsFresh'
<1>1. job'[t] = NoJob /\ \A u \in Cgroups \ {t} : job'[u] = job[u]
  BY FailEffect
<1>2. StatsOf(t)'
  BY <1>1 DEF StatsOf, NoJob
<1>3. \A c \in refused' : role'[c].is \in {"reclaiming", "failed"}
  BY DEF StatsFresh
<1>. QED  BY <1>1, <1>2, <1>3, StatsFrame

LEMMA StatsStep ==
  ASSUME ResourceTypes, node.booted, JobsKept, StatsFresh, NodeNext
  PROVE  StatsFresh'
<1>1. node' = node
  BY NodeStays DEF ResourceTypes
<1>3. ASSUME NEW t \in Cgroups, NEW n \in Usages[t], Use(t, n)
      PROVE  StatsFresh'
  <2>1. /\ role' = role /\ job' = job /\ refused' = refused
        /\ \A u \in Cgroups \ {t} : cg'[u] = cg[u]
        /\ ~cg[t].frozen
    BY <1>3, UseEffect
  <2>2. \A c \in Cgroups : cg[c].frozen => cg'[c] = cg[c]
    BY <2>1
  <2>3. StatsOf(t)'
    <3>1. job[t].pc \in {"stats", "shrink"} => Min(job[t].todo) \in Cgroups
      BY TypesFacts DEF JobsKept, JobKept, MergeJob, Merges
    <3>. QED  BY <2>1, <2>2, <3>1 DEF StatsFresh, StatsOf
  <2>. QED  BY <2>1, <2>2, <2>3, StatsFrame, MovesKeepRefused
<1>4. ASSUME NEW t \in Cgroups, NEW mem \in TargetSizes, NEW S \in SUBSET Cgroups, RequestScaleUp(t, mem, S)
      PROVE  StatsFresh'
  <2>1. /\ cg' = cg /\ refused' = refused
        /\ role'[t] = [is |-> "busy", mem |-> mem] /\ role[t].is = "idle"
        /\ \A c \in S : role'[c] = [is |-> "merged", mem |-> 0] /\ role[c].is = "idle"
        /\ \A c \in Cgroups \ (S \cup {t}) : role'[c] = role[c]
        /\ job'[t] = [pc |-> "check", todo |-> S, done |-> S, seen |-> 0]
        /\ \A u \in Cgroups \ {t} : job'[u] = job[u]
    BY <1>4, ScaleUpJob
  <2>2. StatsOf(t)'
    BY <2>1 DEF StatsOf
  <2>3. \A c \in Cgroups : role'[c].is = "merged" => role[c].is \in {"merged", "idle"}
    BY <2>1
  <2>4. \A c \in refused' : role'[c].is \in {"reclaiming", "failed"}
    <3>1. \A c \in refused : c \in Cgroups /\ role[c].is \in {"reclaiming", "failed"}
      BY DEF StatsFresh, ResourceTypes
    <3>. QED  BY <2>1, <3>1
  <2>. QED  BY <2>1, <2>2, <2>3, <2>4, StatsFrame
<1>5. ASSUME NEW t \in Cgroups, NEW S \in SUBSET Cgroups, RequestReset(t, S) \/ RequestResetAlone(t, S)
      PROVE  StatsFresh'
  <2>1. /\ cg' = cg /\ refused' = refused /\ RolesMove /\ job'[t].pc = "reset"
        /\ \A u \in Cgroups \ {t} : job'[u] = job[u]
    BY <1>5, RequestEffect
  <2>2. StatsOf(t)'
    BY <2>1 DEF StatsOf
  <2>. QED  BY <2>1, <2>2, StatsFrame, MovesKeepRefused
<1>6. ASSUME NEW t \in Cgroups, NEW S \in SUBSET Cgroups, RequestResetRefused(t, S)
      PROVE  StatsFresh'
  <2>1. cg' = cg /\ refused' = refused /\ RolesMove /\ job' = job
    BY <1>6, RefusedEffect
  <2>2. StatsOf(t)'
    <3>1. job[t].pc \in {"stats", "shrink"} => Min(job[t].todo) \in Cgroups /\ Retrievable(Min(job[t].todo))
      BY TypesFacts DEF JobsKept, JobKept, MergeJob, Merges
    <3>2. job[t].pc \in {"stats", "shrink"} /\ role'[Min(job[t].todo)].is = "merged" => role[Min(job[t].todo)].is = "merged"
      BY <2>1, <3>1 DEF RolesMove, Retrievable
    <3>. QED  BY <2>1, <3>2 DEF StatsFresh, StatsOf
  <2>. QED  BY <2>1, <2>2, StatsFrame, MovesKeepRefused
<1>7. ASSUME NEW t \in Cgroups, RequestReborn(t)
      PROVE  StatsFresh'
  <2>1. /\ cg' = cg /\ refused' = refused /\ role' = role
        /\ job'[t] = [pc |-> "reset", todo |-> {t}, done |-> {}, seen |-> 0]
        /\ \A u \in Cgroups \ {t} : job'[u] = job[u]
    BY <1>7, RebornEffect
  <2>2. StatsOf(t)'
    BY <2>1 DEF StatsOf
  <2>. QED  BY <2>1, <2>2, StatsFrame, MovesKeepRefused
<1>8. ASSUME NEW t \in Cgroups, scaleUpFindsNone(t) \/ ScaleUpFails(t)
      PROVE  StatsFresh'
  BY <1>8, StatsFail DEF scaleUpFindsNone, ScaleUpFails
<1>9. ASSUME NEW t \in Cgroups, scaleUpChecks(t)
      PROVE  StatsFresh'
  <2>1. /\ cg' = cg /\ refused' = refused /\ role' = role /\ job'[t].pc = "freeze"
        /\ \A u \in Cgroups \ {t} : job'[u] = job[u]
    BY <1>9, ChecksEffect
  <2>2. StatsOf(t)'
    BY <2>1 DEF StatsOf
  <2>. QED  BY <2>1, <2>2, StatsFrame, MovesKeepRefused
<1>10. ASSUME NEW t \in Cgroups, scaleUpMemory(t)
       PROVE  StatsFresh'
  <2>1. CASE role[t].mem < cg[t].mem
    BY <1>10, <2>1, StatsFail DEF scaleUpMemory
  <2>2. CASE ~(role[t].mem < cg[t].mem)
    <3>1. /\ role' = role /\ refused' = refused /\ job'[t].pc = "quota"
          /\ \A u \in Cgroups \ {t} : job'[u] = job[u] /\ cg'[u] = cg[u]
          /\ cg'[t].frozen = cg[t].frozen /\ cg'[t].usage = cg[t].usage
      BY <1>10, <2>2, MemoryEffect
    <3>2. StatsOf(t)'
      BY <3>1 DEF StatsOf
    <3>3. \A c \in Cgroups : cg[c].frozen => cg'[c].frozen /\ cg'[c].usage = cg[c].usage
      BY <3>1
    <3>. QED  BY <3>1, <3>2, <3>3, StatsFrame, MovesKeepRefused
  <2>. QED  BY <2>1, <2>2
<1>11. ASSUME NEW t \in Cgroups, scaleUpQuota(t)
       PROVE  StatsFresh'
  <2>1. /\ role' = role /\ refused' = refused /\ job'[t] = NoJob
        /\ \A u \in Cgroups \ {t} : job'[u] = job[u] /\ cg'[u] = cg[u]
        /\ cg'[t].frozen = cg[t].frozen /\ cg'[t].usage = cg[t].usage
    BY <1>11, QuotaEffect
  <2>2. StatsOf(t)'
    BY <2>1 DEF StatsOf, NoJob
  <2>3. \A c \in Cgroups : cg[c].frozen => cg'[c].frozen /\ cg'[c].usage = cg[c].usage
    BY <2>1
  <2>. QED  BY <2>1, <2>2, <2>3, StatsFrame, MovesKeepRefused
<1>12. ASSUME NEW t \in Cgroups, ResetEnds(t)
       PROVE  StatsFresh'
  <2>1. /\ cg' = cg /\ job'[t] = NoJob /\ refused' = refused
        /\ \A u \in Cgroups \ {t} : job'[u] = job[u] /\ role'[u] = role[u]
        /\ role'[t] = role[t] \/ (role[t].is = "busy" /\ role'[t].is = "idle")
    BY <1>12 DEF ResetEnds, Ends, ResourceTypes
  <2>2. StatsOf(t)'
    BY <2>1 DEF StatsOf, NoJob
  <2>3. \A c \in Cgroups : role'[c].is = "merged" => role[c].is \in {"merged", "idle"}
    BY <2>1
  <2>4. \A c \in refused' : role'[c].is \in {"reclaiming", "failed"}
    <3>1. \A c \in refused : c \in Cgroups /\ role[c].is \in {"reclaiming", "failed"}
      BY DEF StatsFresh, ResourceTypes
    <3>. QED  BY <2>1, <3>1
  <2>. QED  BY <2>1, <2>2, <2>3, <2>4, StatsFrame
<1>13. ASSUME NEW t \in Cgroups, NEW c \in job[t].todo, FrozenContainer(t, c)
       PROVE  StatsFresh'
  <2>1. /\ role' = role /\ refused' = refused /\ \A u \in Cgroups \ {t} : job'[u] = job[u]
        /\ c = Min(job[t].todo) /\ job'[t].pc = "stats" /\ job'[t].todo = job[t].todo
        /\ \A d \in Cgroups \ {c} : cg'[d] = cg[d]
        /\ cg'[c].frozen /\ cg'[c].usage = cg[c].usage
    BY <1>13, FreezeEffect
  <2>2. StatsOf(t)'
    BY <2>1 DEF StatsOf
  <2>3. \A d \in Cgroups : cg[d].frozen => cg'[d].frozen /\ cg'[d].usage = cg[d].usage
    BY <2>1
  <2>. QED  BY <2>1, <2>2, <2>3, StatsFrame, MovesKeepRefused
<1>14. ASSUME NEW t \in Cgroups, NEW c \in job[t].todo, ContainerResourceStats(t, c)
       PROVE  StatsFresh'
  <2>1. /\ cg' = cg /\ role' = role /\ refused' = refused /\ \A u \in Cgroups \ {t} : job'[u] = job[u]
        /\ c = Min(job[t].todo) /\ job[t].pc = "stats" /\ job'[t].pc = "shrink" /\ job'[t].todo = job[t].todo
        /\ job'[t].seen = cg[c].usage
    BY <1>14, StatsEffect
  <2>2. StatsOf(t)'
    BY <2>1 DEF StatsFresh, StatsOf
  <2>. QED  BY <2>1, <2>2, StatsFrame, MovesKeepRefused
<1>15. ASSUME NEW t \in Cgroups, NEW c \in job[t].todo, scaleDownContainerToMinimum(t, c)
       PROVE  StatsFresh'
  <2>1. CASE Refuses(c, job[t].seen + 1)
    <3>1. /\ Fails(t) /\ role' = role /\ cg' = cg /\ refused' = refused \cup {c} /\ job[t].pc = "shrink"
          /\ c = Min(job[t].todo)
      BY <1>15, <2>1 DEF scaleDownContainerToMinimum
    <3>2. c \in Cgroups /\ Retrievable(c) /\ cg[c].usage \in Nat /\ job[t].seen \in Nat
      <4>1. MergeJob(t) /\ \A d \in job[t].done : Retrievable(d)
        BY <3>1 DEF JobsKept, JobKept, Merges
      <4>. QED  BY <4>1, TypesFacts DEF MergeJob
    <3>3. role[c].is # "merged"
      BY <2>1, <3>1, <3>2 DEF StatsFresh, StatsOf, Refuses
    <3>4. role[c].is \in {"reclaiming", "failed"}
      BY <3>2, <3>3 DEF Retrievable
    <3>. QED  BY <3>1, <3>4, StatsFail
  <2>2. CASE ~Refuses(c, job[t].seen + 1)
    <3>1. /\ role' = role /\ refused' = refused /\ job'[t].pc = "freeze"
          /\ \A u \in Cgroups \ {t} : job'[u] = job[u]
          /\ \A d \in Cgroups \ {c} : cg'[d] = cg[d]
          /\ cg'[c].frozen = cg[c].frozen /\ cg'[c].usage = cg[c].usage
      BY <1>15, <2>2, ShrinkEffect
    <3>2. StatsOf(t)'
      BY <3>1 DEF StatsOf
    <3>3. \A d \in Cgroups : cg[d].frozen => cg'[d].frozen /\ cg'[d].usage = cg[d].usage
      BY <3>1
    <3>. QED  BY <3>1, <3>2, <3>3, StatsFrame, MovesKeepRefused
  <2>. QED  BY <2>1, <2>2
<1>16. ASSUME NEW t \in Cgroups, NEW c \in job[t].todo, CgroupNotExist(t, c)
       PROVE  StatsFresh'
  BY <1>16, StatsFail DEF CgroupNotExist
<1>17. ASSUME NEW t \in Cgroups, NEW c \in job[t].todo, ResetRemoves(t, c)
       PROVE  StatsFresh'
  <2>1. /\ role' = role /\ job' = job /\ refused' = refused /\ job[t].pc = "reset"
        /\ \A d \in Cgroups \ {c} : cg'[d] = cg[d]
    BY <1>17, RemovesEffect
  <2>2. StatsOf(t)'
    BY <2>1 DEF StatsOf
  <2>3. \A d \in Cgroups : role[d].is = "merged" => cg'[d] = cg[d]
    BY <2>1, ResetNotMerged
  <2>. QED  BY <2>1, <2>2, <2>3, StatsFrame, MovesKeepRefused
<1>18. ASSUME NEW t \in Cgroups, NEW c \in job[t].todo, ResetInits(t, c)
       PROVE  StatsFresh'
  <2>1. /\ role' = role /\ refused' = refused /\ job[t].pc = "reset"
        /\ \A d \in Cgroups \ {c} : cg'[d] = cg[d]
        /\ job' = [job EXCEPT ![t] = AfterReset(t, c)]
    BY <1>18, InitsEffect
  <2>2. \A u \in Cgroups \ {t} : job'[u] = job[u]
    BY <2>1, AfterEffect, ZenonT(60)
  <2>3. StatsOf(t)'
    <3>1. job'[t].pc = "reset"
      BY <2>1, AfterEffect, ZenonT(60)
    <3>. QED  BY <3>1 DEF StatsOf
  <2>4. \A d \in Cgroups : role[d].is = "merged" => cg'[d] = cg[d]
    BY <2>1, ResetNotMerged
  <2>. QED  BY <2>1, <2>2, <2>3, <2>4, StatsFrame, MovesKeepRefused
<1>19. ASSUME NEW t \in Cgroups, NEW c \in job[t].todo, ResetFails(t, c)
       PROVE  StatsFresh'
  <2>1. /\ refused' = refused /\ job[t].pc = "reset" /\ RolesMove
        /\ \A d \in Cgroups \ {c} : cg'[d] = cg[d]
        /\ c # t => job' = [job EXCEPT ![t] = AfterReset(t, c)]
        /\ c = t => job'[t] = NoJob /\ \A u \in Cgroups \ {t} : job'[u] = job[u]
    BY <1>19, ResetFailsEffect
  <2>2. \A u \in Cgroups \ {t} : job'[u] = job[u]
    BY <2>1, AfterEffect, ZenonT(60)
  <2>3. job'[t].pc \in {"reset", "none"}
    <3>1. c # t => job'[t].pc = "reset"
      BY <2>1, AfterEffect, ZenonT(60)
    <3>2. c = t => job'[t].pc = "none"
      BY <2>1 DEF NoJob
    <3>. QED  BY <3>1, <3>2
  <2>4. StatsOf(t)'
    BY <2>3 DEF StatsOf
  <2>5. \A d \in Cgroups : role[d].is = "merged" => cg'[d] = cg[d]
    BY <2>1, ResetNotMerged
  <2>. QED  BY <2>1, <2>2, <2>4, <2>5, StatsFrame, MovesKeepRefused
<1>20. ~\E o \in NodeOptions : NewResourceManager(o)
  BY DEF NewResourceManager
<1>. QED
  BY <1>3, <1>4, <1>5, <1>6, <1>7, <1>8, <1>9, <1>10, <1>11, <1>12, <1>13, <1>14, <1>15, <1>16, <1>17, <1>18,
     <1>19, <1>20, ZenonT(40) DEF NodeNext

\* Quotas come from the configuration of the node or of a target.
LEMMA QuotasStep ==
  ASSUME ResourceTypes, node.booted, JobsKept, QuotasKept, NodeNext
  PROVE  QuotasKept'
<1>1. node' = node
  BY NodeStays DEF ResourceTypes
<1>2. /\ \A c \in Cgroups : QuotaToMilliCPU(cg[c].quota) <= MaxMilli
      /\ QuotaToMilliCPU(node.default.quota) <= MaxMilli
  BY DEF QuotasKept
<1>3. MaxMilli' = MaxMilli
  BY <1>1 DEF MaxMilli
<1>4. \A c \in Cgroups : \/ cg'[c].quota = cg[c].quota
                         \/ cg'[c].quota = 0
                         \/ cg'[c].quota = node.default.quota
                         \/ cg'[c].quota = TargetConfig(role[c].mem).quota
  <2>1. ASSUME NEW t \in Cgroups, NEW n \in Usages[t], Use(t, n)
        PROVE  \A c \in Cgroups : cg'[c].quota = cg[c].quota
    BY <2>1, UseEffect
  <2>2. ASSUME NEW t \in Cgroups, scaleUpMemory(t)
        PROVE  \A c \in Cgroups : cg'[c].quota = cg[c].quota
    <3>1. CASE role[t].mem < cg[t].mem
      BY <2>2, <3>1 DEF scaleUpMemory
    <3>. QED  BY <2>2, <3>1, MemoryEffect
  <2>3. ASSUME NEW t \in Cgroups, NEW c \in job[t].todo, scaleDownContainerToMinimum(t, c)
        PROVE  \A d \in Cgroups : cg'[d].quota = cg[d].quota
    <3>1. CASE Refuses(c, job[t].seen + 1)
      BY <2>3, <3>1 DEF scaleDownContainerToMinimum
    <3>. QED  BY <2>3, <3>1, ShrinkEffect
  <2>4. ASSUME NEW t \in Cgroups, scaleUpQuota(t)
        PROVE  \A c \in Cgroups : cg'[c].quota = cg[c].quota \/ cg'[c].quota = TargetConfig(role[c].mem).quota
    BY <2>4, QuotaEffect
  <2>5. ASSUME NEW t \in Cgroups, NEW c \in job[t].todo, FrozenContainer(t, c)
        PROVE  \A d \in Cgroups : cg'[d].quota = cg[d].quota
    BY <2>5, FreezeEffect
  <2>6. ASSUME NEW t \in Cgroups, NEW c \in job[t].todo, ResetRemoves(t, c)
        PROVE  \A d \in Cgroups : cg'[d].quota = cg[d].quota \/ cg'[d].quota = 0
    BY <2>6, RemovesEffect DEF NoCgroup
  <2>7. ASSUME NEW t \in Cgroups, NEW c \in job[t].todo, ResetInits(t, c)
        PROVE  \A d \in Cgroups : cg'[d].quota = cg[d].quota \/ cg'[d].quota = node.default.quota
    BY <2>7, InitsEffect
  <2>8. ASSUME NEW t \in Cgroups, NEW c \in job[t].todo, ResetFails(t, c)
        PROVE  \A d \in Cgroups : cg'[d].quota = cg[d].quota
    BY <2>8, ResetFailsEffect
  <2>9. ASSUME cg' = cg
        PROVE  \A d \in Cgroups : cg'[d].quota = cg[d].quota
    BY <2>9
  <2>10. ~\E o \in NodeOptions : NewResourceManager(o)
    BY DEF NewResourceManager
  <2>. QED
    BY <2>1, <2>2, <2>3, <2>4, <2>5, <2>6, <2>7, <2>8, <2>9, <2>10, ZenonT(60)
    DEF NodeNext, RequestScaleUp, RequestReset, RequestResetAlone, RequestResetRefused, RequestReborn,
        scaleUpChecks, scaleUpFindsNone, ScaleUpFails, ResetEnds, ContainerResourceStats, CgroupNotExist
<1>5. QuotaToMilliCPU(0) <= MaxMilli
  <2>1. MaxMilli \in Int /\ 10 <= MaxMilli
    BY MaxMilliFacts DEF ResourceTypes, NodeTypes
  <2>2. QuotaToMilliCPU(0) = 0
    BY DEF QuotaToMilliCPU, MilliCPUToCPU, Period
  <2>. QED  BY <2>1, <2>2
<1>6. \A c \in Cgroups : QuotaToMilliCPU(TargetConfig(role[c].mem).quota) <= MaxMilli
  BY TargetConfigFits, TypesFacts DEF ResourceTypes
<1>7. \A c \in Cgroups : QuotaToMilliCPU(cg'[c].quota) <= MaxMilli
  BY <1>2, <1>4, <1>5, <1>6
<1>8. \A c \in Cgroups : QuotaToMilliCPU(cg'[c].quota) = QuotaToMilliCPU(cg[c].quota)'
  BY DEF QuotaToMilliCPU
<1>9. QuotaToMilliCPU(node.default.quota)' = QuotaToMilliCPU(node.default.quota)
  BY <1>1 DEF QuotaToMilliCPU
<1>. QED  BY <1>2, <1>3, <1>7, <1>8, <1>9 DEF QuotasKept

LEMMA NeedTypes ==
  ASSUME ResourceTypes, node.booted
  PROVE  /\ [t \in Cgroups |-> Need(t)] \in [Cgroups -> Int]
         /\ \A t \in Cgroups : Need(t) \in Int
         /\ SumFunction([t \in Cgroups |-> Need(t)]) \in Int
<1>1. node.default.mem \in Nat /\ node.default.mem > 1
  BY DEF ResourceTypes, NodeTypes
<1>2. \A t \in Cgroups : scaleCount(role[t].mem) \in Int
  BY <1>1, TypesFacts DEF scaleCount
<1>3. \A t \in Cgroups : Need(t) \in Int
  BY <1>2 DEF Need
<1>. QED  BY <1>3, TotalType, CgroupsAssumption

LEMMA NeedFrame ==
  ASSUME ResourceTypes, node' = node, RolesMove \/ role' = role, NEW t \in Cgroups,
         \A u \in Cgroups \ {t} : job'[u] = job[u],
         role[t].is = "busy" => (Past(t)' <=> Past(t))
  PROVE  \A c \in Cgroups : Need(c)' = Need(c)
<1>. SUFFICES ASSUME NEW c \in Cgroups
              PROVE  Need(c)' = Need(c)
  OBVIOUS
<1>1. role'[c] = role[c] \/ (role[c].is # "busy" /\ role'[c].is # "busy")
  BY DEF RolesMove, Retrievable
<1>2. role[c].is = "busy" => (Past(c)' <=> Past(c))
  BY DEF Past
<1>3. \A m : scaleCount(m)' = scaleCount(m)
  BY DEF scaleCount
<1>4. CASE role'[c] = role[c] /\ role[c].is = "busy"
  BY <1>2, <1>3, <1>4 DEF Need, scaleCount
<1>5. CASE role[c].is # "busy" /\ role'[c].is # "busy"
  BY <1>5 DEF Need
<1>. QED  BY <1>1, <1>4, <1>5

\* A step that keeps its needs gives up no more promised containers than it counts as lost.
LEMMA LedgerFrame ==
  ASSUME ResourceTypes, ResourceTypes', node.booted, node' = node, Ledger,
         NEW t \in Cgroups, NEW X \in SUBSET Cgroups, \A u \in Cgroups \ {t} : job'[u] = job[u],
         \A c \in Promised \ X :
           /\ cg[c].frozen => cg'[c].frozen
           /\ c \in Pending(t) => c \in Pending(t)' \/ cg'[c].frozen
           /\ role'[c].is = "failed" => role[c].is = "failed"
           /\ Past(t)' /\ c \in job'[t].todo => Past(t) /\ c \in job[t].todo,
         \A c \in Cgroups : Need(c)' = Need(c), lost' = lost + Cardinality(X)
  PROVE  Ledger'
<1>1. \A u \in Cgroups \ {t} : (Past(u)' <=> Past(u)) /\ Pending(u)' = Pending(u)
  BY DEF Past, Pending
<1>2. ASSUME NEW c \in Promised \ X
      PROVE  c \in Promised'
  <2>1. c \in Cgroups /\ (cg[c].frozen \/ \E u \in Cgroups : c \in Pending(u)) /\ ~Charged(c)
    BY DEF Promised
  <2>2. cg'[c].frozen \/ \E u \in Cgroups : c \in Pending(u)'
    <3>1. CASE cg[c].frozen
      BY <3>1
    <3>2. ASSUME NEW u \in Cgroups, c \in Pending(u)
          PROVE  cg'[c].frozen \/ c \in Pending(u)'
      BY <1>1, <3>2
    <3>. QED  BY <2>1, <3>1, <3>2
  <2>3. ~Charged(c)'
    BY <1>1, <2>1 DEF Charged
  <2>. QED  BY <2>1, <2>2, <2>3 DEF Promised
<1>3. /\ IsFiniteSet(Promised) /\ IsFiniteSet(X) /\ IsFiniteSet(Promised') /\ IsFiniteSet(Promised \ X)
      /\ Cardinality(Promised) \in Nat /\ Cardinality(X) \in Nat /\ Cardinality(Promised') \in Nat
      /\ Cardinality(Promised \ X) \in Nat
  <2>1. Promised \in SUBSET Cgroups /\ Promised' \in SUBSET Cgroups /\ Promised \ X \in SUBSET Cgroups
    BY DEF Promised
  <2>. QED  BY <2>1, SetsSmall
<1>4. Cardinality(Promised \ X) <= Cardinality(Promised')
  BY <1>2, <1>3, FS_Subset
<1>5. Cardinality(Promised) <= Cardinality(Promised \ X) + Cardinality(X)
  <2>1. Promised \ (Promised \cap X) = Promised \ X
    OBVIOUS
  <2>2. Cardinality(Promised \ X) = Cardinality(Promised) - Cardinality(Promised \cap X)
    BY <1>3, FS_Difference
  <2>3. Cardinality(Promised \cap X) \in Nat /\ Cardinality(Promised \cap X) <= Cardinality(X)
    BY <1>3, FS_Subset, FS_CardinalityType
  <2>. QED  BY <1>3, <2>2, <2>3
<1>6. [c \in Cgroups |-> Need(c)]' = [c \in Cgroups |-> Need(c)]
  OBVIOUS
<1>7. SumFunction([c \in Cgroups |-> Need(c)]) \in Int
  BY NeedTypes
<1>8. SumFunction([c \in Cgroups |-> Need(c)]) <= Cardinality(Promised) + lost /\ lost \in Nat /\ lost' \in Nat
  BY DEF Ledger, ResourceTypes
<1>. DEFINE s == SumFunction([c \in Cgroups |-> Need(c)])
<1>9. s <= Cardinality(Promised') + lost'
  <2>. HIDE DEF s
  <2>. QED  BY <1>3, <1>4, <1>5, <1>7, <1>8 DEF s
<1>10. SumFunction([c \in Cgroups |-> Need(c)])' = s
  BY <1>6
<1>. QED  BY <1>9, <1>10 DEF Ledger

\* What is not frozen and belongs to no scale-up is not promised.
LEMMA PendingOwned ==
  ASSUME ResourceTypes, JobsKept, NEW u \in Cgroups
  PROVE  /\ Pending(u) \subseteq job[u].done /\ Pending(u) \subseteq Cgroups
         /\ \A c \in Pending(u) : Retrievable(c)
         /\ job[u].pc \notin Merges => Pending(u) = {}
<1>1. JobKept(u) /\ job[u].todo \subseteq Cgroups
  BY TypesFacts DEF JobsKept
<1>2. CASE job[u].pc \in Merges
  BY <1>1, <1>2 DEF JobKept, MergeJob, Pending
<1>3. CASE job[u].pc \notin Merges
  BY <1>3 DEF Pending, Merges
<1>. QED  BY <1>2, <1>3

LEMMA NotPromised ==
  ASSUME ResourceTypes, JobsKept, NEW c \in Cgroups, ~Retrievable(c) \/ role[c].is = "failed"
  PROVE  c \notin Promised
<1>1. ~Retrievable(c) => ~cg[c].frozen /\ \A u \in Cgroups : c \notin Pending(u)
  BY PendingOwned DEF JobsKept
<1>. QED  BY <1>1 DEF Promised, Charged

LEMMA LedgerScaleUp ==
  ASSUME ResourceTypes, ResourceTypes', node.booted, JobsKept, Ledger,
         NEW t \in Cgroups, NEW mem \in TargetSizes, NEW S \in SUBSET Cgroups, RequestScaleUp(t, mem, S)
  PROVE  Ledger'
<1>1. /\ node' = node /\ cg' = cg /\ lost' = lost
      /\ role'[t] = [is |-> "busy", mem |-> mem] /\ role[t].is = "idle" /\ mem \in Nat
      /\ \A c \in S : role'[c] = [is |-> "merged", mem |-> 0] /\ role[c].is = "idle" /\ c # t
      /\ \A c \in Cgroups \ (S \cup {t}) : role'[c] = role[c]
      /\ job'[t] = [pc |-> "check", todo |-> S, done |-> S, seen |-> 0]
      /\ \A u \in Cgroups \ {t} : job'[u] = job[u]
      /\ \A c \in S \cup {t} : job[c] = NoJob /\ ~cg[c].frozen
      /\ \A u \in Cgroups : job[u].done \cap (S \cup {t}) = {}
  BY ScaleUpJob
<1>2. Cardinality(S) = scaleCount(mem)
  BY DEF RequestScaleUp
<1>3. /\ Pending(t) = {} /\ ~Past(t) /\ Pending(t)' = S /\ ~Past(t)'
      /\ \A u \in Cgroups \ {t} : Pending(u)' = Pending(u) /\ (Past(u)' <=> Past(u))
  <2>1. job[t] = NoJob
    BY <1>1
  <2>2. Pending(t) = {} /\ ~Past(t)
    BY <2>1 DEF Pending, Past, NoJob
  <2>3. Pending(t)' = S /\ ~Past(t)'
    BY <1>1 DEF Pending, Past
  <2>4. \A u \in Cgroups \ {t} : Pending(u)' = Pending(u) /\ (Past(u)' <=> Past(u))
    BY <1>1 DEF Pending, Past
  <2>. QED  BY <2>2, <2>3, <2>4
<1>4. \A c \in S : ~Retrievable(c)
  BY <1>1 DEF Retrievable
<1>5. S \cap Promised = {}
  BY <1>4, NotPromised
<1>6. \A c \in S \cup {t} : \A u \in Cgroups : Past(u) => c \notin job[u].todo
  <2>1. ASSUME NEW u \in Cgroups, Past(u)
        PROVE  job[u].todo \subseteq job[u].done
    <3>1. ResetJob(u) /\ job[u].todo # {u}
      BY <2>1 DEF JobsKept, JobKept, Past
    <3>. QED  BY <3>1 DEF ResetJob
  <2>. QED  BY <1>1, <2>1
<1>7. S \subseteq Promised'
  <2>. SUFFICES ASSUME NEW c \in S
                PROVE  c \in Promised'
    OBVIOUS
  <2>1. ~Charged(c)'
    <3>1. role'[c].is # "failed"
      BY <1>1
    <3>2. ASSUME NEW u \in Cgroups, Past(u)'
          PROVE  c \notin job'[u].todo
      BY <1>1, <1>3, <1>6, <3>2
    <3>. QED  BY <3>1, <3>2 DEF Charged
  <2>. QED  BY <1>3, <2>1 DEF Promised
<1>8. Promised \subseteq Promised'
  <2>. SUFFICES ASSUME NEW c \in Promised
                PROVE  c \in Promised'
    OBVIOUS
  <2>1. c \in Cgroups /\ ~Charged(c) /\ c \notin S /\ c # t
    <3>1. t \notin Promised
      BY <1>1, NotPromised DEF Retrievable
    <3>. QED  BY <1>5, <3>1 DEF Promised
  <2>2. ~Charged(c)'
    BY <1>1, <1>3, <2>1 DEF Charged
  <2>3. cg'[c].frozen \/ \E u \in Cgroups : c \in Pending(u)'
    BY <1>1, <1>3, <2>1 DEF Promised
  <2>. QED  BY <2>1, <2>2, <2>3 DEF Promised
<1>9. Cardinality(Promised) + Cardinality(S) <= Cardinality(Promised') /\ Cardinality(Promised) \in Nat
      /\ Cardinality(S) \in Nat /\ Cardinality(Promised') \in Nat
  <2>1. Promised \in SUBSET Cgroups /\ Promised' \in SUBSET Cgroups
    BY DEF Promised
  <2>2. IsFiniteSet(Promised) /\ IsFiniteSet(S) /\ IsFiniteSet(Promised')
        /\ Cardinality(Promised) \in Nat /\ Cardinality(S) \in Nat /\ Cardinality(Promised') \in Nat
    BY <2>1, SetsSmall
  <2>3. Cardinality(Promised \cup S) = Cardinality(Promised) + Cardinality(S) - Cardinality(Promised \cap S)
    BY <2>2, FS_Union
  <2>4. Cardinality(Promised \cap S) = 0
    BY <1>5, FS_EmptySet
  <2>5. Cardinality(Promised \cup S) <= Cardinality(Promised')
    BY <1>7, <1>8, <2>2, FS_Subset
  <2>. QED  BY <2>2, <2>3, <2>4, <2>5
<1>. DEFINE w == [c \in Cgroups |-> Need(c)]
            v == [c \in Cgroups |-> Need(c)']
<1>10. Need(t) = 0 /\ Need(t)' = Cardinality(S)
  BY <1>1, <1>2, <1>3 DEF Need, scaleCount
<1>11. \A c \in Cgroups \ {t} : Need(c)' = Need(c)
  <2>. SUFFICES ASSUME NEW c \in Cgroups \ {t}
                PROVE  Need(c)' = Need(c)
    OBVIOUS
  <2>1. role'[c] = role[c] \/ (role[c].is # "busy" /\ role'[c].is # "busy")
    BY <1>1
  <2>. QED  BY <1>1, <1>3, <2>1 DEF Need, scaleCount
<1>12. w \in [Cgroups -> Int] /\ v \in [Cgroups -> Int] /\ SumFunction(w) \in Int
  <2>1. w \in [Cgroups -> Int] /\ SumFunction(w) \in Int /\ \A c \in Cgroups : Need(c) \in Int
    BY NeedTypes
  <2>2. \A c \in Cgroups : Need(c)' \in Int
    BY <1>9, <1>10, <1>11, <2>1
  <2>. QED  BY <2>1, <2>2
<1>13. SumFunction(v) = SumFunction(w) - w[t] + v[t]
  <2>1. \A c \in Cgroups \ {t} : v[c] = w[c]
    BY <1>11
  <2>. HIDE DEF v, w
  <2>. QED  BY <1>12, <2>1, TotalUpdate, CgroupsAssumption
<1>14. w[t] = 0 /\ v[t] = Cardinality(S)
  BY <1>10
<1>15. SumFunction(w) <= Cardinality(Promised) + lost /\ lost \in Nat
  BY DEF Ledger, ResourceTypes
<1>16. SumFunction(v) <= Cardinality(Promised') + lost'
  <2>. HIDE DEF v, w
  <2>. QED  BY <1>1, <1>9, <1>12, <1>13, <1>14, <1>15
<1>17. v = [c \in Cgroups |-> Need(c)]'
  OBVIOUS
<1>. QED  BY <1>16, <1>17 DEF Ledger

\* A target that is there again needs nobody, and the reset goes on with no more
\* containers than it has needed.
LEMMA LedgerTarget ==
  ASSUME ResourceTypes, ResourceTypes', node.booted, node' = node, JobsKept, Ledger,
         NEW t \in Cgroups, t \in job[t].todo, ResetInits(t, t)
  PROVE  Ledger'
<1>. DEFINE X == job[t].done
<1>1. /\ role' = role /\ lost' = lost /\ job[t].pc = "reset"
      /\ \A d \in Cgroups \ {t} : cg'[d] = cg[d]
      /\ job' = [job EXCEPT ![t] = AfterReset(t, t)]
  BY InitsEffect
<1>2. /\ \A u \in Cgroups \ {t} : job'[u] = job[u]
      /\ job'[t].pc = "reset" /\ job'[t].done = job[t].done /\ job'[t].todo = job[t].done
  BY <1>1, AfterEffect, ZenonT(60)
<1>3. ResetJob(t) /\ t \notin job[t].done /\ X \in SUBSET Cgroups
  <2>1. ResetJob(t) /\ X \in SUBSET Cgroups
    BY <1>1, ResetOthers, TypesFacts
  <2>. QED  BY <2>1 DEF ResetJob
<1>4. t \notin Promised
  BY <1>3, NotPromised DEF ResetJob, Retrievable
<1>5. ~Past(t) /\ Past(t)' /\ Pending(t) = {} /\ Pending(t)' = {}
      /\ \A u \in Cgroups \ {t} : Pending(u)' = Pending(u) /\ (Past(u)' <=> Past(u))
  BY <1>1, <1>2, <1>3 DEF Past, Pending
<1>6. Promised \ X \subseteq Promised'
  <2>. SUFFICES ASSUME NEW c \in Promised \ X
                PROVE  c \in Promised'
    OBVIOUS
  <2>1. c \in Cgroups /\ ~Charged(c) /\ c # t
    BY <1>4 DEF Promised
  <2>2. ~Charged(c)'
    BY <1>1, <1>2, <1>5, <2>1 DEF Charged
  <2>3. cg'[c].frozen \/ \E u \in Cgroups : c \in Pending(u)'
    BY <1>1, <1>5, <2>1 DEF Promised
  <2>. QED  BY <2>1, <2>2, <2>3 DEF Promised
<1>7. /\ Cardinality(Promised) <= Cardinality(Promised') + Cardinality(X)
      /\ Cardinality(Promised) \in Nat /\ Cardinality(Promised') \in Nat /\ Cardinality(X) \in Nat
  <2>. HIDE DEF X
  <2>1. Promised \in SUBSET Cgroups /\ Promised' \in SUBSET Cgroups
    BY DEF Promised
  <2>2. IsFiniteSet(Promised) /\ IsFiniteSet(X) /\ IsFiniteSet(Promised')
        /\ Cardinality(Promised) \in Nat /\ Cardinality(X) \in Nat /\ Cardinality(Promised') \in Nat
    BY <1>3, <2>1, SetsSmall
  <2>3. Promised \subseteq Promised' \cup X
    BY <1>6
  <2>4. IsFiniteSet(Promised' \cup X)
        /\ Cardinality(Promised' \cup X) = Cardinality(Promised') + Cardinality(X) - Cardinality(Promised' \cap X)
    BY <2>2, FS_Union
  <2>5. Cardinality(Promised) <= Cardinality(Promised' \cup X)
    BY <2>3, <2>4, FS_Subset
  <2>6. Cardinality(Promised' \cap X) \in Nat /\ Cardinality(Promised' \cup X) \in Nat
    BY <2>2, <2>4, FS_Intersection, FS_CardinalityType
  <2>. QED  BY <2>2, <2>4, <2>5, <2>6
<1>. DEFINE w == [c \in Cgroups |-> Need(c)]
            v == [c \in Cgroups |-> Need(c)']
<1>8. Need(t)' = 0 /\ Cardinality(X) <= Need(t)
  <2>1. Cardinality({}) = 0
    BY FS_EmptySet
  <2>. QED  BY <1>1, <1>3, <1>5, <2>1, SMTT(30) DEF Need, ResetJob
<1>9. \A c \in Cgroups \ {t} : Need(c)' = Need(c)
  BY <1>1, <1>2 DEF Need, scaleCount, Past
<1>10. w \in [Cgroups -> Int] /\ v \in [Cgroups -> Int] /\ SumFunction(w) \in Int /\ Need(t) \in Int
  <2>1. w \in [Cgroups -> Int] /\ SumFunction(w) \in Int /\ \A c \in Cgroups : Need(c) \in Int
    BY NeedTypes
  <2>2. \A c \in Cgroups : Need(c)' \in Int
    BY <1>8, <1>9, <2>1
  <2>. QED  BY <2>1, <2>2
<1>11. SumFunction(v) = SumFunction(w) - w[t] + v[t]
  <2>1. \A c \in Cgroups \ {t} : v[c] = w[c]
    BY <1>9
  <2>. HIDE DEF v, w
  <2>. QED  BY <1>10, <2>1, TotalUpdate, CgroupsAssumption
<1>12. w[t] = Need(t) /\ v[t] = 0
  BY <1>8
<1>13. SumFunction(w) <= Cardinality(Promised) + lost /\ lost \in Nat
  BY DEF Ledger, ResourceTypes
<1>14. SumFunction(v) <= Cardinality(Promised') + lost'
  <2>. HIDE DEF v, w, X
  <2>. QED  BY <1>1, <1>7, <1>8, <1>10, <1>11, <1>12, <1>13
<1>15. v = [c \in Cgroups |-> Need(c)]'
  OBVIOUS
<1>. QED  BY <1>14, <1>15 DEF Ledger

LEMMA LedgerSame ==
  ASSUME ResourceTypes, ResourceTypes', node.booted, node' = node, Ledger,
         NEW t \in Cgroups, \A u \in Cgroups \ {t} : job'[u] = job[u],
         \A c \in Promised :
           /\ cg[c].frozen => cg'[c].frozen
           /\ c \in Pending(t) => c \in Pending(t)' \/ cg'[c].frozen
           /\ role'[c].is = "failed" => role[c].is = "failed"
           /\ Past(t)' /\ c \in job'[t].todo => Past(t) /\ c \in job[t].todo,
         \A c \in Cgroups : Need(c)' = Need(c), lost' = lost
  PROVE  Ledger'
<1>1. lost' = lost + Cardinality({}) /\ {} \in SUBSET Cgroups /\ Promised \ {} = Promised
  BY FS_EmptySet DEF ResourceTypes
<1>. QED  BY <1>1, LedgerFrame

\* A scale-up that fails gives up all its containers.
LEMMA LedgerFail ==
  ASSUME ResourceTypes, ResourceTypes', node.booted, node' = node, JobsKept, Ledger,
         NEW t \in Cgroups, Fails(t), job[t].pc # "reset", role' = role, cg' = cg
  PROVE  Ledger'
<1>. DEFINE X == job[t].done
<1>1. job'[t] = NoJob /\ (\A u \in Cgroups \ {t} : job'[u] = job[u]) /\ lost' = lost + Cardinality(X)
  BY FailEffect
<1>2. X \in SUBSET Cgroups
  BY TypesFacts
<1>3. ~Past(t) /\ ~Past(t)'
  BY <1>1 DEF Past, NoJob
<1>4. Pending(t) \subseteq X
  BY PendingOwned
<1>5. \A c \in Cgroups : Need(c)' = Need(c)
  BY <1>1, <1>3, NeedFrame
<1>. HIDE DEF X
<1>. QED  BY <1>1, <1>2, <1>3, <1>4, <1>5, LedgerFrame

LEMMA LedgerStep ==
  ASSUME ResourceTypes, ResourceTypes', node.booted, JobsKept, Ledger, NodeNext
  PROVE  Ledger'
<1>1. node' = node
  BY NodeStays DEF ResourceTypes
<1>2. ASSUME NEW t \in Cgroups, NEW n \in Usages[t], Use(t, n)
      PROVE  Ledger'
  <2>1. /\ role' = role /\ job' = job /\ lost' = lost /\ \A u \in Cgroups \ {t} : cg'[u] = cg[u]
        /\ ~cg[t].frozen
    BY <1>2, UseEffect
  <2>2. (Past(t)' <=> Past(t)) /\ Pending(t)' = Pending(t)
    BY <2>1 DEF Past, Pending
  <2>3. \A c \in Cgroups : Need(c)' = Need(c)
    BY <1>1, <2>1, <2>2, NeedFrame
  <2>4. \A c \in Promised : cg[c].frozen => cg'[c].frozen
    BY <2>1 DEF Promised
  <2>. QED  BY <1>1, <2>1, <2>2, <2>3, <2>4, LedgerSame
<1>3. ASSUME NEW t \in Cgroups, NEW mem \in TargetSizes, NEW S \in SUBSET Cgroups, RequestScaleUp(t, mem, S)
      PROVE  Ledger'
  BY <1>3, LedgerScaleUp
<1>4. ASSUME NEW t \in Cgroups, NEW S \in SUBSET Cgroups, RequestReset(t, S) \/ RequestResetAlone(t, S)
      PROVE  Ledger'
  <2>1. /\ cg' = cg /\ lost' = lost /\ RolesMove /\ job[t] = NoJob
        /\ \A c \in Cgroups : role'[c].is = "failed" => role[c].is = "failed"
        /\ job'[t].pc = "reset" /\ job'[t].todo = {t} /\ \A u \in Cgroups \ {t} : job'[u] = job[u]
    BY <1>4, RequestEffect
  <2>2. ~Past(t) /\ ~Past(t)' /\ Pending(t) = {}
    BY <2>1 DEF Past, Pending, NoJob
  <2>3. \A c \in Cgroups : Need(c)' = Need(c)
    BY <1>1, <2>1, <2>2, NeedFrame
  <2>4. Promised \subseteq Cgroups
    BY DEF Promised
  <2>. QED  BY <1>1, <2>1, <2>2, <2>3, <2>4, LedgerSame
<1>5. ASSUME NEW t \in Cgroups, NEW S \in SUBSET Cgroups, RequestResetRefused(t, S)
      PROVE  Ledger'
  <2>1. /\ cg' = cg /\ job' = job /\ RolesMove /\ lost' = lost + Cardinality(S)
        /\ \A c \in Cgroups \ S : role'[c] = role[c]
    BY <1>5, RefusedEffect
  <2>2. (Past(t)' <=> Past(t)) /\ Pending(t)' = Pending(t)
    BY <2>1 DEF Past, Pending
  <2>3. \A c \in Cgroups : Need(c)' = Need(c)
    BY <1>1, <2>1, <2>2, NeedFrame
  <2>4. \A c \in Promised \ S : role'[c] = role[c]
    BY <2>1 DEF Promised
  <2>. QED  BY <1>1, <2>1, <2>2, <2>3, <2>4, LedgerFrame
<1>6. ASSUME NEW t \in Cgroups, RequestReborn(t)
      PROVE  Ledger'
  <2>1. /\ cg' = cg /\ role' = role /\ lost' = lost /\ job[t] = NoJob
        /\ \A u \in Cgroups \ {t} : job'[u] = job[u]
        /\ job'[t] = [pc |-> "reset", todo |-> {t}, done |-> {}, seen |-> 0]
    BY <1>6, RebornEffect
  <2>2. ~Past(t) /\ Pending(t) = {}
    BY <2>1 DEF Past, Pending, NoJob
  <2>3. ~Past(t)'
    BY <2>1 DEF Past
  <2>4. \A c \in Cgroups : Need(c)' = Need(c)
    BY <1>1, <2>1, <2>2, <2>3, NeedFrame
  <2>. QED  BY <1>1, <2>1, <2>2, <2>3, <2>4, LedgerSame
<1>7. ASSUME NEW t \in Cgroups, scaleUpFindsNone(t) \/ ScaleUpFails(t)
      PROVE  Ledger'
  BY <1>1, <1>7, LedgerFail DEF scaleUpFindsNone, ScaleUpFails
<1>8. ASSUME NEW t \in Cgroups, scaleUpChecks(t)
      PROVE  Ledger'
  <2>1. /\ cg' = cg /\ role' = role /\ lost' = lost /\ \A u \in Cgroups \ {t} : job'[u] = job[u]
        /\ job[t].pc = "check" /\ job'[t].pc = "freeze" /\ job'[t].todo = job[t].todo
    BY <1>8, ChecksEffect
  <2>2. ~Past(t) /\ ~Past(t)' /\ Pending(t)' = Pending(t)
    BY <2>1 DEF Past, Pending
  <2>3. \A c \in Cgroups : Need(c)' = Need(c)
    BY <1>1, <2>1, <2>2, NeedFrame
  <2>. QED  BY <1>1, <2>1, <2>2, <2>3, LedgerSame
<1>9. ASSUME NEW t \in Cgroups, scaleUpMemory(t)
      PROVE  Ledger'
  <2>1. CASE role[t].mem < cg[t].mem
    BY <1>1, <1>9, <2>1, LedgerFail DEF scaleUpMemory
  <2>2. CASE ~(role[t].mem < cg[t].mem)
    <3>1. /\ role' = role /\ lost' = lost /\ job[t].pc = "freeze" /\ job[t].todo = {} /\ job'[t].pc = "quota"
          /\ \A u \in Cgroups \ {t} : job'[u] = job[u] /\ cg'[u] = cg[u]
          /\ cg'[t].frozen = cg[t].frozen
      BY <1>9, <2>2, MemoryEffect
    <3>2. ~Past(t) /\ ~Past(t)' /\ Pending(t) = {}
      BY <3>1 DEF Past, Pending
    <3>3. \A c \in Cgroups : Need(c)' = Need(c)
      BY <1>1, <3>1, <3>2, NeedFrame
    <3>4. \A c \in Promised : cg[c].frozen => cg'[c].frozen
      BY <3>1 DEF Promised
    <3>. QED  BY <1>1, <3>1, <3>2, <3>3, <3>4, LedgerSame
  <2>. QED  BY <2>1, <2>2
<1>10. ASSUME NEW t \in Cgroups, scaleUpQuota(t)
       PROVE  Ledger'
  <2>1. /\ role' = role /\ lost' = lost /\ job[t].pc = "quota" /\ job'[t] = NoJob
        /\ \A u \in Cgroups \ {t} : job'[u] = job[u] /\ cg'[u] = cg[u]
        /\ cg'[t].frozen = cg[t].frozen
    BY <1>10, QuotaEffect
  <2>2. ~Past(t) /\ ~Past(t)' /\ Pending(t) = {}
    BY <2>1 DEF Past, Pending, NoJob
  <2>3. \A c \in Cgroups : Need(c)' = Need(c)
    BY <1>1, <2>1, <2>2, NeedFrame
  <2>4. \A c \in Promised : cg[c].frozen => cg'[c].frozen
    BY <2>1 DEF Promised
  <2>. QED  BY <1>1, <2>1, <2>2, <2>3, <2>4, LedgerSame
<1>11. ASSUME NEW t \in Cgroups, ResetEnds(t)
       PROVE  Ledger'
  <2>1. /\ cg' = cg /\ job'[t] = NoJob /\ lost' = lost /\ job[t].pc = "reset" /\ job[t].todo = {}
        /\ \A u \in Cgroups \ {t} : job'[u] = job[u] /\ role'[u] = role[u]
        /\ role'[t] = role[t] \/ (role[t].is = "busy" /\ role'[t].is = "idle")
        /\ role'[t].is # "busy"
    BY <1>11 DEF ResetEnds, Ends, ResourceTypes
  <2>2. Past(t) /\ ~Past(t)' /\ Pending(t) = {}
    BY <2>1 DEF Past, Pending, NoJob
  <2>3. \A c \in Cgroups : Need(c)' = Need(c)
    <3>1. Need(t)' = Need(t)
      BY <2>1, <2>2 DEF Need
    <3>2. \A c \in Cgroups \ {t} : Need(c)' = Need(c)
      BY <1>1, <2>1 DEF Need, scaleCount, Past
    <3>. QED  BY <3>1, <3>2
  <2>4. \A c \in Promised : role'[c].is = "failed" => role[c].is = "failed"
    BY <2>1 DEF Promised
  <2>. QED  BY <1>1, <2>1, <2>2, <2>3, <2>4, LedgerSame
<1>12. ASSUME NEW t \in Cgroups, NEW c \in job[t].todo, FrozenContainer(t, c)
       PROVE  Ledger'
  <2>1. /\ role' = role /\ lost' = lost /\ c = Min(job[t].todo) /\ \A u \in Cgroups \ {t} : job'[u] = job[u]
        /\ job[t].pc = "freeze" /\ job'[t].pc = "stats" /\ job'[t].todo = job[t].todo
        /\ \A d \in Cgroups \ {c} : cg'[d] = cg[d]
        /\ cg'[c].frozen
    BY <1>12, FreezeEffect
  <2>2. ~Past(t) /\ ~Past(t)' /\ Pending(t) = job[t].todo /\ Pending(t)' = job[t].todo \ {c}
    BY <2>1 DEF Past, Pending
  <2>3. \A d \in Cgroups : Need(d)' = Need(d)
    BY <1>1, <2>1, <2>2, NeedFrame
  <2>4. \A d \in Promised : /\ cg[d].frozen => cg'[d].frozen
                            /\ d \in Pending(t) => d \in Pending(t)' \/ cg'[d].frozen
    BY <2>1, <2>2 DEF Promised
  <2>. QED  BY <1>1, <2>1, <2>2, <2>3, <2>4, LedgerSame
<1>13. ASSUME NEW t \in Cgroups, NEW c \in job[t].todo, ContainerResourceStats(t, c)
       PROVE  Ledger'
  <2>1. /\ cg' = cg /\ role' = role /\ lost' = lost /\ \A u \in Cgroups \ {t} : job'[u] = job[u]
        /\ job[t].pc = "stats" /\ job'[t].pc = "shrink" /\ job'[t].todo = job[t].todo
    BY <1>13, StatsEffect
  <2>2. ~Past(t) /\ ~Past(t)' /\ Pending(t)' = Pending(t)
    BY <2>1 DEF Past, Pending
  <2>3. \A d \in Cgroups : Need(d)' = Need(d)
    BY <1>1, <2>1, <2>2, NeedFrame
  <2>. QED  BY <1>1, <2>1, <2>2, <2>3, LedgerSame
<1>14. ASSUME NEW t \in Cgroups, NEW c \in job[t].todo, scaleDownContainerToMinimum(t, c)
       PROVE  Ledger'
  <2>1. CASE Refuses(c, job[t].seen + 1)
    BY <1>1, <1>14, <2>1, LedgerFail DEF scaleDownContainerToMinimum
  <2>2. CASE ~Refuses(c, job[t].seen + 1)
    <3>1. /\ role' = role /\ lost' = lost /\ c = Min(job[t].todo) /\ \A u \in Cgroups \ {t} : job'[u] = job[u]
          /\ job[t].pc = "shrink" /\ job'[t].pc = "freeze" /\ job'[t].todo = job[t].todo \ {c}
          /\ \A d \in Cgroups \ {c} : cg'[d] = cg[d]
          /\ cg'[c].frozen = cg[c].frozen
      BY <1>14, <2>2, ShrinkEffect
    <3>2. ~Past(t) /\ ~Past(t)' /\ Pending(t)' = Pending(t)
      BY <3>1 DEF Past, Pending
    <3>3. \A d \in Cgroups : Need(d)' = Need(d)
      BY <1>1, <3>1, <3>2, NeedFrame
    <3>4. \A d \in Promised : cg[d].frozen => cg'[d].frozen
      BY <3>1 DEF Promised
    <3>. QED  BY <1>1, <3>1, <3>2, <3>3, <3>4, LedgerSame
  <2>. QED  BY <2>1, <2>2
<1>15. ASSUME NEW t \in Cgroups, NEW c \in job[t].todo, CgroupNotExist(t, c)
       PROVE  Ledger'
  BY <1>1, <1>15, LedgerFail DEF CgroupNotExist
<1>16. ASSUME NEW t \in Cgroups, NEW c \in job[t].todo, job[t].pc = "reset"
       PROVE  /\ c \in Cgroups /\ c \notin Promised /\ Pending(t) = {}
              /\ c # t => Past(t)
  <2>1. /\ c \in Cgroups /\ ResetJob(t)
        /\ c # t => c \in job[t].done /\ job[t].todo \subseteq job[t].done /\ t \notin job[t].done
    BY <1>16, ResetOthers
  <2>2. c # t => Past(t)
    BY <1>16, <2>1 DEF Past
  <2>3. c = t => c \notin Promised
    BY <2>1, NotPromised DEF ResetJob, Retrievable
  <2>4. c # t => c \notin Promised
    BY <2>2 DEF Promised, Charged
  <2>. QED  BY <1>16, <2>1, <2>2, <2>3, <2>4 DEF Pending
<1>17. ASSUME NEW t \in Cgroups, NEW c \in job[t].todo, ResetRemoves(t, c)
       PROVE  Ledger'
  <2>1. /\ role' = role /\ job' = job /\ lost' = lost /\ job[t].pc = "reset"
        /\ \A d \in Cgroups \ {c} : cg'[d] = cg[d]
    BY <1>17, RemovesEffect
  <2>2. (Past(t)' <=> Past(t)) /\ Pending(t)' = Pending(t)
    BY <2>1 DEF Past, Pending
  <2>3. \A d \in Cgroups : Need(d)' = Need(d)
    BY <1>1, <2>1, <2>2, NeedFrame
  <2>4. c \notin Promised /\ Promised \subseteq Cgroups
    BY <1>16, <2>1 DEF Promised
  <2>. QED  BY <1>1, <2>1, <2>2, <2>3, <2>4, LedgerSame
<1>18. ASSUME NEW t \in Cgroups, NEW c \in job[t].todo, ResetInits(t, c)
       PROVE  Ledger'
  <2>1. CASE c = t
    BY <1>1, <1>18, <2>1, LedgerTarget
  <2>2. CASE c # t
    <3>1. /\ role' = role /\ lost' = lost /\ job[t].pc = "reset"
          /\ \A d \in Cgroups \ {c} : cg'[d] = cg[d]
          /\ job' = [job EXCEPT ![t] = AfterReset(t, c)]
      BY <1>18, InitsEffect
    <3>2. /\ \A u \in Cgroups \ {t} : job'[u] = job[u]
          /\ job'[t].pc = "reset" /\ job'[t].todo = job[t].todo \ {c}
      BY <2>2, <3>1, AfterEffect, ZenonT(60)
    <3>3. Past(t) /\ c \notin Promised /\ Promised \subseteq Cgroups /\ Pending(t) = {}
      BY <1>16, <2>2, <3>1 DEF Promised
    <3>4. Past(t)'
      BY <3>2, <3>3 DEF Past
    <3>5. \A d \in Cgroups : Need(d)' = Need(d)
      BY <1>1, <3>1, <3>2, <3>3, <3>4, NeedFrame
    <3>. QED  BY <1>1, <3>1, <3>2, <3>3, <3>5, LedgerSame
  <2>. QED  BY <2>1, <2>2
<1>19. ASSUME NEW t \in Cgroups, NEW c \in job[t].todo, ResetFails(t, c)
       PROVE  Ledger'
  <2>1. /\ job[t].pc = "reset" /\ RolesMove
        /\ \A d \in Cgroups \ {c} : cg'[d] = cg[d]
    BY <1>19, ResetFailsEffect
  <2>2. c \notin Promised /\ Promised \subseteq Cgroups /\ Pending(t) = {}
    BY <1>16, <2>1 DEF Promised
  <2>3. CASE c # t
    <3>1. /\ job' = [job EXCEPT ![t] = AfterReset(t, c)] /\ lost' = lost
          /\ \A d \in Cgroups \ {c} : role'[d] = role[d]
      BY <1>19, <2>3, ResetFailsEffect
    <3>2. /\ \A u \in Cgroups \ {t} : job'[u] = job[u]
          /\ job'[t].pc = "reset" /\ job'[t].todo = job[t].todo \ {c}
      BY <2>1, <2>3, <3>1, AfterEffect, ZenonT(60)
    <3>3. Past(t)
      BY <1>16, <2>1, <2>3
    <3>4. Past(t)'
      BY <3>2, <3>3 DEF Past
    <3>5. \A d \in Cgroups : Need(d)' = Need(d)
      BY <1>1, <2>1, <3>2, <3>3, <3>4, NeedFrame
    <3>. QED  BY <1>1, <2>1, <2>2, <3>1, <3>2, <3>3, <3>5, LedgerSame
  <2>4. CASE c = t
    <3>. DEFINE X == job[t].done
    <3>1. /\ job'[t] = NoJob /\ \A u \in Cgroups \ {t} : job'[u] = job[u]
          /\ lost' = lost + Cardinality(X)
          /\ \A d \in Cgroups \ X : role'[d] = role[d]
      BY <1>19, <2>4, ResetFailsEffect
    <3>2. ~Past(t) /\ ~Past(t)' /\ X \in SUBSET Cgroups
      BY <2>4, <3>1, TypesFacts DEF Past, NoJob
    <3>3. \A d \in Cgroups : Need(d)' = Need(d)
      BY <1>1, <2>1, <3>1, <3>2, NeedFrame
    <3>4. \A d \in Promised \ X : role'[d] = role[d] /\ cg'[d] = cg[d]
      BY <2>1, <2>2, <3>1
    <3>. HIDE DEF X
    <3>. QED  BY <1>1, <2>2, <3>1, <3>2, <3>3, <3>4, LedgerFrame
  <2>. QED  BY <2>3, <2>4
<1>20. ~\E o \in NodeOptions : NewResourceManager(o)
  BY DEF NewResourceManager
<1>. QED
  BY <1>2, <1>3, <1>4, <1>5, <1>6, <1>7, <1>8, <1>9, <1>10, <1>11, <1>12, <1>13, <1>14, <1>15, <1>17, <1>18,
     <1>19, <1>20, ZenonT(40) DEF NodeNext

LEMMA DivBounds ==
  ASSUME NEW m \in Nat, NEW b \in Nat, b > 1
  PROVE  /\ m \div b \in Nat /\ m <= b * (m \div b) + (b - 1)
         /\ m > b => m \div b >= 1
<1>1. m \div b \in Int /\ m = b * (m \div b) + (m % b) /\ m % b \in 0..(b - 1)
  OBVIOUS
<1>2. m \div b >= 0
  <2>. DEFINE q == m \div b
  <2>1. ASSUME q <= -1 PROVE FALSE
    <3>. HIDE DEF q
    <3>1. q \in Int /\ m = b * q + (m % b)
      BY <1>1 DEF q
    <3>2. b * q <= -b
      BY <2>1, <3>1
    <3>. QED  BY <1>1, <3>1, <3>2
  <2>. QED  BY <1>1, <2>1
<1>3. m > b => m \div b >= 1
  <2>1. ASSUME m > b, m \div b = 0 PROVE FALSE
    BY <1>1, <2>1
  <2>. QED  BY <1>1, <1>2, <2>1
<1>. QED  BY <1>1, <1>2, <1>3

LEMMA TimesLeq ==
  ASSUME NEW b \in Nat, NEW x \in Int, NEW y \in Int, x <= y
  PROVE  b * x \in Int /\ b * y \in Int /\ b * x <= b * y
<1>1. b * (y - x) >= 0 /\ b * (y - x) = b * y - b * x
  OBVIOUS
<1>. QED  BY <1>1

\* What a container may have: its own base size, one for each container that its target's
\* size needs, and the rest that the division leaves.
LEMMA LimitFits ==
  ASSUME ResourceTypes, node.booted, JobsKept, LimitsKept, NEW c \in Cgroups
  PROVE  LET e == IF role[c].is = "busy" /\ cg[c].mem > Base THEN scaleCount(role[c].mem) ELSE 0
             b == IF cg[c].mem > Base THEN Base - 1 ELSE 0
         IN /\ e \in Nat
            /\ cg[c].frozen => e = 0
            /\ ~cg[c].frozen => cg[c].mem <= Base * (1 + e) + b
<1>. DEFINE e == IF role[c].is = "busy" /\ cg[c].mem > Base THEN scaleCount(role[c].mem) ELSE 0
            b == IF cg[c].mem > Base THEN Base - 1 ELSE 0
<1>1. /\ Base \in Nat /\ Base > 1 /\ cg[c].mem \in Nat /\ role[c].mem \in Nat /\ LimitKept(c) /\ JobKept(c)
  BY TypesFacts DEF ResourceTypes, NodeTypes, LimitsKept, JobsKept, Base
<1>2. cg[c].frozen => role[c].is # "busy"
  BY DEF JobsKept, Retrievable
<1>3. CASE cg[c].mem <= Base
  <2>1. e = 0 /\ b = 0
    BY <1>1, <1>3
  <2>. QED  BY <1>1, <1>3, <2>1
<1>4. CASE cg[c].mem > Base /\ role[c].is # "busy"
  <2>1. e = 0 /\ b = Base - 1 /\ cg[c].mem <= Base + 1
    BY <1>1, <1>4 DEF LimitKept
  <2>. QED  BY <1>1, <2>1
<1>5. CASE cg[c].mem > Base /\ role[c].is = "busy"
  <2>1. cg[c].mem = role[c].mem
    BY <1>1, <1>5 DEF LimitKept
  <2>. DEFINE d == cg[c].mem \div Base
  <2>2. d \in Nat /\ cg[c].mem <= Base * d + (Base - 1) /\ d >= 1
    BY <1>1, <1>5, DivBounds
  <2>3. e = d - 1 /\ b = Base - 1
    BY <1>5, <2>1 DEF scaleCount, Base
  <2>. HIDE DEF d, e, b
  <2>4. e \in Nat /\ Base * (1 + e) = Base * d
    BY <1>1, <2>2, <2>3
  <2>5. cg[c].mem <= Base * (1 + e) + b
    BY <1>1, <2>2, <2>3, <2>4
  <2>. QED  BY <1>2, <1>5, <2>4, <2>5 DEF e, b
<1>. QED  BY <1>1, <1>3, <1>4, <1>5

\* Together with what its scale-up has yet to freeze this is no more than it needs.
LEMMA NeedCovers ==
  ASSUME ResourceTypes, node.booted, JobsKept, LimitsKept, NEW c \in Cgroups
  PROVE  LET e == IF role[c].is = "busy" /\ cg[c].mem > Base THEN scaleCount(role[c].mem) ELSE 0
             p == IF job[c].pc \in Merges THEN scaleCount(role[c].mem) ELSE 0
         IN /\ p \in Int /\ Cardinality(Pending(c)) <= p
            /\ p + e <= Need(c)
<1>. DEFINE k == scaleCount(role[c].mem)
            e == IF role[c].is = "busy" /\ cg[c].mem > Base THEN k ELSE 0
            p == IF job[c].pc \in Merges THEN k ELSE 0
<1>1. /\ Base \in Nat /\ Base > 1 /\ role[c].mem \in Nat /\ LimitKept(c) /\ JobKept(c)
  BY TypesFacts DEF ResourceTypes, NodeTypes, LimitsKept, JobsKept, Base
<1>2. role[c].is = "busy" => k \in Nat
  <2>1. role[c].is = "busy" => role[c].mem > Base
    BY <1>1 DEF JobKept
  <2>2. role[c].is = "busy" => role[c].mem \div Base \in Nat /\ role[c].mem \div Base >= 1
    BY <1>1, <2>1, DivBounds
  <2>. QED  BY <2>2 DEF scaleCount, Base
<1>3. Pending(c) \subseteq job[c].done /\ (job[c].pc \notin Merges => Pending(c) = {})
      /\ IsFiniteSet(job[c].done) /\ Cardinality(job[c].done) \in Nat
  BY PendingOwned, TypesFacts, SetsSmall
<1>4. Cardinality(Pending(c)) <= Cardinality(job[c].done) /\ Cardinality({}) = 0
  BY <1>3, FS_Subset, FS_EmptySet
<1>5. job[c].pc \in Merges => MergeJob(c)
  BY <1>1 DEF JobKept
<1>6. CASE job[c].pc \in Merges
  <2>1. role[c].is = "busy" /\ Cardinality(job[c].done) = k /\ ~(cg[c].mem > Base) /\ ~Past(c)
    BY <1>1, <1>5, <1>6 DEF MergeJob, LimitKept, Merges, Past
  <2>2. p = k /\ e = 0 /\ Need(c) = k
    BY <1>6, <2>1 DEF Need
  <2>. HIDE DEF k, p, e
  <2>3. p \in Int /\ Cardinality(Pending(c)) <= p /\ p + e <= Need(c)
    BY <1>2, <1>4, <2>1, <2>2
  <2>. QED  BY <2>3 DEF k, p, e
<1>7. CASE job[c].pc \notin Merges
  <2>1. p = 0 /\ Cardinality(Pending(c)) = 0
    BY <1>3, <1>4, <1>7
  <2>2. e <= Need(c) /\ Need(c) \in Nat /\ e \in Nat
    BY <1>1, <1>2 DEF Need, LimitKept
  <2>. HIDE DEF p, e
  <2>3. p \in Int /\ Cardinality(Pending(c)) <= p /\ p + e <= Need(c)
    BY <2>1, <2>2
  <2>. QED  BY <2>3 DEF p, e
<1>. QED  BY <1>6, <1>7

LEMMA MemoryKept ==
  ASSUME ResourceInv
  PROVE  NodeNotOvercommitted
<1>. SUFFICES ASSUME node.booted
              PROVE  NodeNotOvercommitted
  BY DEF NodeNotOvercommitted
<1>. USE DEF ResourceInv
<1>. DEFINE w == [c \in Cgroups |-> IF cg[c].frozen THEN 0 ELSE cg[c].mem]
            e == [c \in Cgroups |-> IF role[c].is = "busy" /\ cg[c].mem > Base THEN scaleCount(role[c].mem) ELSE 0]
            p == [c \in Cgroups |-> IF job[c].pc \in Merges THEN scaleCount(role[c].mem) ELSE 0]
            Run == {c \in Cgroups : ~cg[c].frozen}
            Ice == {c \in Cgroups : cg[c].frozen}
            Big == {c \in Cgroups : cg[c].mem > Base}
            r == [c \in Cgroups |-> IF c \in Run THEN 1 ELSE 0]
            g == [c \in Cgroups |-> IF c \in Big THEN 1 ELSE 0]
            n == [c \in Cgroups |-> Need(c)]
            z == [c \in Cgroups |-> 0]
            a == [c \in Cgroups |-> 1 * r[c] + e[c]]
            b == [c \in Cgroups |-> (Base - 1) * g[c] + z[c]]
            s == [c \in Cgroups |-> Base * a[c] + b[c]]
            pe == [c \in Cgroups |-> 1 * p[c] + e[c]]
            P == [c \in Cgroups |-> Pending(c)]
<1>1. IsFiniteSet(Cgroups) /\ Base \in Nat /\ Base > 1 /\ lost \in Nat /\ node.memory \in Int
      /\ Base * Cardinality(Cgroups) <= node.memory
  BY CgroupsAssumption DEF ResourceTypes, NodeTypes, Base
<1>2. \A c \in Cgroups : /\ e[c] \in Nat /\ (cg[c].frozen => e[c] = 0)
                         /\ ~cg[c].frozen =>
                              cg[c].mem <= Base * (1 + e[c]) + (IF cg[c].mem > Base THEN Base - 1 ELSE 0)
  BY LimitFits
<1>3. \A c \in Cgroups : p[c] \in Int /\ Cardinality(Pending(c)) <= p[c] /\ p[c] + e[c] <= Need(c)
  BY NeedCovers
<1>4. /\ w \in [Cgroups -> Int] /\ e \in [Cgroups -> Int] /\ p \in [Cgroups -> Int] /\ n \in [Cgroups -> Int]
      /\ r \in [Cgroups -> Int] /\ g \in [Cgroups -> Int] /\ z \in [Cgroups -> Int]
  <2>1. w \in [Cgroups -> Int]
    BY TypesFacts
  <2>2. e \in [Cgroups -> Int] /\ p \in [Cgroups -> Int]
    <3>1. \A c \in Cgroups : e[c] \in Int /\ p[c] \in Int
      BY <1>2, <1>3
    <3>. QED  BY <3>1
  <2>3. n \in [Cgroups -> Int]
    BY NeedTypes
  <2>. QED  BY <2>1, <2>2, <2>3
<1>5. /\ a \in [Cgroups -> Int] /\ pe \in [Cgroups -> Int]
      /\ \A c \in Cgroups : a[c] = r[c] + e[c] /\ pe[c] = p[c] + e[c]
  <2>. HIDE DEF e, p, r
  <2>. QED  BY <1>4
<1>6. \A c \in Cgroups : b[c] = IF cg[c].mem > Base THEN Base - 1 ELSE 0
  BY <1>1
<1>7. b \in [Cgroups -> Int]
  BY <1>1, <1>6
<1>8. \A c \in Cgroups : s[c] = Base * a[c] + b[c] /\ s[c] \in Int
  <2>. HIDE DEF a, b
  <2>1. \A c \in Cgroups : Base * a[c] \in Int
    BY <1>1, <1>5
  <2>. QED  BY <1>7, <2>1
<1>9. \A c \in Cgroups : w[c] <= s[c]
  <2>. SUFFICES ASSUME NEW c \in Cgroups
                PROVE  w[c] <= s[c]
    OBVIOUS
  <2>1. b[c] >= 0 /\ b[c] \in Int
    BY <1>1, <1>6
  <2>2. CASE cg[c].frozen
    <3>1. w[c] = 0 /\ r[c] = 0 /\ e[c] = 0
      BY <1>2, <2>2
    <3>2. a[c] = 0
      BY <1>5, <3>1
    <3>3. s[c] = b[c]
      <4>. HIDE DEF a, b, s
      <4>. QED  BY <1>1, <1>8, <2>1, <3>2
    <3>. HIDE DEF w, s, b
    <3>. QED  BY <2>1, <3>1, <3>3
  <2>3. CASE ~cg[c].frozen
    <3>1. w[c] = cg[c].mem /\ r[c] = 1
      BY <2>3
    <3>2. a[c] = 1 + e[c]
      BY <1>5, <3>1
    <3>3. cg[c].mem <= Base * (1 + e[c]) + b[c]
      BY <1>2, <1>6, <2>3
    <3>. HIDE DEF w, s, b, e, a
    <3>. QED  BY <1>8, <3>1, <3>2, <3>3
  <2>. QED  BY <2>2, <2>3
<1>10. SumFunction(w) <= SumFunction(s)
  <2>1. s \in [Cgroups -> Int]
    <3>. HIDE DEF a, b
    <3>. QED  BY <1>8
  <2>. HIDE DEF w, s
  <2>. QED  BY <1>1, <1>4, <1>9, <2>1, TotalLeq
<1>11. SumFunction(s) = Base * SumFunction(a) + SumFunction(b)
  <2>. HIDE DEF a, b
  <2>. QED  BY <1>1, <1>5, <1>7, TotalLinear
<1>12. SumFunction(z) = 0
  <2>1. z = [c \in Cgroups |-> IF c \in {} THEN 1 ELSE 0]
    OBVIOUS
  <2>2. SumFunction([c \in Cgroups |-> IF c \in {} THEN 1 ELSE 0]) = Cardinality({})
    BY <1>1, TotalCount
  <2>. HIDE DEF z
  <2>. QED  BY <2>1, <2>2, FS_EmptySet
<1>13. SumFunction(g) = Cardinality(Big) /\ SumFunction(r) = Cardinality(Run)
  <2>1. Big \in SUBSET Cgroups /\ Run \in SUBSET Cgroups
    OBVIOUS
  <2>. HIDE DEF Big, Run
  <2>. QED  BY <1>1, <2>1, TotalCount
<1>14. SumFunction(b) = (Base - 1) * Cardinality(Big)
  <2>1. SumFunction(b) = (Base - 1) * SumFunction(g) + SumFunction(z)
    <3>1. Base - 1 \in Int
      BY <1>1
    <3>. HIDE DEF g, z
    <3>. QED  BY <1>1, <1>4, <3>1, TotalLinear
  <2>2. (Base - 1) * Cardinality(Big) \in Int
    <3>1. Cardinality(Big) \in Nat
      BY SetsSmall
    <3>. HIDE DEF Big
    <3>. QED  BY <1>1, <3>1
  <2>. HIDE DEF b, g, z, Big
  <2>. QED  BY <1>12, <1>13, <2>1, <2>2
<1>15. SumFunction(a) = Cardinality(Run) + SumFunction(e)
  <2>1. SumFunction(a) = 1 * SumFunction(r) + SumFunction(e)
    <3>. HIDE DEF r, e
    <3>. QED  BY <1>1, <1>4, TotalLinear
  <2>2. SumFunction(r) \in Int /\ SumFunction(e) \in Int
    <3>. HIDE DEF r, e
    <3>. QED  BY <1>1, <1>4, TotalType
  <2>. HIDE DEF a, r, e, Run
  <2>. QED  BY <1>13, <2>1, <2>2
<1>16. SumFunction(p) + SumFunction(e) <= SumFunction(n)
  <2>1. SumFunction(pe) = 1 * SumFunction(p) + SumFunction(e)
    <3>. HIDE DEF p, e
    <3>. QED  BY <1>1, <1>4, TotalLinear
  <2>2. \A c \in Cgroups : pe[c] <= n[c]
    <3>. HIDE DEF p, e
    <3>. QED  BY <1>3, <1>5
  <2>3. SumFunction(pe) <= SumFunction(n)
    <3>. HIDE DEF pe, n
    <3>. QED  BY <1>1, <1>4, <1>5, <2>2, TotalLeq
  <2>4. SumFunction(p) \in Int /\ SumFunction(e) \in Int
    <3>. HIDE DEF p, e
    <3>. QED  BY <1>1, <1>4, TotalType
  <2>. HIDE DEF p, e, n, pe
  <2>. QED  BY <2>1, <2>3, <2>4
<1>17. SumFunction(n) <= Cardinality(Promised) + lost
  BY DEF Ledger
<1>18. Cardinality(Promised) <= Cardinality(Ice) + SumFunction(p)
  <2>. DEFINE U == UNION {P[c] : c \in Cgroups}
  <2>1. P \in [Cgroups -> SUBSET Cgroups] /\ U \in SUBSET Cgroups
    BY PendingOwned
  <2>2. \A c \in Cgroups : Cardinality(P[c]) <= p[c]
    <3>. HIDE DEF p
    <3>. QED  BY <1>3
  <2>3. Cardinality(U) <= SumFunction(p)
    <3>. HIDE DEF P, p
    <3>. QED  BY <1>1, <1>4, <2>1, <2>2, TotalCovers
  <2>4. Promised \subseteq Ice \cup U
    BY DEF Promised
  <2>5. SumFunction(p) \in Int
    <3>. HIDE DEF p
    <3>. QED  BY <1>1, <1>4, TotalType
  <2>6. Ice \in SUBSET Cgroups /\ Promised \in SUBSET Cgroups
    BY DEF Promised
  <2>. HIDE DEF U, Ice, p, P
  <2>7. /\ IsFiniteSet(U) /\ IsFiniteSet(Ice) /\ IsFiniteSet(Promised)
        /\ Cardinality(U) \in Nat /\ Cardinality(Ice) \in Nat /\ Cardinality(Promised) \in Nat
    BY <2>1, <2>6, SetsSmall
  <2>8. /\ IsFiniteSet(Ice \cup U)
        /\ Cardinality(Ice \cup U) = Cardinality(Ice) + Cardinality(U) - Cardinality(Ice \cap U)
    BY <2>7, FS_Union
  <2>9. Cardinality(Ice \cap U) \in Nat /\ Cardinality(Ice \cup U) \in Nat
    BY <2>7, <2>8, FS_Intersection, FS_CardinalityType
  <2>10. Cardinality(Promised) <= Cardinality(Ice \cup U)
    BY <2>4, <2>8, FS_Subset
  <2>. QED  BY <2>3, <2>5, <2>7, <2>8, <2>9, <2>10
<1>19. Cardinality(Run) + Cardinality(Ice) = Cardinality(Cgroups)
  <2>1. Run = Cgroups \ Ice /\ Cgroups \cap Ice = Ice
    OBVIOUS
  <2>2. IsFiniteSet(Ice) /\ Cardinality(Ice) \in Nat /\ Cardinality(Cgroups) \in Nat
    <3>1. Ice \in SUBSET Cgroups /\ Cgroups \in SUBSET Cgroups
      OBVIOUS
    <3>. HIDE DEF Ice
    <3>. QED  BY <3>1, SetsSmall
  <2>. HIDE DEF Run, Ice
  <2>3. Cardinality(Cgroups \ Ice) = Cardinality(Cgroups) - Cardinality(Cgroups \cap Ice)
    BY <1>1, <2>2, FS_Difference
  <2>. QED  BY <2>1, <2>2, <2>3
<1>20. SumFunction(a) <= Cardinality(Cgroups) + lost
  <2>1. SumFunction(p) \in Int /\ SumFunction(e) \in Int /\ SumFunction(n) \in Int
    <3>. HIDE DEF p, e, n
    <3>. QED  BY <1>1, <1>4, TotalType
  <2>2. /\ Cardinality(Run) \in Nat /\ Cardinality(Ice) \in Nat /\ Cardinality(Cgroups) \in Nat
        /\ Cardinality(Promised) \in Nat
    <3>1. Run \in SUBSET Cgroups /\ Ice \in SUBSET Cgroups /\ Cgroups \in SUBSET Cgroups /\ Promised \in SUBSET Cgroups
      BY DEF Promised
    <3>. HIDE DEF Run, Ice
    <3>. QED  BY <3>1, SetsSmall
  <2>. HIDE DEF Run, Ice, p, e, n, a
  <2>. QED  BY <1>1, <1>15, <1>16, <1>17, <1>18, <1>19, <2>1, <2>2
<1>21. SumFunction(w) <= node.memory + Cardinality(Big) * (Base - 1) + lost * Base
  <2>1. SumFunction(w) \in Int /\ SumFunction(s) \in Int /\ SumFunction(a) \in Int /\ SumFunction(b) \in Int
    <3>1. s \in [Cgroups -> Int]
      <4>. HIDE DEF a, b
      <4>. QED  BY <1>8
    <3>. HIDE DEF w, s, a, b
    <3>. QED  BY <1>1, <1>4, <1>5, <1>7, <3>1, TotalType
  <2>2. Cardinality(Big) \in Nat /\ Cardinality(Cgroups) \in Nat
    BY SetsSmall
  <2>. HIDE DEF w, s, a, b, Big
  <2>3. Base * SumFunction(a) <= Base * (Cardinality(Cgroups) + lost) /\ Base * SumFunction(a) \in Int
    BY <1>1, <1>20, <2>1, <2>2, TimesLeq
  <2>4. Base * (Cardinality(Cgroups) + lost) = Base * Cardinality(Cgroups) + lost * Base
        /\ (Base - 1) * Cardinality(Big) = Cardinality(Big) * (Base - 1)
        /\ Base * Cardinality(Cgroups) \in Int /\ lost * Base \in Int /\ Cardinality(Big) * (Base - 1) \in Int
    BY <1>1, <2>2
  <2>. QED  BY <1>1, <1>10, <1>11, <1>14, <2>1, <2>3, <2>4
<1>. QED  BY <1>21 DEF NodeNotOvercommitted, Base

\* scaleUp and ResetContainers keep a node within the memory and the cpu that
\* HasSufficientResources has found: ResourcesSafe of the run node_parts, for any number of
\* containers and failures, any options, sizes and usages.
THEOREM ResourcesAlways == NodeInit /\ [][NodeNext]_nodeVars => []ResourcesSafe
<1>1. NodeInit => ResourceInv
  <2>. SUFFICES ASSUME NodeInit
                PROVE  ResourceInv
    OBVIOUS
  <2>1. ~node.booted /\ node.booted \in BOOLEAN
    BY DEF NodeInit
  <2>2. \A c \in Cgroups : cg[c] = NoCgroup /\ job[c] = NoJob /\ role[c] = [is |-> "idle", mem |-> 0]
    BY DEF NodeInit
  <2>3. ResourceTypes
    <3>1. NoCgroup \in CgTypes /\ NoJob \in JobTypes /\ [is |-> "idle", mem |-> 0] \in RoleTypes
      BY DEF NoCgroup, NoJob, CgTypes, JobTypes, RoleTypes, NodePcs, Roles
    <3>2. cg \in [Cgroups -> CgTypes] /\ job \in [Cgroups -> JobTypes] /\ role \in [Cgroups -> RoleTypes]
      BY <3>1 DEF NodeInit
    <3>3. refused \in SUBSET Cgroups /\ lost \in Nat /\ writeFaults \in Nat
      BY DEF NodeInit
    <3>4. NodeTypes
      BY <2>1, <2>2 DEF NodeTypes
    <3>. QED  BY <3>2, <3>3, <3>4 DEF ResourceTypes, CgTypes, JobTypes, RoleTypes
  <2>4. JobsKept
    BY <2>2 DEF JobsKept, JobKept, NoJob, NoCgroup, Merges
  <2>5. StatsFresh
    BY <2>2 DEF NodeInit, StatsFresh, StatsOf, NoJob
  <2>. QED  BY <2>1, <2>3, <2>4, <2>5 DEF ResourceInv, LimitsKept, QuotasKept, Ledger
<1>2. ResourceInv /\ [NodeNext]_nodeVars => ResourceInv'
  <2>. SUFFICES ASSUME ResourceInv, [NodeNext]_nodeVars
                PROVE  ResourceInv'
    OBVIOUS
  <2>. USE DEF ResourceInv
  <2>1. CASE UNCHANGED nodeVars
    <3>1. /\ node' = node /\ cg' = cg /\ role' = role /\ job' = job /\ refused' = refused /\ lost' = lost
          /\ writeFaults' = writeFaults
      BY <2>1 DEF nodeVars
    <3>2. ResourceTypes'
      BY <3>1 DEF ResourceTypes, NodeTypes
    <3>3. JobsKept'
      BY <3>1 DEF JobsKept, JobKept, MergeJob, ResetJob, Retrievable, scaleCount, Base
    <3>4. LimitsKept'
      BY <3>1 DEF LimitsKept, LimitKept, MergeLimits, Past, Base
    <3>5. StatsFresh'
      BY <3>1 DEF StatsFresh, StatsOf
    <3>6. QuotasKept'
      BY <3>1 DEF QuotasKept, MaxMilli, QuotaToMilliCPU
    <3>7. Ledger'
      BY <3>1 DEF Ledger, Promised, Charged, Pending, Past, Need, scaleCount
    <3>. QED  BY <3>2, <3>3, <3>4, <3>5, <3>6, <3>7
  <2>2. CASE NodeNext /\ node.booted
    <3>1. ResourceTypes'
      BY <2>2, TypesStep
    <3>. QED  BY <2>2, <3>1, JobsStep, LimitsStep, StatsStep, QuotasStep, LedgerStep
  <2>3. CASE NodeNext /\ ~node.booted
    <3>1. PICK o \in NodeOptions : NewResourceManager(o)
      BY <2>3, OnlyStarts DEF ResourceTypes
    <3>2. /\ ResourceTypes' /\ QuotasKept'
          /\ \A c \in Cgroups : cg'[c].mem = node'.default.mem /\ cg'[c].usage = 0 /\ ~cg'[c].frozen
          /\ \A c \in Cgroups : job'[c] = NoJob /\ role'[c].is = "idle"
      BY <3>1, BootStep
    <3>3. refused' = refused /\ lost' = lost /\ node'.booted /\ role' = role
      BY <3>1 DEF NewResourceManager
    <3>4. JobsKept'
      BY <3>2 DEF JobsKept, JobKept, NoJob, Merges
    <3>5. node'.default.mem \in Nat
      BY <3>2, <3>3 DEF ResourceTypes, NodeTypes
    <3>6. LimitsKept'
      <4>1. \A c \in Cgroups : LimitKept(c)'
        BY <3>2, <3>5 DEF LimitKept, Base
      <4>2. \A c \in Cgroups : MergeLimits(c)'
        BY <3>2 DEF MergeLimits, NoJob, Merges
      <4>. QED  BY <4>1, <4>2 DEF LimitsKept
    <3>7. StatsFresh'
      <4>1. \A c \in Cgroups : StatsOf(c)'
        BY <3>2 DEF StatsOf, NoJob
      <4>. QED  BY <3>3, <4>1 DEF StatsFresh
    <3>8. Ledger'
      <4>. DEFINE v == [c \in Cgroups |-> IF c \in {} THEN 1 ELSE 0]
      <4>1. \A c \in Cgroups : Need(c)' = 0
        BY <3>2 DEF Need
      <4>2. [c \in Cgroups |-> Need(c)]' = v
        BY <4>1
      <4>3. SumFunction(v) = 0
        BY CgroupsAssumption, TotalCount, FS_EmptySet
      <4>4. Cardinality(Promised') \in Nat /\ lost' \in Nat
        <5>1. Promised' \in SUBSET Cgroups
          BY DEF Promised
        <5>. QED  BY <3>2, <5>1, SetsSmall DEF ResourceTypes
      <4>. HIDE DEF v
      <4>5. 0 <= Cardinality(Promised') + lost'
        BY <4>4
      <4>. QED  BY <4>2, <4>3, <4>5 DEF Ledger
    <3>. QED  BY <3>2, <3>4, <3>6, <3>7, <3>8
  <2>. QED  BY <2>1, <2>2, <2>3
<1>3. ResourceInv => ResourcesSafe
  <2>. SUFFICES ASSUME ResourceInv
                PROVE  ResourcesSafe
    OBVIOUS
  <2>1. MergedNeverRefused
    BY DEF ResourceInv, StatsFresh, MergedNeverRefused
  <2>2. CpuWithinNode
    BY DEF ResourceInv, QuotasKept, CpuWithinNode, MaxMilli
  <2>. QED  BY <2>1, <2>2, MemoryKept DEF ResourcesSafe
<1>. QED  BY <1>1, <1>2, <1>3, PTL
=============================================================================
