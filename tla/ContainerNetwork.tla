--------------------------- MODULE ContainerNetwork ---------------------------
(***************************************************************************)
(* Addresses of the containers (funclet/network): getNewVeth and           *)
(* deleteVeth under vethLock, allocateIP, Veth.Init and                    *)
(* Veth.BindContainer, as ResetContainer and InitContainer call them. A    *)
(* container's events are serialised by its event lock; the process may    *)
(* exit at any time. Host parts of addresses are 0..Hosts + 1: the network *)
(* address, the bridge (1), the others and the broadcast address. The      *)
(* system gives every process a new pid. Not modelled: the name space of   *)
(* the OS thread, which BindContainer does not restore when it fails.      *)
(***************************************************************************)
EXTENDS Integers, Sequences, FiniteSets, SequencesExt

CONSTANTS
    NetContainers,
    Hosts,          \* unicast addresses of the bridge's network, the bridge's included
    MaxPids,        \* bound on processes started
    MaxNetFaults    \* bound on failing calls

ASSUME NetworkAssumption == Hosts \in Nat /\ Hosts > 1 /\ MaxPids \in Nat /\ MaxNetFaults \in Nat

BridgeIP == 1
Broadcast == Hosts + 1

VARIABLES
    veths,          \* the Veth objects ever made: their IP and ContainerPID
    veth, vethPool, \* the lists, of indices of veths
    lastIP,
    box,            \* the containers: pc, process, the Veth they work with, the pid file
    nextPid,
    netFaults

netVars == <<veths, veth, vethPool, lastIP, box, nextPid, netFaults>>

NewBox == [pc |-> "none", pid |-> 0, alive |-> FALSE, veth |-> 0, bound |-> FALSE, file |-> 0]

\* InitNetwork: the bridge has its address, and addresses are given out after it.
NetInit ==
    /\ veths = << >> /\ veth = << >> /\ vethPool = << >>
    /\ lastIP = BridgeIP
    /\ box = [c \in NetContainers |-> NewBox]
    /\ nextPid = 1
    /\ netFaults = 0

NetFail == netFaults < MaxNetFaults /\ netFaults' = netFaults + 1
BoxAt(c, pc) == box[c].pc = pc

\* Addresses that answer the ping: of live containers that were bound. The neighbour
\* list does not help: its keys also hold the hardware address.
Answering == {veths[box[c].veth].IP : c \in {d \in NetContainers : box[d].alive /\ box[d].bound}}

\* isUnicastIP, and the test for the bridge's own address.
isUnicastIP(ip) == ip # Broadcast /\ ip # BridgeIP

\* increaseIP as allocateIP uses it: beyond the broadcast address it goes on after the
\* network address.
IncreaseIP(ip) == IF ip = Broadcast THEN 1 ELSE ip + 1

\* allocateIP: the first free address after lastIP, going round once; 0 for an error.
allocateIP ==
    LET search[i \in 1..(Hosts + 1)] == IF i = 1 THEN IncreaseIP(lastIP) ELSE IncreaseIP(search[i - 1])
        free == {i \in 1..(Hosts + 1) : isUnicastIP(search[i]) /\ search[i] \notin Answering}
    IN  IF free = {} THEN 0 ELSE search[CHOOSE i \in free : \A j \in free : i <= j]

-----------------------------------------------------------------------------
(* InitContainer *)

\* The container's process is started; runc writes its pid to the pid file.
StartBox(c) ==
    /\ BoxAt(c, "none") /\ nextPid <= MaxPids
    /\ box' = [box EXCEPT ![c] = [pc |-> "veth", pid |-> nextPid, alive |-> TRUE, veth |-> 0,
                                  bound |-> FALSE, file |-> nextPid]]
    /\ nextPid' = nextPid + 1
    /\ UNCHANGED <<veths, veth, vethPool, lastIP, netFaults>>

\* SetContainerNet: getNewVeth takes the first of the pool, ...
takePooledVeth(c) ==
    /\ BoxAt(c, "veth") /\ vethPool # << >>
    /\ veth' = Append(veth, Head(vethPool))
    /\ vethPool' = Tail(vethPool)
    /\ box' = [box EXCEPT ![c].pc = "init", ![c].veth = Head(vethPool)]
    /\ UNCHANGED <<veths, lastIP, nextPid, netFaults>>

\* ... or a new address, ...
getNewVeth(c) ==
    /\ BoxAt(c, "veth") /\ vethPool = << >> /\ allocateIP # 0
    /\ veths' = Append(veths, [IP |-> allocateIP, ContainerPID |-> 0])
    /\ veth' = Append(veth, Len(veths) + 1)
    /\ lastIP' = allocateIP
    /\ box' = [box EXCEPT ![c].pc = "init", ![c].veth = Len(veths) + 1]
    /\ UNCHANGED <<vethPool, nextPid, netFaults>>

\* ... unless there is none, or the neighbours cannot be listed.
getNewVethFails(c) ==
    /\ BoxAt(c, "veth") /\ vethPool = << >>
    /\ IF allocateIP = 0 THEN UNCHANGED netFaults ELSE NetFail
    /\ box' = [box EXCEPT ![c].pc = "idle"]
    /\ UNCHANGED <<veths, veth, vethPool, lastIP, nextPid>>

\* Veth.Init: without the bridge the object keeps its ContainerPID, otherwise it gets
\* the pid, whether or not the pair can be made.
VethInit(c) ==
    /\ BoxAt(c, "init")
    /\ \/ /\ veths' = [veths EXCEPT ![box[c].veth].ContainerPID = box[c].pid]
          /\ \/ box' = [box EXCEPT ![c].pc = "bind"] /\ UNCHANGED netFaults
             \/ box' = [box EXCEPT ![c].pc = "idle"] /\ NetFail
       \/ box' = [box EXCEPT ![c].pc = "idle"] /\ NetFail /\ UNCHANGED veths
    /\ UNCHANGED <<veth, vethPool, lastIP, nextPid>>

\* BindContainer moves the peer to the container's name space and gives it the address;
\* it fails when the process is gone.
BindContainer(c) ==
    /\ BoxAt(c, "bind")
    /\ \/ box[c].alive /\ box' = [box EXCEPT ![c].pc = "idle", ![c].bound = TRUE] /\ UNCHANGED netFaults
       \/ ~box[c].alive /\ box' = [box EXCEPT ![c].pc = "idle"] /\ UNCHANGED netFaults
       \/ box[c].alive /\ box' = [box EXCEPT ![c].pc = "idle"] /\ NetFail
    /\ UNCHANGED <<veths, veth, vethPool, lastIP, nextPid>>

-----------------------------------------------------------------------------
(* ResetContainer *)

\* The process is killed and its container deleted.
StopBox(c) ==
    /\ BoxAt(c, "idle")
    /\ box' = [box EXCEPT ![c].pc = "unset", ![c].alive = FALSE]
    /\ UNCHANGED <<veths, veth, vethPool, lastIP, nextPid, netFaults>>

\* Mutant: the first veth of the list, whoever has it.
VethOfAny(pid) == IF veth = << >> THEN 0 ELSE 1

\* The first veth of the list with the pid, 0 for none.
VethOf(pid) ==
    LET at == {k \in DOMAIN veth : veths[veth[k]].ContainerPID = pid}
    IN  IF at = {} THEN 0 ELSE CHOOSE k \in at : \A j \in at : k <= j

\* deleteVeth: the first veth with the pid goes to the pool.
deleteVeth(pid) ==
    IF VethOf(pid) = 0 THEN UNCHANGED <<veths, veth, vethPool>>
    ELSE LET v == veth[VethOf(pid)]
         IN  /\ veths' = [veths EXCEPT ![v].ContainerPID = 0]
             /\ vethPool' = Append(vethPool, v)
             /\ veth' = RemoveAt(veth, VethOf(pid))

\* UnsetContainerNet with the pid of the pid file, unless the file cannot be read.
UnsetContainerNet(c) ==
    /\ BoxAt(c, "unset")
    /\ \/ deleteVeth(box[c].file) /\ UNCHANGED netFaults
       \/ NetFail /\ UNCHANGED <<veths, veth, vethPool>>
    /\ box' = [box EXCEPT ![c] = NewBox]
    /\ UNCHANGED <<lastIP, nextPid>>

\* A process ends by itself.
ExitBox(c) ==
    /\ box[c].alive
    /\ box' = [box EXCEPT ![c].alive = FALSE]
    /\ UNCHANGED <<veths, veth, vethPool, lastIP, nextPid, netFaults>>

NetNext ==
    \E c \in NetContainers :
        \/ StartBox(c) \/ takePooledVeth(c) \/ getNewVeth(c) \/ getNewVethFails(c) \/ VethInit(c) \/ BindContainer(c)
        \/ StopBox(c) \/ UnsetContainerNet(c) \/ ExitBox(c)

-----------------------------------------------------------------------------
(* Properties *)

\* Two veths have different addresses, whether or not their containers answer, as long
\* as no more addresses were given out than there are; none is the bridge's or the
\* broadcast address, also after the search went round.
AddressesDistinct ==
    /\ \A v, w \in DOMAIN veths :
         Len(veths) < Hosts /\ veths[v].IP = veths[w].IP => v = w
    /\ \A v \in DOMAIN veths : veths[v].IP \notin {0, BridgeIP, Broadcast}

\* What the pool gives out is nobody's: not of a live container, bound or being bound,
\* and not in the pool twice.
PoolIsFree ==
    /\ \A k \in DOMAIN vethPool, c \in NetContainers : box[c].alive => box[c].veth # vethPool[k]
    /\ \A j, k \in DOMAIN vethPool : vethPool[j] = vethPool[k] => j = k

\* Veths that neither the pool nor a container's next reset will ever give out again.
LostVeths ==
    {v \in DOMAIN veths :
       /\ \A k \in DOMAIN vethPool : vethPool[k] # v
       /\ \A c \in NetContainers :
            /\ box[c].pc \in {"init", "bind"} => box[c].veth # v
            /\ box[c].file # 0 => box[c].file # veths[v].ContainerPID}

\* Every address that is lost was lost by a failing call: resets, and processes that
\* exit at a bad time, lose none.
LostByFaultsOnly == Cardinality(LostVeths) <= netFaults
=============================================================================
