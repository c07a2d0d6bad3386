----------------------------- MODULE BridgeSetup -----------------------------
(***************************************************************************)
(* InitNetwork of a starting funclet: CreateBridge (bridge_linux.go), the  *)
(* NAT rule and the rule against traffic between containers                *)
(* (iptables_linux.go). The bridge and the rules belong to the host's      *)
(* kernel and outlive the funclet, which a failing step ends and which may *)
(* also be killed at any step; the next start goes over them again. Others *)
(* may insert the ACCEPT rule that disableIcc deletes.                     *)
(***************************************************************************)
EXTENDS Integers

CONSTANT MaxStarts      \* bound on starts of the funclet

ASSUME BridgeAssumption == MaxStarts \in Nat

VARIABLES
    link,       \* the bridge in the kernel
    rules,      \* the iptables rules that matter
    boot,       \* step of InitNetwork
    starts

bridgeVars == <<link, rules, boot, starts>>

BridgeInit ==
    /\ link = [exists |-> FALSE, addr |-> FALSE, up |-> FALSE]
    /\ rules = [nat |-> FALSE, accept |-> FALSE, drop |-> FALSE]
    /\ boot = "off"
    /\ starts = 0

BootTo(from, to) == boot = from /\ boot' = to

\* A bridge that exists is taken as it is.
CreateBridgeLooks ==
    /\ starts < MaxStarts
    /\ BootTo("off", IF link.exists THEN "address" ELSE "add")
    /\ starts' = starts + 1
    /\ UNCHANGED <<link, rules>>

LinkAdd ==
    /\ BootTo("add", "ip")
    /\ link' = [link EXCEPT !.exists = TRUE]
    /\ UNCHANGED <<rules, starts>>

\* AddrAdd, then getInterfaceAddr, which finds the address.
AddrAdd ==
    /\ BootTo("ip", "nat")
    /\ link' = [link EXCEPT !.addr = TRUE]
    /\ UNCHANGED <<rules, starts>>

\* SetupNATOut inserts the rule unless it is there.
SetupNATOut ==
    /\ BootTo("nat", "up")
    /\ rules' = [rules EXCEPT !.nat = TRUE]
    /\ UNCHANGED <<link, starts>>

LinkSetUp ==
    /\ BootTo("up", "address")
    /\ link' = [link EXCEPT !.up = TRUE]
    /\ UNCHANGED <<rules, starts>>

\* InitNetwork reads the address; a bridge without one is an error.
getInterfaceAddr ==
    /\ BootTo("address", IF link.addr THEN "icc" ELSE "off")
    /\ UNCHANGED <<link, rules, starts>>

\* disableIcc deletes the rule that accepts, without looking at the result, and appends
\* the rule that drops unless it is there.
disableIcc ==
    /\ BootTo("icc", "done")
    /\ rules' = [rules EXCEPT !.accept = FALSE, !.drop = TRUE]
    /\ UNCHANGED <<link, starts>>

\* A step fails, or the funclet is killed.
BootFails ==
    /\ boot # "off"
    /\ boot' = "off"
    /\ UNCHANGED <<link, rules, starts>>

\* Before the funclet starts, something on the host lets the bridge's traffic through.
AcceptInserted ==
    /\ boot = "off" /\ ~rules.accept
    /\ rules' = [rules EXCEPT !.accept = TRUE]
    /\ UNCHANGED <<link, boot, starts>>

BridgeNext ==
    \/ CreateBridgeLooks \/ LinkAdd \/ AddrAdd \/ SetupNATOut \/ LinkSetUp \/ getInterfaceAddr
    \/ disableIcc \/ BootFails \/ AcceptInserted

-----------------------------------------------------------------------------
(* Properties *)

\* A funclet that got through InitNetwork has a bridge with an address, no matter where
\* earlier starts stopped, and the network it set up itself is complete. (A bridge
\* that an earlier start left without NAT, or down, is not repaired.)
BridgeReady ==
    boot = "done" => link.exists /\ link.addr /\ (starts = 1 => rules.nat /\ link.up)

\* Once the network is up, containers cannot reach each other over the bridge, also
\* when a rule of the host let them.
ContainersIsolated == boot = "done" => rules.drop /\ ~rules.accept
=============================================================================
