----------------------------- MODULE EventMutex -----------------------------
(***************************************************************************)
(* What the event locks of funclet promise: a container is worked on by at *)
(* most one event handler at a time, and a handler that works on it keeps  *)
(* it until it gives it back itself.                                       *)
(***************************************************************************)
CONSTANTS Containers, Handlers

VARIABLE owners     \* the handlers that work on each container

Init == owners = [c \in Containers |-> {}]

Acquire(h, c) ==
    /\ owners[c] = {}
    /\ owners' = [owners EXCEPT ![c] = {h}]

\* A handler gives containers back one at a time, in any order.
Release(h, c) ==
    /\ owners[c] = {h}
    /\ owners' = [owners EXCEPT ![c] = {}]

Next == \E h \in Handlers, c \in Containers : Acquire(h, c) \/ Release(h, c)

Spec == Init /\ [][Next]_owners
=============================================================================
