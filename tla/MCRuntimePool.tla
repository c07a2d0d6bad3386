---------------------------- MODULE MCRuntimePool ----------------------------
(***************************************************************************)
(* Small instances of RuntimePool.                                         *)
(***************************************************************************)
EXTENDS RuntimePool, TLC

CONSTANTS fn1, fn2, q1, q2, q3

AllF == [q \in Requests |-> fn1]
\* q1 and q2 call fn1, q3 calls fn2.
Mixed == [q \in Requests |-> IF q = q3 THEN fn2 ELSE fn1]

UnitMemory == [x \in Functions |-> 1]
\* fn1 needs two containers, fn2 one.
BigMemory == [x \in Functions |-> IF x = fn1 THEN 2 ELSE 1]

Exclusive == [x \in Functions |-> 0]
Quotas == [x \in Functions |-> IF x = fn1 THEN 2 ELSE 0]
=============================================================================
