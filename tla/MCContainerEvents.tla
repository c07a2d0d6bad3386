-------------------------- MODULE MCContainerEvents --------------------------
(* Instances of ContainerEvents for TLC.                                     *)
EXTENDS ContainerEvents

CONSTANTS c1, c2, c3

Event(k, c, others) == [kind |-> k, target |-> c, others |-> others]

\* What the controller sends while a merged container is only ever reset with the
\* container it was merged into, or with another one of its scaling group.
Disciplined == {Event(k, c1, S) : k \in {"warmup", "reset"}, S \in {{}, {c2}}}
Larger == Disciplined \cup {Event("reset", c1, {c2, c3})}

\* The reset of the whole node, or reborn of a retrieved container, resets c2 alone.
Undisciplined == Disciplined \cup {Event("reset", c2, {})}
=============================================================================
