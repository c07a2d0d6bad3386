----------------------------- MODULE MCCodeCache -----------------------------
(***************************************************************************)
(* Small instances of CodeCache.                                           *)
(***************************************************************************)
EXTENDS CodeCache, TLC

CONSTANTS a, w1, w2, w3

\* All warm-ups ask for the same code.
SameCode == [w \in Warmups |-> a]
=============================================================================
