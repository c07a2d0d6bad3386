----------------------------- MODULE RuntimeInfo -----------------------------
(***************************************************************************)
(* One RuntimeInfo of pkg/controller/rtctrl and the compare-and-set events *)
(* that move it through its life cycle (event.go, runtimeinfo.go).         *)
(*                                                                         *)
(* RuntimeInfo.CAS takes invokeLock, re-runs the check under it and only   *)
(* then runs the set, so an event is one atomic step: a check operator on  *)
(* the record and a set operator returning the new record.                 *)
(*                                                                         *)
(* Deadlines become ages: idle, stale and resetOld say that                *)
(* LastAccessTime, LastLivenessTime and LastResetTime lie before the       *)
(* deadline the caller computes (now - MaxRuntimeIdle, - MaxRunnerDefunct, *)
(* - MaxRunnerResetTimeout).                                               *)
(***************************************************************************)
EXTENDS Naturals

CONSTANTS
    Functions,              \* the functions; a function stands for its CommitID
    NoCommit,               \* the empty CommitID
    UintSpan,               \* number of values of a Go uint64 (2^64 in the code)
    DefaultConcurrentMode   \* --concurrent-mode of the controller

ASSUME NoCommitAssumption == NoCommit \notin Functions
ASSUME UintSpanAssumption == UintSpan \in Nat /\ UintSpan > 1
ASSUME ModeAssumption == DefaultConcurrentMode \in BOOLEAN

RuntimeStates ==
    {"cold", "warmup", "warm", "merged", "stopping", "stopped", "closed", "reclaiming"}

Uint == 0 .. (UintSpan - 1)

\* Concurrency++ and Concurrency-- on a uint64.
Increment(c) == (c + 1) % UintSpan
Decrement(c) == IF c = 0 THEN UintSpan - 1 ELSE c - 1

RuntimeInfos ==
    [state : RuntimeStates, commit : Functions \cup {NoCommit}, conc : Uint,
     cmode : BOOLEAN, abnormal : BOOLEAN, used : BOOLEAN, marked : BOOLEAN,
     mem : Nat, idle : BOOLEAN, stale : BOOLEAN, resetOld : BOOLEAN]

\* NewRuntimeInfo; mem is the Resource funclet lists for the container.
NewRuntimeInfo(isFrozen, mem) ==
    [state |-> IF isFrozen THEN "merged" ELSE "closed", commit |-> NoCommit,
     conc |-> 0, cmode |-> DefaultConcurrentMode, abnormal |-> FALSE,
     used |-> FALSE, marked |-> FALSE, mem |-> mem,
     idle |-> FALSE, stale |-> FALSE, resetOld |-> TRUE]

available(i) == ~i.abnormal

\* Mutant: a runtime whose runner has gone does not count as defunct.
IsRunnerDefunctNotClosed(i) ==
    i.stale /\ (i.abnormal \/ i.state \in {"warmup", "stopping", "stopped"})

IsRunnerDefunct(i) ==
    /\ i.stale
    /\ i.abnormal \/ i.state \in {"warmup", "stopping", "stopped", "closed"}

-----------------------------------------------------------------------------
(* The CAS events.                                                         *)

opOccupyCheck(i) == i.state = "cold" /\ available(i)

\* Mutant: SetMarked(true) forgotten.
opOccupySetUnmarked(i, f, mem) ==
    [i EXCEPT !.state = "warmup", !.idle = FALSE, !.mem = mem,
              !.conc = Increment(@), !.commit = f]

opOccupySet(i, f, mem) ==
    [i EXCEPT !.state = "warmup", !.idle = FALSE, !.mem = mem,
              !.conc = Increment(@), !.commit = f, !.marked = TRUE]

opMergedCheck(i) == i.state = "cold" /\ available(i)

opMergedSet(i, f) == [i EXCEPT !.state = "merged", !.commit = f]

opRetrieveCheck(i) ==
    /\ i.state = "merged" \/ (i.state = "reclaiming" /\ i.resetOld)
    /\ i.conc = 0

opRetrieveSet(i) ==
    [i EXCEPT !.commit = NoCommit, !.conc = 0, !.cmode = DefaultConcurrentMode,
              !.resetOld = FALSE, !.state = "reclaiming"]

opRollbackCheck(i, f) == i.commit = f /\ i.state \in {"warmup", "merged"}

opRollbackSet(i) ==
    [i EXCEPT !.conc = IF i.state = "warmup" THEN Decrement(@) ELSE @,
              !.state = "cold", !.mem = 0, !.commit = NoCommit, !.marked = FALSE]

\* Mutant: the quota may be exceeded by one.
opMarkCheckOffByOne(i, f, quota) ==
    /\ i.state \in {"warmup", "warm"} /\ available(i) /\ i.commit = f
    /\ (quota = 0 /\ i.conc = 0) \/ (i.cmode /\ i.conc <= quota)

opMarkCheck(i, f, quota) ==
    /\ i.state \in {"warmup", "warm"}
    /\ available(i)
    /\ i.commit = f
    /\ \/ (~i.cmode \/ quota = 0) /\ i.conc = 0
       \/ i.cmode /\ i.conc < quota

opMarkSet(i) == [i EXCEPT !.idle = FALSE, !.conc = Increment(@)]

\* Mutant: Concurrency not looked at.
opStopCheckBusy(i) == i.state = "warm" /\ i.idle

opStopCheck(i) == i.state = "warm" /\ i.conc = 0 /\ i.idle

opStopSet(i) ==
    [i EXCEPT !.commit = NoCommit, !.conc = 0, !.cmode = DefaultConcurrentMode,
              !.state = "stopping"]

opResetCheck(i) == IsRunnerDefunct(i)

\* Mutant: CommitID and Concurrency are kept.
opResetSetKeepsTenant(i) == [i EXCEPT !.resetOld = FALSE]

\* The state is left as it is: the runner's own disconnection moves it.
opResetSet(i) ==
    [i EXCEPT !.commit = NoCommit, !.conc = 0, !.cmode = DefaultConcurrentMode,
              !.resetOld = FALSE]

-----------------------------------------------------------------------------
(* The other methods that write the record under invokeLock.               *)

\* Release: an error, and no change, when Concurrency is already 0.
Release(i) == IF i.conc = 0 THEN i ELSE [i EXCEPT !.conc = @ - 1]

Invalidate(i) == [i EXCEPT !.abnormal = TRUE]

\* The state changes of initRunner, initRuntime, stopRuntime and stopRunner.
initRunnerSet(i) == [i EXCEPT !.state = "cold", !.abnormal = FALSE]

\* Mutant: the commit of the runtime is not compared.
initRuntimeCheckAnyCommit(i, f) == i.state \in {"cold", "warmup"}

initRuntimeCheck(i, f) == i.state \in {"cold", "warmup"} /\ i.commit \in {NoCommit, f}

initRuntimeSet(i, f, concurrent) ==
    [i EXCEPT !.commit = IF @ = NoCommit THEN f ELSE @, !.cmode = @ /\ concurrent,
              !.state = "warm", !.used = TRUE]

\* Mutant: the runtime stays warm.
stopRuntimeSetStaysWarm(i) == [i EXCEPT !.conc = 0]

stopRuntimeSet(i) == [i EXCEPT !.conc = 0, !.state = "stopped"]

stopRunnerSet(i) ==
    IF i.state \in {"merged", "reclaiming"} THEN i ELSE [i EXCEPT !.state = "closed"]
=============================================================================
