---------------------------- MODULE RuncCommands ----------------------------
(***************************************************************************)
(* The runc commands behind a reset (funclet/runtime/runc, reset.go,       *)
(* init.go) and the child reaper of cmd/funclet/funclet.go, which share    *)
(* the children of the process. ContainerEvents takes a command for one    *)
(* step that works or fails. Here it is a child: started, executed, then   *)
(* collected by its own Wait or by the reaper's Wait4(-1), in which case   *)
(* Wait answers ECHILD, which the code takes for success.                  *)
(*                                                                         *)
(* One container; a reset holds its lock. The process of a container is a  *)
(* child too once its runc has ended.                                      *)
(***************************************************************************)
EXTENDS Naturals, FiniteSets

CONSTANTS
    MaxResets,          \* bound on resets
    MaxRuncFaults       \* bound on commands that fail without reason

ASSUME RuncAssumption == MaxResets \in Nat /\ MaxRuncFaults \in Nat

VARIABLES
    container,      \* the container: what runc says, and the reset that started it
    process,        \* the container's process: "alive", "zombie" or "gone"
    child,          \* the command of the reset
    sigchld,        \* SIGCHLD is in the channel of SetupSignalHandler
    reaping,        \* the reaper is in its Wait4 loop
    resetJob,       \* the reset
    runcFaults

runcVars == <<container, process, child, sigchld, reaping, resetJob, runcFaults>>

NoChild == [at |-> "none", code |-> "ok", out |-> "none"]
IdleJob == [at |-> "idle", number |-> 0, misled |-> FALSE, result |-> "none"]

RuncInit ==
    /\ container = [stat |-> "running", by |-> 0] /\ process = "alive"
    /\ child = NoChild
    /\ sigchld = FALSE /\ reaping = FALSE
    /\ resetJob = IdleJob
    /\ runcFaults = 0

-----------------------------------------------------------------------------
(* runc *)

\* What a command does with the container: it fails, or has an effect. (A process that is
\* still a zombie when the next container runs is the reaper's alone.)
RuncRefuses(command) ==
    CASE command \in {"state", "confirm"} -> container.stat = "none"
      [] command = "kill" -> container.stat \in {"none", "stopped"}
      [] command = "delete" -> container.stat # "stopped"
      [] command = "force" -> FALSE
      [] command = "run" -> container.stat # "none"

Effect(command) ==
    CASE command = "kill" -> container' = [container EXCEPT !.stat = "doomed"] /\ UNCHANGED process
      [] command \in {"delete", "force"} ->
           /\ container' = [stat |-> "none", by |-> 0]
           /\ process' = IF process = "alive" THEN "zombie" ELSE process
      [] command = "run" -> container' = [stat |-> "running", by |-> resetJob.number] /\ process' = "alive"
      [] OTHER -> UNCHANGED <<container, process>>

\* A container dies, killed or by itself.
Exits ==
    /\ container.stat \in {"running", "doomed"} /\ process = "alive"
    /\ container' = [container EXCEPT !.stat = "stopped"]
    /\ process' = "zombie" /\ sigchld' = TRUE
    /\ UNCHANGED <<child, reaping, resetJob, runcFaults>>

\* A container that a warm-up has merged is frozen.
Frozen ==
    /\ resetJob.at = "idle" /\ container.stat = "running"
    /\ container' = [container EXCEPT !.stat = "paused"]
    /\ UNCHANGED <<process, child, sigchld, reaping, resetJob, runcFaults>>

-----------------------------------------------------------------------------
(* A command: start, Wait and what becomes of the error *)

Commands == {"state", "kill", "delete", "force", "run", "confirm"}

StartCommand ==
    /\ resetJob.at \in Commands /\ child.at = "none"
    /\ child' = [NoChild EXCEPT !.at = "started"]
    /\ UNCHANGED <<container, process, sigchld, reaping, resetJob, runcFaults>>

Executes(fault) ==
    /\ child.at = "started"
    /\ fault => runcFaults < MaxRuncFaults /\ ~RuncRefuses(resetJob.at)
    /\ runcFaults' = IF fault THEN runcFaults + 1 ELSE runcFaults
    /\ IF fault \/ RuncRefuses(resetJob.at)
         THEN child' = [at |-> "zombie", code |-> "failed", out |-> "none"] /\ UNCHANGED <<container, process>>
         ELSE child' = [at |-> "zombie", code |-> "ok", out |-> container.stat] /\ Effect(resetJob.at)
    /\ sigchld' = TRUE
    /\ UNCHANGED <<reaping, resetJob>>

\* ResetContainer: from what State says to the first step.
FirstStep(stat) ==
    CASE stat = "paused" -> "thaw"
      [] stat \in {"running", "doomed"} -> "kill"
      [] stat = "stopped" -> "delete"
      [] OTHER -> "run"

\* Mutant: the container that InitContainer finds needs no process.
SetContainerNetAny(stat) == TRUE

\* SetContainerNet opens the namespace of the pid, which is 0 for a stopped container.
SetContainerNet(stat) == stat # "stopped"

End(result) == resetJob' = [resetJob EXCEPT !.at = "idle", !.result = result]
GoTo(at) == resetJob' = [resetJob EXCEPT !.at = at]

\* The caller of the command goes on. State has nothing to parse without output, so an
\* exit status that was lost does not matter to it.
Continue(ok) ==
    CASE resetJob.at = "state" -> resetJob' = [resetJob EXCEPT !.at = FirstStep(child.out),
                                                !.misled = child.out = "none" /\ container.stat # "none"]
      [] resetJob.at = "kill" -> IF ok THEN GoTo("exits") ELSE End("error")
      [] resetJob.at = "delete" -> GoTo(IF ok THEN "run" ELSE "force")
      [] resetJob.at = "force" -> IF ok THEN GoTo("run") ELSE End("error")
      [] resetJob.at = "run" -> IF ok THEN GoTo("confirm") ELSE End("error")
      [] resetJob.at = "confirm" -> End(IF child.out # "none" /\ SetContainerNet(child.out) THEN "ok" ELSE "error")

Wait ==
    /\ child.at = "zombie"
    /\ Continue(child.code = "ok")
    /\ child' = NoChild
    /\ UNCHANGED <<container, process, sigchld, reaping, runcFaults>>

WaitECHILD ==
    /\ child.at = "reaped"
    /\ Continue(TRUE)
    /\ child' = NoChild
    /\ UNCHANGED <<container, process, sigchld, reaping, runcFaults>>

-----------------------------------------------------------------------------
(* The other steps of a reset *)

ResetRequested ==
    /\ resetJob.at = "idle" /\ resetJob.number < MaxResets
    /\ resetJob' = [IdleJob EXCEPT !.at = "state", !.number = resetJob.number + 1]
    /\ UNCHANGED <<container, process, child, sigchld, reaping, runcFaults>>

ThawContainer ==
    /\ resetJob.at = "thaw"
    /\ \/ container' = [container EXCEPT !.stat = IF @ = "paused" THEN "running" ELSE @] /\ GoTo("kill")
       \/ End("error") /\ UNCHANGED container
    /\ UNCHANGED <<process, child, sigchld, reaping, runcFaults>>

\* Signal 0 reaches a zombie: the process must be gone. After KillRuntimeWaitTime the
\* reset fails.
WaitForContainerExits ==
    /\ resetJob.at = "exits"
    /\ \/ process = "gone" /\ GoTo("delete")
       \/ process # "gone" /\ End("error")
    /\ UNCHANGED <<container, process, child, sigchld, reaping, runcFaults>>

-----------------------------------------------------------------------------
(* The reaper of SetupSignalHandler *)

Signalled ==
    /\ ~reaping /\ sigchld
    /\ sigchld' = FALSE /\ reaping' = TRUE
    /\ UNCHANGED <<container, process, child, resetJob, runcFaults>>

\* Wait4(-1, WNOHANG) collects any child that has ended, until there is none.
Wait4 ==
    /\ reaping
    /\ \/ child.at = "zombie" /\ child' = [child EXCEPT !.at = "reaped"] /\ UNCHANGED <<process, reaping>>
       \/ process = "zombie" /\ process' = "gone" /\ UNCHANGED <<child, reaping>>
       \/ child.at # "zombie" /\ process # "zombie" /\ reaping' = FALSE /\ UNCHANGED <<child, process>>
    /\ UNCHANGED <<container, sigchld, resetJob, runcFaults>>

RuncNext ==
    \/ Exits \/ Frozen \/ ResetRequested \/ StartCommand \/ Wait \/ WaitECHILD
    \/ \E fault \in BOOLEAN : Executes(fault)
    \/ ThawContainer \/ WaitForContainerExits \/ Signalled \/ Wait4

-----------------------------------------------------------------------------
(* Properties *)

\* A reset that reports success leaves a container that it started itself, even if the
\* exit status of every command is lost to the reaper: a kill that failed is noticed
\* by the wait, a delete or run that failed by the state or the network after it. The
\* exception is a reset whose first State failed for a container that exists.
FreshAfterReset ==
    resetJob.at = "idle" /\ resetJob.result = "ok" /\ ~resetJob.misled => container.by = resetJob.number

\* No child that has ended is forgotten, although signals that arrive together are one:
\* the reaper is at work or about to be. (WaitForContainerExits depends on it.)
ZombiesSeen ==
    (process = "zombie" \/ child.at = "zombie") => sigchld \/ reaping

\* Commands and the reaper of SetupSignalHandler share the children of the process: no
\* success is claimed for what did not happen, and no child is forgotten.
ResetSafe == FreshAfterReset /\ ZombiesSeen
=============================================================================
