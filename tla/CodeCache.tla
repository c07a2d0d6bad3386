------------------------------ MODULE CodeCache ------------------------------
(***************************************************************************)
(* The code cache of funclet (warmup.go, types.go, code/, util/zip): every *)
(* warm-up runs prepareUserCode in a goroutine of its own and waits for it *)
(* at most ten seconds. The goroutines meet in HandlingChanMap, in the     *)
(* downloaded archive, whose file name depends on the code alone, and in   *)
(* the cache directory with its COMPLETE tag.                              *)
(*                                                                         *)
(* The files outlive funclet; the goroutines and HandlingChanMap do not.   *)
(***************************************************************************)
EXTENDS Naturals, FiniteSets

CONSTANTS
    Warmups,        \* goroutines of prepareUserCode
    Codes,          \* CodeSha256 values
    CodeOf,         \* [Warmups -> Codes]
    NoOne,          \* nil
    MaxErrors,      \* bound on downloads, checks, extractions and tags that fail
    MaxRestarts     \* bound on restarts of funclet

ASSUME CacheAssumption ==
    /\ CodeOf \in [Warmups -> Codes]
    /\ NoOne \notin Warmups
    /\ MaxErrors \in Nat
    /\ MaxRestarts \in Nat

VARIABLES
    chans,      \* HandlingChanMap: the warm-up that made the code's channel
    on,         \* the channel a warm-up waits on, NoOne once it is closed
    pc,         \* where every goroutine is
    ok,         \* whether it has prepared the code
    caller,     \* the WarmUp that waits for it
    zip,        \* the archive of every code, see Zips
    dir,        \* the cache directory of every code
    tag,        \* codes with a COMPLETE tag
    reading,    \* goroutines extracting the file that has the archive's name now
    spoilt,     \* goroutines extracting while the extraction of another failed
    failures

vars == <<chans, on, pc, ok, caller, zip, dir, tag, reading, spoilt, failures>>
files == <<zip, dir, tag, reading, spoilt>>

\* writers: the goroutines copying into the file.
Zips == [exists : BOOLEAN, writers : SUBSET Warmups]

PCs == {"get", "wait", "check", "fetch", "fetching", "checksum", "unzip", "unzipping",
        "tag", "remove", "close", "done"}

TypeOK ==
    /\ chans \in [Codes -> Warmups \cup {NoOne}]
    /\ on \in [Warmups -> Warmups \cup {NoOne}]
    /\ pc \in [Warmups -> PCs]
    /\ ok \in [Warmups -> BOOLEAN]
    /\ caller \in [Warmups -> {"waiting", "signalled", "failed"}]
    /\ zip \in [Codes -> Zips]
    /\ dir \in [Codes -> {"empty", "partial", "whole"}]
    /\ tag \subseteq Codes
    /\ reading \subseteq Warmups /\ spoilt \subseteq Warmups
    /\ failures \in [errors : Nat, restarts : Nat]

Init ==
    /\ chans = [c \in Codes |-> NoOne]
    /\ on = [w \in Warmups |-> NoOne]
    /\ pc = [w \in Warmups |-> "get"]
    /\ ok = [w \in Warmups |-> FALSE]
    /\ caller = [w \in Warmups |-> "waiting"]
    /\ zip = [c \in Codes |-> [exists |-> FALSE, writers |-> {}]]
    /\ dir = [c \in Codes |-> "empty"]
    /\ tag = {}
    /\ reading = {} /\ spoilt = {}
    /\ failures = [errors |-> 0, restarts |-> 0]

Goto(w, l) == pc' = [pc EXCEPT ![w] = l]

\* Something outside fails.
Failing ==
    /\ failures.errors < MaxErrors
    /\ failures' = [failures EXCEPT !.errors = @ + 1]

\* A step fails because of cond, or because something outside does.
FailsIf(cond) == (cond /\ UNCHANGED failures) \/ Failing

Unzipping(c) == {w \in Warmups : CodeOf[w] = c /\ pc[w] = "unzipping"}

-----------------------------------------------------------------------------

\* HandlingChanMap.GetChan.
GetChan(w) ==
    LET c == CodeOf[w] IN
    /\ pc[w] = "get"
    /\ IF chans[c] = NoOne
       THEN /\ chans' = [chans EXCEPT ![c] = w]
            /\ Goto(w, "check")
            /\ UNCHANGED on
       ELSE /\ on' = [on EXCEPT ![w] = chans[c]]
            /\ Goto(w, "wait")
            /\ UNCHANGED chans
    /\ UNCHANGED <<ok, caller, files, failures>>

\* Mutant: no wait for the master.
WakeUpAtOnce(w) ==
    /\ pc[w] = "wait"
    /\ Goto(w, "check")
    /\ on' = [on EXCEPT ![w] = NoOne]
    /\ UNCHANGED <<chans, ok, caller, files, failures>>

\* Mutant: the wait is for the code, not for the master.
WakeUpWhenTagged(w) ==
    /\ pc[w] = "wait"
    /\ on[w] = NoOne /\ CodeOf[w] \in tag
    /\ Goto(w, "check")
    /\ UNCHANGED <<chans, on, ok, caller, files, failures>>

\* The master has closed the channel.
WakeUp(w) ==
    /\ pc[w] = "wait"
    /\ on[w] = NoOne
    /\ Goto(w, "check")
    /\ UNCHANGED <<chans, on, ok, caller, files, failures>>

\* FindCode and FindCodeCompeleteTag. WarmUp has made the directory before.
CheckCache(w) ==
    /\ pc[w] = "check"
    /\ IF CodeOf[w] \in tag
       THEN Goto(w, "close") /\ ok' = [ok EXCEPT ![w] = TRUE]
       ELSE Goto(w, "fetch") /\ UNCHANGED ok
    /\ UNCHANGED <<chans, on, caller, files, failures>>

\* Fetch creates or truncates the archive and copies into it.
FetchBegin(w) ==
    /\ pc[w] = "fetch"
    /\ Goto(w, "fetching")
    /\ zip' = [zip EXCEPT ![CodeOf[w]] = [exists |-> TRUE, writers |-> @.writers \cup {w}]]
    /\ UNCHANGED <<chans, on, ok, caller, dir, tag, reading, spoilt, failures>>

FetchEnd(w) ==
    /\ pc[w] = "fetching"
    /\ Goto(w, "checksum")
    /\ zip' = [zip EXCEPT ![CodeOf[w]].writers = @ \ {w}]
    /\ UNCHANGED <<chans, on, ok, caller, dir, tag, reading, spoilt, failures>>

\* os.Remove of the archive: whoever copies into it or extracts it goes on with
\* a file that has no name any more.
RemoveZip(c) ==
    /\ zip' = [zip EXCEPT ![c] = [exists |-> FALSE, writers |-> {}]]
    /\ reading' = {w \in reading : CodeOf[w] # c}

\* The download cannot start, or breaks off and the file is removed.
FetchFails(w) ==
    /\ Failing
    /\ Goto(w, "close")
    /\ \/ pc[w] = "fetch" /\ UNCHANGED <<zip, reading>>
       \/ pc[w] = "fetching" /\ RemoveZip(CodeOf[w])
    /\ UNCHANGED <<chans, on, ok, caller, dir, tag, spoilt>>

\* CheckCode: passes on an archive no one is copying into, may fail otherwise.
CheckCode(w) ==
    LET z == zip[CodeOf[w]] IN
    /\ pc[w] = "checksum"
    /\ \/ z.exists /\ Goto(w, "unzip") /\ UNCHANGED failures
       \/ /\ Goto(w, "remove")
          /\ FailsIf(~z.exists \/ z.writers # {})
    /\ UNCHANGED <<chans, on, ok, caller, files>>

\* Unzip opens the archive and truncates one file after the other.
UnzipBegin(w) ==
    LET c == CodeOf[w] IN
    /\ pc[w] = "unzip"
    /\ IF zip[c].exists
       THEN /\ Goto(w, "unzipping")
            /\ dir' = [dir EXCEPT ![c] = "partial"]
            /\ reading' = reading \cup {w}
       ELSE Goto(w, "remove") /\ UNCHANGED <<dir, reading>>
    /\ UNCHANGED <<chans, on, ok, caller, zip, tag, spoilt, failures>>

\* All files are written. Where another extraction has truncated one of them and
\* then failed, that one may be left so.
UnzipEnd(w) ==
    LET c == CodeOf[w] IN
    /\ pc[w] = "unzipping"
    /\ Goto(w, "tag")
    /\ \/ Unzipping(c) = {w} /\ dir' = [dir EXCEPT ![c] = "whole"]
       \/ (Unzipping(c) # {w} \/ w \in spoilt) /\ UNCHANGED dir
    /\ reading' = reading \ {w}
    /\ spoilt' = spoilt \ {w}
    /\ UNCHANGED <<chans, on, ok, caller, zip, tag, failures>>

\* The archive is being overwritten, or something outside fails.
UnzipFails(w) ==
    LET c == CodeOf[w] IN
    /\ pc[w] = "unzipping"
    /\ FailsIf(w \in reading /\ zip[c].writers # {})
    /\ Goto(w, "remove")
    /\ reading' = reading \ {w}
    /\ spoilt' = (spoilt \cup Unzipping(c)) \ {w}
    /\ UNCHANGED <<chans, on, ok, caller, zip, dir, tag>>

\* CreateCodeCompeleteTag.
CreateTag(w) ==
    /\ pc[w] = "tag"
    /\ Goto(w, "remove")
    /\ \/ /\ tag' = tag \cup {CodeOf[w]}
          /\ ok' = [ok EXCEPT ![w] = TRUE]
          /\ UNCHANGED failures
       \/ Failing /\ UNCHANGED <<tag, ok>>
    /\ UNCHANGED <<chans, on, caller, zip, dir, reading, spoilt>>

\* The deferred os.Remove.
Remove(w) ==
    /\ pc[w] = "remove"
    /\ Goto(w, "close")
    /\ RemoveZip(CodeOf[w])
    /\ UNCHANGED <<chans, on, ok, caller, dir, tag, spoilt, failures>>

\* Mutant: the entry is deleted, the channel is not closed.
CloseChanForgotten(w) ==
    /\ pc[w] = "close"
    /\ Goto(w, "done")
    /\ chans' = [chans EXCEPT ![CodeOf[w]] = IF @ = w THEN NoOne ELSE @]
    /\ UNCHANGED <<on, ok, caller, files, failures>>

\* The deferred CloseChan of the master; the others just return.
CloseChan(w) ==
    LET c == CodeOf[w] IN
    /\ pc[w] = "close"
    /\ Goto(w, "done")
    /\ IF chans[c] = w
       THEN /\ chans' = [chans EXCEPT ![c] = NoOne]
            /\ on' = [v \in Warmups |-> IF on[v] = w THEN NoOne ELSE on[v]]
       ELSE UNCHANGED <<chans, on>>
    /\ UNCHANGED <<ok, caller, files, failures>>

\* WarmUp hears from codeChain: it starts the function, or fails.
Answer(w) ==
    /\ pc[w] = "done" /\ caller[w] = "waiting"
    /\ caller' = [caller EXCEPT ![w] = IF ok[w] THEN "signalled" ELSE "failed"]
    /\ UNCHANGED <<chans, on, pc, ok, files, failures>>

\* WarmUp has waited for ten seconds; the goroutine goes on.
Timeout(w) ==
    /\ caller[w] = "waiting"
    /\ caller' = [caller EXCEPT ![w] = "failed"]
    /\ UNCHANGED <<chans, on, pc, ok, files, failures>>

\* The next warm-up with the same code.
Again(w) ==
    /\ pc[w] = "done" /\ caller[w] # "waiting"
    /\ pc' = [pc EXCEPT ![w] = "get"]
    /\ ok' = [ok EXCEPT ![w] = FALSE]
    /\ caller' = [caller EXCEPT ![w] = "waiting"]
    /\ UNCHANGED <<chans, on, files, failures>>

\* Funclet dies and comes back: only the files are left.
Restart ==
    /\ failures.restarts < MaxRestarts
    /\ failures' = [failures EXCEPT !.restarts = @ + 1]
    /\ chans' = [c \in Codes |-> NoOne]
    /\ on' = [w \in Warmups |-> NoOne]
    /\ pc' = [w \in Warmups |-> "get"]
    /\ ok' = [w \in Warmups |-> FALSE]
    /\ caller' = [w \in Warmups |-> "waiting"]
    /\ zip' = [c \in Codes |-> [exists |-> zip[c].exists, writers |-> {}]]
    /\ reading' = {} /\ spoilt' = {}
    /\ UNCHANGED <<dir, tag>>

Prepare(w) ==
    \/ GetChan(w) \/ WakeUp(w) \/ CheckCache(w) \/ FetchBegin(w) \/ FetchEnd(w)
    \/ FetchFails(w) \/ CheckCode(w) \/ UnzipBegin(w) \/ UnzipEnd(w) \/ UnzipFails(w)
    \/ CreateTag(w) \/ Remove(w) \/ CloseChan(w)

Next ==
    \/ \E w \in Warmups : Prepare(w) \/ Answer(w) \/ Timeout(w) \/ Again(w)
    \/ Restart

Spec == Init /\ [][Next]_vars

\* The goroutines run and the storage service answers.
FairSpec == Spec /\ \A w \in Warmups : WF_vars(Prepare(w)) /\ WF_vars(Answer(w))

-----------------------------------------------------------------------------

\* At most one goroutine downloads and extracts a code.
SerialFetch ==
    \A v, w \in Warmups :
        /\ CodeOf[v] = CodeOf[w]
        /\ {pc[v], pc[w]} \subseteq {"fetching", "checksum", "unzip", "unzipping", "tag"}
        => v = w

\* As long as no step has failed, at most one goroutine downloads and extracts a
\* code, through all timeouts, retries and restarts of funclet: HandlingChanMap
\* serializes them. (A failed master releases its waiters at once, see SerialFetch.)
SerialUntilFailure == failures.errors = 0 => SerialFetch

\* The COMPLETE tag marks a finished directory: with the tag there, every file of
\* the archive is there and whole, unless an extraction is still under way.
FinishedIsWhole ==
    \A c \in tag : dir[c] = "whole" \/ Unzipping(c) # {}

\* A function is started on whole code, and the code it runs is not touched again,
\* not even by warm-ups that timed out or funclet restarts.
CodeReady ==
    \A w \in Warmups : caller[w] = "signalled" => dir[CodeOf[w]] = "whole"

\* As long as no step has failed, CodeReady holds: neither an extraction cut off by
\* a restart nor one that outlived its warm-up is ever taken for finished.
CodeReadyUntilFailure == failures.errors = 0 => CodeReady

\* Until a step fails, a code is prepared by one goroutine at a time and a function only
\* runs on what was prepared completely.
PreparedUntilFailure == SerialUntilFailure /\ CodeReadyUntilFailure

\* A goroutine that waits, waits on the registered channel of its code, whose maker
\* has yet to run its deferred CloseChan: no wake-up is lost.
NoOrphan ==
    /\ \A w \in Warmups : on[w] # NoOne => pc[w] = "wait" /\ chans[CodeOf[w]] = on[w]
    /\ \A c \in Codes : chans[c] # NoOne =>
          /\ CodeOf[chans[c]] = c
          /\ pc[chans[c]] \notin {"get", "wait", "done"}

\* Every goroutine of prepareUserCode ends, though its master failed.
PrepareEnds == \A w \in Warmups : pc[w] = "wait" ~> pc[w] = "done"
=============================================================================
