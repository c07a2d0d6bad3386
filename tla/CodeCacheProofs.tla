--------------------------- MODULE CodeCacheProofs ---------------------------
(***************************************************************************)
(* Proofs about CodeCache, for any number of warm-ups and codes: whatever  *)
(* fails and however often funclet restarts, HandlingChanMap loses no      *)
(* wake-up, and until a step fails preparation is serial and a function    *)
(* runs on whole code.                                                     *)
(***************************************************************************)
EXTENDS CodeCache, TLAPS

\* The part of the state that NoOrphan is about.
ChanTypes ==
  /\ chans \in [Codes -> Warmups \cup {NoOne}]
  /\ on \in [Warmups -> Warmups \cup {NoOne}]
  /\ pc \in [Warmups -> PCs]

ChanInv == ChanTypes /\ NoOrphan

\* The goroutine neither takes nor leaves a channel: it was past GetChan, is not
\* waiting, and has not run CloseChan.
Busy == PCs \ {"get", "wait", "done"}

LEMMA BusyStep ==
  ASSUME ChanInv, NEW w \in Warmups, chans' = chans, on' = on, on[w] = NoOne,
         pc' \in {[pc EXCEPT ![w] = l] : l \in Busy}
  PROVE  ChanInv'
  BY CacheAssumption DEF ChanInv, ChanTypes, NoOrphan, Busy, PCs

LEMMA GetChanStep ==
  ASSUME ChanInv, NEW w \in Warmups, GetChan(w)
  PROVE  ChanInv'
<1>1. CodeOf[w] \in Codes /\ NoOne \notin Warmups
  BY CacheAssumption
<1>2. on[w] = NoOne /\ pc[w] = "get"
  BY DEF GetChan, ChanInv, NoOrphan
<1>3. CASE chans[CodeOf[w]] = NoOne
  <2>1. /\ chans' = [chans EXCEPT ![CodeOf[w]] = w]
        /\ pc' = [pc EXCEPT ![w] = "check"]
        /\ on' = on
    BY <1>3 DEF GetChan, Goto
  <2>2. ChanTypes'
    BY <1>1, <2>1 DEF ChanInv, ChanTypes, PCs
  <2>3. ASSUME NEW v \in Warmups, on'[v] # NoOne
        PROVE  pc'[v] = "wait" /\ chans'[CodeOf[v]] = on'[v]
    BY <1>2, <1>3, <2>1, <2>3, CacheAssumption DEF ChanInv, ChanTypes, NoOrphan
  <2>4. ASSUME NEW c \in Codes, chans'[c] # NoOne
        PROVE  CodeOf[chans'[c]] = c /\ pc'[chans'[c]] \notin {"get", "wait", "done"}
    <3>1. CASE c = CodeOf[w]
      BY <1>1, <2>1, <3>1 DEF ChanInv, ChanTypes
    <3>2. CASE c # CodeOf[w]
      BY <1>1, <2>1, <2>4, <3>2 DEF ChanInv, ChanTypes, NoOrphan
    <3>. QED  BY <3>1, <3>2
  <2>. QED  BY <2>2, <2>3, <2>4 DEF ChanInv, NoOrphan
<1>4. CASE chans[CodeOf[w]] # NoOne
  <2>1. /\ on' = [on EXCEPT ![w] = chans[CodeOf[w]]]
        /\ pc' = [pc EXCEPT ![w] = "wait"]
        /\ chans' = chans
    BY <1>4 DEF GetChan, Goto
  <2>2. ChanTypes'
    BY <1>1, <2>1 DEF ChanInv, ChanTypes, PCs
  <2>3. ASSUME NEW v \in Warmups, on'[v] # NoOne
        PROVE  pc'[v] = "wait" /\ chans'[CodeOf[v]] = on'[v]
    BY <2>1, <2>3 DEF ChanInv, ChanTypes, NoOrphan
  <2>4. ASSUME NEW c \in Codes, chans'[c] # NoOne
        PROVE  CodeOf[chans'[c]] = c /\ pc'[chans'[c]] \notin {"get", "wait", "done"}
    BY <1>2, <2>1, <2>4 DEF ChanInv, ChanTypes, NoOrphan
  <2>. QED  BY <2>2, <2>3, <2>4 DEF ChanInv, NoOrphan
<1>. QED  BY <1>3, <1>4

LEMMA CloseChanStep ==
  ASSUME ChanInv, NEW w \in Warmups, CloseChan(w)
  PROVE  ChanInv'
<1>. DEFINE c == CodeOf[w]
<1>1. c \in Codes /\ NoOne \notin Warmups
  BY CacheAssumption
<1>2. /\ pc[w] = "close" /\ pc' = [pc EXCEPT ![w] = "done"]
      /\ chans[c] # w => chans' = chans /\ on' = on
      /\ chans[c] = w => /\ chans' = [chans EXCEPT ![c] = NoOne]
                         /\ on' = [v \in Warmups |-> IF on[v] = w THEN NoOne ELSE on[v]]
  BY DEF CloseChan, Goto
<1>3. \A d \in Codes : chans[d] = w => d = c
  BY <1>1 DEF ChanInv, NoOrphan
<1>4. ChanTypes'
  BY <1>1, <1>2 DEF ChanInv, ChanTypes, PCs
<1>5. ASSUME NEW v \in Warmups, on'[v] # NoOne
      PROVE  pc'[v] = "wait" /\ chans'[CodeOf[v]] = on'[v]
  <2>1. on[v] # NoOne /\ on'[v] = on[v] /\ v # w
    BY <1>2, <1>5 DEF ChanInv, ChanTypes, NoOrphan
  <2>2. pc'[v] = "wait" /\ chans[CodeOf[v]] = on[v]
    BY <1>2, <2>1 DEF ChanInv, ChanTypes, NoOrphan
  <2>3. chans[c] = w => on[v] # w
    BY <1>2, <1>5
  <2>4. chans'[CodeOf[v]] = chans[CodeOf[v]]
    BY <1>2, <2>2, <2>3, CacheAssumption DEF ChanInv, ChanTypes
  <2>. QED  BY <2>1, <2>2, <2>4
<1>6. ASSUME NEW d \in Codes, chans'[d] # NoOne
      PROVE  CodeOf[chans'[d]] = d /\ pc'[chans'[d]] \notin {"get", "wait", "done"}
  <2>1. chans'[d] = chans[d] /\ chans[d] # w
    BY <1>1, <1>2, <1>3, <1>6 DEF ChanInv, ChanTypes
  <2>. QED  BY <1>2, <1>6, <2>1 DEF ChanInv, ChanTypes, NoOrphan
<1>. QED  BY <1>4, <1>5, <1>6 DEF ChanInv, NoOrphan

LEMMA PrepareStep ==
  ASSUME ChanInv, NEW w \in Warmups, Prepare(w)
  PROVE  ChanInv'
<1>1. CASE GetChan(w)
  BY <1>1, GetChanStep
<1>2. CASE CloseChan(w)
  BY <1>2, CloseChanStep
<1>3. CASE ~GetChan(w) /\ ~CloseChan(w)
  <2>1. on[w] = NoOne
    BY <1>3
       DEF Prepare, WakeUp, CheckCache, FetchBegin, FetchEnd, FetchFails, CheckCode, UnzipBegin,
           UnzipEnd, UnzipFails, CreateTag, Remove, ChanInv, NoOrphan
  <2>2. chans' = chans /\ on' = on
    BY <1>3
       DEF Prepare, WakeUp, CheckCache, FetchBegin, FetchEnd, FetchFails, CheckCode, UnzipBegin,
           UnzipEnd, UnzipFails, CreateTag, Remove
  <2>3. \E l \in Busy : pc' = [pc EXCEPT ![w] = l]
    BY <1>3
       DEF Prepare, WakeUp, CheckCache, FetchBegin, FetchEnd, FetchFails, CheckCode, UnzipBegin,
           UnzipEnd, UnzipFails, CreateTag, Remove, Goto, Busy, PCs
  <2>. QED  BY <2>1, <2>2, <2>3, BusyStep
<1>. QED  BY <1>1, <1>2, <1>3

LEMMA AgainStep ==
  ASSUME ChanInv, NEW w \in Warmups, Again(w)
  PROVE  ChanInv'
<1>1. pc[w] = "done" /\ pc' = [pc EXCEPT ![w] = "get"] /\ chans' = chans /\ on' = on
  BY DEF Again
<1>2. ChanTypes'
  BY <1>1 DEF ChanInv, ChanTypes, PCs
<1>3. NoOrphan'
  BY <1>1, CacheAssumption DEF ChanInv, ChanTypes, NoOrphan
<1>. QED  BY <1>2, <1>3 DEF ChanInv

\* No wake-up is lost: a waiting goroutine always has a registered master that will
\* still close its channel, after every failure of the download and every restart.
THEOREM NoOrphanAlways == Spec => []NoOrphan
<1>1. Init => ChanInv
  BY CacheAssumption DEF Init, ChanInv, ChanTypes, NoOrphan, PCs
<1>2. ChanInv /\ [Next]_vars => ChanInv'
  <2>. SUFFICES ASSUME ChanInv, [Next]_vars PROVE ChanInv'
    OBVIOUS
  <2>1. ASSUME NEW w \in Warmups, Prepare(w) PROVE ChanInv'
    BY <2>1, PrepareStep
  <2>2. ASSUME NEW w \in Warmups, Again(w) PROVE ChanInv'
    BY <2>2, AgainStep
  <2>3. CASE UNCHANGED <<chans, on, pc>>
    BY <2>3 DEF ChanInv, ChanTypes, NoOrphan
  <2>4. ASSUME NEW w \in Warmups, Answer(w) \/ Timeout(w) PROVE UNCHANGED <<chans, on, pc>>
    BY <2>4 DEF Answer, Timeout
  <2>5. CASE Restart
    BY <2>5 DEF Restart, ChanInv, ChanTypes, NoOrphan, PCs
  <2>6. CASE UNCHANGED vars
    BY <2>3, <2>6 DEF vars
  <2>. QED  BY <2>1, <2>2, <2>3, <2>4, <2>5, <2>6 DEF Next
<1>3. ChanInv => NoOrphan
  BY DEF ChanInv
<1>. QED  BY <1>1, <1>2, <1>3, PTL DEF Spec

-----------------------------------------------------------------------------

LEMMA InitTypes == Init => TypeOK
  BY CacheAssumption DEF Init, TypeOK, PCs, Zips

LEMMA FailuresTypes ==
  ASSUME TypeOK, UNCHANGED failures \/ Failing
  PROVE  failures' \in [errors : Nat, restarts : Nat]
  BY CacheAssumption DEF TypeOK, Failing

LEMMA FileStepTypes ==
  ASSUME TypeOK, NEW w \in Warmups,
         \/ FetchBegin(w) \/ FetchEnd(w) \/ FetchFails(w) \/ Remove(w)
         \/ UnzipBegin(w) \/ UnzipEnd(w) \/ UnzipFails(w)
  PROVE  TypeOK'
<1>1. CodeOf[w] \in Codes
  BY CacheAssumption
<1>2. failures' \in [errors : Nat, restarts : Nat]
  BY FailuresTypes
     DEF FetchBegin, FetchEnd, FetchFails, Remove, UnzipBegin, UnzipEnd, UnzipFails, FailsIf
<1>3. UNCHANGED <<chans, on, ok, caller, tag>>
  BY DEF FetchBegin, FetchEnd, FetchFails, Remove, UnzipBegin, UnzipEnd, UnzipFails
<1>4. pc' \in [Warmups -> PCs]
  BY DEF TypeOK, FetchBegin, FetchEnd, FetchFails, Remove, UnzipBegin, UnzipEnd, UnzipFails, Goto, PCs
<1>5. dir' \in [Codes -> {"empty", "partial", "whole"}]
  BY <1>1 DEF TypeOK, FetchBegin, FetchEnd, FetchFails, Remove, UnzipBegin, UnzipEnd, UnzipFails
<1>6. reading' \subseteq Warmups /\ spoilt' \subseteq Warmups
  BY DEF TypeOK, FetchBegin, FetchEnd, FetchFails, Remove, UnzipBegin, UnzipEnd, UnzipFails,
         RemoveZip, Unzipping
<1>7. zip' \in [Codes -> Zips]
  <2>1. zip[CodeOf[w]].writers \subseteq Warmups /\ zip[CodeOf[w]].exists \in BOOLEAN
    BY <1>1 DEF TypeOK, Zips
  <2>2. CASE FetchBegin(w)
    BY <1>1, <2>1, <2>2 DEF TypeOK, FetchBegin, Zips
  <2>3. CASE FetchEnd(w)
    BY <1>1, <2>1, <2>3 DEF TypeOK, FetchEnd, Zips
  <2>4. CASE RemoveZip(CodeOf[w])
    BY <1>1, <2>4 DEF TypeOK, RemoveZip, Zips
  <2>5. CASE UNCHANGED zip
    BY <2>5 DEF TypeOK
  <2>. QED
    BY <2>2, <2>3, <2>4, <2>5 DEF FetchFails, Remove, UnzipBegin, UnzipEnd, UnzipFails
<1>. QED  BY <1>2, <1>3, <1>4, <1>5, <1>6, <1>7 DEF TypeOK

LEMMA NextTypes ==
  ASSUME TypeOK, [Next]_vars
  PROVE  TypeOK'
<1>1. ASSUME NEW w \in Warmups, GetChan(w) \/ WakeUp(w) \/ CloseChan(w) PROVE TypeOK'
  <2>1. CodeOf[w] \in Codes
    BY CacheAssumption
  <2>. QED  BY <1>1, <2>1 DEF TypeOK, GetChan, WakeUp, CloseChan, Goto, PCs, files
<1>2. ASSUME NEW w \in Warmups, CheckCache(w) PROVE TypeOK'
  BY <1>2 DEF TypeOK, CheckCache, Goto, PCs, files
<1>3. ASSUME NEW w \in Warmups, CheckCode(w) PROVE TypeOK'
  BY <1>3, FailuresTypes DEF TypeOK, CheckCode, FailsIf, Goto, PCs, files
<1>4. ASSUME NEW w \in Warmups, CreateTag(w) PROVE TypeOK'
  BY <1>4, FailuresTypes, CacheAssumption, ZenonT(40) DEF TypeOK, CreateTag, Goto, PCs
<1>5. ASSUME NEW w \in Warmups, Prepare(w) PROVE TypeOK'
  BY <1>1, <1>2, <1>3, <1>4, <1>5, FileStepTypes DEF Prepare
<1>6. ASSUME NEW w \in Warmups, Answer(w) \/ Timeout(w) \/ Again(w) PROVE TypeOK'
  BY <1>6 DEF TypeOK, Answer, Timeout, Again, PCs, files
<1>7. CASE Restart
  BY <1>7 DEF TypeOK, Restart, PCs, Zips
<1>8. CASE UNCHANGED vars
  BY <1>8 DEF TypeOK, vars
<1>. QED  BY <1>5, <1>6, <1>7, <1>8 DEF Next

\* The steps from the failed check of the tag to its creation, which the master alone takes.
Preparing == {"fetch", "fetching", "checksum", "unzip", "unzipping", "tag"}

\* Who prepares is the registered master of a code without a tag; whoever is past that, or
\* has waited for a master, finds the tag.
MasterPrepares ==
  \A w \in Warmups :
    /\ pc[w] \in Preparing => chans[CodeOf[w]] = w /\ CodeOf[w] \notin tag
    /\ pc[w] \in {"remove", "close"} => CodeOf[w] \in tag
    /\ pc[w] = "check" \/ (pc[w] = "wait" /\ on[w] = NoOne) =>
         chans[CodeOf[w]] = w \/ CodeOf[w] \in tag

\* The master's archive is there and nobody writes to it once it is downloaded.
ArchiveSound ==
  /\ \A c \in Codes, w \in Warmups :
       w \in zip[c].writers => pc[w] = "fetching" /\ CodeOf[w] = c
  /\ \A w \in Warmups : pc[w] \in {"fetching", "checksum", "unzip"} => zip[CodeOf[w]].exists
  /\ spoilt = {}

\* A tag means whole code, and success means a tag.
TagSound ==
  /\ \A c \in tag : dir[c] = "whole"
  /\ \A w \in Warmups :
       /\ pc[w] = "tag" => dir[CodeOf[w]] = "whole"
       /\ ok[w] \/ caller[w] = "signalled" => CodeOf[w] \in tag

Sound == MasterPrepares /\ ArchiveSound /\ TagSound

\* What is inductive until something fails.
PreparedInv == TypeOK /\ NoOrphan /\ (failures.errors = 0 => Sound)

LEMMA NotFailed ==
  ASSUME TypeOK, [Next]_vars, failures'.errors = 0
  PROVE  failures.errors = 0 /\ ~Failing
<1>1. failures.errors \in Nat /\ failures.restarts \in Nat
  BY DEF TypeOK
<1>2. ~Failing
  BY <1>1 DEF Failing, TypeOK
<1>3. UNCHANGED failures \/ Restart
  BY <1>2 DEF Next, Prepare, GetChan, WakeUp, CheckCache, FetchBegin, FetchEnd, FetchFails, CheckCode,
              UnzipBegin, UnzipEnd, UnzipFails, CreateTag, Remove, CloseChan, Answer, Timeout, Again,
              FailsIf, vars
<1>4. CASE Restart
  BY <1>1, <1>2, <1>4 DEF Restart, TypeOK
<1>5. CASE UNCHANGED failures
  <2>1. failures.errors = 0
    BY <1>5
  <2>. QED  BY <1>2, <2>1
<1>. QED  BY <1>3, <1>4, <1>5

\* Steps that touch neither channels nor files.
LEMMA WakeUpSound ==
  ASSUME TypeOK, Sound, NEW w \in Warmups, WakeUp(w) \/ CheckCache(w)
  PROVE  Sound'
<1>1. CodeOf \in [Warmups -> Codes]
  BY CacheAssumption
<1>2. CASE WakeUp(w)
  <2>1. MasterPrepares'
    BY <1>1, <1>2 DEF TypeOK, Sound, MasterPrepares, WakeUp, Goto, Preparing, files
  <2>2. ArchiveSound' /\ TagSound'
    BY <1>1, <1>2 DEF TypeOK, Sound, ArchiveSound, TagSound, WakeUp, Goto, files
  <2>. QED  BY <2>1, <2>2 DEF Sound
<1>3. CASE CheckCache(w)
  <2>1. MasterPrepares'
    BY <1>1, <1>3 DEF TypeOK, Sound, MasterPrepares, CheckCache, Goto, Preparing, files
  <2>2. ArchiveSound' /\ TagSound'
    BY <1>1, <1>3 DEF TypeOK, Sound, ArchiveSound, TagSound, CheckCache, Goto, files
  <2>. QED  BY <2>1, <2>2 DEF Sound
<1>. QED  BY <1>2, <1>3

LEMMA GetChanSound ==
  ASSUME TypeOK, Sound, NoOrphan, NEW w \in Warmups, GetChan(w)
  PROVE  Sound'
<1>1. CodeOf \in [Warmups -> Codes] /\ NoOne \notin Warmups
  BY CacheAssumption
<1>2. MasterPrepares'
  <2>1. tag' = tag
    BY DEF GetChan, files
  <2>2. SUFFICES ASSUME NEW v \in Warmups
        PROVE  /\ pc'[v] \in Preparing => chans'[CodeOf[v]] = v /\ CodeOf[v] \notin tag
               /\ pc'[v] \in {"remove", "close"} => CodeOf[v] \in tag
               /\ pc'[v] = "check" \/ (pc'[v] = "wait" /\ on'[v] = NoOne) =>
                    chans'[CodeOf[v]] = v \/ CodeOf[v] \in tag
    BY <2>1 DEF MasterPrepares
  <2>3. CASE chans[CodeOf[w]] = NoOne
    <3>1. /\ chans' = [chans EXCEPT ![CodeOf[w]] = w]
          /\ pc' = [pc EXCEPT ![w] = "check"]
          /\ on' = on
      BY <2>3 DEF GetChan, Goto
    <3>2. CASE v = w
      BY <1>1, <3>1, <3>2 DEF TypeOK, Preparing
    <3>3. CASE v # w
      <4>1. pc'[v] = pc[v] /\ on'[v] = on[v]
        BY <3>1, <3>3 DEF TypeOK
      <4>2. chans[CodeOf[v]] = v => chans'[CodeOf[v]] = v
        BY <1>1, <2>3, <3>1 DEF TypeOK
      <4>. QED  BY <4>1, <4>2 DEF Sound, MasterPrepares
    <3>. QED  BY <3>2, <3>3
  <2>4. CASE chans[CodeOf[w]] # NoOne
    <3>1. /\ on' = [on EXCEPT ![w] = chans[CodeOf[w]]]
          /\ pc' = [pc EXCEPT ![w] = "wait"]
          /\ chans' = chans
      BY <2>4 DEF GetChan, Goto
    <3>2. CASE v = w
      BY <2>4, <3>1, <3>2 DEF TypeOK, Preparing
    <3>3. CASE v # w
      BY <3>1, <3>3 DEF TypeOK, Sound, MasterPrepares
    <3>. QED  BY <3>2, <3>3
  <2>. QED  BY <2>3, <2>4
<1>3. ArchiveSound' /\ TagSound'
  BY <1>1 DEF TypeOK, Sound, ArchiveSound, TagSound, GetChan, Goto, files
<1>. QED  BY <1>2, <1>3 DEF Sound

LEMMA CloseChanSound ==
  ASSUME TypeOK, Sound, NoOrphan, NEW w \in Warmups, CloseChan(w)
  PROVE  Sound'
<1>1. CodeOf \in [Warmups -> Codes] /\ NoOne \notin Warmups
  BY CacheAssumption
<1>2. CodeOf[w] \in tag
  BY DEF Sound, MasterPrepares, CloseChan
<1>3. tag' = tag /\ pc' = [pc EXCEPT ![w] = "done"]
  BY DEF CloseChan, Goto, files
<1>4. ASSUME NEW v \in Warmups
      PROVE  /\ chans'[CodeOf[v]] = chans[CodeOf[v]] \/ CodeOf[v] = CodeOf[w]
             /\ on'[v] = on[v] \/ CodeOf[v] = CodeOf[w]
  <2>1. CASE chans[CodeOf[w]] # w
    BY <2>1 DEF CloseChan
  <2>2. CASE chans[CodeOf[w]] = w
    <3>1. chans' = [chans EXCEPT ![CodeOf[w]] = NoOne]
          /\ on' = [u \in Warmups |-> IF on[u] = w THEN NoOne ELSE on[u]]
      BY <2>2 DEF CloseChan
    <3>2. on[v] = w => CodeOf[v] = CodeOf[w]
      BY <1>1 DEF NoOrphan
    <3>. QED  BY <1>1, <3>1, <3>2 DEF TypeOK
  <2>. QED  BY <2>1, <2>2
<1>5. MasterPrepares'
  <2>1. SUFFICES ASSUME NEW v \in Warmups
        PROVE  /\ pc'[v] \in Preparing => chans'[CodeOf[v]] = v /\ CodeOf[v] \notin tag
               /\ pc'[v] \in {"remove", "close"} => CodeOf[v] \in tag
               /\ pc'[v] = "check" \/ (pc'[v] = "wait" /\ on'[v] = NoOne) =>
                    chans'[CodeOf[v]] = v \/ CodeOf[v] \in tag
    BY <1>3 DEF MasterPrepares
  <2>2. pc'[v] = pc[v] \/ pc'[v] = "done"
    BY <1>3 DEF TypeOK
  <2>. QED  BY <1>2, <1>4, <2>2 DEF Sound, MasterPrepares, Preparing
<1>6. ArchiveSound' /\ TagSound'
  BY <1>1, <1>3 DEF TypeOK, Sound, ArchiveSound, TagSound, CloseChan, Goto, files
<1>. QED  BY <1>5, <1>6 DEF Sound

\* The other goroutines of the master's code are not at work.
LEMMA MasterAlone ==
  ASSUME TypeOK, Sound, NEW w \in Warmups, pc[w] \in Preparing
  PROVE  /\ chans[CodeOf[w]] = w /\ CodeOf[w] \notin tag
         /\ \A v \in Warmups \ {w} :
              CodeOf[v] = CodeOf[w] => pc[v] \notin Preparing \cup {"remove", "close"}
  BY DEF Sound, MasterPrepares

LEMMA FetchSound ==
  ASSUME TypeOK, Sound, NEW w \in Warmups, FetchBegin(w) \/ FetchEnd(w)
  PROVE  Sound'
<1>1. CodeOf \in [Warmups -> Codes]
  BY CacheAssumption
<1>2. pc[w] \in {"fetch", "fetching"} /\ pc'[w] \in {"fetching", "checksum"}
      /\ \A v \in Warmups \ {w} : pc'[v] = pc[v]
  BY DEF FetchBegin, FetchEnd, Goto, TypeOK
<1>3. \A v \in Warmups \ {w} :
        CodeOf[v] = CodeOf[w] => pc[v] \notin Preparing \cup {"remove", "close"}
  BY <1>2, MasterAlone DEF Preparing
<1>4. UNCHANGED <<chans, on, ok, caller, dir, tag, spoilt>>
  BY DEF FetchBegin, FetchEnd
<1>5. MasterPrepares' /\ TagSound'
  BY <1>2, <1>4 DEF Sound, MasterPrepares, TagSound, Preparing
<1>6. ArchiveSound'
  <2>1. zip[CodeOf[w]] \in Zips /\ zip'[CodeOf[w]] \in Zips
        /\ \A c \in Codes \ {CodeOf[w]} : zip'[c] = zip[c]
    BY <1>1, FileStepTypes DEF TypeOK, FetchBegin, FetchEnd
  <2>2. CASE FetchBegin(w)
    <3>1. zip'[CodeOf[w]].writers = zip[CodeOf[w]].writers \cup {w}
          /\ zip'[CodeOf[w]].exists /\ pc'[w] = "fetching"
      BY <1>1, <2>2 DEF FetchBegin, Goto, TypeOK
    <3>2. ASSUME NEW c \in Codes, NEW v \in Warmups, v \in zip'[c].writers
          PROVE  pc'[v] = "fetching" /\ CodeOf[v] = c
      <4>1. (v = w /\ c = CodeOf[w]) \/ v \in zip[c].writers
        BY <2>1, <3>1, <3>2
      <4>2. v # w => v \in zip[c].writers
        BY <4>1
      <4>3. v = w => c = CodeOf[w]
        BY <2>2, <4>1 DEF Sound, ArchiveSound
      <4>. QED  BY <1>2, <3>1, <4>2, <4>3 DEF Sound, ArchiveSound
    <3>3. ASSUME NEW v \in Warmups, pc'[v] \in {"fetching", "checksum", "unzip"}
          PROVE  zip'[CodeOf[v]].exists
      BY <1>1, <1>2, <2>1, <3>1, <3>3 DEF Sound, ArchiveSound
    <3>. QED  BY <1>4, <3>2, <3>3 DEF Sound, ArchiveSound
  <2>3. CASE FetchEnd(w)
    <3>0. zip' = [zip EXCEPT ![CodeOf[w]].writers = @ \ {w}]
      BY <2>3 DEF FetchEnd
    <3>1. zip'[CodeOf[w]].writers = zip[CodeOf[w]].writers \ {w}
          /\ zip'[CodeOf[w]].exists = zip[CodeOf[w]].exists /\ pc'[w] = "checksum"
      BY <1>1, <2>3, <2>1, <3>0 DEF FetchEnd, Goto, TypeOK, Zips
    <3>2. zip[CodeOf[w]].exists
      BY <2>3 DEF Sound, ArchiveSound, FetchEnd
    <3>3. ASSUME NEW c \in Codes, NEW v \in Warmups, v \in zip'[c].writers
          PROVE  pc'[v] = "fetching" /\ CodeOf[v] = c
      <4>1. v \in zip[c].writers
        BY <2>1, <3>1, <3>3
      <4>2. pc[v] = "fetching" /\ CodeOf[v] = c
        BY <4>1 DEF Sound, ArchiveSound
      <4>3. v # w
        BY <3>1, <3>3, <4>2
      <4>. QED  BY <1>2, <4>2, <4>3
    <3>4. ASSUME NEW v \in Warmups, pc'[v] \in {"fetching", "checksum", "unzip"}
          PROVE  zip'[CodeOf[v]].exists
      BY <1>1, <1>2, <2>1, <3>1, <3>2, <3>4 DEF Sound, ArchiveSound
    <3>. QED  BY <1>4, <3>3, <3>4 DEF Sound, ArchiveSound
  <2>. QED  BY <2>2, <2>3
<1>. QED  BY <1>5, <1>6 DEF Sound

\* Without a failure the checksum is right: the master's archive is there and whole.
LEMMA CheckCodeSound ==
  ASSUME TypeOK, Sound, ~Failing, NEW w \in Warmups, CheckCode(w)
  PROVE  Sound'
<1>1. CodeOf \in [Warmups -> Codes]
  BY CacheAssumption
<1>2. pc[w] = "checksum" /\ zip[CodeOf[w]].exists
  BY DEF CheckCode, Sound, ArchiveSound
<1>3. zip[CodeOf[w]].writers = {}
  <2>1. ASSUME NEW v \in zip[CodeOf[w]].writers PROVE FALSE
    <3>1. v \in Warmups /\ pc[v] = "fetching" /\ CodeOf[v] = CodeOf[w]
      BY <1>1, <2>1 DEF TypeOK, Zips, Sound, ArchiveSound
    <3>. QED  BY <1>2, <3>1, MasterAlone DEF Preparing
  <2>. QED  BY <2>1
<1>4. pc' = [pc EXCEPT ![w] = "unzip"]
  BY <1>2, <1>3 DEF CheckCode, FailsIf, Goto
<1>5. UNCHANGED <<chans, on, ok, caller, files>>
  BY DEF CheckCode
<1>6. MasterPrepares'
  BY <1>2, <1>4, <1>5 DEF TypeOK, Sound, MasterPrepares, Preparing, files
<1>7. ArchiveSound' /\ TagSound'
  BY <1>1, <1>2, <1>4, <1>5 DEF TypeOK, Sound, ArchiveSound, TagSound, files
<1>. QED  BY <1>6, <1>7 DEF Sound

LEMMA UnzipBeginSound ==
  ASSUME TypeOK, Sound, NEW w \in Warmups, UnzipBegin(w)
  PROVE  Sound'
<1>1. CodeOf \in [Warmups -> Codes]
  BY CacheAssumption
<1>2. pc[w] = "unzip" /\ zip[CodeOf[w]].exists
  BY DEF UnzipBegin, Sound, ArchiveSound
<1>3. /\ pc' = [pc EXCEPT ![w] = "unzipping"]
      /\ dir' = [dir EXCEPT ![CodeOf[w]] = "partial"]
      /\ UNCHANGED <<chans, on, ok, caller, zip, tag, spoilt>>
  BY <1>2 DEF UnzipBegin, Goto
<1>4. CodeOf[w] \notin tag
      /\ \A v \in Warmups \ {w} : CodeOf[v] = CodeOf[w] => pc[v] # "tag"
  BY <1>2, MasterAlone DEF Preparing
<1>5. MasterPrepares'
  BY <1>2, <1>3 DEF TypeOK, Sound, MasterPrepares, Preparing
<1>6. ArchiveSound'
  BY <1>2, <1>3 DEF TypeOK, Sound, ArchiveSound
<1>7. TagSound'
  <2>1. \A c \in Codes \ {CodeOf[w]} : dir'[c] = dir[c]
    BY <1>3 DEF TypeOK
  <2>2. \A c \in tag' : dir'[c] = "whole"
    BY <1>3, <1>4, <2>1 DEF TypeOK, Sound, TagSound
  <2>3. ASSUME NEW v \in Warmups, pc'[v] = "tag" PROVE dir'[CodeOf[v]] = "whole"
    <3>1. v # w /\ pc[v] = "tag"
      BY <1>3, <2>3 DEF TypeOK
    <3>2. CodeOf[v] # CodeOf[w]
      BY <1>4, <3>1
    <3>. QED  BY <1>1, <2>1, <3>1, <3>2 DEF Sound, TagSound
  <2>4. \A v \in Warmups : ok'[v] \/ caller'[v] = "signalled" => CodeOf[v] \in tag'
    BY <1>3 DEF Sound, TagSound
  <2>. QED  BY <2>2, <2>3, <2>4 DEF TagSound
<1>. QED  BY <1>5, <1>6, <1>7 DEF Sound

\* The master extracts alone, so the directory is whole when it is through.
LEMMA UnzipEndSound ==
  ASSUME TypeOK, Sound, NEW w \in Warmups, UnzipEnd(w)
  PROVE  Sound'
<1>1. CodeOf \in [Warmups -> Codes]
  BY CacheAssumption
<1>2. pc[w] = "unzipping"
  BY DEF UnzipEnd
<1>3. Unzipping(CodeOf[w]) = {w}
  BY <1>2, MasterAlone DEF Preparing, Unzipping
<1>4. spoilt = {}
  BY DEF Sound, ArchiveSound
<1>5. /\ pc' = [pc EXCEPT ![w] = "tag"]
      /\ dir' = [dir EXCEPT ![CodeOf[w]] = "whole"]
      /\ spoilt' = {}
      /\ UNCHANGED <<chans, on, ok, caller, zip, tag>>
  BY <1>3, <1>4 DEF UnzipEnd, Goto
<1>6. MasterPrepares'
  BY <1>2, <1>5 DEF TypeOK, Sound, MasterPrepares, Preparing
<1>7. ArchiveSound'
  BY <1>2, <1>5 DEF TypeOK, Sound, ArchiveSound
<1>8. TagSound'
  BY <1>1, <1>5 DEF TypeOK, Sound, TagSound
<1>. QED  BY <1>6, <1>7, <1>8 DEF Sound

\* Without a failure no extraction breaks off: nobody overwrites the archive.
LEMMA UnzipHolds ==
  ASSUME TypeOK, Sound, ~Failing, NEW w \in Warmups
  PROVE  ~UnzipFails(w)
<1>1. SUFFICES ASSUME UnzipFails(w) PROVE FALSE
  OBVIOUS
<1>2. CodeOf \in [Warmups -> Codes]
  BY CacheAssumption
<1>3. pc[w] = "unzipping" /\ zip[CodeOf[w]].writers # {}
  BY <1>1 DEF UnzipFails, FailsIf
<1>4. PICK v \in zip[CodeOf[w]].writers : TRUE
  BY <1>3
<1>5. v \in Warmups /\ pc[v] = "fetching" /\ CodeOf[v] = CodeOf[w]
  BY <1>2, <1>4 DEF TypeOK, Zips, Sound, ArchiveSound
<1>. QED  BY <1>3, <1>5, MasterAlone DEF Preparing

LEMMA CreateTagSound ==
  ASSUME TypeOK, Sound, ~Failing, NEW w \in Warmups, CreateTag(w)
  PROVE  Sound'
<1>1. CodeOf \in [Warmups -> Codes]
  BY CacheAssumption
<1>2. pc[w] = "tag" /\ dir[CodeOf[w]] = "whole"
  BY DEF CreateTag, Sound, TagSound
<1>3. /\ pc' = [pc EXCEPT ![w] = "remove"]
      /\ tag' = tag \cup {CodeOf[w]}
      /\ ok' = [ok EXCEPT ![w] = TRUE]
      /\ UNCHANGED <<chans, on, caller, zip, dir, spoilt>>
  BY DEF CreateTag, Goto
<1>4. MasterPrepares'
  <2>1. SUFFICES ASSUME NEW v \in Warmups
        PROVE  /\ pc'[v] \in Preparing => chans'[CodeOf[v]] = v /\ CodeOf[v] \notin tag'
               /\ pc'[v] \in {"remove", "close"} => CodeOf[v] \in tag'
               /\ pc'[v] = "check" \/ (pc'[v] = "wait" /\ on'[v] = NoOne) =>
                    chans'[CodeOf[v]] = v \/ CodeOf[v] \in tag'
    BY DEF MasterPrepares
  <2>2. CASE v = w
    BY <1>3, <2>2 DEF TypeOK, Preparing
  <2>3. CASE v # w
    <3>1. pc'[v] = pc[v]
      BY <1>3, <2>3 DEF TypeOK
    <3>2. pc[v] \in Preparing => CodeOf[v] # CodeOf[w]
      BY <1>2, <2>3, MasterAlone DEF Preparing
    <3>. QED  BY <1>3, <3>1, <3>2 DEF Sound, MasterPrepares
  <2>. QED  BY <2>2, <2>3
<1>5. ArchiveSound'
  BY <1>2, <1>3 DEF TypeOK, Sound, ArchiveSound
<1>6. TagSound'
  BY <1>1, <1>2, <1>3 DEF TypeOK, Sound, TagSound
<1>. QED  BY <1>4, <1>5, <1>6 DEF Sound

\* The archive that is removed is one nobody needs any more.
LEMMA RemoveSound ==
  ASSUME TypeOK, Sound, NEW w \in Warmups, Remove(w)
  PROVE  Sound'
<1>1. CodeOf \in [Warmups -> Codes]
  BY CacheAssumption
<1>2. pc[w] = "remove" /\ CodeOf[w] \in tag
  BY DEF Remove, Sound, MasterPrepares
<1>3. /\ pc' = [pc EXCEPT ![w] = "close"]
      /\ zip' = [zip EXCEPT ![CodeOf[w]] = [exists |-> FALSE, writers |-> {}]]
      /\ UNCHANGED <<chans, on, ok, caller, dir, tag, spoilt>>
  BY DEF Remove, RemoveZip, Goto
<1>4. MasterPrepares'
  BY <1>2, <1>3 DEF TypeOK, Sound, MasterPrepares, Preparing
<1>5. ArchiveSound'
  <2>1. zip'[CodeOf[w]].writers = {} /\ \A c \in Codes \ {CodeOf[w]} : zip'[c] = zip[c]
    BY <1>1, <1>3 DEF TypeOK
  <2>2. ASSUME NEW c \in Codes, NEW v \in Warmups, v \in zip'[c].writers
        PROVE  pc'[v] = "fetching" /\ CodeOf[v] = c
    <3>1. v \in zip[c].writers
      BY <2>1, <2>2
    <3>2. pc[v] = "fetching" /\ CodeOf[v] = c
      BY <3>1 DEF Sound, ArchiveSound
    <3>. QED  BY <1>2, <1>3, <3>2 DEF TypeOK
  <2>3. ASSUME NEW v \in Warmups, pc'[v] \in {"fetching", "checksum", "unzip"}
        PROVE  zip'[CodeOf[v]].exists
    <3>1. pc[v] \in {"fetching", "checksum", "unzip"}
      BY <1>3, <2>3 DEF TypeOK
    <3>2. CodeOf[v] # CodeOf[w]
      BY <1>2, <3>1 DEF Sound, MasterPrepares, Preparing
    <3>. QED  BY <1>1, <2>1, <3>1, <3>2 DEF Sound, ArchiveSound
  <2>. QED  BY <1>3, <2>2, <2>3 DEF Sound, ArchiveSound
<1>6. TagSound'
  BY <1>2, <1>3 DEF TypeOK, Sound, TagSound
<1>. QED  BY <1>4, <1>5, <1>6 DEF Sound

\* The WarmUp that waits, hears, times out or comes again; a restart.
LEMMA CallerSound ==
  ASSUME TypeOK, Sound, NEW w \in Warmups, Answer(w) \/ Timeout(w) \/ Again(w)
  PROVE  Sound'
<1>1. /\ pc' = pc \/ (pc[w] = "done" /\ pc' = [pc EXCEPT ![w] = "get"])
      /\ UNCHANGED <<chans, on, zip, dir, tag, spoilt>>
  BY DEF Answer, Timeout, Again, files
<1>2. MasterPrepares' /\ ArchiveSound'
  BY <1>1 DEF TypeOK, Sound, MasterPrepares, ArchiveSound, Preparing
<1>3. ASSUME NEW v \in Warmups, ok'[v] \/ caller'[v] = "signalled" PROVE CodeOf[v] \in tag
  BY <1>3 DEF TypeOK, Sound, TagSound, Answer, Timeout, Again
<1>4. TagSound'
  BY <1>1, <1>3 DEF TypeOK, Sound, TagSound
<1>. QED  BY <1>2, <1>4 DEF Sound

LEMMA RestartSound ==
  ASSUME TypeOK, Sound, Restart
  PROVE  Sound'
<1>1. CodeOf \in [Warmups -> Codes]
  BY CacheAssumption
<1>2. MasterPrepares'
  BY DEF Restart, MasterPrepares, Preparing
<1>3. ArchiveSound'
  <2>1. \A c \in Codes : zip'[c].writers = {}
    BY DEF Restart
  <2>2. spoilt' = {} /\ \A w \in Warmups : pc'[w] = "get"
    BY DEF Restart
  <2>. QED  BY <2>1, <2>2 DEF ArchiveSound
<1>4. TagSound'
  BY DEF Restart, Sound, TagSound
<1>. QED  BY <1>2, <1>3, <1>4 DEF Sound

LEMMA NextSound ==
  ASSUME TypeOK, NoOrphan, Sound, [Next]_vars, ~Failing
  PROVE  Sound'
<1>1. ASSUME NEW w \in Warmups, Prepare(w) PROVE Sound'
  <2>1. ~FetchFails(w) /\ ~UnzipFails(w)
    BY UnzipHolds DEF FetchFails
  <2>. QED  BY <1>1, <2>1, GetChanSound, WakeUpSound, FetchSound, CheckCodeSound, UnzipBeginSound,
               UnzipEndSound, CreateTagSound, RemoveSound, CloseChanSound DEF Prepare
<1>2. CASE UNCHANGED vars
  BY <1>2 DEF vars, Sound, MasterPrepares, ArchiveSound, TagSound
<1>. QED  BY <1>1, <1>2, CallerSound, RestartSound DEF Next

\* Until a step fails, one goroutine at a time downloads and extracts a code, and every
\* function that is started runs on whole code: through every timeout of WarmUp, every
\* retry and every restart of funclet, for any number of warm-ups.
THEOREM PreparedAlways == Spec => []PreparedUntilFailure
<1>1. Init => PreparedInv
  <2>1. Init => NoOrphan
    BY CacheAssumption DEF Init, NoOrphan
  <2>2. Init => Sound
    BY CacheAssumption DEF Init, Sound, MasterPrepares, ArchiveSound, TagSound, Preparing
  <2>. QED  BY <2>1, <2>2, InitTypes DEF PreparedInv
<1>2. NoOrphan /\ PreparedInv /\ [Next]_vars /\ NoOrphan' => PreparedInv'
  <2>. SUFFICES ASSUME NoOrphan, PreparedInv, [Next]_vars, NoOrphan' PROVE PreparedInv'
    OBVIOUS
  <2>1. TypeOK'
    BY NextTypes DEF PreparedInv
  <2>2. ASSUME failures'.errors = 0 PROVE Sound'
    BY <2>2, NotFailed, NextSound DEF PreparedInv
  <2>. QED  BY <2>1, <2>2 DEF PreparedInv
<1>3. PreparedInv => PreparedUntilFailure
  <2>. SUFFICES ASSUME PreparedInv, failures.errors = 0 PROVE SerialFetch /\ CodeReady
    BY DEF PreparedUntilFailure, SerialUntilFailure, CodeReadyUntilFailure
  <2>1. SerialFetch
    <3>. SUFFICES ASSUME NEW v \in Warmups, NEW w \in Warmups, CodeOf[v] = CodeOf[w],
                         pc[v] \in Preparing, pc[w] \in Preparing
                  PROVE  v = w
      BY DEF SerialFetch, Preparing
    <3>. QED  BY DEF PreparedInv, Sound, MasterPrepares
  <2>2. CodeReady
    BY DEF PreparedInv, Sound, TagSound, CodeReady
  <2>. QED  BY <2>1, <2>2
<1>. QED  BY <1>1, <1>2, <1>3, NoOrphanAlways, PTL DEF Spec

=============================================================================
