------------------------ MODULE ContainerEventsProofs ------------------------
(***************************************************************************)
(* Proofs about ContainerEvents: the event locks implement EventMutex,     *)
(* warm-ups are not disturbed, and live containers are equipped, for every *)
(* set of containers, handlers and events, as long as no container is in   *)
(* two groups.                                                             *)
(***************************************************************************)
EXTENDS ContainerEvents, DataLemmas, TLAPS

\* The containers that an event works on, and those that a handler has locked.
Group(e) == {e.target} \cup e.others
Held(r) == {r.locks[i] : i \in 1..Len(r.locks)}
Active(r) == r.pc \notin {"idle", "lock"}

\* A container belongs to one target: events that have one in common have the same target.
\* The lock of the target is then a lock of its group.
GroupsDisjoint == \A e, f \in Events : e.target = f.target \/ Group(e) \cap Group(f) = {}

\* A handler r holds what it has locked, its target first, and nothing twice.
HandlerGood(r) ==
  /\ r.pc = "idle" => r.locks = << >>
  /\ r.pc = "lock" => r.event \in Events /\ r.locks = << >>
  /\ Active(r) =>
       /\ r.event \in Events /\ r.todo \subseteq r.event.others
       /\ Len(r.locks) >= 1 /\ r.locks[1] = r.event.target
       /\ \A i \in 2..Len(r.locks) : r.locks[i] \in r.event.others
       /\ \A i, j \in 1..Len(r.locks) : r.locks[i] = r.locks[j] => i = j
  /\ r.pc = "lockothers" => \A c \in r.event.others : c \in Held(r) <=> c \notin r.todo
  /\ r.pc \in {"reset", "others"} => r.event.others \subseteq Held(r)

\* Only what a handler has locked is being reset.
PhaseGood(h) ==
  \A c \in Containers : phase[h][c] # "idle" => handler[h].pc \in {"reset", "others"} /\ c \in Group(handler[h].event)

Exclusive ==
  \A h, k \in Handlers : Active(handler[h]) /\ Active(handler[k]) /\ Target(h) = Target(k) => h = k

\* A channel is empty while its container is locked.
TokensRight == \A c \in Containers : token[c] = 1 <=> \A h \in Handlers : c \notin Held(handler[h])

LockInv ==
  /\ TypeOK
  /\ \A h \in Handlers : HandlerGood(handler[h]) /\ PhaseGood(h)
  /\ Exclusive
  /\ TokensRight

\* A live container d has its directories, and no function was started without its code.
ContGood(d) == (d.stat # "none" => d.paths /\ d.own) /\ d.run # "bare"

\* The phases of ResetContainer in which the container does not exist.
Gone == {"clean", "paths", "config", "start"}

\* A container that is about to be made anew is gone; a warm-up has the process of a
\* running container, and signals it when everything is mounted.
EquipInv ==
  /\ \A c \in Containers : ContGood(cont[c])
  /\ \A h \in Handlers, c \in Containers : phase[h][c] \in Gone => cont[c].stat = "none"
  /\ \A h \in pids : /\ handler[h].pc \in {"mount", "signal", "unlock"}
                     /\ handler[h].pc # "unlock" => cont[Target(h)].stat = "running"
  /\ \A h \in Handlers : handler[h].pc = "signal" => cont[Target(h)].mounted

-----------------------------------------------------------------------------
(* Locks *)

\* What the locks of a handler look like.
LEMMA HeldFacts ==
  ASSUME NEW r \in HandlerRecords, HandlerGood(r)
  PROVE  /\ r.locks \in Seq(Containers) /\ r.todo \subseteq Containers
         /\ ~Active(r) => Held(r) = {}
         /\ Active(r) => /\ r.event \in Events /\ r.event.target \in Containers /\ r.event.others \subseteq Containers
                         /\ r.event.target \in Held(r) /\ Held(r) \subseteq Group(r.event)
                         /\ r.event.target \notin r.event.others
<1>1. r.locks \in Seq(Containers) /\ r.todo \subseteq Containers /\ Len(r.locks) \in Nat
  BY DEF HandlerRecords
<1>2. ASSUME ~Active(r) PROVE Held(r) = {}
  <2>1. r.locks = << >>
    BY <1>2 DEF HandlerGood, Active
  <2>. QED  BY <2>1 DEF Held
<1>3. ASSUME Active(r)
      PROVE  /\ r.event \in Events /\ r.event.target \in Containers /\ r.event.others \subseteq Containers
             /\ r.event.target \in Held(r) /\ Held(r) \subseteq Group(r.event)
             /\ r.event.target \notin r.event.others
  <2>1. PICK e \in Events : e = r.event
    BY <1>3 DEF HandlerGood
  <2>2. e.target \in Containers /\ e.others \subseteq Containers /\ e.target \notin e.others
    BY EventsAssumption DEF EventRecords
  <2>3. /\ Len(r.locks) >= 1 /\ r.locks[1] = e.target
        /\ \A i \in 2..Len(r.locks) : r.locks[i] \in e.others
    BY <1>3, <2>1 DEF HandlerGood
  <2>4. e.target \in Held(r)
    BY <1>1, <2>3 DEF Held
  <2>5. ASSUME NEW i \in 1..Len(r.locks) PROVE r.locks[i] \in Group(e)
    <3>1. i = 1 \/ i \in 2..Len(r.locks)
      BY <1>1
    <3>. QED  BY <2>3, <3>1 DEF Group
  <2>6. Held(r) \subseteq Group(e)
    BY <2>5 DEF Held
  <2>. QED  BY <2>1, <2>2, <2>4, <2>6
<1>. QED  BY <1>1, <1>2, <1>3

LEMMA Typed ==
  ASSUME TypeOK, NEW h \in Handlers
  PROVE  handler[h] \in HandlerRecords
BY DEF TypeOK

\* Whoever works on a container of a group that a handler has begun to work on is that handler.
LEMMA OneOwner ==
  ASSUME GroupsDisjoint, LockInv, NEW h \in Handlers, NEW k \in Handlers, NEW c,
         Active(handler[h]), Active(handler[k]), c \in Group(handler[h].event), c \in Group(handler[k].event)
  PROVE  h = k
<1>1. PICK e \in Events : e = handler[h].event
  BY DEF LockInv, HandlerGood
<1>2. PICK f \in Events : f = handler[k].event
  BY DEF LockInv, HandlerGood
<1>3. e.target = f.target
  BY <1>1, <1>2 DEF GroupsDisjoint
<1>. QED  BY <1>1, <1>2, <1>3 DEF LockInv, Exclusive, Target

\* A handler r takes one container more.
Longer(r, c, s) ==
  /\ s \in Seq(Containers) /\ Len(s) = Len(r.locks) + 1
  /\ \A i \in 1..Len(r.locks) : s[i] = r.locks[i]
  /\ s[Len(r.locks) + 1] = c
  /\ {s[i] : i \in 1..Len(s)} = Held(r) \cup {c}
  /\ \A i, j \in 1..Len(s) : s[i] = s[j] => i = j

LEMMA AppendLock ==
  ASSUME NEW r \in HandlerRecords, NEW c \in Containers, c \notin Held(r), HandlerGood(r), Active(r)
  PROVE  Longer(r, c, Append(r.locks, c))
<1>. DEFINE s == Append(r.locks, c)
<1>0. \A i, j \in 1..Len(r.locks) : r.locks[i] = r.locks[j] => i = j
  BY DEF HandlerGood
<1>1. PICK l \in Seq(Containers) : l = r.locks
  BY DEF HandlerRecords
<1>2. /\ s \in Seq(Containers) /\ Len(s) = Len(l) + 1 /\ Len(l) \in Nat
      /\ \A i \in 1..Len(l) : s[i] = l[i]
      /\ s[Len(l) + 1] = c
  BY <1>1
<1>. HIDE DEF s
<1>3. \A i \in 1..Len(s) : i \in 1..Len(l) \/ i = Len(l) + 1
  BY <1>2
<1>4. {s[i] : i \in 1..Len(s)} = Held(r) \cup {c}
  <2>1. Held(r) = {l[i] : i \in 1..Len(l)}
    BY <1>1 DEF Held
  <2>2. 1..Len(l) \subseteq 1..Len(s) /\ Len(l) + 1 \in 1..Len(s)
    BY <1>2
  <2>. QED  BY <1>2, <1>3, <2>1, <2>2
<1>5. \A i \in 1..Len(l) : l[i] # c
  BY <1>1 DEF Held
<1>6. ASSUME NEW i \in 1..Len(s), NEW j \in 1..Len(s), s[i] = s[j] PROVE i = j
  <2>1. \A m, n \in 1..Len(l) : l[m] = l[n] => m = n
    BY <1>0, <1>1
  <2>. QED  BY <1>2, <1>3, <1>5, <1>6, <2>1
<1>7. Longer(r, c, s)
  BY <1>1, <1>2, <1>4, <1>6 DEF Longer
<1>. QED  BY <1>7 DEF s

\* A handler r gives its last container back.
Shorter(r, c, s) ==
  /\ s \in Seq(Containers) /\ Len(s) = Len(r.locks) - 1 /\ c \in Containers
  /\ \A i \in 1..(Len(r.locks) - 1) : s[i] = r.locks[i]
  /\ {s[i] : i \in 1..Len(s)} = Held(r) \ {c} /\ c \in Held(r)
  /\ \A i, j \in 1..Len(s) : s[i] = s[j] => i = j

LEMMA FrontLock ==
  ASSUME NEW r \in HandlerRecords, HandlerGood(r), Active(r)
  PROVE  Shorter(r, Last(r.locks), Front(r.locks))
<1>. DEFINE s == Front(r.locks)
            c == Last(r.locks)
<1>0. Len(r.locks) >= 1 /\ \A i, j \in 1..Len(r.locks) : r.locks[i] = r.locks[j] => i = j
  BY DEF HandlerGood
<1>1. PICK l \in Seq(Containers) : l = r.locks
  BY DEF HandlerRecords
<1>2. Len(l) \in Nat /\ Len(l) >= 1 /\ c = l[Len(l)] /\ s = SubSeq(l, 1, Len(l) - 1)
  BY <1>0, <1>1 DEF Last, Front
<1>. HIDE DEF s, c
<1>3. /\ s \in Seq(Containers) /\ Len(s) = Len(l) - 1 /\ c \in Containers
      /\ \A i \in 1..(Len(l) - 1) : s[i] = l[i]
  <2>1. PICK n \in Nat : n = Len(l) - 1
    BY <1>2
  <2>2. s = SubSeq(l, 1, n) /\ n <= Len(l)
    BY <1>2, <2>1
  <2>3. Len(s) = n /\ \A i \in 1..n : s[i] = l[i]
    BY <2>2
  <2>4. s \in Seq(Containers)
    BY <2>2
  <2>. QED  BY <1>2, <2>1, <2>3, <2>4
<1>4. \A m, n \in 1..Len(l) : l[m] = l[n] => m = n
  BY <1>0, <1>1
<1>5. \A i \in 1..Len(l) : i \in 1..(Len(l) - 1) \/ i = Len(l)
  BY <1>2
<1>6. \A i \in 1..(Len(l) - 1) : i \in 1..Len(l) /\ i # Len(l) /\ l[i] # c
  BY <1>2, <1>4
<1>7. Held(r) = {l[i] : i \in 1..Len(l)}
  BY <1>1 DEF Held
<1>8. {s[i] : i \in 1..Len(s)} = Held(r) \ {c} /\ c \in Held(r)
  BY <1>2, <1>3, <1>5, <1>6, <1>7
<1>9. Shorter(r, c, s)
  BY <1>1, <1>3, <1>4, <1>6, <1>8 DEF Shorter
<1>. QED  BY <1>9 DEF s, c

-----------------------------------------------------------------------------
(* What the steps change *)

\* A step of ResetContainer moves on with one container, and touches nothing but it.
ResetSays(h, c) ==
  /\ phase[h][c] # "idle" /\ token' = token /\ handler' = handler /\ pids' \subseteq pids
  /\ failures' \in [errors : Nat, exits : Nat] /\ failures'.exits = failures.exits
  /\ \E p \in Phases \ {"idle"} : phase' = [phase EXCEPT ![h][c] = p]
  /\ \E d \in Conts : cont' = [cont EXCEPT ![c] = d]

LEMMA FailsFacts ==
  ASSUME TypeOK, NEW kind, Works \/ Fails(kind)
  PROVE  failures' \in [errors : Nat, exits : Nat] /\ failures'.exits = failures.exits
BY DEF TypeOK, Works, Fails

LEMMA AfterInfoFacts ==
  ASSUME NEW stat \in {"none", "running", "paused", "stopped"}
  PROVE  AfterInfo(stat) \in Phases \ {"idle"} /\ (AfterInfo(stat) \in {"clean", "paths", "config", "start"} => stat = "none")
<1>1. CASE stat = "none"
  BY <1>1 DEF AfterInfo, Phases
<1>2. CASE stat = "running"
  BY <1>2 DEF AfterInfo, Phases
<1>3. CASE stat = "paused"
  BY <1>3 DEF AfterInfo, Phases
<1>4. CASE stat = "stopped"
  BY <1>4 DEF AfterInfo, Phases
<1>. QED  BY <1>1, <1>2, <1>3, <1>4

LEMMA ResetEffect ==
  ASSUME TypeOK, NEW h \in Handlers, NEW c \in Containers, ResetStep(h, c)
  PROVE  ResetSays(h, c)
<1>1. PICK d \in Conts : d = cont[c]
  BY DEF TypeOK
<1>2. cont = [cont EXCEPT ![c] = d]
  BY <1>1 DEF TypeOK
<1>3. {"look", "thaw", "kill", "delete", "clean", "paths", "config", "start", "net", "ok", "failed"} \subseteq Phases \ {"idle"}
  BY DEF Phases
<1>4. CASE ResetInfo(h, c)
  <2>1. phase[h][c] # "idle" /\ token' = token /\ handler' = handler /\ pids' = pids /\ cont' = cont
    BY <1>4 DEF ResetInfo, In
  <2>2. failures' \in [errors : Nat, exits : Nat] /\ failures'.exits = failures.exits
    BY <1>4, FailsFacts DEF ResetInfo
  <2>3. AfterInfo(d.stat) \in Phases \ {"idle"}
    BY AfterInfoFacts DEF Conts
  <2>4. \E p \in Phases \ {"idle"} : phase' = [phase EXCEPT ![h][c] = p]
    BY <1>1, <1>3, <1>4, <2>3 DEF ResetInfo, Then
  <2>. QED  BY <1>2, <2>1, <2>2, <2>4 DEF ResetSays
<1>5. CASE ThawContainer(h, c)
  <2>1. phase[h][c] # "idle" /\ token' = token /\ handler' = handler /\ pids' = pids
    BY <1>5 DEF ThawContainer, In
  <2>2. failures' \in [errors : Nat, exits : Nat] /\ failures'.exits = failures.exits
    BY <1>5, FailsFacts DEF ThawContainer
  <2>3. \E p \in Phases \ {"idle"} : phase' = [phase EXCEPT ![h][c] = p]
    BY <1>3, <1>5 DEF ThawContainer, Then
  <2>4. [d EXCEPT !.stat = IF @ = "paused" THEN "running" ELSE @] \in Conts
    BY DEF Conts
  <2>5. \E x \in Conts : cont' = [cont EXCEPT ![c] = x]
    BY <1>1, <1>2, <1>5, <2>4 DEF ThawContainer
  <2>. QED  BY <2>1, <2>2, <2>3, <2>5 DEF ResetSays
<1>6. CASE StopContainer(h, c)
  <2>1. phase[h][c] # "idle" /\ token' = token /\ handler' = handler /\ pids' \subseteq pids
    BY <1>6 DEF StopContainer, In
  <2>2. failures' \in [errors : Nat, exits : Nat] /\ failures'.exits = failures.exits
    BY <1>6, FailsFacts DEF StopContainer
  <2>3. \E p \in Phases \ {"idle"} : phase' = [phase EXCEPT ![h][c] = p]
    BY <1>3, <1>6 DEF StopContainer, Then
  <2>4. [d EXCEPT !.stat = "stopped"] \in Conts
    BY DEF Conts
  <2>5. \E x \in Conts : cont' = [cont EXCEPT ![c] = x]
    BY <1>1, <1>2, <1>6, <2>4 DEF StopContainer
  <2>. QED  BY <2>1, <2>2, <2>3, <2>5 DEF ResetSays
<1>7. CASE DeleteContainer(h, c)
  <2>1. phase[h][c] # "idle" /\ token' = token /\ handler' = handler /\ pids' \subseteq pids
    BY <1>7 DEF DeleteContainer, In
  <2>2. failures' \in [errors : Nat, exits : Nat] /\ failures'.exits = failures.exits
    BY <1>7, FailsFacts DEF DeleteContainer
  <2>3. \E p \in Phases \ {"idle"} : phase' = [phase EXCEPT ![h][c] = p]
    BY <1>3, <1>7 DEF DeleteContainer, Then
  <2>4. [d EXCEPT !.stat = "none"] \in Conts
    BY DEF Conts
  <2>5. \E x \in Conts : cont' = [cont EXCEPT ![c] = x]
    BY <1>1, <1>2, <1>7, <2>4 DEF DeleteContainer
  <2>. QED  BY <2>1, <2>2, <2>3, <2>5 DEF ResetSays
<1>8. CASE OutdatePaths(h, c)
  <2>1. /\ phase[h][c] # "idle" /\ token' = token /\ handler' = handler /\ pids' = pids
        /\ failures' \in [errors : Nat, exits : Nat] /\ failures' = failures
    BY <1>8 DEF OutdatePaths, In, TypeOK
  <2>2. \E p \in Phases \ {"idle"} : phase' = [phase EXCEPT ![h][c] = p]
    BY <1>3, <1>8 DEF OutdatePaths, Then
  <2>3. [d EXCEPT !.paths = FALSE, !.own = FALSE, !.mounted = FALSE] \in Conts
    BY DEF Conts
  <2>4. \E x \in Conts : cont' = [cont EXCEPT ![c] = x]
    BY <1>1, <1>8, <2>3 DEF OutdatePaths
  <2>. QED  BY <2>1, <2>2, <2>4 DEF ResetSays
<1>9. CASE GeneratePaths(h, c)
  <2>1. phase[h][c] # "idle" /\ token' = token /\ handler' = handler /\ pids' = pids
    BY <1>9 DEF GeneratePaths, In
  <2>2. failures' \in [errors : Nat, exits : Nat] /\ failures'.exits = failures.exits
    BY <1>9, FailsFacts DEF GeneratePaths
  <2>3. \E p \in Phases \ {"idle"} : phase' = [phase EXCEPT ![h][c] = p]
    BY <1>3, <1>9 DEF GeneratePaths, Then
  <2>4. [d EXCEPT !.paths = TRUE, !.own = FALSE, !.mounted = FALSE] \in Conts
    BY DEF Conts
  <2>5. \E x \in Conts : cont' = [cont EXCEPT ![c] = x]
    BY <1>1, <1>2, <1>9, <2>4 DEF GeneratePaths
  <2>. QED  BY <2>1, <2>2, <2>3, <2>5 DEF ResetSays
<1>10. CASE PrepareConfig(h, c)
  <2>1. phase[h][c] # "idle" /\ token' = token /\ handler' = handler /\ pids' = pids /\ cont' = cont
    BY <1>10 DEF PrepareConfig, In
  <2>2. failures' \in [errors : Nat, exits : Nat] /\ failures'.exits = failures.exits
    BY <1>10, FailsFacts DEF PrepareConfig
  <2>3. \E p \in Phases \ {"idle"} : phase' = [phase EXCEPT ![h][c] = p]
    BY <1>3, <1>10 DEF PrepareConfig, Then
  <2>. QED  BY <1>2, <2>1, <2>2, <2>3 DEF ResetSays
<1>11. CASE StartContainer(h, c)
  <2>1. phase[h][c] # "idle" /\ token' = token /\ handler' = handler /\ pids' = pids
    BY <1>11 DEF StartContainer, In
  <2>2. failures' \in [errors : Nat, exits : Nat] /\ failures'.exits = failures.exits
    BY <1>11, FailsFacts DEF StartContainer
  <2>3. \E p \in Phases \ {"idle"} : phase' = [phase EXCEPT ![h][c] = p]
    BY <1>3, <1>11 DEF StartContainer, Then
  <2>4. [d EXCEPT !.stat = "running", !.own = TRUE, !.run = "runner"] \in Conts
    BY DEF Conts
  <2>5. \E x \in Conts : cont' = [cont EXCEPT ![c] = x]
    BY <1>1, <1>2, <1>11, <2>4 DEF StartContainer
  <2>. QED  BY <2>1, <2>2, <2>3, <2>5 DEF ResetSays
<1>12. CASE SetContainerNet(h, c)
  <2>1. phase[h][c] # "idle" /\ token' = token /\ handler' = handler /\ pids' = pids /\ cont' = cont
    BY <1>12 DEF SetContainerNet, In
  <2>2. failures' \in [errors : Nat, exits : Nat] /\ failures'.exits = failures.exits
    BY <1>12, FailsFacts DEF SetContainerNet
  <2>3. \E p \in Phases \ {"idle"} : phase' = [phase EXCEPT ![h][c] = p]
    BY <1>3, <1>12 DEF SetContainerNet, Then
  <2>. QED  BY <1>2, <2>1, <2>2, <2>3 DEF ResetSays
<1>. QED  BY <1>4, <1>5, <1>6, <1>7, <1>8, <1>9, <1>10, <1>11, <1>12 DEF ResetStep

\* The steps of a handler between its locks and its unlocks.
Move(h) ==
  \/ ResetOthers(h) \/ ResetReturns(h) \/ ScaleCheck(h) \/ ScaleUpContainer(h) \/ WarmUpInfo(h)
  \/ BindMount(h) \/ Signal(h)
  \/ \E c \in Containers : FreezeMerged(h, c)

Warming == {"freeze", "scaleup", "info", "mount", "signal"}

\* r after such a step of a handler that was r0: it keeps its event and its locks.
Moved(r0, r) ==
  /\ r \in HandlerRecords /\ r.event = r0.event /\ r.locks = r0.locks /\ r.todo \subseteq r0.todo
  /\ \/ r0.pc = "reset" /\ r.pc = "others"
     \/ r0.pc \in {"reset", "others"} /\ r.pc = "unlock"
     \/ r0.pc \in Warming \cup {"scale"} /\ r.pc \in Warming \cup {"unlock"}

MoveSays(h) ==
  /\ token' = token /\ pids' \subseteq pids \cup {h}
  /\ failures' \in [errors : Nat, exits : Nat] /\ failures'.exits = failures.exits
  /\ \E r : Moved(handler[h], r) /\ handler' = [handler EXCEPT ![h] = r]
  /\ \/ phase' = phase /\ handler[h].pc \notin {"reset", "others"}
     \/ \E f \in [Containers -> {"idle", "look", "ok"}] :
          /\ phase' = [phase EXCEPT ![h] = f]
          /\ \A c \in Containers : f[c] # "idle" => handler[h].pc = "reset" /\ c \in Group(handler[h].event)
          /\ handler'[h].pc = "unlock" => \A c \in Containers : f[c] = "idle"
  /\ \/ cont' = cont
     \/ \E c \in Containers, d \in Conts :
          /\ c \in Group(handler[h].event) /\ handler[h].pc \in Warming
          /\ cont' = [cont EXCEPT ![c] = d] /\ (c = Target(h) => d.stat = cont[c].stat)

Pcs == {"idle", "lock", "lockothers", "reset", "others", "scale", "freeze", "scaleup", "info", "mount", "signal", "unlock"}

WentTo(h, p) ==
  \E r \in HandlerRecords : /\ handler' = [handler EXCEPT ![h] = r] /\ r.pc = p
                            /\ r.event = handler[h].event /\ r.locks = handler[h].locks /\ r.todo = handler[h].todo

LEMMA GotoFacts ==
  ASSUME TypeOK, NEW h \in Handlers, NEW p \in Pcs, Goto(h, p)
  PROVE  WentTo(h, p)
<1>1. PICK r0 \in HandlerRecords : r0 = handler[h]
  BY DEF TypeOK
<1>2. PICK r : r = [r0 EXCEPT !.pc = p]
  OBVIOUS
<1>3. r \in HandlerRecords /\ r.pc = p /\ r.event = r0.event /\ r.locks = r0.locks /\ r.todo = r0.todo
  BY <1>2 DEF HandlerRecords, Pcs
<1>4. handler' = [handler EXCEPT ![h] = r]
  BY <1>1, <1>2 DEF Goto, TypeOK
<1>. QED  BY <1>1, <1>3, <1>4 DEF WentTo

\* From p0 a handler may go to p.
Allowed(p0, p) ==
  \/ p0 = "reset" /\ p = "others"
  \/ p0 \in {"reset", "others"} /\ p = "unlock"
  \/ p0 \in Warming \cup {"scale"} /\ p \in Warming \cup {"unlock"}

LEMMA WentMoved ==
  ASSUME NEW h \in Handlers, NEW p, WentTo(h, p), Allowed(handler[h].pc, p)
  PROVE  \E r : Moved(handler[h], r) /\ handler' = [handler EXCEPT ![h] = r]
BY DEF WentTo, Moved, Allowed

LEMMA WarmMoved ==
  ASSUME TypeOK, NEW h \in Handlers, NEW p \in {"freeze", "info", "mount", "signal", "unlock"}, Goto(h, p),
         handler[h].pc \in Warming \cup {"scale"}
  PROVE  \E r : Moved(handler[h], r) /\ handler' = [handler EXCEPT ![h] = r]
<1>1. p \in Pcs
  BY DEF Pcs
<1>2. WentTo(h, p)
  BY <1>1, GotoFacts
<1>3. Allowed(handler[h].pc, p)
  BY DEF Allowed, Warming
<1>. QED  BY <1>2, <1>3, WentMoved

\* What a step of the warm-up does besides moving the handler.
WarmSays(h) ==
  /\ token' = token /\ phase' = phase /\ handler[h].pc \in Warming \cup {"scale"} /\ pids' \subseteq pids \cup {h}
  /\ failures' \in [errors : Nat, exits : Nat] /\ failures'.exits = failures.exits
  /\ \E r : Moved(handler[h], r) /\ handler' = [handler EXCEPT ![h] = r]
  /\ \/ cont' = cont
     \/ \E c \in Containers, d \in Conts :
          /\ c \in Group(handler[h].event) /\ handler[h].pc \in Warming
          /\ cont' = [cont EXCEPT ![c] = d] /\ (c = Target(h) => d.stat = cont[c].stat)

LEMMA WarmMoveSays ==
  ASSUME NEW h \in Handlers, WarmSays(h)
  PROVE  MoveSays(h)
<1>1. handler[h].pc \notin {"reset", "others"}
  BY DEF WarmSays, Warming
<1>2. phase' = phase
  BY DEF WarmSays
<1>3. /\ token' = token /\ pids' \subseteq pids \cup {h}
      /\ failures' \in [errors : Nat, exits : Nat] /\ failures'.exits = failures.exits
      /\ \E r : Moved(handler[h], r) /\ handler' = [handler EXCEPT ![h] = r]
  BY DEF WarmSays
<1>4. \/ cont' = cont
      \/ \E c \in Containers, d \in Conts :
           /\ c \in Group(handler[h].event) /\ handler[h].pc \in Warming
           /\ cont' = [cont EXCEPT ![c] = d] /\ (c = Target(h) => d.stat = cont[c].stat)
  BY DEF WarmSays
<1>. QED  BY <1>1, <1>2, <1>3, <1>4 DEF MoveSays

LEMMA FreezeEffect ==
  ASSUME LockInv, NEW h \in Handlers, NEW c \in Containers, FreezeMerged(h, c)
  PROVE  WarmSays(h)
<1>. TypeOK /\ HandlerGood(handler[h])
  BY DEF LockInv
<1>1. PICK r0 \in HandlerRecords : r0 = handler[h]
  BY DEF TypeOK
<1>2. r0.pc = "freeze" /\ c \in r0.todo /\ token' = token /\ phase' = phase /\ pids' = pids
  BY <1>1 DEF FreezeMerged, At
<1>3. failures' \in [errors : Nat, exits : Nat] /\ failures'.exits = failures.exits
  BY FailsFacts DEF FreezeMerged
<1>4. Active(r0) /\ r0.pc \in Warming
  BY <1>2 DEF Active, Warming
<1>5. c \in r0.event.others /\ r0.event.target \notin r0.event.others
  BY <1>1, <1>2, <1>4, HeldFacts DEF HandlerGood
<1>6. \E r : Moved(r0, r) /\ handler' = [handler EXCEPT ![h] = r]
  <2>1. CASE Goto(h, "unlock")
    BY <1>1, <1>4, <2>1, WarmMoved
  <2>2. PICK r : r = [r0 EXCEPT !.pc = IF r0.todo = {c} THEN "scaleup" ELSE @, !.todo = @ \ {c}]
    OBVIOUS
  <2>3. Moved(r0, r)
    <3>1. /\ r \in HandlerRecords /\ r.event = r0.event /\ r.locks = r0.locks /\ r.todo = r0.todo \ {c}
          /\ r.pc \in {"freeze", "scaleup"}
      BY <1>2, <2>2 DEF HandlerRecords
    <3>. QED  BY <1>4, <3>1 DEF Moved, Warming
  <2>4. CASE handler' = [handler EXCEPT ![h] = r]
    BY <2>3, <2>4
  <2>5. Goto(h, "unlock") \/ handler' = [handler EXCEPT ![h] = r]
    <3>1. \/ Goto(h, "unlock")
          \/ handler' = [handler EXCEPT ![h].pc = IF handler[h].todo = {c} THEN "scaleup" ELSE @,
                                        ![h].todo = @ \ {c}]
      BY DEF FreezeMerged
    <3>. QED  BY <1>1, <2>2, <3>1 DEF TypeOK
  <2>. QED  BY <2>1, <2>4, <2>5
<1>7. cont' = cont \/ \E d \in Conts : cont' = [cont EXCEPT ![c] = d]
  <2>1. PICK d \in Conts : d = cont[c]
    BY DEF TypeOK
  <2>2. [d EXCEPT !.stat = IF @ = "running" THEN "paused" ELSE @] \in Conts
    BY DEF Conts
  <2>. QED  BY <2>1, <2>2 DEF FreezeMerged
<1>8. c \in Group(r0.event) /\ c # Target(h)
  BY <1>1, <1>5 DEF Group, Target
<1>. QED  BY <1>1, <1>2, <1>3, <1>4, <1>6, <1>7, <1>8 DEF WarmSays

LEMMA WarmEffect ==
  ASSUME LockInv, NEW h \in Handlers,
         ScaleCheck(h) \/ ScaleUpContainer(h) \/ WarmUpInfo(h) \/ BindMount(h) \/ Signal(h)
  PROVE  WarmSays(h)
<1>. TypeOK /\ HandlerGood(handler[h])
  BY DEF LockInv
<1>1. token' = token /\ phase' = phase /\ pids' \subseteq pids \cup {h}
  BY DEF ScaleCheck, ScaleUpContainer, WarmUpInfo, BindMount, Signal
<1>2. handler[h].pc \in {"scale", "scaleup", "info", "mount", "signal"}
  BY DEF ScaleCheck, ScaleUpContainer, WarmUpInfo, BindMount, Signal, At
<1>3. handler[h].pc \in Warming \cup {"scale"} /\ Active(handler[h])
  BY <1>2 DEF Warming, Active
<1>4. failures' \in [errors : Nat, exits : Nat] /\ failures'.exits = failures.exits
  <2>1. CASE failures' = failures
    BY <2>1 DEF TypeOK
  <2>2. (\E k : Works \/ Fails(k)) \/ failures' = failures
    BY DEF ScaleCheck, ScaleUpContainer, WarmUpInfo, BindMount, Signal
  <2>. QED  BY <2>1, <2>2, FailsFacts
<1>5. \E p \in {"freeze", "info", "mount", "signal", "unlock"} : Goto(h, p)
  BY DEF ScaleCheck, ScaleUpContainer, WarmUpInfo, BindMount, Signal
<1>6. \E r : Moved(handler[h], r) /\ handler' = [handler EXCEPT ![h] = r]
  BY <1>3, <1>5, WarmMoved
<1>7. PICK c \in Containers : c = Target(h)
  BY <1>3, Typed, HeldFacts DEF Target
<1>8. PICK d \in Conts : d = cont[c]
  BY DEF TypeOK
<1>9. \/ cont' = cont
      \/ handler[h].pc \in Warming /\ \E x \in Conts : cont' = [cont EXCEPT ![c] = x] /\ x.stat = d.stat
  <2>1. CASE ScaleCheck(h) \/ ScaleUpContainer(h) \/ WarmUpInfo(h)
    BY <2>1 DEF ScaleCheck, ScaleUpContainer, WarmUpInfo
  <2>2. CASE BindMount(h)
    <3>1. PICK x : x = [d EXCEPT !.mounted = TRUE]
      OBVIOUS
    <3>2. x \in Conts /\ x.stat = d.stat
      BY <3>1 DEF Conts
    <3>3. cont' = cont \/ cont' = [cont EXCEPT ![c] = x]
      BY <1>7, <1>8, <2>2, <3>1 DEF BindMount
    <3>4. handler[h].pc \in Warming
      BY <2>2 DEF BindMount, At, Warming
    <3>. QED  BY <3>2, <3>3, <3>4
  <2>3. CASE Signal(h)
    <3>1. PICK run \in {"function", "bare"} : run = IF d.own /\ d.mounted THEN "function" ELSE "bare"
      OBVIOUS
    <3>2. PICK x : x = [d EXCEPT !.run = run]
      OBVIOUS
    <3>3. x \in Conts /\ x.stat = d.stat
      BY <3>2 DEF Conts
    <3>4. cont' = cont \/ cont' = [cont EXCEPT ![c].run = run]
      BY <1>7, <1>8, <2>3, <3>1, Zenon DEF Signal
    <3>5. cont' = cont \/ cont' = [cont EXCEPT ![c] = x]
      BY <1>8, <3>2, <3>4
    <3>6. handler[h].pc \in Warming
      BY <2>3 DEF Signal, At, Warming
    <3>. QED  BY <3>3, <3>5, <3>6
  <2>. QED  BY <2>1, <2>2, <2>3
<1>10. c \in Group(handler[h].event)
  BY <1>7 DEF Group, Target
<1>. QED  BY <1>1, <1>3, <1>4, <1>6, <1>7, <1>8, <1>9, <1>10 DEF WarmSays

LEMMA ResetMoveEffect ==
  ASSUME LockInv, NEW h \in Handlers, ResetOthers(h) \/ ResetReturns(h)
  PROVE  MoveSays(h)
<1>. TypeOK /\ HandlerGood(handler[h]) /\ PhaseGood(h)
  BY DEF LockInv
<1>1. token' = token /\ cont' = cont /\ pids' \subseteq pids \cup {h} /\ failures' = failures
  BY DEF ResetOthers, ResetReturns
<1>2. failures \in [errors : Nat, exits : Nat]
  BY DEF TypeOK
<1>3. CASE ResetOthers(h)
  <2>1. handler[h].pc = "reset" /\ Goto(h, "others")
    BY <1>3 DEF ResetOthers, At
  <2>2. WentTo(h, "others") /\ Allowed(handler[h].pc, "others")
    BY <2>1, GotoFacts DEF Pcs, Allowed
  <2>3. \E r : Moved(handler[h], r) /\ handler' = [handler EXCEPT ![h] = r]
    BY <2>2, WentMoved
  <2>4. PICK e \in Events : e = handler[h].event
    BY <2>1 DEF HandlerGood, Active
  <2>5. phase[h][e.target] = "ok" /\ Target(h) = e.target /\ Others(h) = e.others
    BY <1>3, <2>4 DEF ResetOthers, In, Target, Others
  <2>6. PICK f : f = [c \in Containers |-> IF c \in e.others THEN "look" ELSE phase[h][c]]
    OBVIOUS
  <2>7. phase' = [phase EXCEPT ![h] = f]
    BY <1>3, <2>5, <2>6 DEF ResetOthers, TypeOK
  <2>8. ASSUME NEW c \in Containers
        PROVE  f[c] \in {"idle", "look", "ok"} /\ (f[c] # "idle" => c \in Group(e))
    <3>1. phase[h][c] # "idle" => c \in Group(e)
      BY <2>4 DEF PhaseGood
    <3>. QED  BY <2>5, <2>6, <3>1 DEF Group
  <2>9. f \in [Containers -> {"idle", "look", "ok"}]
    BY <2>6, <2>8
  <2>10. handler'[h].pc = "others"
    BY <2>2 DEF WentTo, TypeOK
  <2>. QED  BY <1>1, <1>2, <2>1, <2>3, <2>4, <2>7, <2>8, <2>9, <2>10 DEF MoveSays
<1>4. CASE ResetReturns(h)
  <2>1. handler[h].pc \in {"reset", "others"} /\ Goto(h, "unlock")
    BY <1>4 DEF ResetReturns, At
  <2>2. WentTo(h, "unlock") /\ Allowed(handler[h].pc, "unlock")
    BY <2>1, GotoFacts DEF Pcs, Allowed
  <2>3. \E r : Moved(handler[h], r) /\ handler' = [handler EXCEPT ![h] = r]
    BY <2>2, WentMoved
  <2>4. PICK f : f = [c \in Containers |-> "idle"]
    OBVIOUS
  <2>5. phase' = [phase EXCEPT ![h] = f]
    BY <1>4, <2>4 DEF ResetReturns
  <2>6. f \in [Containers -> {"idle", "look", "ok"}] /\ \A c \in Containers : f[c] = "idle"
    BY <2>4
  <2>. QED  BY <1>1, <1>2, <2>3, <2>5, <2>6 DEF MoveSays
<1>. QED  BY <1>3, <1>4

LEMMA MoveEffect ==
  ASSUME LockInv, NEW h \in Handlers, Move(h)
  PROVE  MoveSays(h)
BY FreezeEffect, WarmEffect, WarmMoveSays, ResetMoveEffect DEF Move

-----------------------------------------------------------------------------
(* The invariant of the locks *)

\* Steps that change neither handlers nor channels, nor begin to reset a container.
LEMMA SameLocks ==
  ASSUME LockInv, handler' = handler, token' = token, TypeOK',
         \A h \in Handlers, c \in Containers : phase'[h][c] # "idle" => phase[h][c] # "idle"
  PROVE  LockInv'
<1>1. \A h \in Handlers : HandlerGood(handler'[h])
  BY DEF LockInv
<1>2. \A h \in Handlers : PhaseGood(h)'
  BY DEF LockInv, PhaseGood
<1>3. Exclusive'
  BY DEF LockInv, Exclusive, Target
<1>4. TokensRight'
  BY DEF LockInv, TokensRight
<1>5. \A h \in Handlers : HandlerGood(handler[h])'
  BY <1>1 DEF HandlerGood, Active, Held
<1>. QED  BY <1>2, <1>3, <1>4, <1>5 DEF LockInv

LEMMA ResetLocks ==
  ASSUME LockInv, NEW h \in Handlers, NEW c \in Containers, ResetSays(h, c)
  PROVE  LockInv'
<1>1. TypeOK
  BY DEF LockInv
<1>2. PICK p \in Phases \ {"idle"} : phase' = [phase EXCEPT ![h][c] = p]
  BY DEF ResetSays
<1>3. PICK d \in Conts : cont' = [cont EXCEPT ![c] = d]
  BY DEF ResetSays
<1>4. TypeOK'
  <2>1. token' = token /\ handler' = handler /\ pids' \subseteq pids /\ failures' \in [errors : Nat, exits : Nat]
    BY DEF ResetSays
  <2>2. cont' \in [Containers -> Conts] /\ phase' \in [Handlers -> [Containers -> Phases]]
    BY <1>1, <1>2, <1>3 DEF TypeOK
  <2>. QED  BY <1>1, <2>1, <2>2 DEF TypeOK
<1>5. \A k \in Handlers, b \in Containers : phase'[k][b] # "idle" => phase[k][b] # "idle"
  BY <1>1, <1>2 DEF ResetSays, TypeOK
<1>. QED  BY <1>4, <1>5, SameLocks DEF ResetSays

LEMMA ExitLocks ==
  ASSUME LockInv, NEW c \in Containers, Exit(c)
  PROVE  LockInv'
<1>1. TypeOK
  BY DEF LockInv
<1>2. TypeOK'
  <2>1. PICK d \in Conts : d = cont[c]
    BY <1>1 DEF TypeOK
  <2>2. [d EXCEPT !.stat = "stopped"] \in Conts
    BY DEF Conts
  <2>3. cont' \in [Containers -> Conts]
    BY <1>1, <2>1, <2>2 DEF Exit, TypeOK
  <2>4. failures' \in [errors : Nat, exits : Nat]
    BY <1>1 DEF Exit, TypeOK
  <2>. QED  BY <1>1, <2>3, <2>4 DEF Exit, TypeOK
<1>. QED  BY <1>2, SameLocks DEF Exit

\* One handler changes: what has to be shown of it, given what it holds.
LEMMA OneHandler ==
  ASSUME LockInv, NEW h \in Handlers, NEW r, handler' = [handler EXCEPT ![h] = r], TypeOK', HandlerGood(r), PhaseGood(h)',
         \A k \in Handlers \ {h} : phase'[k] = phase[k],
         \A k \in Handlers \ {h} : Active(r) /\ Active(handler[k]) => r.event.target # Target(k),
         \A c \in Containers : token'[c] = 1 <=> c \notin Held(r) /\ \A k \in Handlers \ {h} : c \notin Held(handler[k])
  PROVE  LockInv'
<1>1. handler'[h] = r /\ \A k \in Handlers \ {h} : handler'[k] = handler[k]
  BY DEF LockInv, TypeOK
<1>2. ASSUME NEW k \in Handlers PROVE HandlerGood(handler[k])' /\ PhaseGood(k)'
  <2>1. HandlerGood(handler[k])'
    <3>1. HandlerGood(handler'[k])
      BY <1>1 DEF LockInv
    <3>. QED  BY <3>1 DEF HandlerGood, Active, Held
  <2>2. PhaseGood(k)'
    BY <1>1 DEF LockInv, PhaseGood
  <2>. QED  BY <2>1, <2>2
<1>3. Exclusive'
  <2>1. ASSUME NEW i \in Handlers, NEW k \in Handlers, Active(handler'[i]), Active(handler'[k]),
               handler'[i].event.target = handler'[k].event.target
        PROVE  i = k
    <3>1. CASE i # h /\ k # h
      BY <1>1, <2>1, <3>1 DEF LockInv, Exclusive, Target
    <3>2. CASE i = h /\ k # h
      BY <1>1, <2>1, <3>2 DEF Target
    <3>3. CASE i # h /\ k = h
      BY <1>1, <2>1, <3>3 DEF Target
    <3>. QED  BY <3>1, <3>2, <3>3
  <2>. QED  BY <2>1 DEF Exclusive, Target, Active
<1>4. TokensRight'
  <2>1. ASSUME NEW c \in Containers PROVE token'[c] = 1 <=> \A k \in Handlers : c \notin Held(handler'[k])
    BY <1>1
  <2>. QED  BY <2>1 DEF TokensRight, Held
<1>. QED  BY <1>2, <1>3, <1>4 DEF LockInv

LEMMA MovedGood ==
  ASSUME NEW r0, NEW r, Moved(r0, r), HandlerGood(r0)
  PROVE  HandlerGood(r) /\ Active(r) /\ Active(r0) /\ Held(r) = Held(r0) /\ r.event = r0.event /\ r \in HandlerRecords
<1>1. Active(r) /\ Active(r0) /\ r.pc # "lockothers" /\ (r.pc \in {"reset", "others"} => r0.pc = "reset")
  BY DEF Moved, Active, Warming
<1>2. /\ r \in HandlerRecords /\ r.event = r0.event /\ r.locks = r0.locks /\ r.todo \subseteq r0.todo
  BY DEF Moved
<1>3. Held(r) = Held(r0)
  BY <1>2 DEF Held
<1>4. HandlerGood(r)
  BY <1>1, <1>2, <1>3 DEF HandlerGood, Active
<1>. QED  BY <1>1, <1>2, <1>3, <1>4

LEMMA MoveLocks ==
  ASSUME LockInv, NEW h \in Handlers, MoveSays(h)
  PROVE  LockInv'
<1>1. TypeOK /\ HandlerGood(handler[h]) /\ PhaseGood(h) /\ Exclusive /\ TokensRight
  BY DEF LockInv
<1>2. PICK r : Moved(handler[h], r) /\ handler' = [handler EXCEPT ![h] = r]
  BY DEF MoveSays
<1>3. /\ HandlerGood(r) /\ Active(r) /\ Active(handler[h]) /\ Held(r) = Held(handler[h])
      /\ r.event = handler[h].event /\ r \in HandlerRecords
  BY <1>1, <1>2, MovedGood
<1>4. phase' \in [Handlers -> [Containers -> Phases]] /\ \A k \in Handlers \ {h} : phase'[k] = phase[k]
  <2>1. CASE phase' = phase
    BY <1>1, <2>1 DEF TypeOK
  <2>2. ASSUME NEW f \in [Containers -> {"idle", "look", "ok"}], phase' = [phase EXCEPT ![h] = f]
        PROVE  phase' \in [Handlers -> [Containers -> Phases]] /\ \A k \in Handlers \ {h} : phase'[k] = phase[k]
    <3>1. f \in [Containers -> Phases]
      BY DEF Phases
    <3>. QED  BY <1>1, <2>2, <3>1 DEF TypeOK
  <2>. QED  BY <2>1, <2>2 DEF MoveSays
<1>5. TypeOK'
  <2>1. handler' \in [Handlers -> HandlerRecords]
    BY <1>1, <1>2, <1>3 DEF TypeOK
  <2>2. cont' \in [Containers -> Conts]
    BY <1>1 DEF TypeOK, MoveSays
  <2>3. token' = token /\ pids' \subseteq Handlers /\ failures' \in [errors : Nat, exits : Nat]
    BY <1>1 DEF TypeOK, MoveSays
  <2>. QED  BY <1>1, <1>4, <2>1, <2>2, <2>3 DEF TypeOK
<1>6. handler'[h] = r
  BY <1>1, <1>2 DEF TypeOK
<1>7. PhaseGood(h)'
  <2>1. CASE phase' = phase /\ handler[h].pc \notin {"reset", "others"}
    BY <1>1, <2>1 DEF PhaseGood
  <2>2. ASSUME NEW f \in [Containers -> {"idle", "look", "ok"}], phase' = [phase EXCEPT ![h] = f],
               \A c \in Containers : f[c] # "idle" => handler[h].pc = "reset" /\ c \in Group(handler[h].event),
               handler'[h].pc = "unlock" => \A c \in Containers : f[c] = "idle"
        PROVE  PhaseGood(h)'
    <3>1. phase'[h] = f
      BY <1>1, <2>2 DEF TypeOK
    <3>2. handler[h].pc = "reset" => r.pc \in {"others", "unlock"}
      BY <1>2 DEF Moved, Warming
    <3>3. ASSUME NEW c \in Containers, f[c] # "idle" PROVE r.pc \in {"reset", "others"} /\ c \in Group(r.event)
      BY <1>3, <1>6, <2>2, <3>2, <3>3
    <3>. QED  BY <1>6, <3>1, <3>3 DEF PhaseGood, Group
  <2>. QED  BY <2>1, <2>2 DEF MoveSays
<1>8. \A k \in Handlers \ {h} : Active(r) /\ Active(handler[k]) => r.event.target # Target(k)
  BY <1>1, <1>3 DEF Exclusive, Target
<1>9. \A c \in Containers : token'[c] = 1 <=> c \notin Held(r) /\ \A k \in Handlers \ {h} : c \notin Held(handler[k])
  <2>1. token' = token
    BY DEF MoveSays
  <2>. QED  BY <1>1, <1>3, <2>1 DEF TokensRight
<1>. QED  BY <1>2, <1>3, <1>4, <1>5, <1>7, <1>8, <1>9, OneHandler

LEMMA CallLocks ==
  ASSUME LockInv, NEW h \in Handlers, NEW e \in Events, Call(h, e)
  PROVE  LockInv'
<1>1. TypeOK /\ HandlerGood(handler[h]) /\ PhaseGood(h) /\ TokensRight
  BY DEF LockInv
<1>2. PICK r0 \in HandlerRecords : r0 = handler[h]
  BY <1>1 DEF TypeOK
<1>3. PICK r : r = [r0 EXCEPT !.pc = "lock", !.event = e]
  OBVIOUS
<1>4. r \in HandlerRecords /\ r.pc = "lock" /\ r.event = e /\ r.locks = r0.locks
  BY <1>3 DEF HandlerRecords
<1>5. r0.pc = "idle" /\ r0.locks = << >>
  BY <1>1, <1>2 DEF Call, At, HandlerGood
<1>6. handler' = [handler EXCEPT ![h] = r] /\ token' = token /\ phase' = phase
  BY <1>2, <1>3 DEF Call
<1>7. HandlerGood(r) /\ ~Active(r) /\ Held(r) = {} /\ Held(r0) = {}
  BY <1>4, <1>5 DEF HandlerGood, Active, Held
<1>8. TypeOK'
  BY <1>1, <1>4, <1>6 DEF TypeOK, Call
<1>9. PhaseGood(h)'
  BY <1>1, <1>2, <1>5, <1>6 DEF PhaseGood
<1>10. \A c \in Containers : token'[c] = 1 <=> c \notin Held(r) /\ \A k \in Handlers \ {h} : c \notin Held(handler[k])
  BY <1>1, <1>2, <1>6, <1>7 DEF TokensRight
<1>. QED  BY <1>6, <1>7, <1>8, <1>9, <1>10, OneHandler

LEMMA FirstStepFacts ==
  ASSUME NEW h, NEW e, e = handler[h].event
  PROVE  \/ FirstStep(h) = "reset" /\ e.others = {}
         \/ FirstStep(h) = "lockothers" /\ e.others # {}
         \/ FirstStep(h) \in {"info", "scale"}
BY DEF FirstStep, Others

LEMMA LockLocks ==
  ASSUME LockInv, NEW h \in Handlers, Lock(h)
  PROVE  LockInv'
<1>1. TypeOK /\ HandlerGood(handler[h]) /\ PhaseGood(h) /\ TokensRight
  BY DEF LockInv
<1>2. PICK r0 \in HandlerRecords : r0 = handler[h]
  BY <1>1 DEF TypeOK
<1>3. r0.pc = "lock" /\ r0.locks = << >> /\ r0.event \in Events
  BY <1>1, <1>2 DEF Lock, At, HandlerGood
<1>4. PICK e \in Events : e = r0.event
  BY <1>3
<1>5. e.target \in Containers /\ e.others \subseteq Containers /\ e.target \notin e.others
  BY EventsAssumption DEF EventRecords
<1>6. PICK t \in Containers : t = e.target
  BY <1>5
<1>7. Target(h) = t /\ Others(h) = e.others
  BY <1>2, <1>4, <1>6 DEF Target, Others
<1>8. token' = [token EXCEPT ![t] = 0] /\ cont' = cont /\ pids' = pids /\ failures' = failures
  BY <1>7 DEF Lock
<1>9. Held(r0) = {} /\ ~Active(r0)
  BY <1>3 DEF Held, Active
<1>10. \A c \in Containers : phase[h][c] = "idle"
  BY <1>1, <1>2, <1>3 DEF PhaseGood
<1>11. token' \in [Containers -> {0, 1}]
  BY <1>1, <1>8 DEF TypeOK
<1>12. CASE token[t] = 1
  <2>1. PICK first : first = FirstStep(h)
    OBVIOUS
  <2>2. \/ first = "reset" /\ e.others = {}
        \/ first = "lockothers" /\ e.others # {}
        \/ first \in {"info", "scale"}
    BY <1>2, <1>4, <2>1, FirstStepFacts
  <2>3. PICK r : r = [r0 EXCEPT !.pc = first, !.todo = e.others, !.locks = <<t>>]
    OBVIOUS
  <2>4. handler' = [handler EXCEPT ![h] = r]
    BY <1>2, <1>7, <1>12, <2>1, <2>3 DEF Lock
  <2>5. r \in HandlerRecords /\ r.pc = first /\ r.todo = e.others /\ r.locks = <<t>> /\ r.event = e
    <3>1. <<t>> \in Seq(Containers) /\ e.others \in SUBSET Containers
      BY <1>5
    <3>. QED  BY <1>4, <2>2, <2>3, <3>1 DEF HandlerRecords
  <2>6. Held(r) = {t} /\ Active(r)
    <3>1. Len(r.locks) = 1 /\ r.locks[1] = t
      BY <2>5
    <3>. QED  BY <2>2, <2>5, <3>1 DEF Held, Active
  <2>7. HandlerGood(r)
    <3>1. Len(r.locks) = 1 /\ r.locks[1] = t
      BY <2>5
    <3>2. \A i \in 2..Len(r.locks) : r.locks[i] \in r.event.others
      BY <3>1
    <3>3. \A i, j \in 1..Len(r.locks) : r.locks[i] = r.locks[j] => i = j
      BY <3>1
    <3>4. r.pc = "lockothers" => \A c \in r.event.others : c \in Held(r) <=> c \notin r.todo
      BY <1>5, <1>6, <2>5, <2>6
    <3>5. r.pc \in {"reset", "others"} => r.event.others \subseteq Held(r)
      BY <2>2, <2>5
    <3>6. r.pc # "idle" /\ r.pc # "lock"
      BY <2>2, <2>5
    <3>. QED  BY <1>6, <2>5, <3>1, <3>2, <3>3, <3>4, <3>5, <3>6 DEF HandlerGood
  <2>8. /\ phase' \in [Handlers -> [Containers -> Phases]] /\ \A k \in Handlers \ {h} : phase'[k] = phase[k]
        /\ \A c \in Containers : phase'[h][c] # "idle" => first = "reset" /\ c = t
    <3>1. CASE first = "reset"
      <4>1. phase' = [phase EXCEPT ![h][t] = "look"]
        BY <1>7, <1>12, <2>1, <3>1 DEF Lock, EnterReset
      <4>2. "look" \in Phases
        BY DEF Phases
      <4>. QED  BY <1>1, <1>10, <3>1, <4>1, <4>2 DEF TypeOK
    <3>2. CASE first # "reset"
      <4>1. phase' = phase
        BY <2>1, <3>2 DEF Lock
      <4>. QED  BY <1>1, <1>10, <4>1 DEF TypeOK
    <3>. QED  BY <3>1, <3>2
  <2>9. TypeOK'
    <3>1. handler' \in [Handlers -> HandlerRecords]
      BY <1>1, <2>4, <2>5 DEF TypeOK
    <3>. QED  BY <1>1, <1>8, <1>11, <2>8, <3>1 DEF TypeOK
  <2>10. PhaseGood(h)'
    <3>1. handler'[h] = r
      BY <1>1, <2>4 DEF TypeOK
    <3>. QED  BY <1>6, <2>5, <2>8, <3>1 DEF PhaseGood, Group
  <2>11. ASSUME NEW k \in Handlers \ {h}, Active(handler[k]) PROVE r.event.target # Target(k)
    <3>1. Target(k) \in Held(handler[k])
      BY <1>1, <2>11, Typed, HeldFacts DEF LockInv, Target
    <3>2. t \notin Held(handler[k])
      BY <1>1, <1>12 DEF TokensRight
    <3>. QED  BY <1>6, <2>5, <3>1, <3>2
  <2>12. \A c \in Containers : token'[c] = 1 <=> c \notin Held(r) /\ \A k \in Handlers \ {h} : c \notin Held(handler[k])
    <3>1. \A c \in Containers : token[c] = 1 <=> \A k \in Handlers \ {h} : c \notin Held(handler[k])
      BY <1>1, <1>2, <1>9 DEF TokensRight
    <3>2. \A c \in Containers : token'[c] = IF c = t THEN 0 ELSE token[c]
      BY <1>1, <1>8 DEF TypeOK
    <3>. QED  BY <2>6, <3>1, <3>2
  <2>. QED  BY <2>4, <2>7, <2>8, <2>9, <2>10, <2>11, <2>12, OneHandler
<1>13. CASE token[t] # 1
  <2>1. handler' = [handler EXCEPT ![h] = IdleHandler] /\ phase' = phase
    BY <1>7, <1>13 DEF Lock
  <2>2. token' = token
    BY <1>1, <1>8, <1>13 DEF TypeOK
  <2>3. IdleHandler \in HandlerRecords /\ IdleHandler.pc = "idle" /\ IdleHandler.locks = << >>
    <3>1. << >> \in Seq(Containers)
      OBVIOUS
    <3>. QED  BY <3>1 DEF IdleHandler, HandlerRecords
  <2>4. HandlerGood(IdleHandler) /\ Held(IdleHandler) = {} /\ ~Active(IdleHandler)
    BY <2>3 DEF HandlerGood, Held, Active
  <2>5. TypeOK'
    BY <1>1, <1>8, <2>1, <2>2, <2>3 DEF TypeOK
  <2>6. PhaseGood(h)'
    BY <1>10, <2>1 DEF PhaseGood
  <2>7. \A c \in Containers : token'[c] = 1 <=> c \notin Held(IdleHandler) /\ \A k \in Handlers \ {h} : c \notin Held(handler[k])
    BY <1>1, <1>2, <1>9, <2>2, <2>4 DEF TokensRight
  <2>. QED  BY <2>1, <2>4, <2>5, <2>6, <2>7, OneHandler
<1>. QED  BY <1>12, <1>13

\* The other containers of a group are nobody's while the handler takes them.
LEMMA OthersFree ==
  ASSUME GroupsDisjoint, LockInv, NEW h \in Handlers, NEW c \in handler[h].todo, handler[h].pc = "lockothers"
  PROVE  \A k \in Handlers : c \notin Held(handler[k])
<1>1. Active(handler[h]) /\ c \in handler[h].event.others /\ c \notin Held(handler[h])
  BY DEF LockInv, HandlerGood, Active
<1>2. ASSUME NEW k \in Handlers, k # h, c \in Held(handler[k]) PROVE FALSE
  <2>1. Active(handler[k]) /\ c \in Group(handler[k].event)
    BY <1>2, Typed, HeldFacts DEF LockInv
  <2>2. c \in Group(handler[h].event)
    BY <1>1 DEF Group
  <2>. QED  BY <1>1, <1>2, <2>1, <2>2, OneOwner
<1>. QED  BY <1>1, <1>2

LEMMA LockOtherLocks ==
  ASSUME GroupsDisjoint, LockInv, NEW h \in Handlers, NEW c \in Containers, LockOther(h, c)
  PROVE  LockInv'
<1>1. TypeOK /\ HandlerGood(handler[h]) /\ PhaseGood(h) /\ TokensRight /\ Exclusive
  BY DEF LockInv
<1>2. PICK r0 \in HandlerRecords : r0 = handler[h]
  BY <1>1 DEF TypeOK
<1>3. r0.pc = "lockothers" /\ c \in r0.todo /\ Active(r0) /\ HandlerGood(r0)
  BY <1>1, <1>2 DEF LockOther, At, Active
<1>4. \A k \in Handlers : c \notin Held(handler[k])
  BY <1>2, <1>3, OthersFree
<1>5. PICK e \in Events : e = r0.event
  BY <1>3 DEF HandlerGood
<1>6. /\ r0.todo \subseteq e.others /\ Len(r0.locks) >= 1 /\ r0.locks[1] = e.target
      /\ \A i \in 2..Len(r0.locks) : r0.locks[i] \in e.others
      /\ \A i, j \in 1..Len(r0.locks) : r0.locks[i] = r0.locks[j] => i = j
      /\ \A b \in e.others : b \in Held(r0) <=> b \notin r0.todo
  BY <1>3, <1>5 DEF HandlerGood
<1>7. PICK s : s = Append(r0.locks, c)
  OBVIOUS
<1>8. PICK n \in Nat : n = Len(r0.locks)
  BY DEF HandlerRecords
<1>9. /\ s \in Seq(Containers) /\ Len(s) = n + 1
      /\ \A i \in 1..n : s[i] = r0.locks[i]
      /\ s[n + 1] = c
      /\ {s[i] : i \in 1..Len(s)} = Held(r0) \cup {c}
      /\ \A i, j \in 1..Len(s) : s[i] = s[j] => i = j
  <2>1. Longer(r0, c, s)
    BY <1>2, <1>3, <1>4, <1>7, AppendLock
  <2>. QED  BY <1>8, <2>1 DEF Longer
<1>10. PICK pc \in {"lockothers", "reset"} : pc = IF r0.todo = {c} THEN "reset" ELSE r0.pc
  BY <1>3
<1>11. PICK r : r = [r0 EXCEPT !.pc = pc, !.todo = r0.todo \ {c}, !.locks = s]
  OBVIOUS
<1>12. r \in HandlerRecords /\ r.pc = pc /\ r.todo = r0.todo \ {c} /\ r.locks = s /\ r.event = e
  BY <1>5, <1>9, <1>11 DEF HandlerRecords
<1>13. handler' = [handler EXCEPT ![h] = r]
  <2>1. handler' = [handler EXCEPT ![h].pc = IF handler[h].todo = {c} THEN "reset" ELSE @,
                                   ![h].todo = @ \ {c}, ![h].locks = Append(@, c)]
    BY DEF LockOther
  <2>. QED  BY <1>1, <1>2, <1>7, <1>10, <1>11, <2>1 DEF TypeOK
<1>14. token' = [token EXCEPT ![c] = 0] /\ cont' = cont /\ pids' = pids /\ failures' = failures
  BY DEF LockOther
<1>15. Held(r) = Held(r0) \cup {c} /\ Active(r)
  <2>1. Held(r) = {s[i] : i \in 1..Len(s)}
    BY <1>12 DEF Held
  <2>. QED  BY <1>9, <1>12, <2>1 DEF Active
<1>16. HandlerGood(r)
  <2>1. Len(r.locks) >= 1 /\ r.locks[1] = e.target
    BY <1>6, <1>8, <1>9, <1>12
  <2>2. ASSUME NEW i \in 2..Len(r.locks) PROVE r.locks[i] \in e.others
    <3>1. i \in 2..n \/ i = n + 1
      BY <1>9, <1>12
    <3>2. CASE i \in 2..n
      BY <1>6, <1>8, <1>9, <1>12, <3>2
    <3>3. CASE i = n + 1
      BY <1>3, <1>6, <1>9, <1>12, <3>3
    <3>. QED  BY <3>1, <3>2, <3>3
  <2>3. \A b \in e.others : b \in Held(r) <=> b \notin r.todo
    BY <1>3, <1>6, <1>12, <1>15
  <2>4. pc = "reset" => e.others \subseteq Held(r)
    BY <1>3, <1>6, <1>10, <1>15
  <2>. QED  BY <1>5, <1>6, <1>9, <1>12, <2>1, <2>2, <2>3, <2>4 DEF HandlerGood
<1>17. /\ phase' \in [Handlers -> [Containers -> Phases]] /\ \A k \in Handlers \ {h} : phase'[k] = phase[k]
       /\ \A b \in Containers : phase'[h][b] # "idle" => pc = "reset" /\ b = e.target
  <2>1. \A b \in Containers : phase[h][b] = "idle"
    BY <1>1, <1>2, <1>3 DEF PhaseGood
  <2>2. CASE r0.todo = {c}
    <3>1. phase' = [phase EXCEPT ![h][e.target] = "look"]
      BY <1>2, <1>5, <2>2 DEF LockOther, EnterReset, Target
    <3>2. "look" \in Phases
      BY DEF Phases
    <3>. QED  BY <1>1, <1>10, <2>1, <2>2, <3>1, <3>2 DEF TypeOK
  <2>3. CASE r0.todo # {c}
    <3>1. phase' = phase
      BY <1>2, <2>3 DEF LockOther
    <3>. QED  BY <1>1, <2>1, <3>1 DEF TypeOK
  <2>. QED  BY <2>2, <2>3
<1>18. TypeOK'
  <2>1. handler' \in [Handlers -> HandlerRecords] /\ token' \in [Containers -> {0, 1}]
    BY <1>1, <1>12, <1>13, <1>14 DEF TypeOK
  <2>. QED  BY <1>1, <1>14, <1>17, <2>1 DEF TypeOK
<1>19. PhaseGood(h)'
  <2>1. handler'[h] = r
    BY <1>1, <1>13 DEF TypeOK
  <2>. QED  BY <1>12, <1>17, <2>1 DEF PhaseGood, Group
<1>20. \A k \in Handlers \ {h} : Active(r) /\ Active(handler[k]) => r.event.target # Target(k)
  BY <1>1, <1>2, <1>3, <1>5, <1>12 DEF Exclusive, Target
<1>21. \A b \in Containers : token'[b] = 1 <=> b \notin Held(r) /\ \A k \in Handlers \ {h} : b \notin Held(handler[k])
  <2>1. \A b \in Containers : token[b] = 1 <=> b \notin Held(r0) /\ \A k \in Handlers \ {h} : b \notin Held(handler[k])
    BY <1>1, <1>2 DEF TokensRight
  <2>2. \A b \in Containers : token'[b] = IF b = c THEN 0 ELSE token[b]
    BY <1>1, <1>14 DEF TypeOK
  <2>. QED  BY <1>15, <2>1, <2>2
<1>. QED  BY <1>13, <1>16, <1>17, <1>18, <1>19, <1>20, <1>21, OneHandler

\* UnLock: the last container that the handler took is free again, and only it.
Released(h, r, c) ==
  /\ handler' = [handler EXCEPT ![h] = r] /\ r \in HandlerRecords /\ HandlerGood(r)
  /\ c \in Containers /\ c \in Held(handler[h]) /\ Held(r) = Held(handler[h]) \ {c}
  /\ Active(r) => r.event = handler[h].event /\ r.pc = "unlock"

LEMMA UnLockEffect ==
  ASSUME LockInv, NEW h \in Handlers, UnLock(h)
  PROVE  \E r : Released(h, r, Last(handler[h].locks))
<1>1. TypeOK /\ HandlerGood(handler[h])
  BY DEF LockInv
<1>2. PICK r0 \in HandlerRecords : r0 = handler[h]
  BY <1>1 DEF TypeOK
<1>3. r0.pc = "unlock" /\ Active(r0) /\ HandlerGood(r0)
  BY <1>1, <1>2 DEF UnLock, At, Active
<1>4. PICK c, s : c = Last(r0.locks) /\ s = Front(r0.locks)
  OBVIOUS
<1>5. Shorter(r0, c, s)
  BY <1>3, <1>4, FrontLock
<1>6. PICK n \in Nat : n = Len(r0.locks)
  BY DEF HandlerRecords
<1>7. n >= 1 /\ r0.locks[1] = r0.event.target /\ r0.event \in Events /\ r0.todo \subseteq r0.event.others
      /\ \A i \in 2..n : r0.locks[i] \in r0.event.others
  BY <1>3, <1>6 DEF HandlerGood
<1>8. CASE n = 1
  <2>1. handler' = [handler EXCEPT ![h] = IdleHandler]
    BY <1>2, <1>6, <1>8 DEF UnLock
  <2>2. IdleHandler \in HandlerRecords /\ IdleHandler.pc = "idle" /\ IdleHandler.locks = << >>
    <3>1. << >> \in Seq(Containers)
      OBVIOUS
    <3>. QED  BY <3>1 DEF IdleHandler, HandlerRecords
  <2>3. HandlerGood(IdleHandler) /\ Held(IdleHandler) = {} /\ ~Active(IdleHandler)
    BY <2>2 DEF HandlerGood, Held, Active
  <2>4. Held(r0) \ {c} = {}
    <3>1. Len(s) = 0
      BY <1>5, <1>6, <1>8 DEF Shorter
    <3>2. {s[i] : i \in 1..Len(s)} = {}
      BY <3>1
    <3>. QED  BY <1>5, <3>2 DEF Shorter
  <2>. QED  BY <1>2, <1>4, <1>5, <2>1, <2>2, <2>3, <2>4 DEF Released, Shorter
<1>9. CASE n # 1
  <2>1. PICK r : r = [r0 EXCEPT !.locks = s]
    OBVIOUS
  <2>2. handler' = [handler EXCEPT ![h] = r]
    BY <1>2, <1>4, <1>6, <1>9, <2>1 DEF UnLock
  <2>3. r \in HandlerRecords /\ r.locks = s /\ r.pc = r0.pc /\ r.event = r0.event /\ r.todo = r0.todo
    BY <1>5, <2>1 DEF HandlerRecords, Shorter
  <2>4. Held(r) = {s[i] : i \in 1..Len(s)}
    BY <2>3 DEF Held
  <2>5. Held(r) = Held(r0) \ {c} /\ c \in Held(r0) /\ c \in Containers
    BY <1>5, <2>4 DEF Shorter
  <2>6. Len(s) = n - 1 /\ \A i \in 1..(n - 1) : s[i] = r0.locks[i]
    BY <1>5, <1>6 DEF Shorter
  <2>7. HandlerGood(r)
    <3>1. Len(s) >= 1 /\ s[1] = r.event.target
      BY <1>7, <1>9, <2>3, <2>6
    <3>2. \A i \in 2..Len(s) : s[i] \in r.event.others
      BY <1>7, <2>3, <2>6
    <3>3. \A i, j \in 1..Len(s) : s[i] = s[j] => i = j
      BY <1>5 DEF Shorter
    <3>. QED  BY <1>3, <1>7, <2>3, <3>1, <3>2, <3>3 DEF HandlerGood
  <2>. QED  BY <1>2, <1>3, <1>4, <2>2, <2>3, <2>5, <2>7 DEF Released
<1>. QED  BY <1>8, <1>9

LEMMA UnLockLocks ==
  ASSUME GroupsDisjoint, LockInv, NEW h \in Handlers, UnLock(h)
  PROVE  LockInv'
<1>1. TypeOK /\ HandlerGood(handler[h]) /\ PhaseGood(h) /\ TokensRight /\ Exclusive
  BY DEF LockInv
<1>2. PICK c : c = Last(handler[h].locks)
  OBVIOUS
<1>3. PICK r : Released(h, r, c)
  BY <1>2, UnLockEffect
<1>4. token' = [token EXCEPT ![c] = 1] /\ phase' = phase /\ cont' = cont /\ pids' = pids \ {h} /\ failures' = failures
  BY <1>2 DEF UnLock
<1>5. TypeOK'
  <2>1. handler' \in [Handlers -> HandlerRecords] /\ token' \in [Containers -> {0, 1}]
    BY <1>1, <1>3, <1>4 DEF TypeOK, Released
  <2>. QED  BY <1>1, <1>4, <2>1 DEF TypeOK
<1>6. \A b \in Containers : phase[h][b] = "idle"
  BY <1>1 DEF PhaseGood, UnLock, At
<1>7. PhaseGood(h)'
  BY <1>4, <1>6 DEF PhaseGood
<1>8. Active(handler[h])
  BY DEF UnLock, At, Active
<1>9. \A k \in Handlers \ {h} : Active(r) /\ Active(handler[k]) => r.event.target # Target(k)
  BY <1>1, <1>3, <1>8 DEF Exclusive, Target, Released
<1>10. ASSUME NEW k \in Handlers \ {h} PROVE c \notin Held(handler[k])
  <2>1. Held(handler[h]) \subseteq Group(handler[h].event)
    BY <1>1, <1>8, Typed, HeldFacts
  <2>2. c \in Held(handler[k]) => Active(handler[k]) /\ c \in Group(handler[k].event)
    BY Typed, HeldFacts DEF LockInv
  <2>. QED  BY <1>3, <1>8, <2>1, <2>2, OneOwner DEF Released
<1>11. \A b \in Containers : token'[b] = 1 <=> b \notin Held(r) /\ \A k \in Handlers \ {h} : b \notin Held(handler[k])
  <2>1. \A b \in Containers : token[b] = 1 <=> b \notin Held(handler[h]) /\ \A k \in Handlers \ {h} : b \notin Held(handler[k])
    BY <1>1 DEF TokensRight
  <2>2. \A b \in Containers : token'[b] = IF b = c THEN 1 ELSE token[b]
    BY <1>1, <1>4 DEF TypeOK
  <2>3. Held(r) = Held(handler[h]) \ {c}
    BY <1>3 DEF Released
  <2>. QED  BY <1>10, <2>1, <2>2, <2>3
<1>12. handler' = [handler EXCEPT ![h] = r] /\ HandlerGood(r) /\ \A k \in Handlers \ {h} : phase'[k] = phase[k]
  BY <1>3, <1>4 DEF Released
<1>. QED  BY <1>5, <1>7, <1>9, <1>11, <1>12, OneHandler

LEMMA LockStart == Init => LockInv
<1>. SUFFICES ASSUME Init PROVE LockInv
  OBVIOUS
<1>1. IdleHandler \in HandlerRecords /\ IdleHandler.pc = "idle" /\ IdleHandler.locks = << >>
  <2>1. << >> \in Seq(Containers)
    OBVIOUS
  <2>. QED  BY <2>1 DEF IdleHandler, HandlerRecords
<1>2. HandlerGood(IdleHandler) /\ Held(IdleHandler) = {} /\ ~Active(IdleHandler)
  BY <1>1 DEF HandlerGood, Held, Active
<1>3. TypeOK
  <2>1. BootOutcomes \subseteq Conts
    <3>1. NewContainer \in Conts /\ NoContainer \in Conts
      BY DEF NewContainer, NoContainer, Conts
    <3>2. [NoContainer EXCEPT !.paths = TRUE] \in Conts
      BY <3>1 DEF Conts
    <3>. QED  BY <3>1, <3>2 DEF BootOutcomes
  <2>2. cont \in [Containers -> Conts]
    BY <2>1 DEF Init
  <2>3. "idle" \in Phases
    BY DEF Phases
  <2>. QED  BY <1>1, <2>2, <2>3 DEF Init, TypeOK
<1>4. \A h \in Handlers : handler[h] = IdleHandler
  BY DEF Init
<1>5. \A h \in Handlers : PhaseGood(h)
  BY DEF Init, PhaseGood
<1>6. Exclusive
  BY <1>2, <1>4 DEF Exclusive
<1>7. TokensRight
  BY <1>2, <1>4 DEF Init, TokensRight
<1>. QED  BY <1>2, <1>3, <1>4, <1>5, <1>6, <1>7 DEF LockInv

LEMMA LockStep == GroupsDisjoint /\ LockInv /\ [Next]_vars => LockInv'
<1>. SUFFICES ASSUME GroupsDisjoint, LockInv, [Next]_vars PROVE LockInv'
  OBVIOUS
<1>1. ASSUME NEW h \in Handlers, NEW e \in Events, Call(h, e) PROVE LockInv'
  BY <1>1, CallLocks
<1>2. ASSUME NEW h \in Handlers, HandlerStep(h) PROVE LockInv'
  <2>1. CASE Lock(h)
    BY <2>1, LockLocks
  <2>2. CASE UnLock(h)
    BY <2>2, UnLockLocks
  <2>3. CASE Move(h)
    BY <2>3, MoveEffect, MoveLocks
  <2>4. ASSUME NEW c \in Containers, LockOther(h, c) PROVE LockInv'
    BY <2>4, LockOtherLocks
  <2>. QED  BY <1>2, <2>1, <2>2, <2>3, <2>4 DEF HandlerStep, Move
<1>3. ASSUME NEW h \in Handlers, NEW c \in Containers, ResetStep(h, c) PROVE LockInv'
  <2>1. ResetSays(h, c)
    BY <1>3, ResetEffect DEF LockInv
  <2>. QED  BY <2>1, ResetLocks
<1>4. ASSUME NEW c \in Containers, Exit(c) PROVE LockInv'
  BY <1>4, ExitLocks
<1>5. CASE UNCHANGED vars
  <2>1. TypeOK'
    BY <1>5 DEF vars, LockInv, TypeOK
  <2>. QED  BY <1>5, <2>1, SameLocks DEF vars
<1>. QED  BY <1>1, <1>2, <1>3, <1>4, <1>5 DEF Next

\* What the event locks keep: every handler holds its target and then its group, nobody
\* else does, and a channel is empty exactly while its container is held.
THEOREM LocksAlways ==
  ASSUME GroupsDisjoint
  PROVE  Spec => []LockInv
<1>1. LockInv /\ [Next]_vars => LockInv'
  BY LockStep
<1>. QED  BY <1>1, LockStart, PTL DEF Spec

-----------------------------------------------------------------------------
(* The refinement of EventMutex *)

OwnersNow == [c \in Containers |-> {h \in Handlers : Working(h, c)}]

LEMMA WorkingHeld ==
  ASSUME TypeOK, NEW h \in Handlers, NEW c
  PROVE  Working(h, c) <=> c \in Held(handler[h])
<1>1. PICK l \in Seq(Containers) : l = handler[h].locks
  BY DEF TypeOK, HandlerRecords
<1>2. DOMAIN l = 1..Len(l)
  OBVIOUS
<1>. QED  BY <1>1, <1>2 DEF Working, Held

\* When one handler changes, so does what it owns, and nothing else.
LEMMA OwnersChange ==
  ASSUME TypeOK, TypeOK', NEW h \in Handlers, NEW r, handler' = [handler EXCEPT ![h] = r]
  PROVE  /\ OwnersNow \in [Containers -> SUBSET Handlers] /\ OwnersNow' \in [Containers -> SUBSET Handlers]
         /\ \A c \in Containers : OwnersNow'[c] = IF c \in Held(r) THEN OwnersNow[c] \cup {h} ELSE OwnersNow[c] \ {h}
         /\ \A c \in Containers : h \in OwnersNow[c] <=> c \in Held(handler[h])
<1>1. OwnersNow \in [Containers -> SUBSET Handlers] /\ OwnersNow' \in [Containers -> SUBSET Handlers]
  BY DEF OwnersNow
<1>2. \A c \in Containers, k \in Handlers : k \in OwnersNow[c] <=> c \in Held(handler[k])
  BY WorkingHeld DEF OwnersNow
<1>3. ASSUME NEW c \in Containers, NEW k \in Handlers PROVE k \in OwnersNow'[c] <=> c \in Held(handler'[k])
  <2>1. k \in OwnersNow'[c] <=> Working(k, c)'
    BY DEF OwnersNow
  <2>2. PICK l \in Seq(Containers) : l = handler'[k].locks
    BY DEF TypeOK, HandlerRecords
  <2>3. DOMAIN l = 1..Len(l)
    OBVIOUS
  <2>4. Working(k, c)' <=> c \in Held(handler'[k])
    BY <2>2, <2>3 DEF Working, Held
  <2>. QED  BY <2>1, <2>4
<1>4. handler'[h] = r /\ \A k \in Handlers \ {h} : handler'[k] = handler[k]
  BY DEF TypeOK
<1>5. ASSUME NEW c \in Containers
      PROVE  OwnersNow'[c] = IF c \in Held(r) THEN OwnersNow[c] \cup {h} ELSE OwnersNow[c] \ {h}
  <2>1. \A k \in Handlers : k \in OwnersNow'[c] <=> IF k = h THEN c \in Held(r) ELSE k \in OwnersNow[c]
    BY <1>2, <1>3, <1>4
  <2>2. OwnersNow[c] \subseteq Handlers /\ OwnersNow'[c] \subseteq Handlers
    BY <1>1
  <2>. QED  BY <2>1, <2>2
<1>. QED  BY <1>1, <1>2, <1>5

LEMMA SameOwners ==
  ASSUME TypeOK, TypeOK', NEW h \in Handlers, NEW r, handler' = [handler EXCEPT ![h] = r], Held(r) = Held(handler[h])
  PROVE  OwnersNow' = OwnersNow
<1>1. /\ OwnersNow \in [Containers -> SUBSET Handlers] /\ OwnersNow' \in [Containers -> SUBSET Handlers]
      /\ \A c \in Containers : OwnersNow'[c] = IF c \in Held(r) THEN OwnersNow[c] \cup {h} ELSE OwnersNow[c] \ {h}
      /\ \A c \in Containers : h \in OwnersNow[c] <=> c \in Held(handler[h])
  BY OwnersChange
<1>2. \A c \in Containers : OwnersNow'[c] = OwnersNow[c]
  BY <1>1
<1>. QED  BY <1>1, <1>2

LEMMA Acquires ==
  ASSUME TypeOK, TypeOK', NEW h \in Handlers, NEW c \in Containers, NEW r, handler' = [handler EXCEPT ![h] = r],
         Held(r) = Held(handler[h]) \cup {c}, \A k \in Handlers : c \notin Held(handler[k])
  PROVE  OwnersNow[c] = {} /\ OwnersNow' = [OwnersNow EXCEPT ![c] = {h}]
<1>1. /\ OwnersNow \in [Containers -> SUBSET Handlers] /\ OwnersNow' \in [Containers -> SUBSET Handlers]
      /\ \A b \in Containers : OwnersNow'[b] = IF b \in Held(r) THEN OwnersNow[b] \cup {h} ELSE OwnersNow[b] \ {h}
      /\ \A b \in Containers : h \in OwnersNow[b] <=> b \in Held(handler[h])
  BY OwnersChange
<1>2. OwnersNow[c] = {}
  BY WorkingHeld DEF OwnersNow
<1>3. ASSUME NEW b \in Containers PROVE OwnersNow'[b] = IF b = c THEN {h} ELSE OwnersNow[b]
  <2>1. CASE b = c
    <3>1. c \in Held(r)
      OBVIOUS
    <3>2. OwnersNow'[c] = OwnersNow[c] \cup {h}
      BY <1>1, <3>1
    <3>. QED  BY <1>2, <2>1, <3>2
  <2>2. CASE b # c
    <3>1. b \in Held(r) <=> h \in OwnersNow[b]
      BY <1>1, <2>2
    <3>2. PICK O, P : O = OwnersNow[b] /\ P = OwnersNow'[b]
      OBVIOUS
    <3>3. P = IF h \in O THEN O \cup {h} ELSE O \ {h}
      BY <1>1, <3>1, <3>2
    <3>4. P = O
      BY <3>3
    <3>. QED  BY <2>2, <3>2, <3>4
  <2>. QED  BY <2>1, <2>2
<1>. QED  BY <1>1, <1>2, <1>3

LEMMA Releases ==
  ASSUME TypeOK, TypeOK', NEW h \in Handlers, NEW c \in Containers, NEW r, handler' = [handler EXCEPT ![h] = r],
         c \in Held(handler[h]), Held(r) = Held(handler[h]) \ {c}, \A k \in Handlers \ {h} : c \notin Held(handler[k])
  PROVE  OwnersNow[c] = {h} /\ OwnersNow' = [OwnersNow EXCEPT ![c] = {}]
<1>1. /\ OwnersNow \in [Containers -> SUBSET Handlers] /\ OwnersNow' \in [Containers -> SUBSET Handlers]
      /\ \A b \in Containers : OwnersNow'[b] = IF b \in Held(r) THEN OwnersNow[b] \cup {h} ELSE OwnersNow[b] \ {h}
      /\ \A b \in Containers : h \in OwnersNow[b] <=> b \in Held(handler[h])
  BY OwnersChange
<1>2. OwnersNow[c] = {h}
  BY WorkingHeld DEF OwnersNow
<1>3. ASSUME NEW b \in Containers PROVE OwnersNow'[b] = IF b = c THEN {} ELSE OwnersNow[b]
  <2>1. CASE b = c
    <3>1. c \notin Held(r)
      OBVIOUS
    <3>2. OwnersNow'[c] = OwnersNow[c] \ {h}
      BY <1>1, <3>1
    <3>. QED  BY <1>2, <2>1, <3>2
  <2>2. CASE b # c
    <3>1. b \in Held(r) <=> h \in OwnersNow[b]
      BY <1>1, <2>2
    <3>2. PICK O, P : O = OwnersNow[b] /\ P = OwnersNow'[b]
      OBVIOUS
    <3>3. P = IF h \in O THEN O \cup {h} ELSE O \ {h}
      BY <1>1, <3>1, <3>2
    <3>4. P = O
      BY <3>3
    <3>. QED  BY <2>2, <3>2, <3>4
  <2>. QED  BY <2>1, <2>2
<1>. QED  BY <1>1, <1>2, <1>3

\* The steps of the mutex, on the owners of the containers.
MutexStep ==
  \/ OwnersNow' = OwnersNow
  \/ \E h \in Handlers, c \in Containers :
       \/ OwnersNow[c] = {} /\ OwnersNow' = [OwnersNow EXCEPT ![c] = {h}]
       \/ OwnersNow[c] = {h} /\ OwnersNow' = [OwnersNow EXCEPT ![c] = {}]

LEMMA LockMutex ==
  ASSUME LockInv, LockInv', NEW h \in Handlers, Lock(h)
  PROVE  MutexStep
<1>1. TypeOK /\ TypeOK' /\ HandlerGood(handler[h]) /\ TokensRight
  BY DEF LockInv
<1>2. PICK r0 \in HandlerRecords : r0 = handler[h]
  BY <1>1 DEF TypeOK
<1>3. r0.pc = "lock" /\ r0.locks = << >> /\ r0.event \in Events
  BY <1>1, <1>2 DEF Lock, At, HandlerGood
<1>4. Held(r0) = {}
  BY <1>3 DEF Held
<1>5. PICK t \in Containers : t = Target(h)
  <2>1. r0.event.target \in Containers
    BY <1>3, EventsAssumption DEF EventRecords
  <2>. QED  BY <1>2, <2>1 DEF Target
<1>6. CASE token[t] = 1
  <2>1. PICK r : r = [r0 EXCEPT !.pc = FirstStep(h), !.todo = Others(h), !.locks = <<t>>]
    OBVIOUS
  <2>2. handler' = [handler EXCEPT ![h] = r]
    BY <1>2, <1>5, <1>6, <2>1 DEF Lock
  <2>3. r.locks = <<t>>
    BY <2>1 DEF HandlerRecords
  <2>4. Len(r.locks) = 1 /\ r.locks[1] = t
    BY <2>3
  <2>5. Held(r) = {t}
    BY <2>4 DEF Held
  <2>6. \A k \in Handlers : t \notin Held(handler[k])
    BY <1>1, <1>6 DEF TokensRight
  <2>7. OwnersNow[t] = {} /\ OwnersNow' = [OwnersNow EXCEPT ![t] = {h}]
    BY <1>1, <1>2, <1>4, <2>2, <2>5, <2>6, Acquires
  <2>. QED  BY <2>7 DEF MutexStep
<1>7. CASE token[t] # 1
  <2>1. handler' = [handler EXCEPT ![h] = IdleHandler]
    BY <1>5, <1>7 DEF Lock
  <2>2. Held(IdleHandler) = {}
    BY DEF Held, IdleHandler
  <2>3. OwnersNow' = OwnersNow
    BY <1>1, <1>2, <1>4, <2>1, <2>2, SameOwners
  <2>. QED  BY <2>3 DEF MutexStep
<1>. QED  BY <1>6, <1>7

LEMMA LockOtherMutex ==
  ASSUME GroupsDisjoint, LockInv, LockInv', NEW h \in Handlers, NEW c \in Containers, LockOther(h, c)
  PROVE  MutexStep
<1>1. TypeOK /\ TypeOK' /\ HandlerGood(handler[h])
  BY DEF LockInv
<1>2. PICK r0 \in HandlerRecords : r0 = handler[h]
  BY <1>1 DEF TypeOK
<1>3. r0.pc = "lockothers" /\ c \in r0.todo /\ Active(r0) /\ HandlerGood(r0)
  BY <1>1, <1>2 DEF LockOther, At, Active
<1>4. \A k \in Handlers : c \notin Held(handler[k])
  BY <1>2, <1>3, OthersFree
<1>5. PICK s : s = Append(r0.locks, c)
  OBVIOUS
<1>6. Longer(r0, c, s)
  BY <1>2, <1>3, <1>4, <1>5, AppendLock
<1>7. PICK r : r = handler'[h]
  OBVIOUS
<1>8. handler' = [handler EXCEPT ![h] = r] /\ r.locks = s
  <2>1. handler' = [handler EXCEPT ![h].pc = IF handler[h].todo = {c} THEN "reset" ELSE @,
                                   ![h].todo = @ \ {c}, ![h].locks = Append(@, c)]
    BY DEF LockOther
  <2>. QED  BY <1>1, <1>2, <1>5, <1>7, <2>1, ZenonT(40) DEF TypeOK, HandlerRecords
<1>9. Held(r) = {s[i] : i \in 1..Len(s)}
  BY <1>8 DEF Held
<1>10. Held(r) = Held(handler[h]) \cup {c}
  BY <1>2, <1>6, <1>9 DEF Longer
<1>11. OwnersNow[c] = {} /\ OwnersNow' = [OwnersNow EXCEPT ![c] = {h}]
  BY <1>1, <1>4, <1>8, <1>10, Acquires
<1>. QED  BY <1>11 DEF MutexStep

LEMMA UnLockMutex ==
  ASSUME GroupsDisjoint, LockInv, LockInv', NEW h \in Handlers, UnLock(h)
  PROVE  MutexStep
<1>1. TypeOK /\ TypeOK' /\ HandlerGood(handler[h])
  BY DEF LockInv
<1>2. PICK c : c = Last(handler[h].locks)
  OBVIOUS
<1>3. PICK r : Released(h, r, c)
  BY <1>2, UnLockEffect
<1>4. Active(handler[h])
  BY DEF UnLock, At, Active
<1>5. ASSUME NEW k \in Handlers \ {h} PROVE c \notin Held(handler[k])
  <2>1. Held(handler[h]) \subseteq Group(handler[h].event)
    BY <1>1, <1>4, Typed, HeldFacts
  <2>2. c \in Held(handler[k]) => Active(handler[k]) /\ c \in Group(handler[k].event)
    BY <1>1, Typed, HeldFacts DEF LockInv
  <2>. QED  BY <1>3, <1>4, <2>1, <2>2, OneOwner DEF Released
<1>6. c \in Containers /\ handler' = [handler EXCEPT ![h] = r] /\ c \in Held(handler[h]) /\ Held(r) = Held(handler[h]) \ {c}
  BY <1>3 DEF Released
<1>7. OwnersNow[c] = {h} /\ OwnersNow' = [OwnersNow EXCEPT ![c] = {}]
  BY <1>1, <1>5, <1>6, Releases
<1>. QED  BY <1>6, <1>7 DEF MutexStep

LEMMA StepIsMutexStep ==
  ASSUME GroupsDisjoint, LockInv, LockInv', [Next]_vars
  PROVE  MutexStep
<1>1. TypeOK /\ TypeOK'
  BY DEF LockInv
<1>2. ASSUME handler' = handler PROVE MutexStep
  BY <1>2 DEF MutexStep, OwnersNow, Working
<1>3. ASSUME NEW h \in Handlers, NEW e \in Events, Call(h, e) PROVE MutexStep
  <2>1. PICK r0 \in HandlerRecords : r0 = handler[h]
    BY <1>1 DEF TypeOK
  <2>2. PICK r : r = [r0 EXCEPT !.pc = "lock", !.event = e]
    OBVIOUS
  <2>3. handler' = [handler EXCEPT ![h] = r] /\ r.locks = r0.locks
    BY <1>3, <2>1, <2>2 DEF Call, HandlerRecords
  <2>4. Held(r) = Held(handler[h])
    BY <2>1, <2>3 DEF Held
  <2>. QED  BY <1>1, <2>3, <2>4, SameOwners DEF MutexStep
<1>4. ASSUME NEW h \in Handlers, HandlerStep(h) PROVE MutexStep
  <2>1. ASSUME Move(h) PROVE MutexStep
    <3>1. PICK r : Moved(handler[h], r) /\ handler' = [handler EXCEPT ![h] = r]
      BY <2>1, MoveEffect DEF MoveSays
    <3>2. Held(r) = Held(handler[h])
      BY <3>1 DEF Held, Moved
    <3>. QED  BY <1>1, <3>1, <3>2, SameOwners DEF MutexStep
  <2>. QED  BY <1>4, <2>1, LockMutex, LockOtherMutex, UnLockMutex DEF HandlerStep, Move
<1>5. ASSUME NEW h \in Handlers, NEW c \in Containers, ResetStep(h, c) PROVE MutexStep
  BY <1>1, <1>2, <1>5, ResetEffect DEF ResetSays
<1>6. ASSUME NEW c \in Containers, Exit(c) PROVE MutexStep
  BY <1>2, <1>6 DEF Exit
<1>7. CASE UNCHANGED vars
  BY <1>2, <1>7 DEF vars
<1>. QED  BY <1>3, <1>4, <1>5, <1>6, <1>7 DEF Next

\* Every step of the handlers is a step of the abstract mutex or leaves its owners alone:
\* the channels, the try-locks and the deferred UnLocks of funclet implement EventMutex
\* although LockOther does not look at whether it got the lock (reset.go), because the
\* lock of the target protects its group.
THEOREM MutexImplemented ==
  ASSUME GroupsDisjoint
  PROVE  Spec => ImplementsMutex
<1>1. LockInv /\ [Next]_vars => LockInv'
  BY LockStep
<1>2. Init => Mutex!Init
  <2>1. ASSUME Init PROVE \A h \in Handlers, c \in Containers : ~Working(h, c)
    BY <2>1 DEF Init, IdleHandler, Working
  <2>. QED  BY <2>1 DEF Mutex!Init
<1>3. LockInv /\ LockInv' /\ [Next]_vars => [Mutex!Next]_OwnersNow
  <2>1. ASSUME MutexStep PROVE [Mutex!Next]_OwnersNow
    BY <2>1 DEF MutexStep, OwnersNow, Mutex!Next, Mutex!Acquire, Mutex!Release
  <2>. QED  BY <2>1, StepIsMutexStep
<1>. QED  BY <1>1, <1>2, <1>3, LockStart, PTL DEF Spec, ImplementsMutex, Mutex!Spec, OwnersNow

\* No two handlers ever work on the same container, whatever ContainerIsBusy lets through.
THEOREM ExclusiveAlways ==
  ASSUME GroupsDisjoint
  PROVE  Spec => []EventsExclusive
<1>1. ASSUME LockInv PROVE EventsExclusive
  <2>. SUFFICES ASSUME NEW c \in Containers PROVE Cardinality({h \in Handlers : Working(h, c)}) <= 1
    BY DEF EventsExclusive
  <2>1. ASSUME NEW h \in Handlers, NEW k \in Handlers, Working(h, c), Working(k, c) PROVE h = k
    <3>1. c \in Held(handler[h]) /\ c \in Held(handler[k])
      BY <1>1, <2>1, WorkingHeld DEF LockInv
    <3>2. /\ Active(handler[h]) /\ c \in Group(handler[h].event)
          /\ Active(handler[k]) /\ c \in Group(handler[k].event)
      BY <1>1, <3>1, Typed, HeldFacts DEF LockInv
    <3>. QED  BY <1>1, <3>2, OneOwner
  <2>2. CASE \A h \in Handlers : ~Working(h, c)
    <3>1. {h \in Handlers : Working(h, c)} = {}
      BY <2>2
    <3>. QED  BY <3>1, FS_EmptySet
  <2>3. ASSUME NEW h \in Handlers, Working(h, c) PROVE Cardinality({k \in Handlers : Working(k, c)}) <= 1
    <3>1. {k \in Handlers : Working(k, c)} = {h}
      BY <2>1, <2>3
    <3>. QED  BY <3>1, FS_Singleton
  <2>. QED  BY <2>2, <2>3
<1>. QED  BY <1>1, LocksAlways, PTL

-----------------------------------------------------------------------------
(* Warm-ups *)

\* The container that a reset touches belongs to a handler that resets.
LEMMA ResetsOwn ==
  ASSUME LockInv, NEW k \in Handlers, NEW c \in Containers, phase[k][c] # "idle"
  PROVE  Active(handler[k]) /\ handler[k].pc \in {"reset", "others"} /\ c \in Group(handler[k].event)
BY DEF LockInv, PhaseGood, Active

LEMMA Undisturbed ==
  ASSUME GroupsDisjoint, LockInv, Next, NEW h \in Handlers, handler[h].pc \in {"mount", "signal"}
  PROVE  cont'[Target(h)].stat = cont[Target(h)].stat \/ failures'.exits # failures.exits
<1>1. TypeOK
  BY DEF LockInv
<1>2. Active(handler[h])
  BY DEF Active
<1>3. PICK t \in Containers : t = Target(h)
  BY <1>2, Typed, HeldFacts DEF LockInv, Target
<1>4. t \in Group(handler[h].event)
  BY <1>3 DEF Group, Target
<1>5. CASE cont' = cont
  BY <1>5
<1>6. ASSUME NEW k \in Handlers, NEW e \in Events, Call(k, e) PROVE cont' = cont
  BY <1>6 DEF Call
<1>7. ASSUME NEW k \in Handlers, Lock(k) \/ UnLock(k) \/ \E c \in Containers : LockOther(k, c) PROVE cont' = cont
  BY <1>7 DEF Lock, UnLock, LockOther
<1>8. ASSUME NEW k \in Handlers, Move(k) PROVE cont'[t].stat = cont[t].stat
  <2>1. MoveSays(k)
    BY <1>8, MoveEffect
  <2>2. Active(handler[k])
    <3>1. PICK r : Moved(handler[k], r)
      BY <2>1 DEF MoveSays
    <3>. QED  BY <3>1 DEF Moved, Warming, Active
  <2>3. ASSUME NEW c \in Containers, NEW d \in Conts, c \in Group(handler[k].event),
               cont' = [cont EXCEPT ![c] = d], c = Target(k) => d.stat = cont[c].stat
        PROVE  cont'[t].stat = cont[t].stat
    <3>1. CASE c # t
      BY <1>1, <2>3, <3>1 DEF TypeOK
    <3>2. CASE c = t
      <4>1. h = k
        BY <1>2, <1>4, <2>2, <2>3, <3>2, OneOwner
      <4>2. d.stat = cont[t].stat
        BY <1>3, <2>3, <3>2, <4>1
      <4>. QED  BY <1>1, <2>3, <3>2, <4>2 DEF TypeOK
    <3>. QED  BY <3>1, <3>2
  <2>. QED  BY <2>1, <2>3 DEF MoveSays
<1>9. ASSUME NEW k \in Handlers, NEW c \in Containers, ResetStep(k, c) PROVE cont'[t].stat = cont[t].stat
  <2>1. ResetSays(k, c)
    BY <1>1, <1>9, ResetEffect
  <2>2. PICK d \in Conts : cont' = [cont EXCEPT ![c] = d]
    BY <2>1 DEF ResetSays
  <2>3. Active(handler[k]) /\ handler[k].pc \in {"reset", "others"} /\ c \in Group(handler[k].event)
    BY <2>1, ResetsOwn DEF ResetSays
  <2>4. h # k
    BY <2>3
  <2>5. c # t
    BY <1>2, <1>4, <2>3, <2>4, OneOwner
  <2>. QED  BY <1>1, <2>2, <2>5 DEF TypeOK
<1>10. ASSUME NEW c \in Containers, Exit(c) PROVE failures'.exits # failures.exits
  BY <1>1, <1>10 DEF Exit, TypeOK
<1>. QED  BY <1>3, <1>5, <1>6, <1>7, <1>8, <1>9, <1>10 DEF Next, HandlerStep, Move

\* Between ContainerInfo and the signal of a warm-up the container changes its state only
\* by itself: no reset and no other warm-up gets at it.
THEOREM UndisturbedAlways ==
  ASSUME GroupsDisjoint
  PROVE  Spec => WarmUpUndisturbed
<1>1. LockInv /\ [Next]_vars => [\A h \in Handlers : handler[h].pc \in {"mount", "signal"} =>
                                   \/ cont'[Target(h)].stat = cont[Target(h)].stat
                                   \/ failures'.exits # failures.exits]_vars
  BY Undisturbed
<1>. QED  BY <1>1, LocksAlways, PTL DEF Spec, WarmUpUndisturbed

-----------------------------------------------------------------------------
(* Equipment *)

\* The calls whose failure funclet takes for success: an error of ContainerInfo counts as a
\* container that does not exist, and a BindMount that was undone returns no error.
NoFalseSuccess == "info" \notin MayFail /\ "mount" \notin MayFail

\* Steps of one handler that touch no container.
LEMMA EquipHandler ==
  ASSUME EquipInv, TypeOK, TypeOK', NEW h \in Handlers, NEW r, handler' = [handler EXCEPT ![h] = r], cont' = cont,
         \A k \in Handlers, c \in Containers : phase'[k][c] \in Gone => phase[k][c] \in Gone,
         pids' \subseteq pids, h \in pids' => r.pc = "unlock", r.pc # "signal"
  PROVE  EquipInv'
<1>1. handler'[h] = r /\ \A k \in Handlers \ {h} : handler'[k] = handler[k]
  BY DEF TypeOK
<1>2. pids' \subseteq Handlers
  BY DEF TypeOK
<1>3. ASSUME NEW k \in pids'
      PROVE  handler'[k].pc \in {"mount", "signal", "unlock"} /\ (handler'[k].pc # "unlock" => cont'[Target(k)'].stat = "running")
  BY <1>1, <1>2 DEF EquipInv, Target
<1>4. ASSUME NEW k \in Handlers, handler'[k].pc = "signal" PROVE cont'[Target(k)'].mounted
  BY <1>1, <1>4 DEF EquipInv, Target
<1>5. \A c \in Containers : ContGood(cont[c])'
  BY DEF EquipInv, ContGood
<1>6. \A k \in Handlers, c \in Containers : phase'[k][c] \in Gone => cont'[c].stat = "none"
  BY DEF EquipInv
<1>. QED  BY <1>3, <1>4, <1>5, <1>6 DEF EquipInv

\* Steps that touch one container c, which no other handler works on: what has to be
\* shown of it, and of the handler k that works on it.
LEMMA EquipContainer ==
  ASSUME EquipInv, LockInv, TypeOK', NEW c \in Containers, NEW d, cont' = [cont EXCEPT ![c] = d], handler' = handler,
         pids' \subseteq pids, ContGood(d),
         \A k \in Handlers, b \in Containers : b # c /\ phase'[k][b] \in Gone => phase[k][b] \in Gone,
         \A k \in Handlers : phase'[k][c] \in Gone => d.stat = "none",
         \A k \in pids' : Target(k) = c /\ handler[k].pc # "unlock" => d.stat = "running",
         \A k \in Handlers : Target(k) = c /\ handler[k].pc = "signal" => d.mounted
  PROVE  EquipInv'
<1>1. cont'[c] = d /\ \A b \in Containers \ {c} : cont'[b] = cont[b]
  BY DEF LockInv, TypeOK
<1>2. ASSUME NEW k \in Handlers, handler[k].pc \in {"mount", "signal"} PROVE Target(k) \in Containers
  <2>1. Active(handler[k])
    BY <1>2 DEF Active
  <2>. QED  BY <2>1, Typed, HeldFacts DEF LockInv, Target
<1>3. pids' \subseteq Handlers /\ \A k \in Handlers : Target(k)' = Target(k)
  BY DEF TypeOK, Target
<1>4. ASSUME NEW k \in pids'
      PROVE  handler'[k].pc \in {"mount", "signal", "unlock"} /\ (handler'[k].pc # "unlock" => cont'[Target(k)'].stat = "running")
  <2>1. handler[k].pc \in {"mount", "signal", "unlock"} /\ (handler[k].pc # "unlock" => cont[Target(k)].stat = "running")
    BY DEF EquipInv
  <2>. QED  BY <1>1, <1>2, <1>3, <2>1
<1>5. ASSUME NEW k \in Handlers, handler'[k].pc = "signal" PROVE cont'[Target(k)'].mounted
  <2>1. cont[Target(k)].mounted /\ Target(k) \in Containers
    BY <1>2, <1>5 DEF EquipInv
  <2>. QED  BY <1>1, <1>3, <1>5, <2>1
<1>6. ASSUME NEW b \in Containers PROVE ContGood(cont[b])'
  <2>1. ContGood(cont'[b])
    BY <1>1 DEF EquipInv
  <2>. QED  BY <2>1 DEF ContGood
<1>7. \A k \in Handlers, b \in Containers : phase'[k][b] \in Gone => cont'[b].stat = "none"
  BY <1>1 DEF EquipInv
<1>. QED  BY <1>4, <1>5, <1>6, <1>7 DEF EquipInv

\* What a step of ResetContainer makes of the container.
ResetGood(h, c) ==
  /\ ContGood(cont'[c])
  /\ phase'[h][c] \in Gone => cont'[c].stat = "none"

LEMMA ResetKeeps ==
  ASSUME NoFalseSuccess, EquipInv, TypeOK, TypeOK', NEW h \in Handlers, NEW c \in Containers, ResetStep(h, c)
  PROVE  ResetGood(h, c)
<1>1. PICK d \in Conts : d = cont[c]
  BY DEF TypeOK
<1>2. ContGood(d) /\ (phase[h][c] \in Gone => d.stat = "none") /\ d.stat \in {"none", "running", "paused", "stopped"}
  BY <1>1 DEF EquipInv, Conts
<1>3. ASSUME cont' = cont PROVE cont'[c] = d
  BY <1>1, <1>3
<1>4. ASSUME NEW p, Then(h, c, p) PROVE phase'[h][c] = p
  BY <1>4 DEF Then, TypeOK
<1>5. ASSUME NEW p, Then(h, c, p), p \notin Gone \/ cont'[c].stat = "none", ContGood(cont'[c]) PROVE ResetGood(h, c)
  BY <1>4, <1>5 DEF ResetGood
<1>6. "failed" \notin Gone /\ "kill" \notin Gone /\ "delete" \notin Gone /\ "net" \notin Gone /\ "ok" \notin Gone
  BY DEF Gone
<1>7. CASE ResetInfo(h, c)
  <2>1. Then(h, c, AfterInfo(d.stat)) /\ cont' = cont
    BY <1>1, <1>7 DEF ResetInfo, Fails, NoFalseSuccess
  <2>2. AfterInfo(d.stat) \notin Gone \/ d.stat = "none"
    BY <1>2, AfterInfoFacts DEF Gone
  <2>. QED  BY <1>2, <1>3, <1>5, <2>1, <2>2
<1>8. CASE ThawContainer(h, c)
  <2>1. \E p \in {"kill", "failed"} : Then(h, c, p)
    BY <1>8 DEF ThawContainer
  <2>2. cont' = cont \/ (d.stat # "none" /\ cont' = [cont EXCEPT ![c].stat = IF @ = "paused" THEN "running" ELSE @])
    BY <1>1, <1>8 DEF ThawContainer
  <2>3. PICK x : x = [d EXCEPT !.stat = IF @ = "paused" THEN "running" ELSE @]
    OBVIOUS
  <2>4. cont'[c] = d \/ (d.stat # "none" /\ cont'[c] = x)
    BY <1>1, <2>2, <2>3 DEF TypeOK
  <2>5. d.stat # "none" => ContGood(x)
    BY <1>2, <2>3 DEF ContGood, Conts
  <2>. QED  BY <1>2, <1>5, <1>6, <2>1, <2>4, <2>5
<1>9. CASE StopContainer(h, c)
  <2>1. \E p \in {"delete", "failed"} : Then(h, c, p)
    BY <1>9 DEF StopContainer
  <2>2. cont' = cont \/ (d.stat # "none" /\ cont' = [cont EXCEPT ![c].stat = "stopped"])
    BY <1>1, <1>9 DEF StopContainer
  <2>3. PICK x : x = [d EXCEPT !.stat = "stopped"]
    OBVIOUS
  <2>4. cont'[c] = d \/ (d.stat # "none" /\ cont'[c] = x)
    BY <1>1, <2>2, <2>3 DEF TypeOK
  <2>5. d.stat # "none" => ContGood(x)
    BY <1>2, <2>3 DEF ContGood, Conts
  <2>. QED  BY <1>2, <1>5, <1>6, <2>1, <2>4, <2>5
<1>10. CASE DeleteContainer(h, c)
  <2>1. PICK x : x = [d EXCEPT !.stat = "none"]
    OBVIOUS
  <2>2. ContGood(x) /\ x.stat = "none"
    BY <1>2, <2>1 DEF ContGood, Conts
  <2>3. \/ Then(h, c, "clean") /\ cont' = [cont EXCEPT ![c].stat = "none"]
        \/ Then(h, c, "failed") /\ cont' = cont
    BY <1>10 DEF DeleteContainer
  <2>4. \/ Then(h, c, "clean") /\ cont'[c] = x
        \/ Then(h, c, "failed") /\ cont'[c] = d
    BY <1>1, <2>1, <2>3 DEF TypeOK
  <2>. QED  BY <1>2, <1>5, <1>6, <2>2, <2>4
<1>11. CASE OutdatePaths(h, c)
  <2>1. d.stat = "none"
    BY <1>2, <1>11 DEF OutdatePaths, In, Gone
  <2>2. PICK x : x = [d EXCEPT !.paths = FALSE, !.own = FALSE, !.mounted = FALSE]
    OBVIOUS
  <2>3. ContGood(x) /\ x.stat = "none"
    BY <1>2, <2>1, <2>2 DEF ContGood, Conts
  <2>4. Then(h, c, "paths") /\ cont'[c] = x
    BY <1>1, <1>11, <2>2 DEF OutdatePaths, TypeOK
  <2>. QED  BY <1>5, <2>3, <2>4
<1>12. CASE GeneratePaths(h, c)
  <2>1. d.stat = "none"
    BY <1>2, <1>12 DEF GeneratePaths, In, Gone
  <2>2. PICK x : x = [d EXCEPT !.paths = TRUE, !.own = FALSE, !.mounted = FALSE]
    OBVIOUS
  <2>3. ContGood(x) /\ x.stat = "none"
    BY <1>2, <2>1, <2>2 DEF ContGood, Conts
  <2>4. \/ Then(h, c, "config") /\ cont' = [cont EXCEPT ![c] = [@ EXCEPT !.paths = TRUE, !.own = FALSE, !.mounted = FALSE]]
        \/ Then(h, c, "failed") /\ cont' = cont
    BY <1>12 DEF GeneratePaths
  <2>5. \/ Then(h, c, "config") /\ cont'[c] = x
        \/ Then(h, c, "failed") /\ cont'[c] = d
    BY <1>1, <2>2, <2>4 DEF TypeOK
  <2>. QED  BY <1>2, <1>5, <1>6, <2>3, <2>5
<1>13. CASE PrepareConfig(h, c)
  <2>1. d.stat = "none"
    BY <1>2, <1>13 DEF PrepareConfig, In, Gone
  <2>2. cont' = cont /\ \E p : Then(h, c, p)
    BY <1>13 DEF PrepareConfig
  <2>. QED  BY <1>2, <1>3, <1>5, <2>1, <2>2
<1>14. CASE StartContainer(h, c)
  <2>1. PICK x : x = [d EXCEPT !.stat = "running", !.own = TRUE, !.run = "runner"]
    OBVIOUS
  <2>2. d.paths => ContGood(x)
    BY <2>1 DEF ContGood, Conts
  <2>3. \/ /\ Then(h, c, "net") /\ d.paths
           /\ cont' = [cont EXCEPT ![c] = [@ EXCEPT !.stat = "running", !.own = TRUE, !.run = "runner"]]
        \/ Then(h, c, "failed") /\ cont' = cont
    BY <1>1, <1>14 DEF StartContainer
  <2>4. \/ Then(h, c, "net") /\ d.paths /\ cont'[c] = x
        \/ Then(h, c, "failed") /\ cont'[c] = d
    BY <1>1, <2>1, <2>3 DEF TypeOK
  <2>. QED  BY <1>2, <1>5, <1>6, <2>2, <2>4
<1>15. CASE SetContainerNet(h, c)
  <2>1. cont' = cont /\ \E p \in {"ok", "failed"} : Then(h, c, p)
    BY <1>15 DEF SetContainerNet
  <2>. QED  BY <1>2, <1>3, <1>5, <1>6, <2>1
<1>. QED  BY <1>7, <1>8, <1>9, <1>10, <1>11, <1>12, <1>13, <1>14, <1>15 DEF ResetStep

LEMMA ResetEquip ==
  ASSUME GroupsDisjoint, NoFalseSuccess, LockInv, LockInv', EquipInv, NEW h \in Handlers, NEW c \in Containers, ResetStep(h, c)
  PROVE  EquipInv'
<1>1. TypeOK /\ TypeOK'
  BY DEF LockInv
<1>2. ResetSays(h, c)
  BY <1>1, ResetEffect
<1>3. PICK p \in Phases \ {"idle"} : phase' = [phase EXCEPT ![h][c] = p]
  BY <1>2 DEF ResetSays
<1>4. PICK d \in Conts : cont' = [cont EXCEPT ![c] = d]
  BY <1>2 DEF ResetSays
<1>5. cont'[c] = d /\ phase'[h][c] = p
  BY <1>1, <1>3, <1>4 DEF TypeOK
<1>6. ContGood(d) /\ (p \in Gone => d.stat = "none")
  <2>1. ResetGood(h, c)
    BY <1>1, ResetKeeps
  <2>2. ContGood(cont'[c]) /\ (phase'[h][c] \in Gone => cont'[c].stat = "none")
    BY <2>1 DEF ResetGood
  <2>. QED  BY <1>5, <2>2
<1>7. Active(handler[h]) /\ handler[h].pc \in {"reset", "others"} /\ c \in Group(handler[h].event)
  BY <1>2, ResetsOwn DEF ResetSays
<1>8. ASSUME NEW k \in Handlers, k # h, Active(handler[k]), c \in Group(handler[k].event) PROVE FALSE
  BY <1>7, <1>8, OneOwner
<1>9. \A k \in Handlers, b \in Containers : k # h \/ b # c => phase'[k][b] = phase[k][b]
  BY <1>1, <1>3 DEF TypeOK
<1>10. ASSUME NEW k \in Handlers, phase'[k][c] \in Gone PROVE d.stat = "none"
  <2>1. CASE k = h
    BY <1>5, <1>6, <1>10, <2>1
  <2>2. CASE k # h
    <3>1. phase[k][c] # "idle"
      BY <1>9, <1>10, <2>2 DEF Gone
    <3>2. Active(handler[k]) /\ c \in Group(handler[k].event)
      BY <3>1, ResetsOwn
    <3>. QED  BY <1>8, <2>2, <3>2
  <2>. QED  BY <2>1, <2>2
<1>11. ASSUME NEW k \in Handlers, Target(k) = c, handler[k].pc \in {"mount", "signal"} PROVE FALSE
  <2>1. Active(handler[k]) /\ c \in Group(handler[k].event) /\ k # h
    BY <1>7, <1>11 DEF Active, Group, Target
  <2>. QED  BY <1>8, <2>1
<1>12. \A k \in pids' : Target(k) = c /\ handler[k].pc # "unlock" => d.stat = "running"
  <2>1. \A k \in pids' : k \in Handlers /\ handler[k].pc \in {"mount", "signal", "unlock"}
    BY <1>1, <1>2 DEF EquipInv, ResetSays, TypeOK
  <2>. QED  BY <1>11, <2>1
<1>13. \A k \in Handlers : Target(k) = c /\ handler[k].pc = "signal" => d.mounted
  BY <1>11
<1>14. \A k \in Handlers, b \in Containers : b # c /\ phase'[k][b] \in Gone => phase[k][b] \in Gone
  BY <1>9
<1>15. handler' = handler /\ pids' \subseteq pids
  BY <1>2 DEF ResetSays
<1>. QED  BY <1>1, <1>4, <1>6, <1>10, <1>12, <1>13, <1>14, <1>15, EquipContainer

LEMMA ExitEquip ==
  ASSUME LockInv, LockInv', EquipInv, NEW c \in Containers, Exit(c)
  PROVE  EquipInv'
<1>1. TypeOK /\ TypeOK'
  BY DEF LockInv
<1>2. PICK d \in Conts : d = cont[c]
  BY <1>1 DEF TypeOK
<1>3. PICK x : x = [d EXCEPT !.stat = "stopped"]
  OBVIOUS
<1>4. cont' = [cont EXCEPT ![c] = x] /\ handler' = handler /\ phase' = phase /\ pids' = pids \ Losing(c)
  BY <1>2, <1>3 DEF Exit
<1>5. d.stat \in {"running", "paused"} /\ x.mounted = d.mounted
  BY <1>2, <1>3 DEF Exit, Conts
<1>6. ContGood(x)
  <2>1. ContGood(d)
    BY <1>2 DEF EquipInv
  <2>. QED  BY <1>3, <1>5, <2>1 DEF ContGood, Conts
<1>7. \A k \in Handlers : phase'[k][c] \in Gone => x.stat = "none"
  BY <1>2, <1>4, <1>5 DEF EquipInv
<1>8. \A k \in pids' : Target(k) # c
  BY <1>4 DEF Losing
<1>9. \A k \in Handlers : Target(k) = c /\ handler[k].pc = "signal" => x.mounted
  BY <1>2, <1>5 DEF EquipInv
<1>. QED  BY <1>1, <1>4, <1>6, <1>7, <1>8, <1>9, EquipContainer

\* The steps at the locks.
LEMMA LockEquip ==
  ASSUME LockInv, LockInv', EquipInv, NEW h \in Handlers,
         \/ \E e \in Events : Call(h, e)
         \/ Lock(h) \/ UnLock(h)
         \/ \E c \in Containers : LockOther(h, c)
  PROVE  EquipInv'
<1>1. TypeOK /\ TypeOK'
  BY DEF LockInv
<1>2. PICK r0 \in HandlerRecords : r0 = handler[h]
  BY <1>1 DEF TypeOK
<1>3. PICK r : r = handler'[h]
  OBVIOUS
<1>4. cont' = cont
  BY DEF Call, Lock, UnLock, LockOther
<1>5. \A k \in Handlers, c \in Containers : phase'[k][c] \in Gone => phase[k][c] \in Gone
  <2>1. phase' = phase \/ phase' = [phase EXCEPT ![h][Target(h)] = "look"]
    BY DEF Call, Lock, UnLock, LockOther, EnterReset
  <2>2. PICK t : t = Target(h)
    OBVIOUS
  <2>3. "look" \notin Gone
    BY DEF Gone
  <2>. QED  BY <1>1, <2>1, <2>2, <2>3, SMTT(30) DEF TypeOK
<1>6. pids' \subseteq pids /\ h \notin pids' /\ r.pc # "signal" /\ handler' = [handler EXCEPT ![h] = r]
  <2>1. ASSUME NEW e \in Events, Call(h, e)
        PROVE  pids' \subseteq pids /\ h \notin pids' /\ r.pc # "signal" /\ handler' = [handler EXCEPT ![h] = r]
    <3>1. pids' = pids /\ r0.pc = "idle" /\ handler' = [handler EXCEPT ![h] = [r0 EXCEPT !.pc = "lock", !.event = e]]
      BY <1>2, <2>1 DEF Call, At
    <3>2. h \notin pids
      BY <1>2, <3>1 DEF EquipInv
    <3>3. r.pc = "lock" /\ handler' = [handler EXCEPT ![h] = r]
      BY <1>1, <1>3, <3>1 DEF TypeOK, HandlerRecords
    <3>. QED  BY <3>1, <3>2, <3>3
  <2>2. ASSUME Lock(h)
        PROVE  pids' \subseteq pids /\ h \notin pids' /\ r.pc # "signal" /\ handler' = [handler EXCEPT ![h] = r]
    <3>1. pids' = pids /\ r0.pc = "lock"
      BY <1>2, <2>2 DEF Lock, At
    <3>2. h \notin pids
      BY <1>2, <3>1 DEF EquipInv
    <3>3. PICK s : s = [r0 EXCEPT !.pc = FirstStep(h), !.todo = Others(h), !.locks = <<Target(h)>>]
      OBVIOUS
    <3>4. handler' = [handler EXCEPT ![h] = s] \/ handler' = [handler EXCEPT ![h] = IdleHandler]
      BY <1>2, <2>2, <3>3 DEF Lock
    <3>5. s.pc # "signal"
      <4>1. FirstStep(h) # "signal"
        BY FirstStepFacts
      <4>. QED  BY <3>3, <4>1 DEF HandlerRecords
    <3>6. r.pc # "signal" /\ handler' = [handler EXCEPT ![h] = r]
      BY <1>1, <1>3, <3>4, <3>5 DEF TypeOK, IdleHandler
    <3>. QED  BY <3>1, <3>2, <3>6
  <2>3. ASSUME UnLock(h)
        PROVE  pids' \subseteq pids /\ h \notin pids' /\ r.pc # "signal" /\ handler' = [handler EXCEPT ![h] = r]
    <3>1. pids' = pids \ {h}
      BY <2>3 DEF UnLock
    <3>2. PICK s : Released(h, s, Last(handler[h].locks))
      BY <2>3, UnLockEffect
    <3>3. s.pc # "signal" /\ handler' = [handler EXCEPT ![h] = s]
      BY <3>2 DEF Released, Active
    <3>. QED  BY <1>1, <1>3, <3>1, <3>3 DEF TypeOK
  <2>4. ASSUME NEW c \in Containers, LockOther(h, c)
        PROVE  pids' \subseteq pids /\ h \notin pids' /\ r.pc # "signal" /\ handler' = [handler EXCEPT ![h] = r]
    <3>1. pids' = pids /\ r0.pc = "lockothers"
      BY <1>2, <2>4 DEF LockOther, At
    <3>2. h \notin pids
      BY <1>2, <3>1 DEF EquipInv
    <3>3. handler' = [handler EXCEPT ![h].pc = IF handler[h].todo = {c} THEN "reset" ELSE @,
                                     ![h].todo = @ \ {c}, ![h].locks = Append(@, c)]
      BY <2>4 DEF LockOther
    <3>4. r.pc # "signal" /\ handler' = [handler EXCEPT ![h] = r]
      BY <1>1, <1>2, <1>3, <3>1, <3>3, ZenonT(40) DEF TypeOK, HandlerRecords
    <3>. QED  BY <3>1, <3>2, <3>4
  <2>. QED  BY <2>1, <2>2, <2>3, <2>4
<1>. QED  BY <1>1, <1>4, <1>5, <1>6, EquipHandler

\* A warm-up h goes on as r, and makes d of a container c of its group.
LEMMA EquipWarm ==
  ASSUME GroupsDisjoint, LockInv, LockInv', EquipInv, NEW h \in Handlers, NEW r, handler' = [handler EXCEPT ![h] = r],
         r.event = handler[h].event, Active(handler[h]),
         NEW c \in Containers, c \in Group(handler[h].event), NEW d \in Conts, cont' = [cont EXCEPT ![c] = d],
         ContGood(d), cont[c].stat = "none" => d.stat = "none", phase' = phase, pids' \subseteq pids \cup {h},
         h \in pids' => r.pc \in {"mount", "signal", "unlock"} /\ (r.pc # "unlock" => cont'[Target(h)].stat = "running"),
         r.pc = "signal" => cont'[Target(h)].mounted
  PROVE  EquipInv'
<1>1. TypeOK /\ TypeOK'
  BY DEF LockInv
<1>2. handler'[h] = r /\ \A k \in Handlers \ {h} : handler'[k] = handler[k]
  BY <1>1 DEF TypeOK
<1>3. cont'[c] = d /\ \A b \in Containers \ {c} : cont'[b] = cont[b]
  BY <1>1 DEF TypeOK
<1>4. \A k \in Handlers : k # h => Target(k)' = Target(k)
  BY <1>2 DEF Target
<1>5. Target(h)' = Target(h)
  BY <1>2 DEF Target
<1>6. ASSUME NEW k \in Handlers, k # h, handler[k].pc \in {"mount", "signal"} PROVE cont'[Target(k)] = cont[Target(k)]
  <2>1. Active(handler[k])
    BY <1>6 DEF Active
  <2>2. Target(k) \in Containers /\ Target(k) \in Group(handler[k].event)
    BY <2>1, Typed, HeldFacts DEF LockInv, Target, Group
  <2>3. Target(k) # c
    BY <1>6, <2>1, <2>2, OneOwner
  <2>. QED  BY <1>3, <2>2, <2>3
<1>7. ASSUME NEW k \in pids'
      PROVE  handler'[k].pc \in {"mount", "signal", "unlock"} /\ (handler'[k].pc # "unlock" => cont'[Target(k)'].stat = "running")
  <2>1. CASE k = h
    BY <1>2, <1>5, <1>7, <2>1
  <2>2. CASE k # h
    <3>1. k \in Handlers /\ k \in pids
      BY <1>1, <2>2 DEF TypeOK
    <3>2. handler[k].pc \in {"mount", "signal", "unlock"} /\ (handler[k].pc # "unlock" => cont[Target(k)].stat = "running")
      BY <3>1 DEF EquipInv
    <3>. QED  BY <1>2, <1>4, <1>6, <2>2, <3>1, <3>2
  <2>. QED  BY <2>1, <2>2
<1>8. ASSUME NEW k \in Handlers, handler'[k].pc = "signal" PROVE cont'[Target(k)'].mounted
  <2>1. CASE k = h
    BY <1>2, <1>5, <1>8, <2>1
  <2>2. CASE k # h
    BY <1>2, <1>4, <1>6, <1>8, <2>2 DEF EquipInv
  <2>. QED  BY <2>1, <2>2
<1>9. ASSUME NEW b \in Containers PROVE ContGood(cont[b])'
  <2>1. ContGood(cont'[b])
    BY <1>3 DEF EquipInv
  <2>. QED  BY <2>1 DEF ContGood
<1>10. \A k \in Handlers, b \in Containers : phase'[k][b] \in Gone => cont'[b].stat = "none"
  BY <1>3 DEF EquipInv
<1>. QED  BY <1>7, <1>8, <1>9, <1>10 DEF EquipInv

LEMMA MoveEquip ==
  ASSUME GroupsDisjoint, NoFalseSuccess, LockInv, LockInv', EquipInv, NEW h \in Handlers, Move(h)
  PROVE  EquipInv'
<1>1. TypeOK /\ TypeOK' /\ MoveSays(h)
  BY MoveEffect DEF LockInv
<1>2. PICK r : Moved(handler[h], r) /\ handler' = [handler EXCEPT ![h] = r]
  BY <1>1 DEF MoveSays
<1>3. Active(handler[h]) /\ r.event = handler[h].event /\ handler'[h] = r
  BY <1>1, <1>2 DEF Moved, Active, Warming, TypeOK
<1>4. ASSUME NEW p, Goto(h, p) PROVE r.pc = p
  BY <1>1, <1>3, <1>4 DEF Goto, TypeOK, HandlerRecords
<1>5. PICK t \in Containers : t = Target(h)
  BY <1>1, <1>3, Typed, HeldFacts DEF LockInv, Target
<1>6. t \in Group(handler[h].event)
  BY <1>5 DEF Target, Group
<1>7. PICK d \in Conts : d = cont[t]
  BY <1>1 DEF TypeOK
<1>8. ContGood(d)
  BY <1>7 DEF EquipInv
<1>9. handler[h].pc \notin {"mount", "signal", "unlock"} => h \notin pids
  BY DEF EquipInv
<1>10. CASE ResetOthers(h) \/ ResetReturns(h)
  <2>1. cont' = cont /\ pids' = pids /\ handler[h].pc \in {"reset", "others"}
    BY <1>10 DEF ResetOthers, ResetReturns, At
  <2>2. r.pc \in {"others", "unlock"}
    BY <1>2, <2>1 DEF Moved, Warming
  <2>3. PICK f \in [Containers -> {"idle", "look", "ok"}] : phase' = [phase EXCEPT ![h] = f]
    BY <1>1, <2>1 DEF MoveSays
  <2>4. \A k \in Handlers, c \in Containers : phase'[k][c] \in Gone => phase[k][c] \in Gone
    BY <1>1, <2>3 DEF TypeOK, Gone
  <2>. QED  BY <1>1, <1>2, <1>9, <2>1, <2>2, <2>4, EquipHandler
<1>11. CASE ScaleCheck(h) \/ ScaleUpContainer(h)
  <2>1. cont' = cont /\ pids' = pids /\ phase' = phase /\ handler[h].pc \in {"scale", "scaleup"}
    BY <1>11 DEF ScaleCheck, ScaleUpContainer, At
  <2>2. \E p \in {"freeze", "info", "unlock"} : Goto(h, p)
    BY <1>11 DEF ScaleCheck, ScaleUpContainer
  <2>3. r.pc # "signal"
    BY <1>4, <2>2
  <2>. QED  BY <1>1, <1>2, <1>9, <2>1, <2>3, EquipHandler
<1>12. ASSUME NEW c \in Containers, FreezeMerged(h, c) PROVE EquipInv'
  <2>1. handler[h].pc = "freeze" /\ c \in handler[h].todo /\ pids' = pids /\ phase' = phase
    BY <1>12 DEF FreezeMerged, At
  <2>2. PICK b \in Conts : b = cont[c]
    BY <1>1 DEF TypeOK
  <2>3. PICK x : x = [b EXCEPT !.stat = IF @ = "running" THEN "paused" ELSE @]
    OBVIOUS
  <2>4. ContGood(b)
    BY <2>2 DEF EquipInv
  <2>5. x \in Conts /\ ContGood(x) /\ (b.stat = "none" => x.stat = "none")
    BY <2>3, <2>4 DEF ContGood, Conts
  <2>6. cont' = [cont EXCEPT ![c] = b] \/ cont' = [cont EXCEPT ![c] = x]
    <3>1. cont = [cont EXCEPT ![c] = b]
      BY <1>1, <2>2 DEF TypeOK
    <3>2. cont' = cont \/ cont' = [cont EXCEPT ![c].stat = IF @ = "running" THEN "paused" ELSE @]
      BY <1>12 DEF FreezeMerged
    <3>. QED  BY <2>2, <2>3, <3>1, <3>2
  <2>7. c \in Group(handler[h].event)
    BY <1>3, <2>1 DEF LockInv, HandlerGood, Group
  <2>8. r.pc # "signal"
    <3>1. CASE Goto(h, "unlock")
      BY <1>4, <3>1
    <3>2. CASE handler' = [handler EXCEPT ![h].pc = IF handler[h].todo = {c} THEN "scaleup" ELSE @, ![h].todo = @ \ {c}]
      BY <1>1, <1>3, <2>1, <3>2 DEF TypeOK, HandlerRecords
    <3>. QED  BY <1>12, <3>1, <3>2 DEF FreezeMerged
  <2>9. h \notin pids'
    BY <1>9, <2>1
  <2>10. CASE cont' = [cont EXCEPT ![c] = b]
    BY <1>2, <1>3, <2>1, <2>2, <2>4, <2>7, <2>8, <2>9, <2>10, EquipWarm
  <2>11. CASE cont' = [cont EXCEPT ![c] = x]
    BY <1>2, <1>3, <2>1, <2>2, <2>5, <2>7, <2>8, <2>9, <2>11, EquipWarm
  <2>. QED  BY <2>6, <2>10, <2>11
<1>13. CASE WarmUpInfo(h)
  <2>1. cont' = cont /\ phase' = phase /\ handler[h].pc = "info"
    BY <1>13 DEF WarmUpInfo, At
  <2>2. \/ Goto(h, "mount") /\ d.stat = "running" /\ pids' = pids \cup {h}
        \/ Goto(h, "unlock") /\ pids' = pids
    BY <1>5, <1>7, <1>13 DEF WarmUpInfo
  <2>3. cont' = [cont EXCEPT ![t] = d]
    BY <1>1, <1>7, <2>1 DEF TypeOK
  <2>4. r.pc \in {"mount", "unlock"} /\ (h \in pids' => d.stat = "running" \/ r.pc = "unlock") /\ pids' \subseteq pids \cup {h}
    BY <1>4, <2>2
  <2>5. h \in pids' => r.pc \in {"mount", "signal", "unlock"} /\ (r.pc # "unlock" => cont'[Target(h)].stat = "running")
    BY <1>5, <1>7, <2>1, <2>4
  <2>6. r.pc # "signal"
    BY <2>4
  <2>. QED  BY <1>2, <1>3, <1>6, <1>7, <1>8, <2>1, <2>3, <2>4, <2>5, <2>6, EquipWarm
<1>14. CASE BindMount(h)
  <2>1. phase' = phase /\ pids' = pids /\ handler[h].pc = "mount"
    BY <1>14 DEF BindMount, At
  <2>2. PICK x : x = [d EXCEPT !.mounted = TRUE]
    OBVIOUS
  <2>3. x \in Conts /\ ContGood(x) /\ x.stat = d.stat /\ x.mounted
    BY <1>8, <2>2 DEF ContGood, Conts
  <2>4. \/ cont' = [cont EXCEPT ![t].mounted = TRUE] /\ Goto(h, "signal")
        \/ cont' = cont /\ Goto(h, "unlock")
    BY <1>5, <1>14 DEF BindMount, Fails, NoFalseSuccess
  <2>5. h \in pids => d.stat = "running"
    BY <1>5, <1>7, <2>1 DEF EquipInv
  <2>6. CASE cont' = [cont EXCEPT ![t].mounted = TRUE] /\ Goto(h, "signal")
    <3>1. cont' = [cont EXCEPT ![t] = x]
      BY <1>7, <2>2, <2>6
    <3>2. cont'[Target(h)] = x
      BY <1>1, <1>5, <3>1 DEF TypeOK
    <3>3. r.pc = "signal"
      BY <1>4, <2>6
    <3>4. h \in pids' => r.pc \in {"mount", "signal", "unlock"} /\ (r.pc # "unlock" => cont'[Target(h)].stat = "running")
      BY <2>1, <2>3, <2>5, <3>2, <3>3
    <3>5. r.pc = "signal" => cont'[Target(h)].mounted
      BY <2>3, <3>2
    <3>6. cont[t].stat = "none" => x.stat = "none"
      BY <1>7, <2>3
    <3>. QED  BY <1>2, <1>3, <1>6, <2>1, <2>3, <3>1, <3>4, <3>5, <3>6, EquipWarm
  <2>7. CASE cont' = cont /\ Goto(h, "unlock")
    <3>1. r.pc = "unlock"
      BY <1>4, <2>7
    <3>. QED  BY <1>1, <1>2, <2>1, <2>7, <3>1, EquipHandler
  <2>. QED  BY <2>4, <2>6, <2>7
<1>15. CASE Signal(h)
  <2>1. phase' = phase /\ pids' = pids /\ handler[h].pc = "signal" /\ Goto(h, "unlock")
    BY <1>15 DEF Signal, At
  <2>2. r.pc = "unlock"
    BY <1>4, <2>1
  <2>3. CASE cont' = cont
    BY <1>1, <1>2, <2>1, <2>2, <2>3, EquipHandler
  <2>4. CASE cont' # cont
    <3>1. PICK x : x = [d EXCEPT !.run = "function"]
      OBVIOUS
    <3>2. h \in pids
      BY <1>15, <2>4 DEF Signal
    <3>3. d.stat = "running" /\ d.mounted
      BY <1>5, <1>7, <2>1, <3>2 DEF EquipInv
    <3>4. d.own
      BY <1>8, <3>3 DEF ContGood
    <3>5. cont' = [cont EXCEPT ![t].run = IF d.own /\ d.mounted THEN "function" ELSE "bare"]
      BY <1>5, <1>7, <1>15, <2>4, Zenon DEF Signal
    <3>6. cont' = [cont EXCEPT ![t] = x]
      BY <1>7, <3>1, <3>3, <3>4, <3>5
    <3>7. x \in Conts /\ ContGood(x) /\ x.stat = d.stat
      BY <1>8, <3>1 DEF ContGood, Conts
    <3>8. cont[t].stat = "none" => x.stat = "none"
      BY <1>7, <3>7
    <3>. QED  BY <1>2, <1>3, <1>6, <2>1, <2>2, <3>6, <3>7, <3>8, EquipWarm
  <2>. QED  BY <2>3, <2>4
<1>. QED  BY <1>10, <1>11, <1>12, <1>13, <1>14, <1>15 DEF Move

LEMMA EquipStart == Init => EquipInv
<1>. SUFFICES ASSUME Init PROVE EquipInv
  OBVIOUS
<1>1. \A d \in BootOutcomes : ContGood(d)
  BY DEF BootOutcomes, NewContainer, NoContainer, ContGood
<1>2. \A c \in Containers : ContGood(cont[c])
  BY <1>1 DEF Init
<1>3. \A h \in Handlers : handler[h].pc = "idle" /\ \A c \in Containers : phase[h][c] \notin Gone
  BY DEF Init, IdleHandler, Gone
<1>. QED  BY <1>2, <1>3 DEF Init, EquipInv

LEMMA EquipStep ==
  ASSUME GroupsDisjoint, NoFalseSuccess, LockInv, LockInv', EquipInv, [Next]_vars
  PROVE  EquipInv'
<1>1. ASSUME NEW h \in Handlers, NEW e \in Events, Call(h, e) PROVE EquipInv'
  BY <1>1, LockEquip
<1>2. ASSUME NEW h \in Handlers, HandlerStep(h) PROVE EquipInv'
  BY <1>2, LockEquip, MoveEquip DEF HandlerStep, Move
<1>3. ASSUME NEW h \in Handlers, NEW c \in Containers, ResetStep(h, c) PROVE EquipInv'
  BY <1>3, ResetEquip
<1>4. ASSUME NEW c \in Containers, Exit(c) PROVE EquipInv'
  BY <1>4, ExitEquip
<1>5. CASE UNCHANGED vars
  BY <1>5 DEF vars, EquipInv, ContGood, Target
<1>. QED  BY <1>1, <1>2, <1>3, <1>4, <1>5 DEF Next

\* Whatever resets, warm-ups, exits and failing calls come together, a live container has the
\* directories it was started from, and a function that was started has its code, unless one of
\* the two calls fails whose failure funclet does not see.
THEOREM EquippedAlways ==
  ASSUME GroupsDisjoint, NoFalseSuccess
  PROVE  Spec => []LiveIsEquipped
<1>1. Init => LockInv /\ EquipInv
  BY LockStart, EquipStart
<1>2. LockInv /\ EquipInv /\ [Next]_vars => LockInv' /\ EquipInv'
  BY LockStep, EquipStep
<1>3. EquipInv => LiveIsEquipped
  BY DEF EquipInv, ContGood, LiveIsEquipped, LiveOwnsPaths, StartedHasCode
<1>. QED  BY <1>1, <1>2, <1>3, PTL DEF Spec
=============================================================================
