--------------------------- MODULE RequestLogProofs ---------------------------
(***************************************************************************)
(* Proofs about RequestLog: the stores of the requests stay sound although *)
(* two dispatchers, the timers and Close work on them at once; a line that *)
(* names its request finds its log; a log closed by the end markers of its *)
(* request is complete. For any number of requests, streams and buffers    *)
(* and any lengths; the first for any output of the process, the others    *)
(* for outputs of the forms LineForm and MarkForm.                         *)
(***************************************************************************)
EXTENDS RequestLog, DataLemmas

(* The invariant *)

\* A request has a tail buffer from startRecvLog until Close.
Open == {"start", "run", "report", "wait", "write", "close"}
BufferHeld ==
  \A q \in Requests : store[q].buffer # NoBuffer <=> call[q].pc \in Open

\* No buffer is lost.
BufferKept ==
  \A b \in Buffers : b \in bufPool \/ \E q \in Requests : store[q].buffer = b

\* By how much a tail may be longer than its length: a cut line gets a newline, and the
\* lines of the controller are written even when nothing remains.
Overdraft(pc) ==
  CASE pc = "start" -> 1
    [] pc = "close" -> 6
    [] OTHER -> 3

\* What a buffer holds and what remains of it add up.
Balanced(st, text, pc) ==
  st.buffer # NoBuffer =>
     Len(text) + st.remain = TailLength /\ st.remain + Overdraft(pc) >= 0

TailBalanced ==
  \A q \in Requests :
     /\ Balanced(store[q], contents[store[q].buffer], call[q].pc)
     /\ Len(store[q].tail) <= TailLength + 6

\* A dispatcher that scans or writes has a store.
Dispatching == \A s \in Streams : disp[s].pc # "read" => disp[s].ls \in Requests

LogInv ==
  /\ LogTypeOK /\ BufferOwned /\ WaitGroupExact
  /\ BufferHeld /\ BufferKept /\ TailBalanced /\ Dispatching

-----------------------------------------------------------------------------
(* Data *)

LEMMA PieceFacts ==
  ASSUME NEW S, NEW s \in Seq(S), NEW m \in Nat \ {0}, NEW n \in Int, n <= Len(s)
  PROVE  SubSeq(s, m, n) \in Seq(S) /\ Len(SubSeq(s, m, n)) = IF m <= n THEN n - m + 1 ELSE 0
<1>1. \A i \in m..n : s[i] \in S
  BY LenProperties
<1>. QED  BY <1>1, SubSeqProperties

\* A set of numbers up to n has a greatest element.
LEMMA GreatestElement ==
  ASSUME NEW T, NEW n \in Nat, T \subseteq 0..n, T # {}
  PROVE  \E x \in T : \A y \in T : y <= x
<1>. DEFINE U == {m \in 0..n : n - m \in T}
<1>1. U \subseteq Nat /\ U # {}
  <2>1. PICK y \in T : TRUE
    OBVIOUS
  <2>2. y \in 0..n /\ n - y \in 0..n /\ n - (n - y) = y
    BY <2>1
  <2>3. n - y \in U
    BY <2>1, <2>2
  <2>4. U \subseteq Nat
    OBVIOUS
  <2>. QED  BY <2>3, <2>4
<1>. HIDE DEF U
<1>2. PICK m \in U : \A k \in U : m <= k
  BY <1>1, LeastElement
<1>3. m \in 0..n /\ n - m \in T
  BY <1>2 DEF U
<1>4. ASSUME NEW y \in T PROVE y <= n - m
  <2>1. n - y \in 0..n /\ n - (n - y) = y /\ y \in 0..n
    BY <1>4
  <2>2. n - y \in U
    BY <2>1 DEF U
  <2>3. m <= n - y
    BY <1>2, <2>2
  <2>. QED  BY <2>1, <2>3, <1>3
<1>. QED  BY <1>3, <1>4

LEMMA SubIntervalFinite ==
  ASSUME NEW n \in Nat, NEW B \in SUBSET (0..n)
  PROVE  IsFiniteSet(B) /\ Cardinality(B) \in Nat
<1>1. IsFiniteSet(0..n)
  <2>1. 0 \in Int /\ n \in Int
    OBVIOUS
  <2>. QED  BY <2>1, FS_Interval
<1>2. IsFiniteSet(B)
  BY <1>1, FS_Subset
<1>. QED  BY <1>2, FS_CardinalityType

\* Every place up to the size of a set of numbers is taken by one of them.
LEMMA RankExists ==
  ASSUME NEW n \in Nat, NEW B \in SUBSET (0..n), NEW k \in 1..Cardinality(B)
  PROVE  \E i \in B : Cardinality({j \in B : j <= i}) = k
<1>. DEFINE Upto(i) == {j \in B : j <= i}
            C == {i \in B : Cardinality(Upto(i)) >= k}
<1>1. IsFiniteSet(B) /\ Cardinality(B) \in Nat
  BY SubIntervalFinite
<1>2. \A i \in B : IsFiniteSet(Upto(i)) /\ Cardinality(Upto(i)) \in Nat
  <2>1. \A i \in B : Upto(i) \in SUBSET B
    OBVIOUS
  <2>. HIDE DEF Upto
  <2>. QED  BY <1>1, <2>1, FS_Subset, FS_CardinalityType
<1>3. B # {}
  BY <1>1, FS_EmptySet
<1>4. C # {} /\ C \subseteq Nat
  <2>1. PICK m \in B : \A y \in B : y <= m
    BY <1>3, GreatestElement
  <2>2. Upto(m) = B
    BY <2>1
  <2>3. Cardinality(Upto(m)) >= k
    BY <1>1, <2>2
  <2>4. m \in C
    BY <2>1, <2>3
  <2>5. C \subseteq B /\ B \subseteq Nat
    OBVIOUS
  <2>. QED  BY <2>4, <2>5
<1>5. PICK i \in C : \A y \in C : i <= y
  <2>. HIDE DEF C
  <2>. QED  BY <1>4, LeastElement
<1>6. i \in B /\ i \in Nat /\ Cardinality(Upto(i)) >= k
  BY <1>5
<1>7. ASSUME Cardinality(Upto(i)) # k PROVE FALSE
  <2>. DEFINE D == Upto(i) \ {i}
  <2>1. IsFiniteSet(D) /\ Cardinality(D) = Cardinality(Upto(i)) - 1
    <3>1. i \in Upto(i)
      BY <1>6
    <3>. HIDE DEF Upto
    <3>. QED  BY <1>2, <1>6, <3>1, FS_RemoveElement
  <2>2. Cardinality(D) >= k /\ D # {}
    <3>1. Cardinality(Upto(i)) \in Nat /\ k \in Nat \ {0}
      BY <1>1, <1>2, <1>6
    <3>2. Cardinality(D) >= k
      BY <1>6, <1>7, <2>1, <3>1
    <3>. QED  BY <2>1, <3>1, <3>2, FS_EmptySet
  <2>3. D \subseteq 0..n
    OBVIOUS
  <2>4. PICK m \in D : \A y \in D : y <= m
    <3>. HIDE DEF D
    <3>. QED  BY <2>2, <2>3, GreatestElement
  <2>5. m \in B /\ m \in Nat /\ m < i
    BY <1>6, <2>4
  <2>6. Upto(m) = D
    <3>1. ASSUME NEW y \in D PROVE y \in Upto(m)
      BY <2>4, <3>1
    <3>2. ASSUME NEW y \in Upto(m) PROVE y \in D
      <4>1. y \in B /\ y \in Nat /\ y <= m
        BY <3>2
      <4>2. y <= i /\ y # i
        BY <1>6, <2>5, <4>1
      <4>. QED  BY <4>1, <4>2
    <3>. QED  BY <3>1, <3>2
  <2>7. m \in C
    BY <2>2, <2>5, <2>6
  <2>. QED  BY <1>5, <1>6, <2>5, <2>7
<1>. QED  BY <1>6, <1>7

LogLines == [rid : Requests, src : Streams \cup {"faas"}, msg : Seq(Symbols)]

\* Whatever is written, its lines are records of the request.
LEMMA RecordsType ==
  ASSUME NEW q \in Requests, NEW src \in Streams \cup {"faas"}, NEW data \in Seq(Symbols)
  PROVE  Records(q, src, data) \in Seq(LogLines)
<1>. DEFINE IsEnd(i) == i = Len(data) + 1 \/ data[i][1] = "nl"
            starts == {i \in DOMAIN data : ~IsEnd(i) /\ (i = 1 \/ IsEnd(i - 1))}
            StartOf(n) == CHOOSE i \in starts : Cardinality({j \in starts : j <= i}) = n
            EndOf(i) == Min({j \in i..(Len(data) + 1) : IsEnd(j)})
            Nth(n) == Record(q, src, SubSeq(data, StartOf(n), EndOf(StartOf(n)) - 1))
<1>1. Len(data) \in Nat /\ DOMAIN data = 1..Len(data)
  BY LenProperties
<1>2. starts \in SUBSET (0..Len(data)) /\ starts \subseteq 1..Len(data)
  BY <1>1
<1>3. Cardinality(starts) \in Nat
  <2>. HIDE DEF starts
  <2>. QED  BY <1>1, <1>2, SubIntervalFinite
<1>4. ASSUME NEW n \in 1..Cardinality(starts) PROVE Nth(n) \in LogLines
  <2>1. StartOf(n) \in 1..Len(data)
    <3>. HIDE DEF starts
    <3>1. \E i \in starts : Cardinality({j \in starts : j <= i}) = n
      BY <1>1, <1>2, <1>4, RankExists
    <3>2. StartOf(n) \in starts
      BY <3>1
    <3>. QED  BY <1>2, <3>2
  <2>. DEFINE a == StartOf(n)
              ends == {j \in a..(Len(data) + 1) : IsEnd(j)}
  <2>2. a \in 1..Len(data)
    BY <2>1
  <2>. HIDE DEF a
  <2>3. ends \subseteq Nat /\ Len(data) + 1 \in ends
    BY <1>1, <2>2
  <2>4. EndOf(a) \in ends
    <3>. HIDE DEF ends
    <3>1. \E x \in ends : \A y \in ends : x <= y
      BY <2>3, LeastElement
    <3>2. Min(ends) \in ends
      BY <3>1 DEF Min
    <3>. QED  BY <3>2 DEF ends
  <2>5. EndOf(a) \in a..(Len(data) + 1)
    BY <2>4
  <2>6. SubSeq(data, a, EndOf(a) - 1) \in Seq(Symbols)
    <3>. DEFINE e == EndOf(a) - 1
    <3>1. e \in Int /\ e <= Len(data) /\ a \in Nat \ {0}
      BY <1>1, <2>2, <2>5
    <3>. HIDE DEF e
    <3>2. SubSeq(data, a, e) \in Seq(Symbols)
      BY <3>1, PieceFacts
    <3>. QED  BY <3>2 DEF e
  <2>7. Record(q, src, SubSeq(data, a, EndOf(a) - 1)) \in LogLines
    <3>. HIDE DEF EndOf
    <3>. QED  BY <2>6 DEF Record, LogLines
  <2>. QED  BY <2>7 DEF a
<1>5. [n \in 1..Cardinality(starts) |-> Nth(n)] \in Seq(LogLines)
  <2>. HIDE DEF starts, Nth
  <2>. QED  BY <1>3, <1>4, IsASeq
<1>6. Records(q, src, data) = [n \in 1..Cardinality(starts) |-> Nth(n)]
  BY DEF Records
<1>. QED  BY <1>5, <1>6

-----------------------------------------------------------------------------
(* Stores *)

LEMMA StoresDef ==
  Stores = [buffer : Buffers \cup {NoBuffer}, remain : Int,
            done : SUBSET Streams, waitg : Int, closed : BOOLEAN, forced : BOOLEAN,
            timer : BOOLEAN, open : BOOLEAN, capacity : Int,
            file : Seq(LogLines), tail : Seq(Symbols), clean : BOOLEAN]
  BY DEF Stores, LogLines

\* The same tail: what the other fields do not touch.
SameTail(a, b) == a.buffer = b.buffer /\ a.remain = b.remain /\ a.tail = b.tail

Counted(st) == st.waitg = Cardinality(Streams \ st.done)

\* What appendLogbuf writes. Unless it is forced, it writes at most what remains and a newline.
LEMMA AppendedFacts ==
  ASSUME NEW st \in Stores, NEW data \in Seq(Symbols), NEW force \in BOOLEAN
  PROVE  /\ Appended(st, data, force) \in Seq(Symbols)
         /\ st.buffer = NoBuffer => Appended(st, data, force) = << >>
         /\ force => Len(Appended(st, data, force)) <= Len(data)
         /\ ~force /\ Appended(st, data, force) # << >> =>
              Len(Appended(st, data, force)) <= st.remain + 1
<1>. DEFINE to == IF force \/ Len(data) <= st.remain THEN Len(data) ELSE st.remain
            cut == SubSeq(data, 1, to)
            w == Appended(st, data, force)
<1>1. st.remain \in Int /\ Len(data) \in Nat
  BY LenProperties DEF Stores
<1>2. to \in Int /\ to <= Len(data) /\ (force => to = Len(data)) /\ (~force => to <= st.remain)
  BY <1>1
<1>3. w = IF st.buffer = NoBuffer \/ to <= 0 THEN << >>
          ELSE IF to < Len(data) /\ Last(cut)[1] # "nl"
               THEN Append(cut, <<"nl", Last(cut)[2]>>) ELSE cut
  BY DEF Appended
<1>. HIDE DEF w, to
<1>4. CASE st.buffer = NoBuffer \/ to <= 0
  <2>1. w = << >> /\ << >> \in Seq(Symbols) /\ Len(<< >>) = 0
    BY <1>3, <1>4, EmptySeq
  <2>. QED  BY <1>1, <2>1 DEF w
<1>5. CASE ~(st.buffer = NoBuffer \/ to <= 0)
  <2>1. cut \in Seq(Symbols) /\ Len(cut) = to
    <3>1. 1 \in Nat \ {0}
      OBVIOUS
    <3>. QED  BY <1>1, <1>2, <1>5, <3>1, PieceFacts
  <2>2. Last(cut) \in Symbols
    <3>1. to \in 1..Len(cut)
      BY <1>2, <1>5, <2>1
    <3>. HIDE DEF cut
    <3>. QED  BY <2>1, <3>1, ElementOfSeq DEF Last
  <2>3. <<"nl", Last(cut)[2]>> \in Symbols
    BY <2>2 DEF Symbols
  <2>4. /\ Append(cut, <<"nl", Last(cut)[2]>>) \in Seq(Symbols)
        /\ Len(Append(cut, <<"nl", Last(cut)[2]>>)) = to + 1
    <3>. HIDE DEF cut
    <3>. QED  BY <2>1, <2>3, AppendProperties
  <2>5. CASE to < Len(data) /\ Last(cut)[1] # "nl"
    <3>1. w \in Seq(Symbols) /\ Len(w) = to + 1 /\ to + 1 <= Len(data)
      BY <1>1, <1>2, <1>3, <1>5, <2>4, <2>5
    <3>. QED  BY <1>1, <1>2, <1>5, <3>1 DEF w
  <2>6. CASE ~(to < Len(data) /\ Last(cut)[1] # "nl")
    <3>1. w \in Seq(Symbols) /\ Len(w) = to
      BY <1>3, <1>5, <2>1, <2>6
    <3>. QED  BY <1>1, <1>2, <1>5, <3>1 DEF w
  <2>. QED  BY <2>5, <2>6
<1>. QED  BY <1>4, <1>5

\* Flags are counted once, and setting them does not touch the tail.
LEMMA FlagsFacts ==
  ASSUME NEW st \in Stores, Counted(st), NEW flags \in SUBSET Streams
  PROVE  /\ setFlagLocked(st, flags) \in Stores
         /\ Counted(setFlagLocked(st, flags))
         /\ SameTail(setFlagLocked(st, flags), st)
<1>. DEFINE n == setFlagLocked(st, flags)
            A == Streams \ st.done
            B == flags \ st.done
<1>1. st.done \in SUBSET Streams /\ st.waitg \in Int
  BY DEF Stores
<1>2. /\ n = [st EXCEPT !.done = st.done \cup flags, !.waitg = st.waitg - Cardinality(B)]
      /\ n.done = st.done \cup flags /\ n.waitg = st.waitg - Cardinality(B)
  BY DEF setFlagLocked, Stores
<1>3. IsFiniteSet(A) /\ IsFiniteSet(B) /\ Cardinality(A) \in Nat /\ Cardinality(B) \in Nat
  <2>1. IsFiniteSet(Streams) /\ A \in SUBSET Streams /\ B \in SUBSET Streams
    BY RequestLogAssumption
  <2>. HIDE DEF A, B
  <2>. QED  BY <2>1, FS_Subset, FS_CardinalityType
<1>4. Cardinality(A \ B) = Cardinality(A) - Cardinality(B)
  <2>1. A \cap B = B
    OBVIOUS
  <2>. HIDE DEF A, B
  <2>. QED  BY <1>3, <2>1, FS_Difference
<1>5. Streams \ n.done = A \ B
  BY <1>1, <1>2
<1>6. Counted(n)
  BY <1>1, <1>2, <1>3, <1>4, <1>5 DEF Counted
<1>7. n \in Stores
  <2>. DEFINE x == st.done \cup flags
              y == st.waitg - Cardinality(B)
  <2>1. x \in SUBSET Streams /\ y \in Int
    BY <1>1, <1>3
  <2>2. n = [st EXCEPT !.done = x, !.waitg = y]
    BY <1>2
  <2>. HIDE DEF x, y, n
  <2>. QED  BY <2>1, <2>2, StoresDef
<1>8. SameTail(n, st)
  BY <1>2 DEF SameTail, Stores
<1>. QED  BY <1>6, <1>7, <1>8

LEMMA LogDoneFacts ==
  ASSUME NEW st \in Stores, Counted(st)
  PROVE  LogDone(st) \in Stores /\ Counted(LogDone(st)) /\ SameTail(LogDone(st), st)
<1>. DEFINE m == setFlagLocked(st, Streams)
<1>1. m \in Stores /\ Counted(m) /\ SameTail(m, st)
  BY FlagsFacts
<1>2. LogDone(st) = [m EXCEPT !.forced = m.forced \/ st.done # Streams]
  BY DEF LogDone
<1>. HIDE DEF m
<1>. QED  BY <1>1, <1>2 DEF Stores, Counted, SameTail

LEMMA FileWriteFacts ==
  ASSUME NEW st \in Stores, NEW q \in Requests, NEW src \in Streams \cup {"faas"},
         NEW data \in Seq(Symbols)
  PROVE  /\ FileWrite(st, q, src, data) \in Stores
         /\ Counted(st) => Counted(FileWrite(st, q, src, data))
         /\ SameTail(FileWrite(st, q, src, data), st)
<1>. DEFINE rs == Records(q, src, data)
            f == st.file \o rs
            c == st.capacity - Written(data)
<1>1. f \in Seq(LogLines)
  <2>1. rs \in Seq(LogLines) /\ st.file \in Seq(LogLines)
    BY RecordsType, StoresDef
  <2>. HIDE DEF rs
  <2>. QED  BY <2>1, ConcatProperties
<1>2. c \in Int
  BY LenProperties DEF Written, Stores
<1>3. FileWrite(st, q, src, data) = st
         \/ FileWrite(st, q, src, data) = [st EXCEPT !.file = f, !.capacity = c]
  BY DEF FileWrite
<1>. HIDE DEF f, c
<1>. QED  BY <1>1, <1>2, <1>3, StoresDef DEF Counted, SameTail

-----------------------------------------------------------------------------
(* Dispatchers *)

\* A dispatcher that can go on.
Ready(d) == d \in Dispatchers /\ (d.pc # "read" => d.ls \in Requests)

LEMMA ReadingReady ==
  ASSUME NEW buf \in Seq(Symbols), NEW tabs \in Nat, NEW stale \in BOOLEAN
  PROVE  Ready(Reading(buf, tabs, stale))
<1>1. << >> \in Seq(Symbols)
  BY EmptySeq
<1>. QED  BY <1>1 DEF Ready, Reading, Dispatchers

LEMMA ResumeReady ==
  ASSUME NEW d \in Dispatchers, d.ls \in Requests, NEW n \in Nat
  PROVE  Ready(Resume(d, n))
<1>. DEFINE m == d.lastln + n
<1>1. m \in Nat /\ d.i \in Nat
  BY DEF Dispatchers
<1>2. Ready([d EXCEPT !.pc = "scan", !.lastln = d.i, !.tabs = 0, !.lastTab = 0, !.stale = FALSE])
  BY <1>1 DEF Ready, Dispatchers
<1>3. Ready([d EXCEPT !.pc = "scan", !.i = m])
  <2>. HIDE DEF m
  <2>. QED  BY <1>1 DEF Ready, Dispatchers
<1>. HIDE DEF Ready
<1>. QED  BY <1>2, <1>3 DEF Resume

LEMMA WritingReady ==
  ASSUME NEW d \in Dispatchers, d.ls \in Requests, NEW data \in Seq(Symbols), NEW eof \in BOOLEAN
  PROVE  Ready(Writing(d, data, eof))
<1>. DEFINE e == [d EXCEPT !.data = data, !.eof = eof]
<1>1. e \in Dispatchers /\ e.ls \in Requests
  BY DEF Dispatchers
<1>2. Ready(Resume(e, Len(data)))
  <2>. HIDE DEF e
  <2>. QED  BY <1>1, ResumeReady, LenProperties
<1>3. Ready([e EXCEPT !.pc = IF eof THEN "eof" ELSE "append"])
  <2>. HIDE DEF e
  <2>. QED  BY <1>1 DEF Ready, Dispatchers
<1>. HIDE DEF Ready
<1>. QED  BY <1>2, <1>3 DEF Writing

LEMMA ScanReady ==
  ASSUME NEW d \in Dispatchers, d.ls \in Requests, lmap.stores \subseteq Requests,
         NEW k \in 1..Len(d.buf)
  PROVE  Ready(AtZero(d, k)) /\ Ready(AtLine(d, k)) /\ Ready(AtTab(d, k))
<1>1. /\ d.buf \in Seq(Symbols) /\ Len(d.buf) \in Nat /\ k \in Nat \ {0} /\ k - 1 \in Nat
      /\ k <= Len(d.buf) /\ d.lastln + 1 \in Nat \ {0} /\ d.tabs \in Nat /\ d.zeros + 1 \in Nat
  BY LenProperties DEF Dispatchers
<1>2. Ready(AtZero(d, k))
  <2>1. RemoveAt(d.buf, k) \in Seq(Symbols)
    BY <1>1, RemoveAtFacts
  <2>2. SubSeq(d.buf, d.lastln + 1, k - 1) \in Seq(Symbols)
    BY <1>1, PieceFacts
  <2>. DEFINE e == [d EXCEPT !.i = k - 1, !.zeros = @ + 1, !.buf = RemoveAt(@, k)]
  <2>3. e \in Dispatchers /\ e.ls \in Requests
    BY <1>1, <2>1 DEF Dispatchers
  <2>4. AtZero(d, k) = Writing(e, SubSeq(d.buf, d.lastln + 1, k - 1), TRUE)
    BY DEF AtZero
  <2>. HIDE DEF e
  <2>. QED  BY <2>2, <2>3, <2>4, WritingReady
<1>3. Ready(AtLine(d, k))
  <2>1. SubSeq(d.buf, d.lastln + 1, k) \in Seq(Symbols)
    BY <1>1, PieceFacts
  <2>. DEFINE e == [d EXCEPT !.i = k]
  <2>2. e \in Dispatchers /\ e.ls \in Requests
    BY <1>1 DEF Dispatchers
  <2>3. AtLine(d, k) = Writing(e, SubSeq(d.buf, d.lastln + 1, k), FALSE)
    BY DEF AtLine
  <2>. HIDE DEF e
  <2>. QED  BY <2>1, <2>2, <2>3, WritingReady
<1>4. Ready(AtTab(d, k))
  <2>. DEFINE field == SubSeq(d.buf, d.lastTab + 1, k - 1)
              owner == {q \in lmap.stores : field = <<<<"id", q>>>>}
              l == IF d.tabs = 1 /\ owner # {} THEN CHOOSE q \in owner : TRUE ELSE d.ls
  <2>1. l \in Requests
    OBVIOUS
  <2>. DEFINE t == d.tabs + 1
  <2>2. t \in Nat /\ k \in Nat
    BY <1>1
  <2>3. AtTab(d, k) = [d EXCEPT !.i = k, !.tabs = t, !.lastTab = k, !.ls = l]
    BY DEF AtTab
  <2>. HIDE DEF l, t
  <2>. QED  BY <2>1, <2>2, <2>3 DEF Ready, Dispatchers
<1>. QED  BY <1>2, <1>3, <1>4

-----------------------------------------------------------------------------
(* Kinds of steps *)

Calls == [pc : {"new", "start", "run", "report", "wait", "write", "close", "stop", "done"},
          ran : BOOLEAN]

LEMMA OverdraftFacts ==
  \A pc : Overdraft(pc) \in 1..6
BY DEF Overdraft

LEMMA OneStore ==
  ASSUME LogInv, NEW q \in Requests, NEW n \in Stores, Counted(n), SameTail(n, store[q]),
         store' = [store EXCEPT ![q] = n]
  PROVE  /\ store' \in [Requests -> Stores]
         /\ \A r \in Requests : SameTail(store'[r], store[r]) /\ Counted(store'[r])
<1>1. store \in [Requests -> Stores] /\ \A r \in Requests : Counted(store[r])
  BY DEF LogInv, LogTypeOK, WaitGroupExact, Counted
<1>2. ASSUME NEW r \in Requests PROVE SameTail(store'[r], store[r]) /\ Counted(store'[r])
  <2>1. CASE r = q
    BY <1>1, <2>1
  <2>2. CASE r # q
    <3>1. store'[r] = store[r]
      BY <1>1, <2>2
    <3>. QED  BY <1>1, <3>1 DEF SameTail
  <2>. QED  BY <2>1, <2>2
<1>3. store' \in [Requests -> Stores]
  BY <1>1
<1>. QED  BY <1>2, <1>3

LEMMA OneDispatcher ==
  ASSUME LogInv, NEW s \in Streams, NEW e, Ready(e), disp' = [disp EXCEPT ![s] = e]
  PROVE  disp' \in [Streams -> Dispatchers] /\ Dispatching'
<1>1. disp \in [Streams -> Dispatchers] /\ \A t \in Streams : Ready(disp[t])
  BY DEF LogInv, LogTypeOK, Dispatching, Ready
<1>2. \A t \in Streams : Ready(disp'[t])
  <2>. HIDE DEF Ready
  <2>. QED  BY <1>1
<1>3. disp' \in [Streams -> Dispatchers]
  BY <1>1 DEF Ready
<1>. QED  BY <1>2, <1>3 DEF Dispatching, Ready

\* A step that leaves the tails and their buffers alone.
LEMMA QuietStep ==
  ASSUME LogInv, LogTypeOK', Dispatching', UNCHANGED <<contents, bufPool>>,
         \A q \in Requests : SameTail(store'[q], store[q]) /\ Counted(store'[q]),
         \A q \in Requests :
            /\ call'[q].pc \in Open <=> call[q].pc \in Open
            /\ Overdraft(call'[q].pc) >= Overdraft(call[q].pc)
  PROVE  LogInv'
<1>1. \A q \in Requests : /\ store'[q].buffer = store[q].buffer
                          /\ store'[q].remain = store[q].remain
                          /\ store'[q].tail = store[q].tail
  BY DEF SameTail
<1>2. BufferOwned'
  BY <1>1 DEF LogInv, BufferOwned
<1>3. WaitGroupExact'
  BY DEF WaitGroupExact, Counted
<1>4. BufferHeld'
  BY <1>1 DEF LogInv, BufferHeld
<1>5. BufferKept'
  BY <1>1 DEF LogInv, BufferKept
<1>6. TailBalanced'
  <2>. SUFFICES ASSUME NEW q \in Requests
                PROVE  /\ Balanced(store'[q], contents'[store'[q].buffer], call'[q].pc)
                       /\ Len(store'[q].tail) <= TailLength + 6
    BY DEF TailBalanced
  <2>1. /\ Balanced(store[q], contents[store[q].buffer], call[q].pc)
        /\ Len(store[q].tail) <= TailLength + 6
    BY DEF LogInv, TailBalanced
  <2>2. Overdraft(call[q].pc) \in Int /\ Overdraft(call'[q].pc) \in Int
    BY OverdraftFacts
  <2>3. store[q].remain \in Int
    BY DEF LogInv, LogTypeOK, Stores
  <2>. QED  BY <1>1, <2>1, <2>2, <2>3 DEF Balanced
<1>. QED  BY <1>2, <1>3, <1>4, <1>5, <1>6 DEF LogInv

\* A step that appends to the tail of an open store.
LEMMA AppendStep ==
  ASSUME LogInv, LogTypeOK', Dispatching', NEW q \in Requests, NEW n \in Stores, Counted(n),
         NEW w \in Seq(Symbols),
         store[q].buffer # NoBuffer, n.buffer = store[q].buffer, n.tail = store[q].tail,
         n.remain = store[q].remain - Len(w),
         store' = [store EXCEPT ![q] = n],
         contents' = [contents EXCEPT ![store[q].buffer] = @ \o w],
         bufPool' = bufPool,
         call'[q].pc \in Open, n.remain + Overdraft(call'[q].pc) >= 0,
         \A r \in Requests \ {q} : call'[r] = call[r]
  PROVE  LogInv'
<1>. DEFINE b == store[q].buffer
<1>1. /\ store \in [Requests -> Stores] /\ contents \in [Buffers -> Seq(Symbols)]
      /\ \A r \in Requests : Counted(store[r])
      /\ b \in Buffers /\ b \notin bufPool
  BY DEF LogInv, LogTypeOK, WaitGroupExact, Counted, BufferOwned, Stores
<1>2. \A r \in Requests : /\ store'[r] = IF r = q THEN n ELSE store[r]
                          /\ store'[r].buffer = store[r].buffer
                          /\ store'[r].tail = store[r].tail
  BY <1>1
<1>3. BufferOwned'
  <2>1. \A x \in bufPool : contents'[x] = contents[x]
    BY <1>1
  <2>. QED  BY <1>2, <2>1 DEF LogInv, BufferOwned
<1>4. WaitGroupExact'
  BY <1>1, <1>2 DEF WaitGroupExact, Counted
<1>5. BufferHeld'
  BY <1>2 DEF LogInv, BufferHeld
<1>6. BufferKept'
  BY <1>2 DEF LogInv, BufferKept
<1>7. TailBalanced'
  <2>. SUFFICES ASSUME NEW r \in Requests
                PROVE  /\ Balanced(store'[r], contents'[store'[r].buffer], call'[r].pc)
                       /\ Len(store'[r].tail) <= TailLength + 6
    BY DEF TailBalanced
  <2>1. /\ Balanced(store[r], contents[store[r].buffer], call[r].pc)
        /\ Len(store[r].tail) <= TailLength + 6
    BY DEF LogInv, TailBalanced
  <2>2. CASE r = q
    <3>1. contents'[b] = contents[b] \o w /\ contents[b] \in Seq(Symbols)
      BY <1>1
    <3>2. Len(contents'[b]) = Len(contents[b]) + Len(w) /\ Len(w) \in Nat /\ Len(contents[b]) \in Nat
      BY <3>1, ConcatProperties, LenProperties
    <3>3. store[q].remain \in Int
      BY <1>1 DEF Stores
    <3>4. Len(contents[b]) + store[q].remain = TailLength
      BY <2>1, <2>2 DEF Balanced
    <3>5. TailLength \in Nat /\ n.remain = store[q].remain - Len(w)
      BY RequestLogAssumption
    <3>6. Len(contents'[b]) + n.remain = TailLength
      <4>. HIDE DEF b
      <4>. QED  BY ONLY <3>2, <3>3, <3>4, <3>5, SMT
    <3>. QED  BY <1>2, <2>1, <2>2, <3>6 DEF Balanced
  <2>3. CASE r # q
    <3>1. store'[r] = store[r] /\ call'[r] = call[r]
      BY <1>2, <2>3
    <3>2. store[r].buffer # NoBuffer =>
             contents'[store[r].buffer] = contents[store[r].buffer]
      <4>1. store[r].buffer # NoBuffer => store[r].buffer # b /\ store[r].buffer \in Buffers
        BY <1>1, <2>3 DEF LogInv, BufferOwned, Stores
      <4>. QED  BY <1>1, <4>1
    <3>. QED  BY <2>1, <3>1, <3>2 DEF Balanced
  <2>. QED  BY <2>2, <2>3
<1>. QED  BY <1>3, <1>4, <1>5, <1>6, <1>7 DEF LogInv

-----------------------------------------------------------------------------
(* The steps of a request *)

\* The pool is never empty when a request starts: its buffers are those of other requests.
LEMMA PoolNotEmpty ==
  ASSUME LogInv, NEW q \in Requests, call[q].pc = "new"
  PROVE  bufPool # {}
<1>. SUFFICES ASSUME bufPool = {} PROVE FALSE
  OBVIOUS
<1>. DEFINE T == Requests \ {q}
            Owns(b) == CHOOSE r \in Requests : store[r].buffer = b
            f == [b \in Buffers |-> Owns(b)]
<1>1. store[q].buffer = NoBuffer
  BY DEF LogInv, BufferHeld, Open
<1>2. ASSUME NEW b \in Buffers PROVE Owns(b) \in T /\ store[Owns(b)].buffer = b
  <2>1. \E r \in Requests : store[r].buffer = b
    BY DEF LogInv, BufferKept
  <2>2. Owns(b) \in Requests /\ store[Owns(b)].buffer = b
    BY <2>1
  <2>3. b # NoBuffer
    BY RequestLogAssumption
  <2>. QED  BY <1>1, <2>2, <2>3
<1>3. f \in Injection(Buffers, T)
  <2>. HIDE DEF Owns
  <2>1. f \in [Buffers -> T]
    BY <1>2
  <2>2. \A a, b \in Buffers : f[a] = f[b] => a = b
    BY <1>2
  <2>. QED  BY <2>1, <2>2 DEF Injection, IsInjective
<1>4. IsFiniteSet(T) /\ Cardinality(T) = Cardinality(Requests) - 1 /\ Cardinality(Requests) \in Nat
  BY RequestLogAssumption, FS_RemoveElement, FS_CardinalityType
<1>5. Cardinality(Buffers) <= Cardinality(T) /\ Cardinality(Buffers) \in Nat
  <2>. HIDE DEF f, T
  <2>. QED  BY <1>3, <1>4, RequestLogAssumption, FS_Injection, FS_CardinalityType
<1>6. Cardinality(Buffers) >= Cardinality(Requests)
  BY RequestLogAssumption
<1>. QED  BY <1>4, <1>5, <1>6

LEMMA NoStoreFacts ==
  NoStore \in Stores /\ Counted(NoStore)
<1>1. Streams \ {} = Streams /\ Cardinality(Streams) \in Int
  BY RequestLogAssumption, FS_CardinalityType
<1>2. << >> \in Seq(LogLines) /\ << >> \in Seq(Symbols)
  BY EmptySeq
<1>3. NoStore \in Stores
  BY <1>1, <1>2, StoresDef DEF NoStore
<1>4. NoStore.waitg = Cardinality(Streams) /\ NoStore.done = {}
  BY DEF NoStore
<1>. QED  BY <1>1, <1>3, <1>4 DEF Counted

LEMMA CleanType == \A q : Clean(q) \in BOOLEAN
BY DEF Clean

LEMMA StartInv ==
  ASSUME LogInv, NEW q \in Requests, startRecvLog(q)
  PROVE  LogInv'
<1>. DEFINE b == Get
            n == newLogStatStore(q)
<1>1. /\ store \in [Requests -> Stores] /\ contents \in [Buffers -> Seq(Symbols)]
      /\ bufPool \subseteq Buffers /\ call \in [Requests -> Calls]
      /\ lmap \in [last : Requests \cup {NoRequest}, stores : SUBSET Requests]
      /\ \A r \in Requests : Counted(store[r])
  BY DEF LogInv, LogTypeOK, WaitGroupExact, Counted, Calls
<1>2. /\ call[q].pc = "new" /\ bufPool' = bufPool \ {b} /\ contents' = [contents EXCEPT ![b] = << >>]
      /\ store' = [store EXCEPT ![q] = n] /\ call' = [call EXCEPT ![q].pc = "start"]
      /\ lmap' = [last |-> q, stores |-> lmap.stores \cup {q}]
      /\ UNCHANGED <<mode, logType, conn, disp>>
  BY DEF startRecvLog, StartRecvLog
<1>3. b \in bufPool /\ b \in Buffers /\ b # NoBuffer
  BY <1>1, <1>2, PoolNotEmpty, RequestLogAssumption DEF Get
<1>4. /\ n \in Stores /\ Counted(n) /\ n.buffer = b /\ n.remain = TailLength /\ n.tail = << >>
  <2>. DEFINE o == getUserLogPath
              c == Clean(q)
  <2>1. o \in BOOLEAN /\ c \in BOOLEAN /\ TailLength \in Int /\ FileCapacity \in Int
    BY CleanType, RequestLogAssumption DEF getUserLogPath
  <2>2. n = [NoStore EXCEPT !.buffer = b, !.remain = TailLength, !.open = o,
                            !.capacity = FileCapacity, !.clean = c]
    BY DEF newLogStatStore
  <2>3. NoStore.tail = << >>
    BY DEF NoStore
  <2>. HIDE DEF o, c, n, b
  <2>. QED  BY <1>3, <2>1, <2>2, <2>3, NoStoreFacts, StoresDef DEF Counted
<1>. HIDE DEF n, b
<1>5. \A r \in Requests : store'[r] = IF r = q THEN n ELSE store[r]
  BY <1>1, <1>2
<1>6. /\ call' \in [Requests -> Calls] /\ call'[q].pc = "start"
      /\ \A r \in Requests \ {q} : call'[r] = call[r]
  BY <1>1, <1>2 DEF Calls
<1>7. << >> \in Seq(Symbols) /\ Len(<< >>) = 0
  BY EmptySeq
<1>8. contents' \in [Buffers -> Seq(Symbols)] /\ contents'[b] = << >>
  BY <1>1, <1>2, <1>3, <1>7
<1>9. LogTypeOK'
  <2>1. store' \in [Requests -> Stores]
    BY <1>1, <1>2, <1>4
  <2>2. lmap' \in [last : Requests \cup {NoRequest}, stores : SUBSET Requests]
    BY <1>1, <1>2
  <2>3. mode \in Modes /\ logType \in LogTypes /\ conn \in [Streams -> Seq(Symbols)]
        /\ disp \in [Streams -> Dispatchers]
    BY DEF LogInv, LogTypeOK
  <2>. QED  BY <1>1, <1>2, <1>6, <1>8, <2>1, <2>2, <2>3 DEF LogTypeOK, Calls
<1>10. Dispatching'
  BY <1>2 DEF LogInv, Dispatching
<1>11. store[q].buffer = NoBuffer
  BY <1>2 DEF LogInv, BufferHeld, Open
<1>12. BufferOwned'
  <2>1. \A r \in Requests : store[r].buffer # NoBuffer => store[r].buffer \notin bufPool
    BY DEF LogInv, BufferOwned
  <2>2. \A r, t \in Requests : store[r].buffer # NoBuffer /\ r # t =>
                                 store[r].buffer # store[t].buffer
    BY DEF LogInv, BufferOwned
  <2>3. \A x \in bufPool' : contents'[x] = << >>
    BY <1>1, <1>2, <1>3 DEF LogInv, BufferOwned
  <2>4. \A r \in Requests : store'[r].buffer # NoBuffer => store'[r].buffer \notin bufPool'
    BY <1>2, <1>4, <1>5, <2>1
  <2>5. \A r, t \in Requests : store'[r].buffer # NoBuffer /\ r # t =>
                                 store'[r].buffer # store'[t].buffer
    BY <1>3, <1>4, <1>5, <2>1, <2>2
  <2>. QED  BY <2>3, <2>4, <2>5 DEF BufferOwned
<1>13. WaitGroupExact'
  BY <1>1, <1>4, <1>5 DEF WaitGroupExact, Counted
<1>14. BufferHeld'
  BY <1>3, <1>4, <1>5, <1>6 DEF LogInv, BufferHeld, Open
<1>15. BufferKept'
  <2>. SUFFICES ASSUME NEW x \in Buffers, x \notin bufPool'
                PROVE  \E r \in Requests : store'[r].buffer = x
    BY DEF BufferKept
  <2>1. CASE x = b
    BY <1>4, <1>5, <2>1
  <2>2. CASE x # b
    <3>1. PICK r \in Requests : store[r].buffer = x
      BY <1>2, <2>2 DEF LogInv, BufferKept
    <3>2. r # q
      BY <1>11, <3>1, RequestLogAssumption
    <3>. QED  BY <1>5, <3>1, <3>2
  <2>. QED  BY <2>1, <2>2
<1>16. TailBalanced'
  <2>. SUFFICES ASSUME NEW r \in Requests
                PROVE  /\ Balanced(store'[r], contents'[store'[r].buffer], call'[r].pc)
                       /\ Len(store'[r].tail) <= TailLength + 6
    BY DEF TailBalanced
  <2>1. CASE r = q
    <3>1. store'[r] = n /\ contents'[store'[r].buffer] = << >> /\ call'[r].pc = "start"
      BY <1>4, <1>5, <1>6, <1>8, <2>1
    <3>2. TailLength \in Nat /\ Overdraft("start") \in Nat
      BY RequestLogAssumption, OverdraftFacts
    <3>3. Len(<< >>) + n.remain = TailLength /\ n.remain + Overdraft("start") >= 0
      BY <1>4, <1>7, <3>2
    <3>4. Balanced(n, << >>, "start")
      BY <3>3 DEF Balanced
    <3>5. Len(n.tail) <= TailLength + 6
      BY <1>4, <1>7, <3>2
    <3>. QED  BY <3>1, <3>4, <3>5
  <2>2. CASE r # q
    <3>1. store'[r] = store[r] /\ call'[r] = call[r]
      BY <1>5, <1>6, <2>2
    <3>2. store[r].buffer # NoBuffer => store[r].buffer \in Buffers /\ store[r].buffer # b
      BY <1>1, <1>3 DEF LogInv, BufferOwned, Stores
    <3>3. store[r].buffer # NoBuffer => contents'[store[r].buffer] = contents[store[r].buffer]
      BY <1>1, <1>2, <3>2
    <3>4. /\ Balanced(store[r], contents[store[r].buffer], call[r].pc)
          /\ Len(store[r].tail) <= TailLength + 6
      BY DEF LogInv, TailBalanced
    <3>. QED  BY <3>1, <3>3, <3>4 DEF Balanced
  <2>. QED  BY <2>1, <2>2
<1>. QED  BY <1>9, <1>10, <1>12, <1>13, <1>14, <1>15, <1>16 DEF LogInv

\* WriteFunctionLog of at most as much as the next place of the request allows.
LEMMA WriteFunctionLogInv ==
  ASSUME LogInv, NEW q \in Requests, NEW data \in Seq(Symbols), WriteFunctionLog(q, data),
         call[q].pc \in Open, NEW to \in Open, call' = [call EXCEPT ![q].pc = to],
         Overdraft(call[q].pc) + Len(data) <= Overdraft(to),
         UNCHANGED <<mode, logType, lmap, bufPool, conn, disp>>
  PROVE  LogInv'
<1>. DEFINE w == Appended(store[q], data, TRUE)
            m == [store[q] EXCEPT !.remain = store[q].remain - Len(w)]
            n == FileWrite(m, q, "faas", data)
<1>1. /\ store \in [Requests -> Stores] /\ contents \in [Buffers -> Seq(Symbols)]
      /\ call \in [Requests -> Calls] /\ store[q] \in Stores /\ Counted(store[q])
      /\ store[q].remain \in Int
  BY DEF LogInv, LogTypeOK, WaitGroupExact, Counted, Calls, Stores
<1>2. /\ contents' = [contents EXCEPT ![store[q].buffer] = @ \o w]
      /\ store' = [store EXCEPT ![q] = n]
  BY DEF WriteFunctionLog
<1>3. /\ w \in Seq(Symbols) /\ Len(w) <= Len(data) /\ Len(w) \in Nat /\ Len(data) \in Nat
  BY <1>1, AppendedFacts, LenProperties
<1>. HIDE DEF w
<1>4. m \in Stores /\ Counted(m) /\ m.remain = store[q].remain - Len(w)
      /\ m.buffer = store[q].buffer /\ m.tail = store[q].tail
  <2>. DEFINE x == store[q].remain - Len(w)
  <2>1. x \in Int /\ m = [store[q] EXCEPT !.remain = x]
    BY <1>1, <1>3
  <2>. HIDE DEF x, m
  <2>2. m \in Stores /\ Counted(m) /\ m.remain = x
        /\ m.buffer = store[q].buffer /\ m.tail = store[q].tail
    BY <1>1, <2>1 DEF Stores, Counted
  <2>. QED  BY <2>2 DEF x
<1>. HIDE DEF m
<1>5. n \in Stores /\ Counted(n) /\ SameTail(n, m)
  BY <1>4, FileWriteFacts
<1>. HIDE DEF n
<1>6. store[q].buffer # NoBuffer /\ store[q].buffer \in Buffers
  BY <1>1 DEF LogInv, BufferHeld, Stores
<1>7. /\ call' \in [Requests -> Calls] /\ call'[q].pc = to
      /\ \A r \in Requests \ {q} : call'[r] = call[r]
  BY <1>1 DEF Calls, Open
<1>8. LogTypeOK'
  <2>1. store' \in [Requests -> Stores]
    BY <1>1, <1>2, <1>5
  <2>2. contents' \in [Buffers -> Seq(Symbols)]
    <3>1. contents[store[q].buffer] \o w \in Seq(Symbols)
      BY <1>1, <1>3, <1>6, ConcatProperties
    <3>. QED  BY <1>1, <1>2, <3>1
  <2>. QED  BY <1>7, <2>1, <2>2 DEF LogInv, LogTypeOK, Calls
<1>9. Dispatching'
  BY DEF LogInv, Dispatching
<1>10. /\ n.buffer = store[q].buffer /\ n.tail = store[q].tail
       /\ n.remain = store[q].remain - Len(w)
  BY <1>4, <1>5 DEF SameTail
<1>11. n.remain + Overdraft(to) >= 0
  <2>1. store[q].remain + Overdraft(call[q].pc) >= 0
    BY <1>6 DEF LogInv, TailBalanced, Balanced
  <2>2. Overdraft(call[q].pc) \in Int /\ Overdraft(to) \in Int
    BY OverdraftFacts
  <2>. QED  BY <1>1, <1>3, <1>10, <2>1, <2>2
<1>. QED
  BY <1>2, <1>3, <1>5, <1>6, <1>7, <1>8, <1>9, <1>10, <1>11, AppendStep

LEMMA LinesType ==
  ASSUME NEW q \in Requests
  PROVE  /\ <<<<"START", q>>, <<"nl", q>>>> \in Seq(Symbols)
         /\ Len(<<<<"START", q>>, <<"nl", q>>>>) = 2
         /\ <<<<"END", q>>, <<"nl", q>>, <<"REPORT", q>>>> \in Seq(Symbols)
         /\ Len(<<<<"END", q>>, <<"nl", q>>, <<"REPORT", q>>>>) = 3
<1>1. {<<"START", q>>, <<"nl", q>>, <<"END", q>>, <<"REPORT", q>>} \subseteq Symbols
  BY DEF Symbols
<1>. DEFINE a == <<"START", q>>
            b == <<"nl", q>>
            c == <<"END", q>>
            d == <<"REPORT", q>>
<1>2. a \in Symbols /\ b \in Symbols /\ c \in Symbols /\ d \in Symbols
  BY <1>1
<1>. HIDE DEF a, b, c, d
<1>3. <<a, b>> \in Seq(Symbols) /\ Len(<<a, b>>) = 2
      /\ <<c, b, d>> \in Seq(Symbols) /\ Len(<<c, b, d>>) = 3
  BY <1>2
<1>. QED  BY <1>3 DEF a, b, c, d

LEMMA InvokeStartInv ==
  ASSUME LogInv, NEW q \in Requests, InvokeStart(q)
  PROVE  LogInv'
<1>. DEFINE data == <<<<"START", q>>, <<"nl", q>>>>
<1>1. /\ WriteFunctionLog(q, data) /\ call[q].pc = "start" /\ call' = [call EXCEPT ![q].pc = "run"]
      /\ UNCHANGED <<mode, logType, lmap, bufPool, conn, disp>>
  BY DEF InvokeStart
<1>2. data \in Seq(Symbols) /\ Len(data) = 2
  BY LinesType
<1>3. "run" \in Open /\ call[q].pc \in Open /\ Overdraft(call[q].pc) + Len(data) <= Overdraft("run")
  BY <1>1, <1>2 DEF Open, Overdraft
<1>. HIDE DEF data
<1>. QED  BY <1>1, <1>2, <1>3, WriteFunctionLogInv

LEMMA WriteReportInv ==
  ASSUME LogInv, NEW q \in Requests, WriteReport(q)
  PROVE  LogInv'
<1>. DEFINE data == <<<<"END", q>>, <<"nl", q>>, <<"REPORT", q>>>>
<1>1. /\ WriteFunctionLog(q, data) /\ call[q].pc = "write" /\ call' = [call EXCEPT ![q].pc = "close"]
      /\ UNCHANGED <<mode, logType, lmap, bufPool, conn, disp>>
  BY DEF WriteReport
<1>2. data \in Seq(Symbols) /\ Len(data) = 3
  BY LinesType
<1>3. "close" \in Open /\ call[q].pc \in Open /\ Overdraft(call[q].pc) + Len(data) <= Overdraft("close")
  BY <1>1, <1>2 DEF Open, Overdraft
<1>. HIDE DEF data
<1>. QED  BY <1>1, <1>2, <1>3, WriteFunctionLogInv

\* A request goes on; at most one store changes, and not its tail.
LEMMA CallMoves ==
  ASSUME LogInv, NEW q \in Requests, NEW n \in Stores, Counted(n), SameTail(n, store[q]),
         store' = [store EXCEPT ![q] = n], NEW e \in Calls, call' = [call EXCEPT ![q] = e],
         e.pc \in Open <=> call[q].pc \in Open, Overdraft(e.pc) >= Overdraft(call[q].pc),
         lmap' \in [last : Requests \cup {NoRequest}, stores : SUBSET Requests],
         conn' \in [Streams -> Seq(Symbols)],
         UNCHANGED <<mode, logType, contents, bufPool, disp>>
  PROVE  LogInv'
<1>1. call \in [Requests -> Calls]
  BY DEF LogInv, LogTypeOK, Calls
<1>2. call' \in [Requests -> Calls] /\ \A r \in Requests : call'[r] = IF r = q THEN e ELSE call[r]
  BY <1>1
<1>3. /\ store' \in [Requests -> Stores]
      /\ \A r \in Requests : SameTail(store'[r], store[r]) /\ Counted(store'[r])
  BY OneStore
<1>4. LogTypeOK'
  BY <1>2, <1>3 DEF LogInv, LogTypeOK, Calls
<1>5. Dispatching'
  BY DEF LogInv, Dispatching
<1>6. \A r \in Requests : /\ call'[r].pc \in Open <=> call[r].pc \in Open
                          /\ Overdraft(call'[r].pc) >= Overdraft(call[r].pc)
  <2>. TAKE r \in Requests
  <2>1. CASE r = q
    BY <1>2, <2>1
  <2>2. CASE r # q
    BY <1>2, <2>2, OverdraftFacts
  <2>. QED  BY <2>1, <2>2
<1>. QED  BY <1>3, <1>4, <1>5, <1>6, QuietStep

LEMMA ExecutePrints ==
  ASSUME LogInv, NEW q \in Requests, Execute(q)
  PROVE  conn' \in [Streams -> Seq(Symbols)]
<1>. DEFINE Out(s) == [i \in DOMAIN Printed(s, mode) |-> <<Printed(s, mode)[i], q>>]
            Kinds == {"text", "id", "tab", "nl", "zero"}
<1>1. conn \in [Streams -> Seq(Symbols)] /\ mode \in Modes
  BY DEF LogInv, LogTypeOK
<1>2. ASSUME NEW s \in Streams PROVE Out(s) \in Seq(Symbols)
  <2>. DEFINE p == Printed(s, mode)
  <2>1. p \in Seq(Kinds)
    BY <1>1, RequestLogAssumption
  <2>. HIDE DEF p
  <2>2. Len(p) \in Nat /\ DOMAIN p = 1..Len(p) /\ \A i \in 1..Len(p) : p[i] \in Kinds
    BY <2>1, LenProperties
  <2>3. \A i \in 1..Len(p) : <<p[i], q>> \in Symbols
    BY <2>2 DEF Symbols
  <2>4. [i \in 1..Len(p) |-> <<p[i], q>>] \in Seq(Symbols)
    BY <2>2, <2>3, IsASeq
  <2>. QED  BY <2>2, <2>4 DEF p
<1>. HIDE DEF Out
<1>3. \A s \in Streams : conn[s] \o Out(s) \in Seq(Symbols)
  BY <1>1, <1>2, ConcatProperties
<1>4. conn' = [s \in Streams |-> conn[s] \o Out(s)]
  BY DEF Execute, Out
<1>. QED  BY <1>3, <1>4

\* The steps of a request and of its timer that only set flags or go on.
LEMMA CallGoesInv ==
  ASSUME LogInv, NEW q \in Requests,
         Awake(q) \/ InvokeReportDone(q) \/ WaitReturns(q) \/ StopRecvLog(q) \/ Execute(q) \/ LogTimer(q)
  PROVE  LogInv'
<1>. DEFINE st == store[q]
            At(pc) == [call[q] EXCEPT !.pc = pc]
<1>1. /\ store \in [Requests -> Stores] /\ st \in Stores /\ Counted(st) /\ SameTail(st, st)
      /\ call \in [Requests -> Calls] /\ call[q] \in Calls
      /\ store = [store EXCEPT ![q] = st] /\ call = [call EXCEPT ![q] = call[q]]
  BY DEF LogInv, LogTypeOK, WaitGroupExact, Counted, Calls, SameTail
<1>2. /\ lmap \in [last : Requests \cup {NoRequest}, stores : SUBSET Requests]
      /\ conn \in [Streams -> Seq(Symbols)]
  BY DEF LogInv, LogTypeOK
<1>3. \A pc \in {"new", "start", "run", "report", "wait", "write", "close", "stop", "done"} :
         At(pc) \in Calls /\ At(pc).pc = pc
  BY <1>1 DEF Calls
<1>4. LogDone(st) \in Stores /\ Counted(LogDone(st)) /\ SameTail(LogDone(st), st)
  BY <1>1, LogDoneFacts
<1>5. CASE Awake(q)
  <2>1. call' = [call EXCEPT ![q] = At("report")] /\ call[q].pc = "run"
        /\ UNCHANGED <<mode, logType, lmap, store, contents, bufPool, conn, disp>>
    BY <1>5 DEF Awake
  <2>2. /\ At("report").pc \in Open <=> call[q].pc \in Open
        /\ Overdraft(At("report").pc) >= Overdraft(call[q].pc)
    BY <1>3, <2>1 DEF Open, Overdraft
  <2>. HIDE DEF At, st
  <2>3. At("report") \in Calls
    BY <1>3
  <2>. QED  BY <1>1, <1>2, <2>1, <2>2, <2>3, CallMoves
<1>6. CASE WaitReturns(q)
  <2>1. call' = [call EXCEPT ![q] = At("write")] /\ call[q].pc = "wait"
        /\ UNCHANGED <<mode, logType, lmap, store, contents, bufPool, conn, disp>>
    BY <1>6 DEF WaitReturns
  <2>2. /\ At("write").pc \in Open <=> call[q].pc \in Open
        /\ Overdraft(At("write").pc) >= Overdraft(call[q].pc)
    BY <1>3, <2>1 DEF Open, Overdraft
  <2>. HIDE DEF At, st
  <2>3. At("write") \in Calls
    BY <1>3
  <2>. QED  BY <1>1, <1>2, <2>1, <2>2, <2>3, CallMoves
<1>7. CASE InvokeReportDone(q)
  <2>. DEFINE m == [st EXCEPT !.timer = @ \/ st.done # Streams]
  <2>1. m \in Stores /\ Counted(m) /\ SameTail(m, st)
    BY <1>1 DEF Stores, Counted, SameTail
  <2>2. call[q].pc = "report" /\ UNCHANGED <<mode, logType, lmap, contents, bufPool, conn, disp>>
    BY <1>7 DEF InvokeReportDone
  <2>3. \/ store' = [store EXCEPT ![q] = m] /\ call' = [call EXCEPT ![q] = At("wait")]
        \/ store' = [store EXCEPT ![q] = LogDone(st)] /\ call' = [call EXCEPT ![q] = At("write")]
    BY <1>7 DEF InvokeReportDone
  <2>4. \A pc \in {"wait", "write"} : /\ At(pc) \in Calls /\ (At(pc).pc \in Open <=> call[q].pc \in Open)
                                      /\ Overdraft(At(pc).pc) >= Overdraft(call[q].pc)
    BY <1>3, <2>2 DEF Open, Overdraft
  <2>. HIDE DEF At, st, m
  <2>5. CASE store' = [store EXCEPT ![q] = m] /\ call' = [call EXCEPT ![q] = At("wait")]
    <3>1. SameTail(m, store[q])
      BY <2>1 DEF st
    <3>. QED  BY <1>2, <2>1, <2>2, <2>4, <2>5, <3>1, CallMoves
  <2>6. CASE store' = [store EXCEPT ![q] = LogDone(st)] /\ call' = [call EXCEPT ![q] = At("write")]
    <3>1. SameTail(LogDone(st), store[q])
      BY <1>4 DEF st
    <3>. QED  BY <1>2, <1>4, <2>2, <2>4, <2>6, <3>1, CallMoves
  <2>. QED  BY <2>3, <2>5, <2>6
<1>8. CASE StopRecvLog(q)
  <2>. DEFINE m == [st EXCEPT !.open = FALSE]
  <2>1. m \in Stores /\ Counted(m) /\ SameTail(m, store[q])
    BY <1>1 DEF Stores, Counted, SameTail
  <2>2. /\ call[q].pc = "stop" /\ call' = [call EXCEPT ![q] = At("done")]
        /\ store' = [store EXCEPT ![q] = m]
        /\ lmap' = [last |-> NoRequest, stores |-> lmap.stores \ {q}]
        /\ UNCHANGED <<mode, logType, contents, bufPool, conn, disp>>
    BY <1>8 DEF StopRecvLog, Forget
  <2>3. lmap' \in [last : Requests \cup {NoRequest}, stores : SUBSET Requests]
    BY <1>2, <2>2
  <2>4. /\ At("done").pc \in Open <=> call[q].pc \in Open
        /\ Overdraft(At("done").pc) >= Overdraft(call[q].pc)
    BY <1>3, <2>2 DEF Open, Overdraft
  <2>. HIDE DEF At, st, m
  <2>5. At("done") \in Calls /\ conn' \in [Streams -> Seq(Symbols)]
    BY <1>2, <1>3, <2>2
  <2>. QED  BY <2>1, <2>2, <2>3, <2>4, <2>5, CallMoves
<1>9. CASE Execute(q)
  <2>. DEFINE e == [call[q] EXCEPT !.ran = TRUE]
  <2>1. call' = [call EXCEPT ![q] = e]
        /\ UNCHANGED <<mode, logType, lmap, store, contents, bufPool, disp>>
    BY <1>9 DEF Execute
  <2>2. e \in Calls /\ e.pc = call[q].pc
    BY <1>1 DEF Calls
  <2>3. Overdraft(e.pc) >= Overdraft(call[q].pc)
    BY <2>2, OverdraftFacts
  <2>4. conn' \in [Streams -> Seq(Symbols)]
    BY <1>9, ExecutePrints
  <2>. HIDE DEF e, st
  <2>. QED  BY <1>1, <1>2, <2>1, <2>2, <2>3, <2>4, CallMoves
<1>10. CASE LogTimer(q)
  <2>. DEFINE d == LogDone(st)
              m == [d EXCEPT !.timer = FALSE]
  <2>1. d \in Stores /\ Counted(d) /\ SameTail(d, st)
    BY <1>4
  <2>. HIDE DEF d
  <2>2. m \in Stores /\ Counted(m) /\ SameTail(m, store[q])
    BY <2>1 DEF Stores, Counted, SameTail
  <2>3. store' = [store EXCEPT ![q] = m]
        /\ UNCHANGED <<mode, logType, lmap, contents, bufPool, conn, disp, call>>
    BY <1>10 DEF LogTimer, d
  <2>4. call' = [call EXCEPT ![q] = call[q]]
    BY <1>1, <2>3
  <2>5. Overdraft(call[q].pc) >= Overdraft(call[q].pc)
    BY OverdraftFacts
  <2>. HIDE DEF m, st
  <2>6. /\ lmap' \in [last : Requests \cup {NoRequest}, stores : SUBSET Requests]
        /\ conn' \in [Streams -> Seq(Symbols)]
    BY <1>2, <2>3
  <2>. QED  BY <1>1, <2>2, <2>3, <2>4, <2>5, <2>6, CallMoves
<1>. QED  BY <1>5, <1>6, <1>7, <1>8, <1>9, <1>10

\* Close takes the tail out of the buffer and gives it back, whoever still holds the store.
LEMMA CloseInv ==
  ASSUME LogInv, NEW q \in Requests, Close(q)
  PROVE  LogInv'
<1>. DEFINE b == store[q].buffer
            d == LogDone(store[q])
            n == [d EXCEPT !.closed = TRUE, !.tail = contents[b], !.buffer = NoBuffer]
<1>1. /\ store \in [Requests -> Stores] /\ contents \in [Buffers -> Seq(Symbols)]
      /\ bufPool \subseteq Buffers /\ call \in [Requests -> Calls] /\ store[q] \in Stores
      /\ \A r \in Requests : Counted(store[r])
  BY DEF LogInv, LogTypeOK, WaitGroupExact, Counted, Calls
<1>2. /\ call[q].pc = "close" /\ store' = [store EXCEPT ![q] = n]
      /\ bufPool' = bufPool \cup {b} /\ contents' = [contents EXCEPT ![b] = << >>]
      /\ call' = [call EXCEPT ![q].pc = "stop"]
      /\ UNCHANGED <<mode, logType, lmap, conn, disp>>
  BY DEF Close, LogData
<1>3. b # NoBuffer /\ b \in Buffers /\ b \notin bufPool
  BY <1>1, <1>2 DEF LogInv, BufferHeld, BufferOwned, Open, Stores
<1>4. n \in Stores /\ Counted(n) /\ n.buffer = NoBuffer /\ n.tail = contents[b]
  <2>1. d \in Stores /\ Counted(d)
    BY <1>1, LogDoneFacts
  <2>. DEFINE x == contents[b]
  <2>2. x \in Seq(Symbols) /\ n = [d EXCEPT !.closed = TRUE, !.tail = x, !.buffer = NoBuffer]
    BY <1>1, <1>3
  <2>. HIDE DEF d, x, n, b
  <2>3. n \in Stores /\ Counted(n) /\ n.buffer = NoBuffer /\ n.tail = x
    BY <2>1, <2>2, StoresDef DEF Counted
  <2>. QED  BY <2>3 DEF x
<1>5. Len(contents[b]) <= TailLength + 6
  <2>1. /\ Len(contents[b]) + store[q].remain = TailLength
        /\ store[q].remain + 6 >= 0
    <3>1. Overdraft("close") = 6
      BY DEF Overdraft
    <3>. QED  BY <1>2, <1>3, <3>1 DEF LogInv, TailBalanced, Balanced
  <2>2. store[q].remain \in Int /\ Len(contents[b]) \in Nat /\ TailLength \in Nat
    BY <1>1, <1>3, LenProperties, RequestLogAssumption DEF Stores
  <2>. QED  BY <2>1, <2>2
<1>. HIDE DEF n, d
<1>6. \A r \in Requests : store'[r] = IF r = q THEN n ELSE store[r]
  BY <1>1, <1>2
<1>7. /\ call' \in [Requests -> Calls] /\ call'[q].pc = "stop"
      /\ \A r \in Requests \ {q} : call'[r] = call[r]
  BY <1>1, <1>2 DEF Calls
<1>8. << >> \in Seq(Symbols)
  BY EmptySeq
<1>9. LogTypeOK'
  <2>1. store' \in [Requests -> Stores] /\ contents' \in [Buffers -> Seq(Symbols)]
    BY <1>1, <1>2, <1>4, <1>8
  <2>2. bufPool' \subseteq Buffers
    BY <1>1, <1>2, <1>3
  <2>. QED  BY <1>2, <1>7, <2>1, <2>2 DEF LogInv, LogTypeOK, Calls
<1>10. Dispatching'
  BY <1>2 DEF LogInv, Dispatching
<1>11. \A r \in Requests \ {q} : store[r].buffer # b
  BY <1>3 DEF LogInv, BufferOwned
<1>12. BufferOwned'
  <2>1. \A r \in Requests : store[r].buffer # NoBuffer => store[r].buffer \notin bufPool
    BY DEF LogInv, BufferOwned
  <2>2. \A r, t \in Requests : store[r].buffer # NoBuffer /\ r # t =>
                                 store[r].buffer # store[t].buffer
    BY DEF LogInv, BufferOwned
  <2>3. \A x \in bufPool' : contents'[x] = << >>
    BY <1>1, <1>2, <1>3 DEF LogInv, BufferOwned
  <2>4. \A r \in Requests : store'[r].buffer # NoBuffer =>
           r # q /\ store'[r].buffer = store[r].buffer
    BY <1>4, <1>6
  <2>5. \A r \in Requests : store'[r].buffer # NoBuffer => store'[r].buffer \notin bufPool'
    BY <1>2, <1>11, <2>1, <2>4
  <2>6. \A r, t \in Requests : store'[r].buffer # NoBuffer /\ r # t =>
                                 store'[r].buffer # store'[t].buffer
    BY <2>2, <2>4
  <2>. QED  BY <2>3, <2>5, <2>6 DEF BufferOwned
<1>13. WaitGroupExact'
  BY <1>1, <1>4, <1>6 DEF WaitGroupExact, Counted
<1>14. BufferHeld'
  BY <1>4, <1>6, <1>7 DEF LogInv, BufferHeld, Open
<1>15. BufferKept'
  BY <1>2, <1>6 DEF LogInv, BufferKept
<1>16. TailBalanced'
  <2>. SUFFICES ASSUME NEW r \in Requests
                PROVE  /\ Balanced(store'[r], contents'[store'[r].buffer], call'[r].pc)
                       /\ Len(store'[r].tail) <= TailLength + 6
    BY DEF TailBalanced
  <2>1. CASE r = q
    BY <1>4, <1>5, <1>6, <2>1 DEF Balanced
  <2>2. CASE r # q
    <3>1. store'[r] = store[r] /\ call'[r] = call[r]
      BY <1>6, <1>7, <2>2
    <3>2. store[r].buffer # NoBuffer => store[r].buffer \in Buffers /\ store[r].buffer # b
      BY <1>1, <1>11, <2>2 DEF Stores
    <3>3. store[r].buffer # NoBuffer => contents'[store[r].buffer] = contents[store[r].buffer]
      BY <1>1, <1>2, <3>2
    <3>4. /\ Balanced(store[r], contents[store[r].buffer], call[r].pc)
          /\ Len(store[r].tail) <= TailLength + 6
      BY DEF LogInv, TailBalanced
    <3>. QED  BY <3>1, <3>3, <3>4 DEF Balanced
  <2>. QED  BY <2>1, <2>2
<1>. QED  BY <1>9, <1>10, <1>12, <1>13, <1>14, <1>15, <1>16 DEF LogInv

-----------------------------------------------------------------------------
(* The steps of a dispatcher *)

\* A dispatcher goes on; no tail changes.
LEMMA DispatcherMoves ==
  ASSUME LogInv, NEW s \in Streams, NEW e, Ready(e), disp' = [disp EXCEPT ![s] = e],
         store' \in [Requests -> Stores], conn' \in [Streams -> Seq(Symbols)],
         \A q \in Requests : SameTail(store'[q], store[q]) /\ Counted(store'[q]),
         UNCHANGED <<mode, logType, lmap, contents, bufPool, call>>
  PROVE  LogInv'
<1>1. disp' \in [Streams -> Dispatchers] /\ Dispatching'
  BY OneDispatcher
<1>2. LogTypeOK'
  BY <1>1 DEF LogInv, LogTypeOK
<1>3. \A q \in Requests : /\ call'[q].pc \in Open <=> call[q].pc \in Open
                          /\ Overdraft(call'[q].pc) >= Overdraft(call[q].pc)
  BY OverdraftFacts
<1>. QED  BY <1>1, <1>2, <1>3, QuietStep

LEMMA StoresStay ==
  ASSUME LogInv, store' = store
  PROVE  /\ store' \in [Requests -> Stores]
         /\ \A q \in Requests : SameTail(store'[q], store[q]) /\ Counted(store'[q])
BY DEF LogInv, LogTypeOK, WaitGroupExact, Counted, SameTail

LEMMA ReadConnInv ==
  ASSUME LogInv, NEW s \in Streams, NEW n \in 1..BufferLength, ReadConn(s, n)
  PROVE  LogInv'
<1>. DEFINE d == disp[s]
            l == LastStore
            x == d.buf \o SubSeq(conn[s], 1, n)
            f == d.stale \/ d.tabs # 0
            g == Last(x)[1] \notin {"nl", "zero"}
            r == Reading(x, d.tabs, f)
            e == IF l = NoRequest THEN Reading(<< >>, d.tabs, g)
                 ELSE [r EXCEPT !.pc = "scan", !.ls = l]
<1>1. /\ d \in Dispatchers /\ conn \in [Streams -> Seq(Symbols)] /\ conn[s] \in Seq(Symbols)
      /\ lmap \in [last : Requests \cup {NoRequest}, stores : SUBSET Requests]
      /\ d.buf \in Seq(Symbols) /\ d.tabs \in Nat /\ n \in Nat \ {0} /\ n + 1 \in Nat \ {0}
      /\ Len(conn[s]) \in Nat
  BY RequestLogAssumption, LenProperties DEF LogInv, LogTypeOK, Dispatchers
<1>2. /\ n <= Len(conn[s]) /\ conn' = [conn EXCEPT ![s] = SubSeq(conn[s], n + 1, Len(conn[s]))]
      /\ disp' = [disp EXCEPT ![s] = e]
      /\ UNCHANGED <<mode, logType, lmap, store, contents, bufPool, call>>
  BY DEF ReadConn
<1>3. conn' \in [Streams -> Seq(Symbols)]
  <2>1. SubSeq(conn[s], n + 1, Len(conn[s])) \in Seq(Symbols)
    BY <1>1, PieceFacts
  <2>. QED  BY <1>1, <1>2, <2>1
<1>4. Ready(e)
  <2>1. l = NoRequest \/ l \in Requests
    BY <1>1 DEF LastStore
  <2>2. f \in BOOLEAN /\ g \in BOOLEAN
    OBVIOUS
  <2>. HIDE DEF f, g
  <2>3. Ready(Reading(<< >>, d.tabs, g))
    BY <1>1, <2>2, EmptySeq, ReadingReady
  <2>4. x \in Seq(Symbols)
    <3>1. SubSeq(conn[s], 1, n) \in Seq(Symbols)
      BY <1>1, <1>2, PieceFacts
    <3>. QED  BY <1>1, <3>1, ConcatProperties
  <2>5. Ready(r)
    <3>. HIDE DEF x
    <3>. QED  BY <1>1, <2>2, <2>4, ReadingReady
  <2>. HIDE DEF x, r, l
  <2>6. l \in Requests => Ready([r EXCEPT !.pc = "scan", !.ls = l])
    BY <2>5 DEF Ready, Dispatchers
  <2>. HIDE DEF Ready
  <2>. QED  BY <2>1, <2>3, <2>6
<1>. HIDE DEF e
<1>5. /\ store' \in [Requests -> Stores]
      /\ \A q \in Requests : SameTail(store'[q], store[q]) /\ Counted(store'[q])
  BY <1>2, StoresStay
<1>. QED  BY <1>2, <1>3, <1>4, <1>5, DispatcherMoves

LEMMA ScanInv ==
  ASSUME LogInv, NEW s \in Streams,
         (\E k \in 1..Len(disp[s].buf) : ScanTo(s, k)) \/ ScanEnds(s)
  PROVE  LogInv'
<1>. DEFINE d == disp[s]
<1>1. /\ d \in Dispatchers /\ conn \in [Streams -> Seq(Symbols)]
      /\ lmap.stores \subseteq Requests
      /\ d.buf \in Seq(Symbols) /\ d.tabs \in Nat /\ d.lastln + 1 \in Nat \ {0}
      /\ Len(d.buf) \in Nat /\ d.stale \in BOOLEAN
  BY LenProperties DEF LogInv, LogTypeOK, Dispatchers
<1>2. /\ d.pc = "scan"
      /\ UNCHANGED <<mode, logType, lmap, store, contents, bufPool, conn, call>>
  BY DEF ScanTo, ScanEnds
<1>3. d.ls \in Requests
  BY <1>2 DEF LogInv, Dispatching
<1>4. \E e : Ready(e) /\ disp' = [disp EXCEPT ![s] = e]
  <2>1. ASSUME NEW k \in 1..Len(disp[s].buf), ScanTo(s, k)
        PROVE  \E e : Ready(e) /\ disp' = [disp EXCEPT ![s] = e]
    <3>1. Ready(AtZero(d, k)) /\ Ready(AtLine(d, k)) /\ Ready(AtTab(d, k))
      BY <1>1, <1>3, <2>1, ScanReady
    <3>2. /\ d.buf[k][1] \in {"zero", "nl", "tab"}
          /\ disp' = [disp EXCEPT ![s] = CASE d.buf[k][1] = "zero" -> AtZero(d, k)
                                           [] d.buf[k][1] = "nl" -> AtLine(d, k)
                                           [] d.buf[k][1] = "tab" -> AtTab(d, k)]
      BY <2>1 DEF ScanTo
    <3>. HIDE DEF d
    <3>3. \/ disp' = [disp EXCEPT ![s] = AtZero(d, k)]
          \/ disp' = [disp EXCEPT ![s] = AtLine(d, k)]
          \/ disp' = [disp EXCEPT ![s] = AtTab(d, k)]
      BY <3>2
    <3>. HIDE DEF Ready
    <3>. QED  BY <3>1, <3>3
  <2>2. ASSUME ScanEnds(s)
        PROVE  \E e : Ready(e) /\ disp' = [disp EXCEPT ![s] = e]
    <3>. DEFINE longer == Append(d.buf, <<"nl", Last(d.buf)[2]>>)
                at == Len(d.buf) + 1
                whole == [d EXCEPT !.i = at, !.buf = longer]
                rest == SubSeq(d.buf, d.lastln + 1, Len(d.buf))
    <3>1. disp' = [disp EXCEPT ![s] =
                     CASE d.zeros > 0 \/ d.lastln > 0 -> Reading(rest, 0, d.stale)
                       [] d.zeros = 0 /\ d.lastln = 0 /\ Len(d.buf) < BufferLength ->
                            Reading(d.buf, d.tabs, d.stale)
                       [] d.zeros = 0 /\ d.lastln = 0 /\ Len(d.buf) >= BufferLength ->
                            Writing(whole, whole.buf, FALSE)]
      BY <2>2 DEF ScanEnds
    <3>2. Ready(Reading(rest, 0, d.stale)) /\ Ready(Reading(d.buf, d.tabs, d.stale))
      <4>1. rest \in Seq(Symbols)
        BY <1>1, PieceFacts
      <4>. HIDE DEF rest
      <4>. QED  BY <1>1, <4>1, ReadingReady
    <3>3. Len(d.buf) >= BufferLength => Ready(Writing(whole, whole.buf, FALSE))
      <4>. SUFFICES ASSUME Len(d.buf) >= BufferLength
                    PROVE  Ready(Writing(whole, whole.buf, FALSE))
        OBVIOUS
      <4>1. Last(d.buf) \in Symbols
        <5>1. Len(d.buf) \in 1..Len(d.buf)
          BY <1>1, RequestLogAssumption
        <5>. QED  BY <1>1, <5>1, ElementOfSeq DEF Last
      <4>2. <<"nl", Last(d.buf)[2]>> \in Symbols
        BY <4>1 DEF Symbols
      <4>3. longer \in Seq(Symbols) /\ at \in Nat
        BY <1>1, <4>2, AppendProperties
      <4>. HIDE DEF longer, at
      <4>4. whole \in Dispatchers /\ whole.ls \in Requests /\ whole.buf \in Seq(Symbols)
        BY <1>1, <1>3, <4>3 DEF Dispatchers
      <4>. HIDE DEF whole
      <4>. QED  BY <4>4, WritingReady
    <3>4. d.zeros \in Nat /\ d.lastln \in Nat /\ BufferLength \in Nat
      BY <1>1, RequestLogAssumption DEF Dispatchers
    <3>. HIDE DEF rest, whole, d
    <3>. DEFINE P == d.zeros > 0 \/ d.lastln > 0
                Q == d.zeros = 0 /\ d.lastln = 0 /\ Len(d.buf) < BufferLength
                R == d.zeros = 0 /\ d.lastln = 0 /\ Len(d.buf) >= BufferLength
                x == Reading(rest, 0, d.stale)
                y == Reading(d.buf, d.tabs, d.stale)
                z == Writing(whole, whole.buf, FALSE)
                v == CASE P -> x [] Q -> y [] R -> z
    <3>5. (P \/ Q \/ R) /\ ~(P /\ Q) /\ ~(P /\ R) /\ ~(Q /\ R) /\ (R => Len(d.buf) >= BufferLength)
      BY <1>1, <3>4
    <3>6. disp' = [disp EXCEPT ![s] = v]
      BY <3>1, Zenon
    <3>. HIDE DEF P, Q, R, x, y, z
    <3>7. v = x \/ v = y \/ (v = z /\ R)
      BY <3>5
    <3>8. Ready(x) /\ Ready(y) /\ (R => Ready(z))
      BY <3>2, <3>3, <3>5 DEF x, y, z
    <3>. HIDE DEF Ready, v
    <3>. QED  BY <3>6, <3>7, <3>8
  <2>. QED  BY <2>1, <2>2
<1>5. /\ store' \in [Requests -> Stores]
      /\ \A q \in Requests : SameTail(store'[q], store[q]) /\ Counted(store'[q])
  BY <1>2, StoresStay
<1>. QED  BY <1>1, <1>2, <1>4, <1>5, DispatcherMoves

\* Where a dispatcher that writes is.
LEMMA WriterFacts ==
  ASSUME LogInv, NEW s \in Streams, disp[s].pc # "read"
  PROVE  /\ disp[s] \in Dispatchers /\ disp[s].ls \in Requests /\ disp[s].data \in Seq(Symbols)
         /\ store[disp[s].ls] \in Stores /\ Counted(store[disp[s].ls])
         /\ store \in [Requests -> Stores] /\ conn \in [Streams -> Seq(Symbols)]
BY DEF LogInv, LogTypeOK, Dispatching, Dispatchers, WaitGroupExact, Counted

LEMMA WriteEOFInv ==
  ASSUME LogInv, NEW s \in Streams, WriteEOF(s)
  PROVE  LogInv'
<1>. DEFINE d == disp[s]
            n == setFlagLocked(store[d.ls], {s})
            e == IF d.data = << >> THEN Resume(d, 0) ELSE [d EXCEPT !.pc = "append"]
<1>1. /\ d.pc = "eof" /\ store' = [store EXCEPT ![d.ls] = n] /\ disp' = [disp EXCEPT ![s] = e]
      /\ UNCHANGED <<mode, logType, lmap, contents, bufPool, conn, call>>
  BY DEF WriteEOF
<1>2. /\ d \in Dispatchers /\ d.ls \in Requests /\ store[d.ls] \in Stores /\ Counted(store[d.ls])
      /\ conn \in [Streams -> Seq(Symbols)]
  BY <1>1, WriterFacts
<1>3. n \in Stores /\ Counted(n) /\ SameTail(n, store[d.ls])
  BY <1>2, FlagsFacts
<1>4. Ready(e)
  <2>1. Ready(Resume(d, 0))
    BY <1>2, ResumeReady
  <2>2. Ready([d EXCEPT !.pc = "append"])
    BY <1>2 DEF Ready, Dispatchers
  <2>. HIDE DEF Ready
  <2>. QED  BY <2>1, <2>2
<1>. HIDE DEF n, e, d
<1>5. /\ store' \in [Requests -> Stores]
      /\ \A q \in Requests : SameTail(store'[q], store[q]) /\ Counted(store'[q])
  BY <1>1, <1>2, <1>3, OneStore
<1>. QED  BY <1>1, <1>2, <1>4, <1>5, DispatcherMoves

LEMMA WriteFileInv ==
  ASSUME LogInv, NEW s \in Streams, WriteFile(s)
  PROVE  LogInv'
<1>. DEFINE d == disp[s]
            st == store[d.ls]
            k == IF st.open /\ st.capacity > 0 THEN Written(d.data) ELSE Len(d.data)
            n == FileWrite(st, d.ls, s, d.data)
<1>1. /\ d.pc = "file" /\ store' = [store EXCEPT ![d.ls] = n]
      /\ disp' = [disp EXCEPT ![s] = Resume(d, k)]
      /\ UNCHANGED <<mode, logType, lmap, contents, bufPool, conn, call>>
  BY DEF WriteFile
<1>2. /\ d \in Dispatchers /\ d.ls \in Requests /\ st \in Stores /\ Counted(st)
      /\ d.data \in Seq(Symbols) /\ conn \in [Streams -> Seq(Symbols)]
  BY <1>1, WriterFacts
<1>3. n \in Stores /\ Counted(n) /\ SameTail(n, st)
  BY <1>2, FileWriteFacts
<1>4. k \in Nat
  <2>1. Len(d.data) \in Nat
    BY <1>2, LenProperties
  <2>. QED  BY <2>1 DEF Written
<1>5. Ready(Resume(d, k))
  <2>. HIDE DEF k
  <2>. QED  BY <1>2, <1>4, ResumeReady
<1>. HIDE DEF n, k, d
<1>6. /\ store' \in [Requests -> Stores]
      /\ \A q \in Requests : SameTail(store'[q], store[q]) /\ Counted(store'[q])
  BY <1>1, <1>2, <1>3, OneStore
<1>. QED  BY <1>1, <1>2, <1>5, <1>6, DispatcherMoves

LEMMA WriteTailInv ==
  ASSUME LogInv, NEW s \in Streams, WriteTail(s)
  PROVE  LogInv'
<1>. DEFINE d == disp[s]
            q == d.ls
            st == store[q]
            w == Appended(st, d.data, FALSE)
            x == st.remain - Len(w)
            n == [st EXCEPT !.remain = x]
            e == [d EXCEPT !.pc = "file"]
<1>1. /\ d.pc = "append" /\ disp' = [disp EXCEPT ![s] = e] /\ store' = [store EXCEPT ![q] = n]
      /\ contents' = IF w = << >> THEN contents ELSE [contents EXCEPT ![st.buffer] = @ \o w]
      /\ UNCHANGED <<mode, logType, lmap, bufPool, conn, call>>
  BY DEF WriteTail, appendLogbuf
<1>2. /\ d \in Dispatchers /\ q \in Requests /\ st \in Stores /\ Counted(st)
      /\ d.data \in Seq(Symbols) /\ conn \in [Streams -> Seq(Symbols)]
      /\ store \in [Requests -> Stores]
  BY <1>1, WriterFacts
<1>3. /\ w \in Seq(Symbols) /\ Len(w) \in Nat /\ (st.buffer = NoBuffer => w = << >>)
      /\ w # << >> => Len(w) <= st.remain + 1
  BY <1>2, AppendedFacts, LenProperties
<1>4. Ready(e)
  BY <1>2 DEF Ready, Dispatchers
<1>5. st.remain \in Int
  BY <1>2 DEF Stores
<1>6. x \in Int
  <2>. HIDE DEF w
  <2>. QED  BY <1>3, <1>5
<1>7. CASE w = << >>
  <2>1. x = st.remain
    <3>1. Len(w) = 0
      BY <1>7, EmptySeq
    <3>. HIDE DEF w
    <3>. QED  BY <1>5, <3>1
  <2>. HIDE DEF x, e, w, st, q
  <2>2. n \in Stores /\ Counted(n) /\ SameTail(n, st)
    BY <1>2, <1>6, <2>1 DEF Stores, Counted, SameTail
  <2>. HIDE DEF n
  <2>3. /\ store' \in [Requests -> Stores]
        /\ \A r \in Requests : SameTail(store'[r], store[r]) /\ Counted(store'[r])
    BY <1>1, <1>2, <2>2, OneStore DEF st
  <2>. QED  BY <1>1, <1>2, <1>4, <1>7, <2>3, DispatcherMoves
<1>8. CASE w # << >>
  <2>1. n \in Stores /\ Counted(n) /\ n.buffer = st.buffer /\ n.tail = st.tail /\ n.remain = x
    <3>. HIDE DEF x, st
    <3>. QED  BY <1>2, <1>6 DEF Stores, Counted
  <2>2. st.buffer # NoBuffer /\ st.buffer \in Buffers
    BY <1>2, <1>3, <1>8 DEF Stores
  <2>3. disp' \in [Streams -> Dispatchers] /\ Dispatching'
    <3>. HIDE DEF e
    <3>. QED  BY <1>1, <1>4, OneDispatcher
  <2>. HIDE DEF n, e, w
  <2>4. contents' = [contents EXCEPT ![st.buffer] = @ \o w]
    BY <1>1, <1>8
  <2>5. LogTypeOK'
    <3>1. contents \in [Buffers -> Seq(Symbols)]
      BY DEF LogInv, LogTypeOK
    <3>2. contents[st.buffer] \o w \in Seq(Symbols)
      BY <1>3, <2>2, <3>1, ConcatProperties
    <3>3. contents' \in [Buffers -> Seq(Symbols)]
      BY <2>4, <3>1, <3>2
    <3>4. store' \in [Requests -> Stores]
      BY <1>1, <1>2, <2>1
    <3>. QED  BY <1>1, <2>3, <3>3, <3>4 DEF LogInv, LogTypeOK
  <2>6. call[q].pc \in Open
    BY <1>2, <2>2 DEF LogInv, BufferHeld
  <2>7. x + Overdraft(call[q].pc) >= 0
    <3>1. Overdraft(call[q].pc) \in 1..6
      BY OverdraftFacts
    <3>2. x >= -1
      BY <1>3, <1>5, <1>8
    <3>. HIDE DEF x
    <3>. QED  BY <1>6, <3>1, <3>2
  <2>. HIDE DEF q
  <2>. QED  BY <1>1, <1>2, <1>3, <2>1, <2>2, <2>3, <2>4, <2>5, <2>6, <2>7, AppendStep
<1>. QED  BY <1>7, <1>8

-----------------------------------------------------------------------------

LEMMA LogInvInit == LogInit => LogInv
<1>. SUFFICES ASSUME LogInit PROVE LogInv
  OBVIOUS
<1>1. << >> \in Seq(Symbols) /\ Len(<< >>) = 0 /\ TailLength \in Nat
  BY EmptySeq, RequestLogAssumption
<1>2. NoStore \in Stores /\ Counted(NoStore) /\ NoStore.buffer = NoBuffer /\ NoStore.tail = << >>
  BY NoStoreFacts DEF NoStore
<1>3. Ready(Reading(<< >>, 0, FALSE))
  BY <1>1, ReadingReady
<1>4. LogTypeOK
  <2>1. store \in [Requests -> Stores]
    BY <1>2 DEF LogInit
  <2>2. disp \in [Streams -> Dispatchers]
    BY <1>3 DEF LogInit, Ready
  <2>3. call \in [Requests -> Calls]
    BY DEF LogInit, Calls
  <2>4. contents \in [Buffers -> Seq(Symbols)] /\ conn \in [Streams -> Seq(Symbols)]
    BY <1>1 DEF LogInit
  <2>. QED  BY <2>1, <2>2, <2>3, <2>4 DEF LogInit, LogTypeOK, Calls
<1>5. \A q \in Requests : store[q] = NoStore /\ call[q].pc = "new"
  BY DEF LogInit
<1>6. BufferOwned
  BY <1>2, <1>5 DEF LogInit, BufferOwned
<1>7. WaitGroupExact
  BY <1>2, <1>5 DEF WaitGroupExact, Counted
<1>8. BufferHeld
  BY <1>2, <1>5 DEF BufferHeld, Open
<1>9. BufferKept
  BY DEF LogInit, BufferKept
<1>10. TailBalanced
  BY <1>1, <1>2, <1>5 DEF TailBalanced, Balanced
<1>11. Dispatching
  BY DEF LogInit, Dispatching, Reading
<1>. QED  BY <1>4, <1>6, <1>7, <1>8, <1>9, <1>10, <1>11 DEF LogInv

LEMMA LogInvNext == LogInv /\ [LogNext]_lvars => LogInv'
<1>. SUFFICES ASSUME LogInv, [LogNext]_lvars PROVE LogInv'
  OBVIOUS
<1>1. ASSUME NEW q \in Requests, CallStep(q) \/ Execute(q) \/ LogTimer(q) PROVE LogInv'
  <2>1. CASE startRecvLog(q)
    BY <2>1, StartInv
  <2>2. CASE InvokeStart(q)
    BY <2>2, InvokeStartInv
  <2>3. CASE WriteReport(q)
    BY <2>3, WriteReportInv
  <2>4. CASE Close(q)
    BY <2>4, CloseInv
  <2>5. CASE Awake(q) \/ InvokeReportDone(q) \/ WaitReturns(q) \/ StopRecvLog(q) \/ Execute(q) \/ LogTimer(q)
    BY <2>5, CallGoesInv
  <2>. QED  BY <1>1, <2>1, <2>2, <2>3, <2>4, <2>5 DEF CallStep
<1>2. ASSUME NEW s \in Streams, DispatcherStep(s) PROVE LogInv'
  <2>1. ASSUME NEW n \in 1..BufferLength, ReadConn(s, n) PROVE LogInv'
    BY <2>1, ReadConnInv
  <2>2. CASE (\E k \in 1..Len(disp[s].buf) : ScanTo(s, k)) \/ ScanEnds(s)
    BY <2>2, ScanInv
  <2>3. CASE WriteEOF(s)
    BY <2>3, WriteEOFInv
  <2>4. CASE WriteTail(s)
    BY <2>4, WriteTailInv
  <2>5. CASE WriteFile(s)
    BY <2>5, WriteFileInv
  <2>. QED  BY <1>2, <2>1, <2>2, <2>3, <2>4, <2>5 DEF DispatcherStep
<1>3. CASE UNCHANGED lvars
  <2>1. UNCHANGED <<mode, logType, lmap, store, contents, bufPool, conn, disp, call>>
    BY <1>3 DEF lvars
  <2>. QED
    BY <2>1 DEF LogInv, LogTypeOK, BufferOwned, WaitGroupExact, BufferHeld, BufferKept,
                TailBalanced, Dispatching
<1>. QED  BY <1>1, <1>2, <1>3 DEF LogNext

LEMMA LogInvSound == LogInv => LogStoresSound
<1>. SUFFICES ASSUME LogInv PROVE TailBounded
  BY DEF LogInv, LogStoresSound
<1>1. \A q \in Requests : Len(store[q].tail) <= TailLength + 6
  BY DEF LogInv, TailBalanced
<1>2. ASSUME NEW b \in Buffers PROVE Len(contents[b]) <= TailLength + 6
  <2>1. CASE b \in bufPool
    <3>1. contents[b] = << >> /\ Len(<< >>) = 0 /\ TailLength \in Nat
      BY <2>1, EmptySeq, RequestLogAssumption DEF LogInv, BufferOwned
    <3>. QED  BY <3>1
  <2>2. CASE b \notin bufPool
    <3>1. PICK q \in Requests : store[q].buffer = b
      BY <2>2 DEF LogInv, BufferKept
    <3>2. b # NoBuffer
      BY RequestLogAssumption
    <3>3. Len(contents[b]) + store[q].remain = TailLength /\ store[q].remain + Overdraft(call[q].pc) >= 0
      BY <3>1, <3>2 DEF LogInv, TailBalanced, Balanced
    <3>4. /\ store[q].remain \in Int /\ Len(contents[b]) \in Nat /\ TailLength \in Nat
          /\ Overdraft(call[q].pc) \in 1..6
      BY OverdraftFacts, LenProperties, RequestLogAssumption DEF LogInv, LogTypeOK, Stores
    <3>. QED  BY <3>3, <3>4
  <2>. QED  BY <2>1, <2>2
<1>. QED  BY <1>1, <1>2 DEF TailBounded

\* Although both dispatchers, the timer and Close set the done flags and write while Close
\* returns the tail buffer to the pool, WaitGroup.Done is called once for each stream, a tail
\* buffer has one owner and is empty in the pool, the pool is never empty when a request
\* starts, and no tail outgrows its length by more than the lines of the controller.
THEOREM LogStoresAlways == LogInit /\ [][LogNext]_lvars => []LogStoresSound
<1>. QED  BY LogInvInit, LogInvNext, LogInvSound, PTL

\* The same of the specification that the run checks.
THEOREM LogSpecSound == LogSpec => []LogStoresSound
<1>. QED  BY LogStoresAlways, PTL DEF LogSpec

-----------------------------------------------------------------------------
(* Lines and their requests *)

\* What may be in a stream: symbols of requests that have started.
Printable(s) ==
  {y \in Symbols : call[y[2]].pc # "new" /\ (NoIds(Printed(s, mode)) => y[1] # "id")}

\* What is left of a stream behind l consists of such lines, but for the beginning of the first.
Formed(x, l) ==
  /\ x # << >> => x[Len(x)][1] = "nl"
  /\ \A j \in (l + 1)..Len(x) :
       /\ x[j][1] # "zero"
       /\ x[j][1] = "id" => /\ j < Len(x) /\ x[j + 1][1] = "tab"
                            /\ j - 1 > l => x[j - 1][1] = "tab"
                            /\ j - 2 > l => x[j - 2][1] = "nl"

\* The line after lastln is that of q.
Headed(d, q) ==
  /\ d.lastln + 2 <= Len(d.buf)
  /\ d.buf[d.lastln + 1][1] = "tab" /\ d.buf[d.lastln + 2] = <<"id", q>>

\* What the scan knows of the line it is in: before its tabs, between them, behind them.
Attributed(d, x, open) ==
  /\ d.lastln < Len(x) => x[d.lastln + 1][1] # "id"
  /\ d.pc # "read" /\ d.i = d.lastln => d.tabs = 0
  /\ \A q \in Requests : Headed(d, q) =>
       /\ d.i = d.lastln + 1 \/ d.i = d.lastln + 2 => d.tabs = 1 /\ d.lastTab = d.lastln + 1
       /\ d.i > d.lastln + 2 /\ q \in open => d.ls = q

\* A dispatcher, what it has in its buffer and will read (x), and the open stores.
Parsed(d, x, open) ==
  /\ d.pc # "eof" /\ d.lastln <= d.i /\ d.i <= Len(d.buf) /\ (d.pc = "read" => d.i = 0)
  /\ Formed(x, d.lastln)
  /\ ~d.stale => Attributed(d, x, open)
  /\ \A j \in (d.lastln + 1)..(d.i - 1) : d.buf[j][1] # "nl"
  /\ d.pc = "scan" /\ d.i > d.lastln => d.buf[d.i][1] # "nl"
  /\ d.pc \in {"append", "file"} => /\ d.i > d.lastln /\ d.buf[d.i][1] = "nl"
                                    /\ d.data = SubSeq(d.buf, d.lastln + 1, d.i)

Streamed ==
  \A s \in Streams : /\ conn[s] \in Seq(Printable(s)) /\ disp[s].buf \in Seq(Printable(s))
                     /\ disp[s].data \in Seq(Printable(s))

LineInv ==
  /\ LogInv /\ Streamed
  /\ \A q \in lmap.stores : call[q].pc # "new"
  /\ \A s \in Streams :
       ~NoIds(Printed(s, mode)) => Parsed(disp[s], disp[s].buf \o conn[s], lmap.stores)

(* Streams *)

LEMMA FormedLater ==
  ASSUME NEW x, NEW l \in Nat, NEW m \in Nat, l <= m, Formed(x, l), Len(x) \in Nat
  PROVE  Formed(x, m)
BY DEF Formed

LEMMA FormedAt ==
  ASSUME NEW x, NEW l, Formed(x, l), NEW j \in (l + 1)..Len(x)
  PROVE  /\ x[j][1] # "zero"
         /\ x[j][1] = "id" => /\ j < Len(x) /\ x[j + 1][1] = "tab"
                              /\ j - 1 > l => x[j - 1][1] = "tab"
                              /\ j - 2 > l => x[j - 2][1] = "nl"
BY DEF Formed

LEMMA FormedRest ==
  ASSUME NEW x \in Seq(Symbols), NEW m \in Nat, m <= Len(x), Formed(x, m)
  PROVE  Formed(SubSeq(x, m + 1, Len(x)), 0)
<1>. DEFINE y == SubSeq(x, m + 1, Len(x))
<1>1. Len(x) \in Nat /\ m + 1 \in Nat \ {0}
  BY LenProperties
<1>2. y \in Seq(Symbols) /\ Len(y) = Len(x) - m /\ \A j \in 1..Len(y) : y[j] = x[m + j]
  <2>1. \A i \in (m + 1)..Len(x) : x[i] \in Symbols
    BY LenProperties
  <2>2. /\ y \in Seq(Symbols) /\ Len(y) = IF m + 1 <= Len(x) THEN Len(x) - (m + 1) + 1 ELSE 0
        /\ \A i \in 1..(Len(x) - (m + 1) + 1) : y[i] = x[(m + 1) + i - 1]
    BY <1>1, <2>1, SubSeqProperties
  <2>3. Len(y) = Len(x) - m
    BY <1>1, <2>2
  <2>. HIDE DEF y
  <2>4. ASSUME NEW j \in 1..Len(y) PROVE y[j] = x[m + j]
    <3>1. j \in 1..(Len(x) - (m + 1) + 1) /\ (m + 1) + j - 1 = m + j
      BY <1>1, <2>3, <2>4
    <3>. QED  BY <2>2, <3>1
  <2>. QED  BY <2>2, <2>3, <2>4
<1>. HIDE DEF y
<1>3. y # << >> => y[Len(y)][1] = "nl"
  <2>. SUFFICES ASSUME y # << >> PROVE y[Len(y)][1] = "nl"
    OBVIOUS
  <2>1. Len(y) \in Nat \ {0}
    BY <1>2, EmptySeq
  <2>2. Len(y) \in 1..Len(y) /\ m + Len(y) = Len(x) /\ x # << >>
    BY <1>1, <1>2, <2>1, EmptySeq
  <2>. QED  BY <1>2, <2>2 DEF Formed
<1>4. ASSUME NEW j \in 1..Len(y)
      PROVE  /\ y[j][1] # "zero"
             /\ y[j][1] = "id" => /\ j < Len(y) /\ y[j + 1][1] = "tab"
                                  /\ j - 1 > 0 => y[j - 1][1] = "tab"
                                  /\ j - 2 > 0 => y[j - 2][1] = "nl"
  <2>. DEFINE k == m + j
  <2>1. k \in (m + 1)..Len(x) /\ y[j] = x[k] /\ j \in Nat /\ k \in Nat
    BY <1>1, <1>2, <1>4
  <2>2. j < Len(y) => y[j + 1] = x[k + 1]
    <3>1. j < Len(y) => j + 1 \in 1..Len(y) /\ m + (j + 1) = k + 1
      BY <1>1, <1>2, <2>1
    <3>. HIDE DEF k
    <3>. QED  BY <1>2, <3>1
  <2>3. j - 1 > 0 => y[j - 1] = x[k - 1]
    <3>1. j - 1 > 0 => j - 1 \in 1..Len(y) /\ m + (j - 1) = k - 1
      BY <1>1, <1>2, <1>4, <2>1
    <3>. HIDE DEF k
    <3>. QED  BY <1>2, <3>1
  <2>4. j - 2 > 0 => y[j - 2] = x[k - 2]
    <3>1. j - 2 > 0 => j - 2 \in 1..Len(y) /\ m + (j - 2) = k - 2
      BY <1>1, <1>2, <1>4, <2>1
    <3>. HIDE DEF k
    <3>. QED  BY <1>2, <3>1
  <2>5. (k < Len(x) <=> j < Len(y)) /\ (k - 1 > m <=> j - 1 > 0) /\ (k - 2 > m <=> j - 2 > 0)
    BY <1>1, <1>2, <2>1
  <2>. HIDE DEF k
  <2>6. /\ x[k][1] # "zero"
        /\ x[k][1] = "id" => /\ k < Len(x) /\ x[k + 1][1] = "tab"
                             /\ k - 1 > m => x[k - 1][1] = "tab"
                             /\ k - 2 > m => x[k - 2][1] = "nl"
    BY <2>1, FormedAt
  <2>. QED  BY <2>1, <2>2, <2>3, <2>4, <2>5, <2>6
<1>5. (0 + 1)..Len(y) = 1..Len(y)
  OBVIOUS
<1>6. Formed(y, 0)
  BY <1>3, <1>4, <1>5 DEF Formed
<1>. QED  BY <1>6 DEF y

\* More lines behind what is there.
LEMMA FormedMore ==
  ASSUME NEW x \in Seq(Symbols), NEW y \in Seq(Symbols), NEW l \in Nat, l <= Len(x),
         Formed(x, l), Formed(y, 0), y # << >> => y[1][1] # "id"
  PROVE  Formed(x \o y, l)
<1>. DEFINE z == x \o y
<1>1. /\ Len(x) \in Nat /\ Len(y) \in Nat /\ z \in Seq(Symbols) /\ Len(z) = Len(x) + Len(y)
      /\ \A i \in 1..(Len(x) + Len(y)) : z[i] = IF i <= Len(x) THEN x[i] ELSE y[i - Len(x)]
  BY LenProperties, ConcatProperties
<1>. HIDE DEF z
<1>2. /\ \A i \in 1..Len(x) : z[i] = x[i]
      /\ \A i \in (Len(x) + 1)..Len(z) : z[i] = y[i - Len(x)]
  BY <1>1
<1>3. z # << >> => z[Len(z)][1] = "nl"
  <2>1. CASE y = << >>
    <3>1. Len(y) = 0
      BY <2>1, EmptySeq
    <3>2. Len(z) = Len(x) /\ (z # << >> => Len(z) # 0)
      BY <1>1, <3>1, EmptySeq
    <3>3. z # << >> => x # << >> /\ Len(x) \in 1..Len(x)
      BY <1>1, <3>2, EmptySeq
    <3>. QED  BY <1>2, <3>2, <3>3 DEF Formed
  <2>2. CASE y # << >>
    <3>1. Len(y) \in Nat \ {0}
      BY <2>2, EmptySeq
    <3>2. Len(z) \in (Len(x) + 1)..Len(z) /\ Len(z) - Len(x) = Len(y)
      BY <1>1, <3>1
    <3>. QED  BY <1>2, <2>2, <3>2 DEF Formed
  <2>. QED  BY <2>1, <2>2
<1>4. ASSUME NEW j \in (l + 1)..Len(z)
      PROVE  /\ z[j][1] # "zero"
             /\ z[j][1] = "id" => /\ j < Len(z) /\ z[j + 1][1] = "tab"
                                  /\ j - 1 > l => z[j - 1][1] = "tab"
                                  /\ j - 2 > l => z[j - 2][1] = "nl"
  <2>1. CASE j <= Len(x)
    <3>1. j \in (l + 1)..Len(x) /\ j \in 1..Len(x) /\ z[j] = x[j]
      BY <1>1, <1>2, <1>4, <2>1
    <3>2. /\ x[j][1] # "zero"
          /\ x[j][1] = "id" => /\ j < Len(x) /\ x[j + 1][1] = "tab"
                               /\ j - 1 > l => x[j - 1][1] = "tab"
                               /\ j - 2 > l => x[j - 2][1] = "nl"
      BY <3>1, FormedAt
    <3>3. j < Len(x) => j < Len(z) /\ z[j + 1] = x[j + 1]
      <4>1. j < Len(x) => j + 1 \in 1..Len(x) /\ j < Len(z)
        BY <1>1, <3>1
      <4>. QED  BY <1>2, <4>1
    <3>4. j - 1 > l => z[j - 1] = x[j - 1]
      <4>1. j - 1 > l => j - 1 \in 1..Len(x)
        BY <1>1, <3>1
      <4>. QED  BY <1>2, <4>1
    <3>5. j - 2 > l => z[j - 2] = x[j - 2]
      <4>1. j - 2 > l => j - 2 \in 1..Len(x)
        BY <1>1, <3>1
      <4>. QED  BY <1>2, <4>1
    <3>. QED  BY <3>1, <3>2, <3>3, <3>4, <3>5
  <2>2. CASE j > Len(x)
    <3>. DEFINE i == j - Len(x)
    <3>1. i \in 1..Len(y) /\ z[j] = y[i] /\ y # << >>
      BY <1>1, <1>2, <1>4, <2>2, EmptySeq
    <3>2. /\ y[i][1] # "zero"
          /\ y[i][1] = "id" => /\ i < Len(y) /\ y[i + 1][1] = "tab"
                               /\ i - 1 > 0 => y[i - 1][1] = "tab"
                               /\ i - 2 > 0 => y[i - 2][1] = "nl"
      <4>1. i \in (0 + 1)..Len(y)
        BY <3>1
      <4>. QED  BY <4>1 DEF Formed
    <3>3. y[i][1] = "id" => i >= 2
      BY <3>1
    <3>4. i < Len(y) => j < Len(z) /\ z[j + 1] = y[i + 1]
      <4>1. i < Len(y) => j + 1 \in (Len(x) + 1)..Len(z) /\ (j + 1) - Len(x) = i + 1
        BY <1>1, <1>4, <2>2
      <4>. QED  BY <1>1, <1>2, <1>4, <4>1
    <3>5. i >= 2 => z[j - 1] = y[i - 1]
      <4>1. i >= 2 => j - 1 \in (Len(x) + 1)..Len(z) /\ (j - 1) - Len(x) = i - 1
        BY <1>1, <1>4, <2>2
      <4>. HIDE DEF i
      <4>. QED  BY <1>2, <4>1
    <3>6. i > 2 => z[j - 2] = y[i - 2]
      <4>1. i > 2 => j - 2 \in (Len(x) + 1)..Len(z) /\ (j - 2) - Len(x) = i - 2
        BY <1>1, <1>4, <2>2
      <4>. HIDE DEF i
      <4>. QED  BY <1>2, <4>1
    <3>7. i = 2 /\ j - 2 > l => z[j - 2][1] = "nl"
      <4>. SUFFICES ASSUME i = 2, j - 2 > l PROVE z[j - 2][1] = "nl"
        OBVIOUS
      <4>1. j - 2 = Len(x) /\ Len(x) \in 1..Len(x) /\ x # << >>
        BY <1>1, <1>4, EmptySeq
      <4>. QED  BY <1>2, <4>1 DEF Formed
    <3>8. i \in Nat
      BY <3>1
    <3>. HIDE DEF i
    <3>9. CASE y[i][1] = "id"
      <4>1. i >= 2 /\ i < Len(y) /\ y[i + 1][1] = "tab" /\ y[i - 1][1] = "tab"
        BY <3>2, <3>3, <3>8, <3>9
      <4>2. j < Len(z) /\ z[j + 1][1] = "tab" /\ z[j - 1][1] = "tab"
        BY <3>4, <3>5, <4>1
      <4>3. j - 2 > l => z[j - 2][1] = "nl"
        <5>1. i > 2 => i - 2 > 0
          BY <3>8
        <5>2. i = 2 \/ i > 2
          BY <3>8, <4>1
        <5>. QED  BY <3>2, <3>6, <3>7, <3>9, <5>1, <5>2
      <4>. QED  BY <3>1, <3>2, <4>2, <4>3
    <3>. QED  BY <3>1, <3>2, <3>9
  <2>3. j \in Int /\ Len(x) \in Int
    BY <1>1
  <2>. QED  BY <2>1, <2>2, <2>3
<1>5. Formed(z, l)
  BY <1>3, <1>4 DEF Formed
<1>. QED  BY <1>5 DEF z

LEMMA JoinFacts ==
  ASSUME NEW a \in Seq(Symbols), NEW c \in Seq(Symbols)
  PROVE  /\ Len(a) \in Nat /\ Len(c) \in Nat
         /\ Len(a \o c) = Len(a) + Len(c) /\ a \o c \in Seq(Symbols)
         /\ \A i \in 1..(Len(a) + Len(c)) : (a \o c)[i] = IF i <= Len(a) THEN a[i] ELSE c[i - Len(a)]
BY LenProperties, ConcatProperties

\* A full buffer without a newline gets one: it holds the beginning of its line.
LEMMA FormedFull ==
  ASSUME NEW b \in Seq(Symbols), NEW c \in Seq(Symbols), NEW e \in Symbols, e[1] = "nl",
         Len(b) >= 3, \A j \in 1..Len(b) : b[j][1] # "nl", Formed(b \o c, 0)
  PROVE  Formed(Append(b, e) \o c, 0)
<1>. DEFINE x == b \o c
            a == Append(b, e)
            z == a \o c
            L == Len(b)
<1>1. /\ L \in Nat /\ Len(c) \in Nat /\ Len(x) = L + Len(c)
      /\ \A i \in 1..(L + Len(c)) : x[i] = IF i <= L THEN b[i] ELSE c[i - L]
  BY LenProperties, ConcatProperties
<1>2. /\ a \in Seq(Symbols) /\ Len(a) = L + 1 /\ a[L + 1] = e
      /\ \A i \in 1..L : a[i] = b[i]
  BY AppendProperties
<1>. HIDE DEF a
<1>3. /\ Len(z) = L + 1 + Len(c) /\ z \in Seq(Symbols)
      /\ \A i \in 1..(L + 1 + Len(c)) : z[i] = IF i <= L + 1 THEN a[i] ELSE c[i - (L + 1)]
  <2>1. /\ Len(z) = Len(a) + Len(c) /\ z \in Seq(Symbols)
        /\ \A i \in 1..(Len(a) + Len(c)) : z[i] = IF i <= Len(a) THEN a[i] ELSE c[i - Len(a)]
    BY <1>2, JoinFacts
  <2>2. PICK m : m = Len(a)
    OBVIOUS
  <2>3. m = L + 1
    BY <1>2, <2>2
  <2>4. /\ Len(z) = m + Len(c)
        /\ \A i \in 1..(m + Len(c)) : z[i] = IF i <= m THEN a[i] ELSE c[i - m]
    BY <2>1, <2>2
  <2>. QED  BY <2>1, <2>3, <2>4
<1>. HIDE DEF x, z
<1>4. \A i \in 1..L : z[i] = x[i] /\ x[i][1] # "nl"
  <2>. TAKE i \in 1..L
  <2>1. i \in 1..(L + Len(c)) /\ i \in 1..(L + 1 + Len(c)) /\ i <= L /\ i <= L + 1
    BY <1>1
  <2>. QED  BY <1>1, <1>2, <1>3, <2>1
<1>5. z[L + 1] = e
  <2>1. L + 1 \in 1..(L + 1 + Len(c)) /\ L + 1 <= L + 1
    BY <1>1
  <2>. QED  BY <1>2, <1>3, <2>1
<1>6. \A i \in (L + 2)..Len(z) : z[i] = x[i - 1]
  <2>. TAKE i \in (L + 2)..Len(z)
  <2>1. /\ i \in 1..(L + 1 + Len(c)) /\ ~(i <= L + 1)
        /\ i - 1 \in 1..(L + Len(c)) /\ ~(i - 1 <= L) /\ (i - 1) - L = i - (L + 1)
    BY <1>1, <1>3
  <2>2. z[i] = c[i - (L + 1)]
    BY <1>3, <2>1
  <2>3. x[i - 1] = c[(i - 1) - L]
    BY <1>1, <2>1
  <2>. QED  BY <2>1, <2>2, <2>3
<1>. HIDE DEF L
<1>7. z[Len(z)][1] = "nl"
  <2>1. CASE Len(c) = 0
    BY <1>1, <1>3, <1>5, <2>1
  <2>2. CASE Len(c) # 0
    <3>1. Len(z) \in (L + 2)..Len(z) /\ Len(z) - 1 = Len(x)
      BY <1>1, <1>3, <2>2
    <3>2. x # << >>
      <4>1. Len(x) # 0
        BY <1>1, <2>2
      <4>. QED  BY <4>1, EmptySeq
    <3>. QED  BY <1>6, <3>1, <3>2 DEF Formed, x
  <2>. QED  BY <2>1, <2>2
<1>8. ASSUME NEW j \in (0 + 1)..Len(x)
      PROVE  /\ x[j][1] # "zero"
             /\ x[j][1] = "id" => /\ j < Len(x) /\ x[j + 1][1] = "tab"
                                  /\ j - 1 > 0 => x[j - 1][1] = "tab"
                                  /\ j - 2 > 0 => x[j - 2][1] = "nl" /\ j - 2 > L
  <2>1. /\ x[j][1] # "zero"
        /\ x[j][1] = "id" => /\ j < Len(x) /\ x[j + 1][1] = "tab"
                             /\ j - 1 > 0 => x[j - 1][1] = "tab"
                             /\ j - 2 > 0 => x[j - 2][1] = "nl"
    BY <1>8, FormedAt DEF x
  <2>2. x[j][1] = "id" /\ j - 2 > 0 => j - 2 > L
    <3>. SUFFICES ASSUME x[j][1] = "id", j - 2 > 0, ~(j - 2 > L) PROVE FALSE
      OBVIOUS
    <3>1. j - 2 \in 1..L
      BY <1>1, <1>8
    <3>. QED  BY <1>4, <2>1, <3>1
  <2>. QED  BY <2>1, <2>2
<1>9. ASSUME NEW j \in (0 + 1)..Len(z)
      PROVE  /\ z[j][1] # "zero"
             /\ z[j][1] = "id" => /\ j < Len(z) /\ z[j + 1][1] = "tab"
                                  /\ j - 1 > 0 => z[j - 1][1] = "tab"
                                  /\ j - 2 > 0 => z[j - 2][1] = "nl"
  <2>1. L >= 3
    BY DEF L
  <2>2. CASE j <= L
    <3>1. j \in (0 + 1)..Len(x) /\ j \in 1..L /\ j \in Nat
      BY <1>1, <1>9, <2>2
    <3>2. z[j] = x[j]
      BY <1>4, <3>1
    <3>3. CASE x[j][1] = "id"
      <4>1. ~(j - 2 > 0)
        BY <1>1, <1>8, <2>2, <3>1, <3>3
      <4>2. j + 1 \in 1..L /\ j < Len(z) /\ (j - 1 > 0 => j - 1 \in 1..L)
        BY <1>1, <1>3, <2>1, <3>1, <4>1
      <4>3. z[j + 1] = x[j + 1] /\ (j - 1 > 0 => z[j - 1] = x[j - 1])
        BY <1>4, <4>2
      <4>. QED  BY <1>8, <3>1, <3>2, <3>3, <4>1, <4>2, <4>3
    <3>. QED  BY <1>8, <3>1, <3>2, <3>3
  <2>3. CASE j = L + 1
    BY <1>5, <2>3
  <2>4. CASE j > L + 1
    <3>. DEFINE k == j - 1
    <3>1. k \in (0 + 1)..Len(x) /\ j \in (L + 2)..Len(z) /\ k \in Nat /\ k > L /\ j \in Nat
      BY <1>1, <1>3, <1>9, <2>4
    <3>2. z[j] = x[k]
      BY <1>6, <3>1
    <3>3. CASE x[k][1] = "id"
      <4>1. k - 2 > 0 /\ k - 1 > 0
        BY <2>1, <3>1, <1>1
      <4>. HIDE DEF k
      <4>2. k < Len(x) /\ x[k + 1][1] = "tab" /\ x[k - 1][1] = "tab" /\ x[k - 2][1] = "nl" /\ k - 2 > L
        BY <1>8, <3>1, <3>3, <4>1
      <4>3. /\ j + 1 \in (L + 2)..Len(z) /\ j - 1 \in (L + 2)..Len(z) /\ j - 2 \in (L + 2)..Len(z)
            /\ (j + 1) - 1 = k + 1 /\ (j - 1) - 1 = k - 1 /\ (j - 2) - 1 = k - 2 /\ j < Len(z)
        BY <1>1, <1>3, <3>1, <4>2 DEF k
      <4>4. z[j + 1] = x[k + 1] /\ z[j - 1] = x[k - 1] /\ z[j - 2] = x[k - 2]
        BY <1>6, <4>3
      <4>. QED  BY <1>8, <3>1, <3>2, <4>2, <4>3, <4>4
    <3>. HIDE DEF k
    <3>. QED  BY <1>8, <3>1, <3>2, <3>3
  <2>5. j \in Int /\ L \in Int
    BY <1>1
  <2>. QED  BY <2>2, <2>3, <2>4, <2>5
<1>10. Formed(z, 0)
  BY <1>7, <1>9 DEF Formed
<1>. QED  BY <1>10 DEF z, a

LEMMA Associative ==
  ASSUME NEW a \in Seq(Symbols), NEW b \in Seq(Symbols), NEW c \in Seq(Symbols)
  PROVE  (a \o b) \o c = a \o (b \o c)
BY ConcatAssociative

\* Reading moves the front of what is on the connection to the end of the buffer.
LEMMA MoveFront ==
  ASSUME NEW b \in Seq(Symbols), NEW c \in Seq(Symbols), NEW n \in Nat, n <= Len(c)
  PROVE  (b \o SubSeq(c, 1, n)) \o SubSeq(c, n + 1, Len(c)) = b \o c
<1>. DEFINE f == SubSeq(c, 1, n)
            g == SubSeq(c, n + 1, Len(c))
<1>1. /\ f \in Seq(Symbols) /\ g \in Seq(Symbols)
  <2>1. Len(c) \in Nat /\ n + 1 \in Nat \ {0} /\ 1 \in Nat \ {0} /\ n \in Int
    BY LenProperties
  <2>. QED  BY <2>1, PieceFacts
<1>2. f \o g = c
  <2>1. Len(c) \in Nat
    BY LenProperties
  <2>2. SubSeq(c, 1, n) \o SubSeq(c, n + 1, Len(c)) = SubSeq(c, 1, Len(c))
    <3>1. 1 \in 1..(Len(c) + 1) /\ n \in (1 - 1)..Len(c) /\ Len(c) \in n..Len(c)
      BY <2>1
    <3>. QED  BY <2>1, <3>1, ConcatAdjacentSubSeq
  <2>3. SubSeq(c, 1, Len(c)) = c
    BY SubSeqFull
  <2>. QED  BY <2>2, <2>3
<1>. HIDE DEF f, g
<1>3. (b \o f) \o g = b \o (f \o g)
  BY <1>1, Associative
<1>. QED  BY <1>2, <1>3 DEF f, g

\* What is left of the buffer, and the connection.
LEMMA DropFront ==
  ASSUME NEW b \in Seq(Symbols), NEW c \in Seq(Symbols), NEW l \in Nat, l <= Len(b)
  PROVE  SubSeq(b, l + 1, Len(b)) \o c = SubSeq(b \o c, l + 1, Len(b \o c))
<1>. DEFINE r == SubSeq(b, l + 1, Len(b))
            x == b \o c
            y == SubSeq(x, l + 1, Len(x))
<1>1. /\ Len(b) \in Nat /\ Len(c) \in Nat /\ x \in Seq(Symbols) /\ Len(x) = Len(b) + Len(c)
      /\ \A i \in 1..(Len(b) + Len(c)) : x[i] = IF i <= Len(b) THEN b[i] ELSE c[i - Len(b)]
  BY LenProperties, ConcatProperties
<1>. HIDE DEF x
<1>2. /\ r \in Seq(Symbols) /\ Len(r) = Len(b) - l
      /\ \A i \in 1..(Len(b) - (l + 1) + 1) : r[i] = b[(l + 1) + i - 1]
  <2>1. \A i \in (l + 1)..Len(b) : b[i] \in Symbols
    BY LenProperties
  <2>2. /\ r \in Seq(Symbols) /\ Len(r) = IF l + 1 <= Len(b) THEN Len(b) - (l + 1) + 1 ELSE 0
        /\ \A i \in 1..(Len(b) - (l + 1) + 1) : r[i] = b[(l + 1) + i - 1]
    BY <1>1, <2>1, SubSeqProperties
  <2>. QED  BY <1>1, <2>2
<1>3. /\ y \in Seq(Symbols) /\ Len(y) = Len(x) - l
      /\ \A i \in 1..(Len(x) - (l + 1) + 1) : y[i] = x[(l + 1) + i - 1]
  <2>1. \A i \in (l + 1)..Len(x) : x[i] \in Symbols
    BY <1>1, LenProperties
  <2>2. /\ y \in Seq(Symbols) /\ Len(y) = IF l + 1 <= Len(x) THEN Len(x) - (l + 1) + 1 ELSE 0
        /\ \A i \in 1..(Len(x) - (l + 1) + 1) : y[i] = x[(l + 1) + i - 1]
    BY <1>1, <2>1, SubSeqProperties
  <2>. QED  BY <1>1, <2>2
<1>. HIDE DEF r, y
<1>4. /\ r \o c \in Seq(Symbols) /\ Len(r \o c) = Len(y)
      /\ \A i \in 1..(Len(r) + Len(c)) : (r \o c)[i] = IF i <= Len(r) THEN r[i] ELSE c[i - Len(r)]
  <2>1. /\ r \o c \in Seq(Symbols) /\ Len(r \o c) = Len(r) + Len(c)
        /\ \A i \in 1..(Len(r) + Len(c)) : (r \o c)[i] = IF i <= Len(r) THEN r[i] ELSE c[i - Len(r)]
    BY <1>2, ConcatProperties
  <2>2. Len(r) + Len(c) = Len(y)
    BY <1>1, <1>2, <1>3
  <2>. QED  BY <2>1, <2>2
<1>5. ASSUME NEW i \in 1..Len(r \o c) PROVE (r \o c)[i] = y[i]
  <2>1. /\ i \in 1..(Len(r) + Len(c)) /\ i \in 1..(Len(x) - (l + 1) + 1) /\ i \in Nat
        /\ (l + 1) + i - 1 = l + i /\ l + i \in 1..(Len(b) + Len(c))
    BY <1>1, <1>2, <1>3, <1>4, <1>5
  <2>2. y[i] = IF l + i <= Len(b) THEN b[l + i] ELSE c[(l + i) - Len(b)]
    BY <1>1, <1>3, <2>1
  <2>3. CASE i <= Len(r)
    <3>1. l + i <= Len(b) /\ i \in 1..(Len(b) - (l + 1) + 1)
      BY <1>1, <1>2, <2>1, <2>3
    <3>. QED  BY <1>2, <1>4, <2>1, <2>2, <2>3, <3>1
  <2>4. CASE ~(i <= Len(r))
    <3>1. ~(l + i <= Len(b)) /\ (l + i) - Len(b) = i - Len(r)
      BY <1>1, <1>2, <2>1, <2>4
    <3>. QED  BY <1>4, <2>1, <2>2, <2>4, <3>1
  <2>. QED  BY <2>3, <2>4
<1>6. r \o c = y
  BY <1>3, <1>4, <1>5, SeqEqual
<1>. QED  BY <1>6 DEF r, x, y

\* The buffer is the front of the stream.
LEMMA BufferFront ==
  ASSUME NEW b \in Seq(Symbols), NEW c \in Seq(Symbols)
  PROVE  /\ b \o c \in Seq(Symbols) /\ Len(b \o c) = Len(b) + Len(c)
         /\ Len(b) \in Nat /\ Len(c) \in Nat /\ Len(b) <= Len(b \o c)
         /\ \A j \in 1..Len(b) : (b \o c)[j] = b[j]
<1>1. /\ Len(b) \in Nat /\ Len(c) \in Nat /\ b \o c \in Seq(Symbols) /\ Len(b \o c) = Len(b) + Len(c)
      /\ \A i \in 1..(Len(b) + Len(c)) : (b \o c)[i] = IF i <= Len(b) THEN b[i] ELSE c[i - Len(b)]
  BY LenProperties, ConcatProperties
<1>. QED  BY <1>1

\* A line of the buffer.
LEMMA LineFacts ==
  ASSUME NEW b \in Seq(Symbols), NEW l \in Nat, NEW k \in Nat, l < k, k <= Len(b)
  PROVE  LET a == SubSeq(b, l + 1, k)
         IN  /\ Len(a) = k - l /\ a[Len(a)] = b[k]
             /\ \A i \in 1..(k - l) : a[i] = b[l + i]
<1>. DEFINE a == SubSeq(b, l + 1, k)
<1>1. l + 1 \in Nat /\ (\A i \in (l + 1)..k : b[i] \in Symbols)
  BY LenProperties
<1>2. /\ Len(a) = IF l + 1 <= k THEN k - (l + 1) + 1 ELSE 0
      /\ \A i \in 1..(k - (l + 1) + 1) : a[i] = b[(l + 1) + i - 1]
  BY <1>1, SubSeqProperties
<1>. HIDE DEF a
<1>3. k - (l + 1) + 1 = k - l /\ l + 1 <= k
  OBVIOUS
<1>4. Len(a) = k - l /\ \A i \in 1..(k - l) : a[i] = b[(l + 1) + i - 1]
  BY <1>2, <1>3
<1>5. \A i \in 1..(k - l) : (l + 1) + i - 1 = l + i
  OBVIOUS
<1>6. \A i \in 1..(k - l) : a[i] = b[l + i]
  BY <1>4, <1>5
<1>7. Len(a) \in 1..(k - l) /\ l + Len(a) = k
  BY <1>4
<1>8. a[Len(a)] = b[k]
  BY <1>6, <1>7
<1>. QED  BY <1>4, <1>6, <1>8 DEF a

\* What is left when the front of a stream is gone.
LEMMA FormedBehind ==
  ASSUME NEW a \in Seq(Symbols), NEW c \in Seq(Symbols), Formed(a \o c, 0)
  PROVE  Formed(c, 0)
<1>. DEFINE x == a \o c
            n == Len(a)
<1>1. n \in Nat /\ x \in Seq(Symbols) /\ n <= Len(x) /\ Len(x) \in Nat
  BY BufferFront
<1>2. SubSeq(a, n + 1, n) \o c = SubSeq(x, n + 1, Len(x))
  BY <1>1, DropFront
<1>3. SubSeq(a, n + 1, n) = << >>
  <2>1. SubSeq(a, n + 1, n) \in Seq(Symbols) /\ Len(SubSeq(a, n + 1, n)) = 0
    <3>1. n + 1 \in Nat \ {0} /\ n \in Int /\ n <= Len(a) /\ ~(n + 1 <= n)
      BY <1>1
    <3>. QED  BY <3>1, PieceFacts
  <2>. QED  BY <2>1, EmptySeq
<1>4. << >> \o c = c
  BY ConcatEmptySeq
<1>5. Formed(x, n)
  BY <1>1, FormedLater
<1>. QED  BY <1>1, <1>2, <1>3, <1>4, <1>5, FormedRest

-----------------------------------------------------------------------------
(* One dispatcher *)

\* The buffer is in front of what will be read.
Ahead(b, x) == Len(b) <= Len(x) /\ \A j \in 1..Len(b) : x[j] = b[j]

\* A line is over, and the scan is at the beginning of the next one.
LEMMA LineOver ==
  ASSUME NEW e \in Dispatchers, NEW x \in Seq(Symbols), NEW o, NEW l \in Nat,
         Formed(x, l), Ahead(e.buf, x), l < e.i, e.i <= Len(e.buf), e.buf[e.i][1] = "nl",
         e.pc = "scan", e.lastln = e.i, e.tabs = 0
  PROVE  Parsed(e, x, o)
<1>1. e.i \in Nat /\ Len(e.buf) \in Nat /\ Len(x) \in Nat
  BY LenProperties DEF Dispatchers
<1>2. Formed(x, e.i)
  BY <1>1, FormedLater
<1>3. e.i < Len(x) => x[e.i + 1][1] # "id"
  <2>. SUFFICES ASSUME e.i < Len(x), x[e.i + 1][1] = "id" PROVE FALSE
    OBVIOUS
  <2>1. e.i + 1 \in (l + 1)..Len(x) /\ (e.i + 1) - 1 > l /\ (e.i + 1) - 1 = e.i /\ e.i \in 1..Len(e.buf)
    BY <1>1
  <2>2. x[(e.i + 1) - 1][1] = "tab"
    BY <2>1, FormedAt
  <2>. QED  BY <2>1, <2>2 DEF Ahead
<1>4. Attributed(e, x, o)
  BY <1>1, <1>3 DEF Attributed
<1>. QED  BY <1>1, <1>2, <1>4 DEF Parsed

\* A line that was read is written.
Ended(e, x, o) ==
  /\ e.lastln < e.i /\ e.i <= Len(e.buf) /\ e.buf[e.i][1] = "nl"
  /\ Formed(x, e.lastln)
  /\ ~e.stale => Attributed(e, x, o)
  /\ \A j \in (e.lastln + 1)..(e.i - 1) : e.buf[j][1] # "nl"

LEMMA WritingParsed ==
  ASSUME NEW e \in Dispatchers, NEW x \in Seq(Symbols), NEW o, Ahead(e.buf, x), Ended(e, x, o),
         e.pc = "scan", e.ls \in Requests
  PROVE  Parsed(Writing(e, SubSeq(e.buf, e.lastln + 1, e.i), FALSE), x, o)
<1>. DEFINE b == SubSeq(e.buf, e.lastln + 1, e.i)
            w == Writing(e, b, FALSE)
<1>. SUFFICES Parsed(w, x, o)
  OBVIOUS
<1>1. /\ e.i \in Nat /\ e.lastln \in Nat /\ e.buf \in Seq(Symbols) /\ Len(e.buf) \in Nat
  BY LenProperties DEF Dispatchers
<1>2. b \in Seq(Symbols)
  <2>1. e.lastln + 1 \in Nat \ {0} /\ e.i \in Int /\ e.i <= Len(e.buf)
    BY <1>1 DEF Ended
  <2>. QED  BY <1>1, <2>1, PieceFacts
<1>3. w \in Dispatchers
  <2>. HIDE DEF b
  <2>. QED  BY <1>2, WritingReady DEF Ready
<1>. HIDE DEF b
<1>4. CASE store[e.ls].closed
  <2>1. w.pc = "scan" /\ w.buf = e.buf /\ w.i = e.i /\ w.lastln = e.i /\ w.tabs = 0
    BY <1>4 DEF Writing, Resume, Dispatchers
  <2>. HIDE DEF w
  <2>. QED  BY <1>1, <1>3, <2>1, LineOver DEF Ended
<1>5. CASE ~store[e.ls].closed
  <2>1. /\ w.pc = "append" /\ w.buf = e.buf /\ w.i = e.i /\ w.lastln = e.lastln /\ w.tabs = e.tabs
        /\ w.lastTab = e.lastTab /\ w.ls = e.ls /\ w.stale = e.stale /\ w.data = b
    BY <1>5 DEF Writing, Dispatchers
  <2>. HIDE DEF w
  <2>2. Attributed(e, x, o) => Attributed(w, x, o)
    BY <1>1, <2>1 DEF Attributed, Headed
  <2>. HIDE DEF Attributed, Formed
  <2>. QED  BY <1>1, <2>1, <2>2 DEF Parsed, Ended, b
<1>. QED  BY <1>4, <1>5

\* The scan is in a line, and nothing special is between i and k.
Scanned(d, k) == \A j \in (d.i + 1)..(k - 1) : d.buf[j][1] \notin {"zero", "nl", "tab"}

LEMMA NoNewline ==
  ASSUME NEW d \in Dispatchers, NEW x, NEW o, Parsed(d, x, o), d.pc = "scan",
         NEW k \in Nat, Scanned(d, k)
  PROVE  \A j \in (d.lastln + 1)..(k - 1) : d.buf[j][1] # "nl"
<1>. TAKE j \in (d.lastln + 1)..(k - 1)
<1>1. d.i \in Nat /\ d.lastln \in Nat /\ j \in Nat
  BY DEF Dispatchers
<1>2. CASE j < d.i
  <2>1. j \in (d.lastln + 1)..(d.i - 1)
    BY <1>1, <1>2
  <2>. QED  BY <2>1 DEF Parsed
<1>3. CASE j = d.i
  BY <1>1, <1>3 DEF Parsed
<1>4. CASE j > d.i
  <2>1. j \in (d.i + 1)..(k - 1)
    BY <1>1, <1>4
  <2>. QED  BY <2>1 DEF Scanned
<1>. QED  BY <1>1, <1>2, <1>3, <1>4

\* The ID of a line is followed by a tab.
LEMMA HeadTab ==
  ASSUME NEW d \in Dispatchers, NEW x \in Seq(Symbols), Ahead(d.buf, x), Formed(x, d.lastln),
         NEW q \in Requests, Headed(d, q)
  PROVE  d.lastln + 3 <= Len(d.buf) => d.buf[d.lastln + 3][1] = "tab"
<1>. DEFINE l == d.lastln
<1>1. l \in Nat /\ Len(d.buf) \in Nat /\ Len(x) \in Nat
  BY LenProperties DEF Dispatchers
<1>2. l + 2 \in 1..Len(d.buf) /\ l + 2 \in (l + 1)..Len(x) /\ (l + 2) + 1 = l + 3
  BY <1>1 DEF Headed, Ahead
<1>3. x[l + 2][1] = "id"
  BY <1>2 DEF Headed, Ahead
<1>4. x[l + 3][1] = "tab"
  <2>1. x[(l + 2) + 1][1] = "tab"
    <3>. HIDE DEF l
    <3>. QED  BY <1>2, <1>3, FormedAt DEF l
  <2>. QED  BY <1>2, <2>1
<1>5. l + 3 <= Len(d.buf) => l + 3 \in 1..Len(d.buf)
  BY <1>1
<1>. QED  BY <1>4, <1>5 DEF Ahead

\* A scan that is behind the ID has found the store.
LEMMA OwnerKnown ==
  ASSUME NEW d \in Dispatchers, NEW x \in Seq(Symbols), NEW o, Ahead(d.buf, x),
         Parsed(d, x, o), ~d.stale, NEW q \in Requests, q \in o, Headed(d, q),
         NEW k \in Nat, k <= Len(d.buf) + 1, k > d.lastln + 3, Scanned(d, k)
  PROVE  d.ls = q
<1>1. d.i \in Nat /\ d.lastln \in Nat /\ Len(d.buf) \in Nat
  BY LenProperties DEF Dispatchers
<1>2. d.lastln + 3 <= Len(d.buf)
  BY <1>1
<1>3. d.buf[d.lastln + 3][1] = "tab"
  BY <1>2, HeadTab DEF Parsed
<1>4. d.lastln + 3 \notin (d.i + 1)..(k - 1)
  BY <1>3 DEF Scanned
<1>5. d.i > d.lastln + 2
  BY <1>1, <1>4
<1>. QED  BY <1>5 DEF Parsed, Attributed

\* At a newline.
LEMMA LineParsed ==
  ASSUME NEW d \in Dispatchers, NEW x \in Seq(Symbols), NEW o, Ahead(d.buf, x),
         Parsed(d, x, o), d.pc = "scan", d.ls \in Requests,
         NEW k \in 1..Len(d.buf), k > d.i, Scanned(d, k), d.buf[k][1] = "nl"
  PROVE  Parsed(AtLine(d, k), x, o)
<1>. DEFINE e == [d EXCEPT !.i = k]
<1>1. /\ d.i \in Nat /\ d.lastln \in Nat /\ Len(d.buf) \in Nat /\ k \in Nat /\ d.lastln < k
  BY LenProperties DEF Dispatchers, Parsed
<1>2. /\ e \in Dispatchers /\ e.i = k /\ e.pc = "scan" /\ e.buf = d.buf /\ e.lastln = d.lastln
      /\ e.tabs = d.tabs /\ e.lastTab = d.lastTab /\ e.ls = d.ls /\ e.stale = d.stale
  BY <1>1 DEF Dispatchers
<1>3. AtLine(d, k) = Writing(e, SubSeq(e.buf, e.lastln + 1, e.i), FALSE)
  BY <1>2 DEF AtLine
<1>. HIDE DEF e
<1>4. ~d.stale => Attributed(e, x, o)
  <2>. SUFFICES ASSUME ~d.stale PROVE Attributed(e, x, o)
    OBVIOUS
  <2>1. Attributed(d, x, o)
    BY DEF Parsed
  <2>2. ASSUME NEW q \in Requests, Headed(e, q)
        PROVE  /\ ~(k = d.lastln + 1) /\ ~(k = d.lastln + 2)
               /\ q \in o => d.ls = q
    <3>1. Headed(d, q) /\ d.buf[d.lastln + 1][1] = "tab" /\ d.buf[d.lastln + 2][1] = "id"
      BY <1>2, <2>2 DEF Headed
    <3>2. ~(k = d.lastln + 1) /\ ~(k = d.lastln + 2)
      BY <3>1
    <3>3. ~(k = d.lastln + 3)
      <4>. SUFFICES ASSUME k = d.lastln + 3 PROVE FALSE
        OBVIOUS
      <4>1. d.lastln + 3 <= Len(d.buf)
        BY <1>1
      <4>2. d.buf[d.lastln + 3][1] = "tab"
        BY <3>1, <4>1, HeadTab DEF Parsed
      <4>. QED  BY <4>2
    <3>4. k > d.lastln + 3 /\ k <= Len(d.buf) + 1
      <4>. DEFINE l == d.lastln
                  n == Len(d.buf)
      <4>1. l \in Nat /\ n \in Nat /\ k \in Nat /\ l < k /\ k <= n /\ k # l + 1 /\ k # l + 2 /\ k # l + 3
        BY <1>1, <3>2, <3>3
      <4>. HIDE DEF l, n
      <4>2. k > l + 3 /\ k <= n + 1
        BY <4>1
      <4>. QED  BY <4>2 DEF l, n
    <3>5. q \in o => d.ls = q
      BY <1>1, <3>1, <3>4, OwnerKnown
    <3>. QED  BY <3>2, <3>5
  <2>. QED  BY <1>1, <1>2, <2>1, <2>2 DEF Attributed
<1>5. \A j \in (d.lastln + 1)..(k - 1) : d.buf[j][1] # "nl"
  BY <1>1, NoNewline
<1>6. Ended(e, x, o)
  <2>. HIDE DEF Attributed, Formed
  <2>. QED  BY <1>1, <1>2, <1>4, <1>5 DEF Ended, Parsed
<1>. QED  BY <1>2, <1>3, <1>6, WritingParsed

\* A field that is an ID lies between two tabs.
LEMMA FieldIsId ==
  ASSUME NEW b \in Seq(Symbols), NEW t \in Nat, NEW k \in 1..Len(b), NEW q,
         SubSeq(b, t + 1, k - 1) = <<<<"id", q>>>>
  PROVE  t + 1 = k - 1 /\ b[k - 1] = <<"id", q>>
<1>. DEFINE f == SubSeq(b, t + 1, k - 1)
<1>1. Len(b) \in Nat /\ k - 1 \in Nat /\ t + 1 \in Nat \ {0} /\ k - 1 <= Len(b)
  BY LenProperties
<1>2. \A i \in (t + 1)..(k - 1) : b[i] \in Symbols
  BY <1>1, LenProperties
<1>3. /\ Len(f) = IF t + 1 <= k - 1 THEN (k - 1) - (t + 1) + 1 ELSE 0
      /\ \A i \in 1..((k - 1) - (t + 1) + 1) : f[i] = b[(t + 1) + i - 1]
  BY <1>1, <1>2, SubSeqProperties
<1>. HIDE DEF f
<1>4. Len(f) = 1 /\ f[1] = <<"id", q>>
  <2>1. f = <<<<"id", q>>>>
    BY DEF f
  <2>. QED  BY <2>1
<1>5. t + 1 = k - 1
  <2>1. t + 1 <= k - 1
    <3>1. Len(f) = IF t + 1 <= k - 1 THEN (k - 1) - (t + 1) + 1 ELSE 0
      BY <1>3
    <3>2. ~(t + 1 <= k - 1) => Len(f) = 0
      BY <3>1
    <3>3. 1 # 0
      OBVIOUS
    <3>. QED  BY <1>4, <3>2, <3>3
  <2>2. (k - 1) - (t + 1) + 1 = 1
    BY <1>3, <1>4, <2>1
  <2>. QED  BY <1>1, <2>2
<1>6. 1 \in 1..((k - 1) - (t + 1) + 1) /\ (t + 1) + 1 - 1 = k - 1
  BY <1>1, <1>5
<1>. QED  BY <1>3, <1>4, <1>5, <1>6

\* and the field after the first tab of a line that names q is.
LEMMA IdIsField ==
  ASSUME NEW d \in Dispatchers, NEW q \in Requests, Headed(d, q)
  PROVE  SubSeq(d.buf, (d.lastln + 1) + 1, (d.lastln + 3) - 1) = <<<<"id", q>>>>
<1>. DEFINE m == d.lastln + 2
            b == d.buf
            f == SubSeq(b, m, m)
<1>1. /\ b \in Seq(Symbols) /\ m \in 1..Len(b) /\ b[m] = <<"id", q>> /\ m \in Nat
      /\ (d.lastln + 1) + 1 = m /\ (d.lastln + 3) - 1 = m
  BY LenProperties DEF Dispatchers, Headed
<1>. HIDE DEF m, b
<1>2. \A i \in m..m : b[i] \in Symbols
  BY <1>1, LenProperties
<1>3. /\ f \in Seq(Symbols) /\ Len(f) = IF m <= m THEN m - m + 1 ELSE 0
      /\ \A i \in 1..(m - m + 1) : f[i] = b[m + i - 1]
  BY <1>1, <1>2, SubSeqProperties
<1>4. Len(f) = 1 /\ f[1] = <<"id", q>>
  <2>1. 1 \in 1..(m - m + 1) /\ m + 1 - 1 = m /\ m - m + 1 = 1 /\ m <= m
    BY <1>1
  <2>. QED  BY <1>1, <1>3, <2>1
<1>5. f = <<<<"id", q>>>>
  <2>. HIDE DEF f
  <2>1. <<"id", q>> \in Symbols
    BY DEF Symbols
  <2>2. <<<<"id", q>>>> \in Seq(Symbols) /\ Len(<<<<"id", q>>>>) = 1
    BY <2>1
  <2>3. \A i \in 1..Len(f) : f[i] = <<<<"id", q>>>>[i]
    BY <1>4
  <2>. QED  BY <1>3, <1>4, <2>2, <2>3, SeqEqual
<1>. QED  BY <1>1, <1>5 DEF b

\* At a tab.
LEMMA TabParsed ==
  ASSUME NEW d \in Dispatchers, NEW x \in Seq(Symbols), Ahead(d.buf, x),
         Parsed(d, x, lmap.stores), d.pc = "scan",
         NEW k \in 1..Len(d.buf), k > d.i, Scanned(d, k), d.buf[k][1] = "tab"
  PROVE  Parsed(AtTab(d, k), x, lmap.stores)
<1>. DEFINE field == SubSeq(d.buf, d.lastTab + 1, k - 1)
            owner == {q \in lmap.stores : field = <<<<"id", q>>>>}
            e == AtTab(d, k)
            l == d.lastln
<1>. SUFFICES Parsed(e, x, lmap.stores)
  OBVIOUS
<1>1. /\ d.i \in Nat /\ l \in Nat /\ Len(d.buf) \in Nat /\ k \in Nat /\ l < k
      /\ d.buf \in Seq(Symbols) /\ d.tabs \in Nat /\ d.lastTab \in Nat
  BY LenProperties DEF Dispatchers, Parsed
<1>2. /\ e.i = k /\ e.pc = "scan" /\ e.buf = d.buf /\ e.lastln = l
      /\ e.tabs = d.tabs + 1 /\ e.lastTab = k /\ e.stale = d.stale
      /\ e.ls = IF d.tabs = 1 /\ owner # {} THEN CHOOSE q \in owner : TRUE ELSE d.ls
  BY DEF AtTab, Dispatchers
<1>. HIDE DEF e, field, owner
<1>3. \A j \in (l + 1)..(k - 1) : d.buf[j][1] # "nl"
  BY <1>1, NoNewline
<1>4. ~d.stale => Attributed(e, x, lmap.stores)
  <2>. SUFFICES ASSUME ~d.stale PROVE Attributed(e, x, lmap.stores)
    OBVIOUS
  <2>1. Attributed(d, x, lmap.stores)
    BY DEF Parsed
  <2>2. ASSUME NEW q \in Requests, Headed(e, q)
        PROVE  /\ k = l + 1 \/ k = l + 2 => d.tabs + 1 = 1 /\ k = l + 1
               /\ k > l + 2 /\ q \in lmap.stores => e.ls = q
    <3>1. Headed(d, q) /\ d.buf[l + 1][1] = "tab" /\ d.buf[l + 2][1] = "id"
      BY <1>2, <2>2 DEF Headed
    <3>2. k # l + 2
      BY <3>1
    <3>3. k = l + 1 => d.tabs + 1 = 1
      <4>. SUFFICES ASSUME k = l + 1 PROVE d.tabs = 0
        BY <1>1
      <4>1. d.i = l
        BY <1>1 DEF Parsed
      <4>. QED  BY <2>1, <4>1 DEF Attributed
    <3>4. ASSUME k = l + 3, q \in lmap.stores PROVE e.ls = q
      <4>1. l + 1 \notin (d.i + 1)..(k - 1)
        BY <3>1 DEF Scanned
      <4>2. d.i = l + 1 \/ d.i = l + 2
        <5>. DEFINE i == d.i
        <5>1. i \in Nat /\ l \in Nat /\ k = l + 3 /\ k > i /\ l + 1 \notin (i + 1)..(k - 1)
          BY <1>1, <3>4, <4>1
        <5>. HIDE DEF i, l
        <5>2. i > l /\ i < l + 3
          BY <5>1
        <5>3. i = l + 1 \/ i = l + 2
          BY <5>1, <5>2
        <5>. QED  BY <5>3 DEF i
      <4>3. d.tabs = 1 /\ d.lastTab = l + 1
        BY <2>1, <3>1, <4>2 DEF Attributed
      <4>4. field = <<<<"id", q>>>>
        BY <3>1, <3>4, <4>3, IdIsField DEF field
      <4>5. owner = {q}
        BY <3>4, <4>4 DEF owner
      <4>. QED  BY <1>2, <4>3, <4>5
    <3>5. ASSUME k > l + 3, q \in lmap.stores PROVE e.ls = q
      <4>1. d.ls = q
        BY <1>1, <3>1, <3>5, OwnerKnown
      <4>2. ASSUME NEW r, field = <<<<"id", r>>>> PROVE FALSE
        <5>1. d.buf[k - 1] = <<"id", r>>
          <6>1. SubSeq(d.buf, d.lastTab + 1, k - 1) = <<<<"id", r>>>>
            BY <4>2 DEF field
          <6>2. d.buf \in Seq(Symbols) /\ d.lastTab \in Nat /\ k \in 1..Len(d.buf)
            BY <1>1
          <6>. QED  BY <6>1, <6>2, FieldIsId, Zenon
        <5>2. /\ k - 1 \in (l + 1)..Len(x) /\ k - 1 \in 1..Len(d.buf) /\ (k - 1) - 2 > l
              /\ (k - 1) - 2 \in (l + 1)..(k - 1) /\ (k - 1) - 2 \in 1..Len(d.buf)
          BY <1>1, <3>5 DEF Ahead
        <5>3. x[k - 1][1] = "id"
          BY <5>1, <5>2 DEF Ahead
        <5>4. x[(k - 1) - 2][1] = "nl"
          BY <5>2, <5>3, FormedAt DEF Parsed
        <5>5. d.buf[(k - 1) - 2][1] = "nl"
          BY <5>2, <5>4 DEF Ahead
        <5>. QED  BY <1>3, <5>2, <5>5
      <4>3. owner = {}
        BY <4>2 DEF owner
      <4>. QED  BY <1>2, <4>1, <4>3
    <3>. QED  BY <1>1, <3>2, <3>3, <3>4, <3>5
  <2>3. k # l /\ (l < Len(x) => x[l + 1][1] # "id")
    BY <1>1, <2>1 DEF Attributed
  <2>. QED  BY <1>2, <2>2, <2>3 DEF Attributed
<1>. HIDE DEF Attributed, Formed
<1>5. e.lastln <= e.i /\ e.i <= Len(e.buf)
  BY <1>1, <1>2
<1>. QED  BY <1>1, <1>2, <1>3, <1>4, <1>5 DEF Parsed

\* The loop over the buffer is over: the dispatcher reads more of its line.
LEMMA ReadingParsed ==
  ASSUME NEW b \in Seq(Symbols), NEW x, NEW t \in Nat, NEW f \in BOOLEAN, NEW o,
         Formed(x, 0), ~f => (0 < Len(x) => x[1][1] # "id")
  PROVE  Parsed(Reading(b, t, f), x, o)
<1>. DEFINE e == Reading(b, t, f)
<1>1. e.pc = "read" /\ e.i = 0 /\ e.lastln = 0 /\ e.buf = b /\ e.stale = f /\ Len(b) \in Nat
  BY LenProperties DEF Reading
<1>. HIDE DEF e
<1>2. ~e.stale => Attributed(e, x, o)
  BY <1>1 DEF Attributed
<1>3. Parsed(e, x, o)
  <2>. HIDE DEF Attributed, Formed
  <2>. QED  BY <1>1, <1>2 DEF Parsed
<1>. QED  BY <1>3 DEF e

LEMMA RestParsed ==
  ASSUME NEW d \in Dispatchers, NEW c \in Seq(Symbols), NEW o, Parsed(d, d.buf \o c, o)
  PROVE  LET r == SubSeq(d.buf, d.lastln + 1, Len(d.buf))
         IN  Parsed(Reading(r, 0, d.stale), r \o c, o)
<1>. DEFINE r == SubSeq(d.buf, d.lastln + 1, Len(d.buf))
            x == d.buf \o c
            y == r \o c
            l == d.lastln
<1>1. /\ d.buf \in Seq(Symbols) /\ l \in Nat /\ d.i \in Nat /\ Len(d.buf) \in Nat /\ l <= Len(d.buf)
      /\ d.stale \in BOOLEAN
  BY LenProperties DEF Dispatchers, Parsed
<1>2. x \in Seq(Symbols) /\ Len(d.buf) <= Len(x) /\ Len(x) \in Nat
  BY <1>1, BufferFront
<1>3. r \in Seq(Symbols)
  <2>1. l + 1 \in Nat \ {0} /\ Len(d.buf) \in Int /\ Len(d.buf) <= Len(d.buf)
    BY <1>1
  <2>. QED  BY <1>1, <2>1, PieceFacts
<1>4. y = SubSeq(x, l + 1, Len(x))
  BY <1>1, DropFront
<1>. HIDE DEF r, x, y
<1>5. l <= Len(x)
  BY <1>1, <1>2
<1>6. Formed(x, l)
  BY DEF Parsed, x
<1>7. Formed(y, 0)
  BY <1>1, <1>2, <1>4, <1>5, <1>6, FormedRest
<1>8. ~d.stale => (0 < Len(y) => y[1][1] # "id")
  <2>. SUFFICES ASSUME ~d.stale, 0 < Len(y) PROVE y[1][1] # "id"
    OBVIOUS
  <2>1. Len(y) = IF l + 1 <= Len(x) THEN Len(x) - (l + 1) + 1 ELSE 0
    <3>1. l + 1 \in Nat \ {0} /\ Len(x) \in Int /\ Len(x) <= Len(x)
      BY <1>1, <1>2
    <3>. QED  BY <1>2, <1>4, <3>1, PieceFacts
  <2>2. l + 1 <= Len(x)
    BY <2>1
  <2>3. l < Len(x) /\ 1 \in 1..(Len(x) - l) /\ Len(x) <= Len(x)
    BY <1>1, <1>2, <2>2
  <2>4. \A i \in 1..(Len(x) - l) : y[i] = x[l + i]
    <3>1. l \in Nat /\ Len(x) \in Nat
      BY <1>1, <1>2
    <3>. HIDE DEF l
    <3>. QED  BY <1>2, <1>4, <2>3, <3>1, LineFacts
  <2>5. y[1] = x[l + 1]
    BY <2>3, <2>4
  <2>. QED  BY <2>3, <2>5 DEF Parsed, Attributed, x
<1>9. Parsed(Reading(r, 0, d.stale), y, o)
  BY <1>1, <1>3, <1>7, <1>8, ReadingParsed
<1>. QED  BY <1>9 DEF r, y

LEMMA StayParsed ==
  ASSUME NEW d \in Dispatchers, NEW x, NEW o, Parsed(d, x, o), d.lastln = 0
  PROVE  Parsed(Reading(d.buf, d.tabs, d.stale), x, o)
<1>1. d.buf \in Seq(Symbols) /\ d.tabs \in Nat /\ d.stale \in BOOLEAN
  BY DEF Dispatchers
<1>2. Formed(x, 0)
  BY DEF Parsed
<1>3. ~d.stale => (0 < Len(x) => x[1][1] # "id")
  <2>1. 0 + 1 = 1
    OBVIOUS
  <2>. QED  BY <2>1 DEF Parsed, Attributed
<1>. QED  BY <1>1, <1>2, <1>3, ReadingParsed

\* A full buffer is written as a line.
LEMMA FullParsed ==
  ASSUME NEW d \in Dispatchers, NEW c \in Seq(Symbols), NEW o, Parsed(d, d.buf \o c, o),
         d.pc = "scan", d.ls \in Requests, d.lastln = 0, Len(d.buf) >= 3,
         Scanned(d, Len(d.buf) + 1), NEW y \in Symbols, y[1] = "nl"
  PROVE  LET whole == [d EXCEPT !.i = Len(d.buf) + 1, !.buf = Append(@, y)]
         IN  Parsed(Writing(whole, whole.buf, FALSE), whole.buf \o c, o)
<1>. DEFINE n == Len(d.buf)
            a == Append(d.buf, y)
            m == n + 1
            e == [d EXCEPT !.i = m, !.buf = a]
            x == d.buf \o c
            z == a \o c
<1>1. d.buf \in Seq(Symbols) /\ n \in Nat /\ d.i \in Nat
  BY LenProperties DEF Dispatchers
<1>2. /\ a \in Seq(Symbols) /\ Len(a) = n + 1 /\ a[n + 1] = y
      /\ \A j \in 1..n : a[j] = d.buf[j]
  BY <1>1, AppendProperties
<1>. HIDE DEF a
<1>3. /\ e \in Dispatchers /\ e.i = n + 1 /\ e.pc = "scan" /\ e.buf = a /\ e.lastln = 0
      /\ e.tabs = d.tabs /\ e.lastTab = d.lastTab /\ e.ls = d.ls /\ e.stale = d.stale
  <2>1. m \in Nat
    BY <1>1
  <2>. HIDE DEF m
  <2>2. /\ e \in Dispatchers /\ e.i = m /\ e.pc = "scan" /\ e.buf = a /\ e.lastln = 0
        /\ e.tabs = d.tabs /\ e.lastTab = d.lastTab /\ e.ls = d.ls /\ e.stale = d.stale
    BY <1>1, <1>2, <2>1 DEF Dispatchers
  <2>. QED  BY <2>2 DEF m
<1>4. e = [d EXCEPT !.i = Len(d.buf) + 1, !.buf = Append(@, y)]
  BY DEF a
<1>. HIDE DEF e, n
<1>. SUFFICES Parsed(Writing(e, e.buf, FALSE), e.buf \o c, o)
  BY <1>4
<1>5. e.buf = SubSeq(e.buf, e.lastln + 1, e.i)
  <2>1. SubSeq(a, 1, Len(a)) = a
    BY <1>2, SubSeqFull
  <2>2. e.lastln + 1 = 1
    BY <1>3
  <2>. QED  BY <1>2, <1>3, <2>1, <2>2
<1>6. \A j \in 1..n : d.buf[j][1] # "nl"
  <2>1. \A j \in (d.lastln + 1)..((n + 1) - 1) : d.buf[j][1] # "nl"
    BY <1>1, NoNewline DEF n
  <2>2. 1..n = (d.lastln + 1)..((n + 1) - 1)
    BY <1>1
  <2>. QED  BY <2>1, <2>2
<1>7. Formed(z, 0)
  <2>1. Formed(x, 0)
    BY DEF Parsed
  <2>. QED  BY <1>1, <1>6, <2>1, FormedFull DEF a, n
<1>8. z \in Seq(Symbols) /\ Ahead(a, z) /\ Len(z) \in Nat /\ Len(a) <= Len(z)
  BY <1>2, BufferFront DEF Ahead
<1>9. x \in Seq(Symbols) /\ Ahead(d.buf, x) /\ Len(x) \in Nat /\ n <= Len(x)
  BY <1>1, BufferFront DEF Ahead, n
<1>. HIDE DEF x, z
<1>10. n >= 3
  BY DEF n
<1>11. ~d.stale => Attributed(e, z, o)
  <2>. SUFFICES ASSUME ~d.stale PROVE Attributed(e, z, o)
    OBVIOUS
  <2>1. Attributed(d, x, o)
    BY DEF Parsed, x
  <2>2. z[1][1] # "id"
    <3>1. 1 \in 1..n /\ 1 \in 1..Len(a) /\ 0 < Len(x) /\ d.lastln + 1 = 1
      BY <1>1, <1>2, <1>9, <1>10
    <3>2. z[1] = a[1] /\ a[1] = d.buf[1] /\ x[1] = d.buf[1]
      BY <1>2, <1>8, <1>9, <3>1 DEF Ahead, n
    <3>. QED  BY <2>1, <3>1, <3>2 DEF Attributed
  <2>3. ASSUME NEW q \in Requests, Headed(e, q), q \in o PROVE d.ls = q
    <3>1. 1 \in 1..n /\ 2 \in 1..n
      BY <1>1, <1>10
    <3>2. Headed(d, q)
      <4>1. 0 + 1 = 1 /\ 0 + 2 = 2
        OBVIOUS
      <4>2. a[1][1] = "tab" /\ a[2] = <<"id", q>>
        BY <1>3, <2>3, <4>1 DEF Headed
      <4>3. d.buf[1][1] = "tab" /\ d.buf[2] = <<"id", q>>
        BY <1>2, <3>1, <4>2
      <4>4. 2 <= n
        BY <1>1, <1>10
      <4>. QED  BY <4>1, <4>3, <4>4 DEF Headed, n
    <3>3. Len(d.buf) + 1 \in Nat /\ Len(d.buf) + 1 > d.lastln + 3 /\ Len(d.buf) + 1 <= Len(d.buf) + 1
      BY <1>1, <1>10 DEF n
    <3>. QED  BY <1>9, <2>3, <3>2, <3>3, OwnerKnown DEF x
  <2>4. n + 1 # 0 /\ n + 1 # 0 + 1 /\ n + 1 # 0 + 2 /\ 0 + 1 = 1
    BY <1>1, <1>10
  <2>. QED  BY <1>3, <2>2, <2>3, <2>4 DEF Attributed
<1>12. Ended(e, z, o)
  <2>1. e.lastln < e.i /\ e.i <= Len(e.buf)
    BY <1>1, <1>2, <1>3
  <2>2. e.buf[e.i][1] = "nl"
    BY <1>2, <1>3
  <2>3. \A j \in (e.lastln + 1)..(e.i - 1) : e.buf[j][1] # "nl"
    <3>1. (e.lastln + 1)..(e.i - 1) = 1..n
      BY <1>1, <1>3
    <3>. QED  BY <1>2, <1>3, <1>6, <3>1
  <2>. HIDE DEF Attributed, Formed
  <2>. QED  BY <1>3, <1>7, <1>11, <2>1, <2>2, <2>3 DEF Ended
<1>13. Parsed(Writing(e, SubSeq(e.buf, e.lastln + 1, e.i), FALSE), z, o)
  BY <1>3, <1>8, <1>12, WritingParsed
<1>. QED  BY <1>3, <1>5, <1>13 DEF z

\* More is read: without a store it is discarded, with one it is scanned.
LEMMA DiscardParsed ==
  ASSUME NEW d \in Dispatchers, NEW c \in Seq(Symbols), NEW o, Parsed(d, d.buf \o c, o),
         d.pc = "read", NEW n \in Nat \ {0}, n <= Len(c)
  PROVE  LET data == d.buf \o SubSeq(c, 1, n)
         IN  Parsed(Reading(<< >>, d.tabs, Last(data)[1] \notin {"nl", "zero"}),
                    << >> \o SubSeq(c, n + 1, Len(c)), o)
<1>. DEFINE f == SubSeq(c, 1, n)
            data == d.buf \o f
            g == SubSeq(c, n + 1, Len(c))
            x == d.buf \o c
            m == Len(data)
            cut == Last(data)[1] \notin {"nl", "zero"}
<1>1. d.buf \in Seq(Symbols) /\ d.tabs \in Nat /\ Len(c) \in Nat /\ d.i = 0 /\ d.lastln \in Nat /\ d.lastln <= d.i
  BY LenProperties DEF Dispatchers, Parsed
<1>2. d.lastln = 0 /\ Formed(x, 0)
  <2>1. d.lastln = 0
    BY <1>1
  <2>. QED  BY <2>1 DEF Parsed
<1>3. f \in Seq(Symbols) /\ Len(f) = n /\ g \in Seq(Symbols)
  <2>1. 1 \in Nat \ {0} /\ n + 1 \in Nat \ {0} /\ n \in Int /\ Len(c) \in Int /\ Len(c) <= Len(c) /\ n - 1 + 1 = n
    BY <1>1
  <2>2. SubSeq(c, 1, n) \in Seq(Symbols) /\ Len(SubSeq(c, 1, n)) = IF 1 <= n THEN n - 1 + 1 ELSE 0
    BY <2>1, PieceFacts
  <2>3. SubSeq(c, n + 1, Len(c)) \in Seq(Symbols)
    BY <2>1, PieceFacts
  <2>. QED  BY <2>1, <2>2, <2>3
<1>4. data \o g = x
  <2>. DEFINE b == d.buf
  <2>1. b \in Seq(Symbols) /\ n \in Nat
    BY <1>1
  <2>. HIDE DEF b
  <2>2. (b \o SubSeq(c, 1, n)) \o SubSeq(c, n + 1, Len(c)) = b \o c
    BY <2>1, MoveFront
  <2>. QED  BY <2>2 DEF b
<1>. HIDE DEF f, g, x
<1>5. data \in Seq(Symbols) /\ m \in Nat /\ m > 0
  <2>1. data \in Seq(Symbols) /\ Len(data) = Len(d.buf) + Len(f) /\ Len(d.buf) \in Nat
    BY <1>1, <1>3, BufferFront
  <2>. QED  BY <1>3, <2>1
<1>. HIDE DEF data
<1>6. /\ data \o g \in Seq(Symbols) /\ Len(data \o g) = m + Len(g) /\ Len(g) \in Nat
      /\ \A i \in 1..(m + Len(g)) : (data \o g)[i] = IF i <= m THEN data[i] ELSE g[i - m]
  BY <1>3, <1>5, JoinFacts
<1>. HIDE DEF m
<1>7. Formed(g, 0)
  BY <1>2, <1>3, <1>4, <1>5, FormedBehind
<1>8. ~cut => (0 < Len(g) => g[1][1] # "id")
  <2>. SUFFICES ASSUME ~cut, 0 < Len(g), g[1][1] = "id" PROVE FALSE
    OBVIOUS
  <2>1. /\ m + 1 \in 1..(m + Len(g)) /\ ~(m + 1 <= m) /\ (m + 1) - m = 1 /\ (m + 1) - 1 = m
        /\ m \in 1..(m + Len(g)) /\ m <= m /\ m + 1 \in (0 + 1)..(m + Len(g)) /\ m > 0
        /\ m \in (0 + 1)..(m + Len(g))
    BY <1>5, <1>6
  <2>2. x[m + 1] = g[1] /\ x[m] = data[m] /\ Len(x) = m + Len(g)
    BY <1>4, <1>6, <2>1
  <2>3. x[m][1] = "tab"
    <3>1. x[(m + 1) - 1][1] = "tab"
      <4>1. m + 1 \in (0 + 1)..Len(x) /\ x[m + 1][1] = "id" /\ (m + 1) - 1 > 0
        BY <2>1, <2>2
      <4>. QED  BY <1>2, <4>1, FormedAt
    <3>. QED  BY <2>1, <3>1
  <2>4. Last(data) = x[m]
    BY <2>2 DEF Last, m
  <2>. QED  BY <2>3, <2>4
<1>9. << >> \o g = g /\ << >> \in Seq(Symbols) /\ cut \in BOOLEAN
  BY <1>3, ConcatEmptySeq, EmptySeq
<1>. HIDE DEF cut
<1>10. Parsed(Reading(<< >>, d.tabs, cut), << >> \o g, o)
  BY <1>1, <1>7, <1>8, <1>9, ReadingParsed
<1>. QED  BY <1>10 DEF cut, data, f, g

LEMMA FilledParsed ==
  ASSUME NEW d \in Dispatchers, NEW c \in Seq(Symbols), NEW o, Parsed(d, d.buf \o c, o),
         d.pc = "read", NEW n \in Nat \ {0}, n <= Len(c), NEW l
  PROVE  LET data == d.buf \o SubSeq(c, 1, n)
         IN  Parsed([Reading(data, d.tabs, d.stale \/ d.tabs # 0) EXCEPT !.pc = "scan", !.ls = l],
                    data \o SubSeq(c, n + 1, Len(c)), o)
<1>. DEFINE f == SubSeq(c, 1, n)
            data == d.buf \o f
            g == SubSeq(c, n + 1, Len(c))
            x == d.buf \o c
            e == [Reading(data, d.tabs, d.stale \/ d.tabs # 0) EXCEPT !.pc = "scan", !.ls = l]
<1>1. d.buf \in Seq(Symbols) /\ d.tabs \in Nat /\ Len(c) \in Nat /\ d.i = 0 /\ d.lastln \in Nat /\ d.lastln <= d.i
  BY LenProperties DEF Dispatchers, Parsed
<1>2. d.lastln = 0 /\ Formed(x, 0)
  <2>1. d.lastln = 0
    BY <1>1
  <2>. QED  BY <2>1 DEF Parsed
<1>3. data \o g = x
  <2>. DEFINE b == d.buf
  <2>1. b \in Seq(Symbols) /\ n \in Nat
    BY <1>1
  <2>. HIDE DEF b
  <2>2. (b \o SubSeq(c, 1, n)) \o SubSeq(c, n + 1, Len(c)) = b \o c
    BY <2>1, MoveFront
  <2>. QED  BY <2>2 DEF b
<1>4. Len(data) \in Nat
  <2>1. 1 \in Nat \ {0} /\ n \in Int
    OBVIOUS
  <2>2. f \in Seq(Symbols)
    BY <2>1, PieceFacts
  <2>. QED  BY <1>1, <2>2, BufferFront, LenProperties
<1>. HIDE DEF f, g, data
<1>5. /\ e.pc = "scan" /\ e.buf = data /\ e.i = 0 /\ e.lastln = 0 /\ e.tabs = d.tabs
      /\ e.stale = (d.stale \/ d.tabs # 0)
  BY DEF Reading
<1>. HIDE DEF e
<1>6. ~e.stale => Attributed(e, x, o)
  <2>. SUFFICES ASSUME ~e.stale PROVE Attributed(e, x, o)
    OBVIOUS
  <2>1. ~d.stale /\ d.tabs = 0
    BY <1>5
  <2>2. 0 < Len(x) => x[0 + 1][1] # "id"
    BY <1>2, <2>1 DEF Parsed, Attributed
  <2>. HIDE DEF x
  <2>. QED  BY <1>5, <2>1, <2>2 DEF Attributed
<1>7. Parsed(e, x, o)
  <2>. HIDE DEF Attributed, Formed, x
  <2>. QED  BY <1>2, <1>4, <1>5, <1>6 DEF Parsed
<1>. QED  BY <1>3, <1>7 DEF e, data, f, g

\* The line is in the tail, and then in the file.
LEMMA TailParsed ==
  ASSUME NEW d \in Dispatchers, NEW x, NEW o, Parsed(d, x, o), d.pc = "append"
  PROVE  Parsed([d EXCEPT !.pc = "file"], x, o)
<1>. DEFINE e == [d EXCEPT !.pc = "file"]
<1>1. /\ e.pc = "file" /\ e.buf = d.buf /\ e.i = d.i /\ e.lastln = d.lastln /\ e.tabs = d.tabs
      /\ e.lastTab = d.lastTab /\ e.ls = d.ls /\ e.stale = d.stale /\ e.data = d.data
  BY DEF Dispatchers
<1>. HIDE DEF e
<1>2. Attributed(d, x, o) => Attributed(e, x, o)
  BY <1>1 DEF Attributed, Headed
<1>3. Parsed(e, x, o)
  <2>. HIDE DEF Attributed, Formed
  <2>. QED  BY <1>1, <1>2 DEF Parsed
<1>. QED  BY <1>3 DEF e

LEMMA FileParsed ==
  ASSUME NEW d \in Dispatchers, NEW x \in Seq(Symbols), NEW o, Ahead(d.buf, x), Parsed(d, x, o),
         d.pc = "file", d.ls \in Requests
  PROVE  Written(d.data) = Len(d.data) /\ Parsed(Resume(d, Len(d.data)), x, o)
<1>. DEFINE l == d.lastln
            e == Resume(d, Len(d.data))
<1>1. /\ d.i \in Nat /\ l \in Nat /\ d.buf \in Seq(Symbols) /\ Len(d.buf) \in Nat /\ l < d.i
      /\ d.i <= Len(d.buf) /\ d.buf[d.i][1] = "nl" /\ d.data = SubSeq(d.buf, l + 1, d.i)
      /\ d.data \in Seq(Symbols) /\ Len(d.data) \in Nat
  BY LenProperties DEF Dispatchers, Parsed
<1>2. Written(d.data) = Len(d.data)
  <2>. DEFINE b == d.buf
              k == d.i
              a == SubSeq(b, l + 1, k)
  <2>1. b \in Seq(Symbols) /\ l \in Nat /\ k \in Nat /\ l < k /\ k <= Len(b) /\ d.data = a
    BY <1>1
  <2>. HIDE DEF b, k, l
  <2>2. a[Len(a)] = b[k]
    BY <2>1, LineFacts
  <2>. HIDE DEF a
  <2>3. d.data[Len(d.data)] = d.buf[d.i]
    BY <2>1, <2>2 DEF b, k
  <2>. QED  BY <1>1, <2>3 DEF Written, Last
<1>3. e \in Dispatchers
  BY <1>1, ResumeReady DEF Ready
<1>4. e.pc = "scan" /\ e.buf = d.buf /\ e.i = d.i /\ e.lastln = d.i /\ e.tabs = 0
  BY DEF Resume, Dispatchers
<1>. HIDE DEF e
<1>5. Parsed(e, x, o)
  BY <1>1, <1>3, <1>4, LineOver DEF Parsed
<1>. QED  BY <1>2, <1>5 DEF e

\* What an execution prints.
LEMMA OutputFormed ==
  ASSUME NEW K, NEW p \in Seq(K), IdForm(p), NEW q,
         NEW y \in Seq(Symbols), y = [i \in DOMAIN p |-> <<p[i], q>>]
  PROVE  Formed(y, 0) /\ (y # << >> => y[1][1] # "id")
<1>1. /\ Len(p) \in Nat /\ DOMAIN p = 1..Len(p) /\ Len(y) \in Nat /\ DOMAIN y = 1..Len(y)
      /\ DOMAIN y = DOMAIN p
  BY LenProperties
<1>2. Len(y) = Len(p)
  BY <1>1
<1>3. \A i \in 1..Len(y) : y[i][1] = p[i]
  BY <1>1
<1>4. y # << >> => y[Len(y)][1] = "nl" /\ y[1][1] # "id"
  <2>. SUFFICES ASSUME y # << >> PROVE y[Len(y)][1] = "nl" /\ y[1][1] # "id"
    OBVIOUS
  <2>1. Len(y) \in 1..Len(y) /\ 1 \in 1..Len(y) /\ Len(p) # 0 /\ 1 \notin 2..(Len(p) - 1)
    BY <1>1, <1>2, EmptySeq
  <2>2. p # << >>
    BY <2>1, EmptySeq
  <2>. QED  BY <1>2, <1>3, <2>1, <2>2 DEF IdForm
<1>5. ASSUME NEW j \in (0 + 1)..Len(y)
      PROVE  /\ y[j][1] # "zero"
             /\ y[j][1] = "id" => /\ j < Len(y) /\ y[j + 1][1] = "tab"
                                  /\ j - 1 > 0 => y[j - 1][1] = "tab"
                                  /\ j - 2 > 0 => y[j - 2][1] = "nl"
  <2>1. j \in 1..Len(p) /\ j \in 1..Len(y) /\ j \in Nat
    BY <1>1, <1>2
  <2>2. y[j][1] = p[j] /\ p[j] # "zero"
    BY <1>3, <2>1 DEF IdForm
  <2>3. CASE p[j] = "id"
    <3>1. j \in 2..(Len(p) - 1) /\ p[j - 1] = "tab" /\ p[j + 1] = "tab" /\ (j = 2 \/ p[j - 2] = "nl")
      BY <2>1, <2>3 DEF IdForm
    <3>2. /\ j < Len(y) /\ j + 1 \in 1..Len(y) /\ j - 1 \in 1..Len(y)
          /\ j - 2 > 0 => j # 2 /\ j - 2 \in 1..Len(y)
      BY <1>1, <1>2, <3>1
    <3>. QED  BY <1>3, <2>2, <3>1, <3>2
  <2>. QED  BY <2>2, <2>3
<1>. QED  BY <1>4, <1>5 DEF Formed

LEMMA MoreParsed ==
  ASSUME NEW d \in Dispatchers, NEW c \in Seq(Symbols), NEW o, Parsed(d, d.buf \o c, o),
         NEW y \in Seq(Symbols), Formed(y, 0), y # << >> => y[1][1] # "id"
  PROVE  Parsed(d, d.buf \o (c \o y), o)
<1>. DEFINE x == d.buf \o c
            z == x \o y
            l == d.lastln
<1>1. d.buf \in Seq(Symbols) /\ l \in Nat /\ d.i \in Nat /\ l <= d.i /\ d.i <= Len(d.buf) /\ Formed(x, l)
  BY DEF Dispatchers, Parsed
<1>2. x \in Seq(Symbols) /\ Len(d.buf) <= Len(x) /\ Len(d.buf) \in Nat
  BY <1>1, BufferFront
<1>3. z = d.buf \o (c \o y)
  <2>. DEFINE b == d.buf
  <2>1. b \in Seq(Symbols)
    BY <1>1
  <2>. HIDE DEF b
  <2>2. (b \o c) \o y = b \o (c \o y)
    BY <2>1, Associative
  <2>. QED  BY <2>2 DEF b
<1>. SUFFICES Parsed(d, z, o)
  BY <1>3
<1>4. Parsed(d, x, o)
  OBVIOUS
<1>. HIDE DEF x
<1>5. /\ z \in Seq(Symbols) /\ Len(z) = Len(x) + Len(y) /\ Len(x) \in Nat /\ Len(y) \in Nat
      /\ \A i \in 1..(Len(x) + Len(y)) : z[i] = IF i <= Len(x) THEN x[i] ELSE y[i - Len(x)]
  BY <1>2, JoinFacts
<1>6. l <= Len(x)
  BY <1>1, <1>2, <1>5
<1>7. Formed(z, l)
  BY <1>1, <1>2, <1>6, FormedMore
<1>. HIDE DEF z
<1>8. ~d.stale => Attributed(d, z, o)
  <2>. SUFFICES ASSUME ~d.stale PROVE Attributed(d, z, o)
    OBVIOUS
  <2>1. Attributed(d, x, o)
    BY <1>4 DEF Parsed
  <2>2. ASSUME l < Len(z) PROVE z[l + 1][1] # "id"
    <3>1. l + 1 \in 1..(Len(x) + Len(y))
      BY <1>1, <1>5, <2>2
    <3>2. CASE l < Len(x)
      <4>1. l + 1 <= Len(x)
        BY <1>1, <1>5, <3>2
      <4>. QED  BY <1>5, <2>1, <3>1, <3>2, <4>1 DEF Attributed
    <3>3. CASE l = Len(x)
      <4>1. ~(l + 1 <= Len(x)) /\ (l + 1) - Len(x) = 1 /\ Len(y) # 0
        BY <1>1, <1>5, <2>2, <3>3
      <4>2. y # << >>
        BY <4>1, EmptySeq
      <4>. QED  BY <1>5, <3>1, <4>1, <4>2
    <3>. QED  BY <1>1, <1>5, <1>6, <3>2, <3>3
  <2>. QED  BY <2>1, <2>2 DEF Attributed
<1>. HIDE DEF Attributed, Formed
<1>. QED  BY <1>4, <1>7, <1>8 DEF Parsed

\* Stores come and go.
LEMMA OpenParsed ==
  ASSUME NEW d, NEW x, NEW o, NEW p, Parsed(d, x, o),
         \A q \in Requests : q \in p => q \in o \/ ~Headed(d, q)
  PROVE  Parsed(d, x, p)
<1>1. Attributed(d, x, o) => Attributed(d, x, p)
  <2>. HIDE DEF Headed
  <2>. QED  BY DEF Attributed
<1>. HIDE DEF Attributed, Formed
<1>. QED  BY <1>1 DEF Parsed

-----------------------------------------------------------------------------
(* What may be in a stream *)

LEMMA SeqGrows ==
  ASSUME NEW S, NEW T, S \subseteq T, NEW s \in Seq(S)
  PROVE  s \in Seq(T)
<1>1. Len(s) \in Nat /\ s = [i \in 1..Len(s) |-> s[i]] /\ \A i \in 1..Len(s) : s[i] \in T
  BY LenProperties
<1>2. [i \in 1..Len(s) |-> s[i]] \in Seq(T)
  BY <1>1, IsASeq
<1>. QED  BY <1>1, <1>2

LEMMA PrintableGrows ==
  ASSUME mode' = mode, NEW s,
         \A q \in Requests : call[q].pc # "new" => call'[q].pc # "new"
  PROVE  Printable(s) \subseteq Printable(s)'
BY DEF Printable, Symbols

\* A line names only a request that has started.
LEMMA HeadedStarted ==
  ASSUME NEW d \in Dispatchers, NEW s, d.buf \in Seq(Printable(s)), NEW q \in Requests, Headed(d, q)
  PROVE  call[q].pc # "new"
<1>1. d.lastln + 2 \in 1..Len(d.buf) /\ d.buf[d.lastln + 2] = <<"id", q>>
  BY LenProperties DEF Headed, Dispatchers
<1>2. <<"id", q>> \in Printable(s)
  BY <1>1, LenProperties
<1>. QED  BY <1>2 DEF Printable

Kept(e, S) == e.buf \in Seq(S) /\ e.data \in Seq(S)

LEMMA WritingKept ==
  ASSUME NEW d \in Dispatchers, NEW S, d.buf \in Seq(S), NEW b \in Seq(S), NEW eof \in BOOLEAN
  PROVE  Kept(Writing(d, b, eof), S)
<1>. DEFINE w == Writing(d, b, eof)
<1>1. w.buf = d.buf /\ w.data = b
  BY DEF Writing, Resume, Dispatchers
<1>. HIDE DEF w
<1>2. Kept(w, S)
  BY <1>1 DEF Kept
<1>. QED  BY <1>2 DEF w

LEMMA ScanKept ==
  ASSUME NEW d \in Dispatchers, NEW S, Kept(d, S), NEW k \in 1..Len(d.buf)
  PROVE  Kept(AtZero(d, k), S) /\ Kept(AtLine(d, k), S) /\ Kept(AtTab(d, k), S)
<1>1. /\ d.buf \in Seq(S) /\ Len(d.buf) \in Nat /\ k \in Nat \ {0} /\ k - 1 \in Nat
      /\ k <= Len(d.buf) /\ k - 1 <= Len(d.buf) /\ d.lastln + 1 \in Nat \ {0} /\ d.zeros + 1 \in Nat
      /\ d.buf \in Seq(Symbols)
  BY LenProperties DEF Dispatchers, Kept
<1>2. Kept(AtZero(d, k), S)
  <2>1. RemoveAt(d.buf, k) \in Seq(S) /\ RemoveAt(d.buf, k) \in Seq(Symbols)
    BY <1>1, RemoveAtFacts
  <2>2. SubSeq(d.buf, d.lastln + 1, k - 1) \in Seq(S)
    BY <1>1, PieceFacts
  <2>. DEFINE e == [d EXCEPT !.i = k - 1, !.zeros = @ + 1, !.buf = RemoveAt(@, k)]
  <2>3. e \in Dispatchers /\ e.buf \in Seq(S)
    BY <1>1, <2>1 DEF Dispatchers
  <2>4. AtZero(d, k) = Writing(e, SubSeq(d.buf, d.lastln + 1, k - 1), TRUE)
    BY DEF AtZero
  <2>. HIDE DEF e
  <2>. QED  BY <2>2, <2>3, <2>4, WritingKept
<1>3. Kept(AtLine(d, k), S)
  <2>1. SubSeq(d.buf, d.lastln + 1, k) \in Seq(S)
    BY <1>1, PieceFacts
  <2>. DEFINE e == [d EXCEPT !.i = k]
  <2>2. e \in Dispatchers /\ e.buf \in Seq(S)
    BY <1>1 DEF Dispatchers
  <2>3. AtLine(d, k) = Writing(e, SubSeq(d.buf, d.lastln + 1, k), FALSE)
    BY DEF AtLine
  <2>. HIDE DEF e
  <2>. QED  BY <2>1, <2>2, <2>3, WritingKept
<1>4. Kept(AtTab(d, k), S)
  <2>1. AtTab(d, k).buf = d.buf /\ AtTab(d, k).data = d.data
    BY DEF AtTab, Dispatchers
  <2>. QED  BY <2>1 DEF Kept
<1>. QED  BY <1>2, <1>3, <1>4

-----------------------------------------------------------------------------
(* The steps *)

\* A step of a request other than its output.
LEMMA CallLines ==
  ASSUME LineInv, LogInv', UNCHANGED <<mode, conn, disp>>,
         \A q \in Requests : call[q].pc # "new" => call'[q].pc # "new",
         \A q \in lmap'.stores : (q \in lmap.stores \/ call[q].pc = "new") /\ call'[q].pc # "new"
  PROVE  LineInv'
<1>1. Streamed'
  <2>. SUFFICES ASSUME NEW s \in Streams
                PROVE  /\ conn[s] \in Seq(Printable(s)') /\ disp[s].buf \in Seq(Printable(s)')
                       /\ disp[s].data \in Seq(Printable(s)')
    BY DEF Streamed
  <2>1. Printable(s) \subseteq Printable(s)'
    BY PrintableGrows
  <2>. QED  BY <2>1, SeqGrows DEF LineInv, Streamed
<1>2. ASSUME NEW s \in Streams, ~NoIds(Printed(s, mode))
      PROVE  Parsed(disp[s], disp[s].buf \o conn[s], lmap'.stores)
  <2>1. /\ Parsed(disp[s], disp[s].buf \o conn[s], lmap.stores)
        /\ disp[s] \in Dispatchers /\ disp[s].buf \in Seq(Printable(s))
    BY <1>2 DEF LineInv, LogInv, LogTypeOK, Streamed
  <2>2. \A q \in Requests : q \in lmap'.stores => q \in lmap.stores \/ ~Headed(disp[s], q)
    BY <2>1, HeadedStarted
  <2>. QED  BY <2>1, <2>2, OpenParsed
<1>. QED  BY <1>1, <1>2 DEF LineInv

LEMMA DispatcherLines ==
  ASSUME LineInv, LogInv', NEW s \in Streams, NEW e, NEW c,
         disp' = [disp EXCEPT ![s] = e], conn' = [conn EXCEPT ![s] = c],
         UNCHANGED <<mode, lmap, call>>,
         Kept(e, Printable(s)), c \in Seq(Printable(s)),
         ~NoIds(Printed(s, mode)) => Parsed(e, e.buf \o c, lmap.stores)
  PROVE  LineInv'
<1>1. disp \in [Streams -> Dispatchers] /\ conn \in [Streams -> Seq(Symbols)]
  BY DEF LineInv, LogInv, LogTypeOK
<1>2. disp'[s] = e /\ conn'[s] = c /\ \A t \in Streams \ {s} : disp'[t] = disp[t] /\ conn'[t] = conn[t]
  BY <1>1
<1>3. \A t : Printable(t)' = Printable(t)
  BY DEF Printable
<1>4. ASSUME NEW t \in Streams
      PROVE  /\ conn'[t] \in Seq(Printable(t)) /\ disp'[t].buf \in Seq(Printable(t))
             /\ disp'[t].data \in Seq(Printable(t))
             /\ ~NoIds(Printed(t, mode)) => Parsed(disp'[t], disp'[t].buf \o conn'[t], lmap.stores)
  <2>1. CASE t = s
    BY <1>2, <2>1 DEF Kept
  <2>2. CASE t # s
    BY <1>2, <2>2 DEF LineInv, Streamed
  <2>. QED  BY <2>1, <2>2
<1>5. Streamed'
  BY <1>3, <1>4 DEF Streamed
<1>. QED  BY <1>4, <1>5 DEF LineInv

LEMMA ExecuteLines ==
  ASSUME LineForm, LineInv, LogInv', NEW q \in Requests, Execute(q)
  PROVE  LineInv'
<1>. DEFINE Out(s) == [i \in DOMAIN Printed(s, mode) |-> <<Printed(s, mode)[i], q>>]
            Kinds == {"text", "id", "tab", "nl", "zero"}
<1>1. /\ conn \in [Streams -> Seq(Symbols)] /\ mode \in Modes /\ disp \in [Streams -> Dispatchers]
      /\ call \in [Requests -> Calls]
  BY DEF LineInv, LogInv, LogTypeOK, Calls
<1>2. /\ conn' = [s \in Streams |-> conn[s] \o Out(s)] /\ call[q].pc # "new"
      /\ call' = [call EXCEPT ![q].ran = TRUE] /\ UNCHANGED <<mode, lmap, disp>>
  BY DEF Execute
<1>3. \A r \in Requests : call'[r].pc = call[r].pc
  <2>. TAKE r \in Requests
  <2>1. CASE r = q
    BY <1>1, <1>2, <2>1 DEF Calls
  <2>2. CASE r # q
    BY <1>1, <1>2, <2>2
  <2>. QED  BY <2>1, <2>2
<1>4. \A s : Printable(s)' = Printable(s)
  BY <1>2, <1>3 DEF Printable, Symbols
<1>5. ASSUME NEW s \in Streams
      PROVE  /\ Out(s) \in Seq(Printable(s)) /\ Out(s) \in Seq(Symbols)
             /\ ~NoIds(Printed(s, mode)) => Formed(Out(s), 0) /\ (Out(s) # << >> => Out(s)[1][1] # "id")
  <2>. DEFINE p == Printed(s, mode)
              y == [i \in DOMAIN p |-> <<p[i], q>>]
  <2>1. p \in Seq(Kinds) /\ (NoIds(p) \/ IdForm(p))
    BY <1>1, RequestLogAssumption DEF LineForm
  <2>2. \A k \in Kinds : (NoIds(p) => k # "id") => <<k, q>> \in Printable(s)
    BY <1>2 DEF Printable, Symbols
  <2>. HIDE DEF p
  <2>3. Len(p) \in Nat /\ DOMAIN p = 1..Len(p) /\ \A i \in 1..Len(p) : p[i] \in Kinds
    BY <2>1, LenProperties
  <2>4. \A i \in 1..Len(p) : <<p[i], q>> \in Printable(s)
    BY <2>2, <2>3 DEF NoIds
  <2>5. [i \in 1..Len(p) |-> <<p[i], q>>] \in Seq(Printable(s))
    BY <2>3, <2>4, IsASeq
  <2>6. y \in Seq(Printable(s))
    BY <2>3, <2>5
  <2>. HIDE DEF y
  <2>7. y \in Seq(Symbols)
    <3>1. Printable(s) \subseteq Symbols
      BY DEF Printable
    <3>. QED  BY <2>6, <3>1, SeqGrows
  <2>8. ~NoIds(p) => Formed(y, 0) /\ (y # << >> => y[1][1] # "id")
    BY <2>1, <2>7, OutputFormed DEF y
  <2>. QED  BY <2>6, <2>7, <2>8 DEF y, p
<1>. HIDE DEF Out
<1>6. Streamed'
  <2>. SUFFICES ASSUME NEW s \in Streams PROVE conn'[s] \in Seq(Printable(s))
    BY <1>2, <1>4 DEF Streamed, LineInv
  <2>1. conn[s] \in Seq(Printable(s)) /\ Out(s) \in Seq(Printable(s)) /\ conn'[s] = conn[s] \o Out(s)
    BY <1>2, <1>5 DEF LineInv, Streamed
  <2>. QED  BY <2>1, ConcatProperties
<1>7. ASSUME NEW s \in Streams, ~NoIds(Printed(s, mode))
      PROVE  Parsed(disp[s], disp[s].buf \o conn'[s], lmap.stores)
  <2>1. Parsed(disp[s], disp[s].buf \o conn[s], lmap.stores) /\ conn'[s] = conn[s] \o Out(s)
    BY <1>2, <1>7 DEF LineInv
  <2>. QED  BY <1>1, <1>5, <1>7, <2>1, MoreParsed
<1>. QED  BY <1>2, <1>3, <1>6, <1>7 DEF LineInv

LEMMA ReadConnLines ==
  ASSUME LineInv, LogInv', NEW s \in Streams, NEW n \in 1..BufferLength, ReadConn(s, n)
  PROVE  LineInv'
<1>. DEFINE d == disp[s]
            c == conn[s]
            f == SubSeq(c, 1, n)
            g == SubSeq(c, n + 1, Len(c))
            x == d.buf \o f
            P == Printable(s)
            a == Reading(<< >>, d.tabs, Last(x)[1] \notin {"nl", "zero"})
            b == [Reading(x, d.tabs, d.stale \/ d.tabs # 0) EXCEPT !.pc = "scan", !.ls = LastStore]
            e == IF LastStore = NoRequest THEN a ELSE b
<1>1. /\ d \in Dispatchers /\ c \in Seq(Symbols) /\ n \in Nat \ {0} /\ Len(c) \in Nat
      /\ d.buf \in Seq(P) /\ c \in Seq(P)
  BY RequestLogAssumption, LenProperties DEF LineInv, LogInv, LogTypeOK, Streamed
<1>2. /\ d.pc = "read" /\ n <= Len(c) /\ conn' = [conn EXCEPT ![s] = g]
      /\ disp' = [disp EXCEPT ![s] = e] /\ UNCHANGED <<mode, lmap, call>>
  BY DEF ReadConn
<1>3. g \in Seq(P) /\ x \in Seq(P) /\ << >> \in Seq(P)
  <2>1. 1 \in Nat \ {0} /\ n + 1 \in Nat \ {0} /\ n \in Int /\ Len(c) \in Int /\ Len(c) <= Len(c)
    BY <1>1
  <2>2. f \in Seq(P) /\ g \in Seq(P)
    BY <1>1, <1>2, <2>1, PieceFacts
  <2>. QED  BY <1>1, <2>2, ConcatProperties, EmptySeq
<1>4. ~NoIds(Printed(s, mode)) => Parsed(a, << >> \o g, lmap.stores) /\ Parsed(b, x \o g, lmap.stores)
  <2>. SUFFICES ASSUME ~NoIds(Printed(s, mode))
                PROVE  Parsed(a, << >> \o g, lmap.stores) /\ Parsed(b, x \o g, lmap.stores)
    OBVIOUS
  <2>1. Parsed(d, d.buf \o c, lmap.stores)
    BY DEF LineInv
  <2>2. Parsed(a, << >> \o g, lmap.stores)
    BY <1>1, <1>2, <2>1, DiscardParsed
  <2>3. Parsed(b, x \o g, lmap.stores)
    BY <1>1, <1>2, <2>1, FilledParsed
  <2>. QED  BY <2>2, <2>3
<1>5. a.buf = << >> /\ a.data = << >> /\ b.buf = x /\ b.data = << >>
  BY DEF Reading
<1>. HIDE DEF a, b, g, x, P
<1>6. Kept(e, P) /\ (~NoIds(Printed(s, mode)) => Parsed(e, e.buf \o g, lmap.stores))
  BY <1>3, <1>4, <1>5 DEF Kept
<1>. HIDE DEF e
<1>. QED  BY <1>2, <1>3, <1>6, DispatcherLines DEF P

\* What is known of a dispatcher that works.
LEMMA Working ==
  ASSUME LineInv, NEW s \in Streams, disp[s].pc # "read"
  PROVE  /\ disp[s] \in Dispatchers /\ disp[s].ls \in Requests /\ disp[s].buf \in Seq(Symbols)
         /\ Kept(disp[s], Printable(s)) /\ conn \in [Streams -> Seq(Symbols)]
         /\ conn[s] \in Seq(Symbols) /\ conn[s] \in Seq(Printable(s)) /\ conn = [conn EXCEPT ![s] = conn[s]]
         /\ disp[s].buf \o conn[s] \in Seq(Symbols) /\ Ahead(disp[s].buf, disp[s].buf \o conn[s])
         /\ ~NoIds(Printed(s, mode)) => Parsed(disp[s], disp[s].buf \o conn[s], lmap.stores)
<1>1. /\ disp[s] \in Dispatchers /\ disp[s].ls \in Requests /\ disp[s].buf \in Seq(Symbols)
      /\ conn \in [Streams -> Seq(Symbols)] /\ conn[s] \in Seq(Symbols)
  BY DEF LineInv, LogInv, LogTypeOK, Dispatching, Dispatchers
<1>2. conn = [conn EXCEPT ![s] = conn[s]]
  BY <1>1
<1>3. disp[s].buf \o conn[s] \in Seq(Symbols) /\ Ahead(disp[s].buf, disp[s].buf \o conn[s])
  BY <1>1, BufferFront DEF Ahead
<1>. QED  BY <1>1, <1>2, <1>3 DEF LineInv, Streamed, Kept

LEMMA ScanToLines ==
  ASSUME LineInv, LogInv', NEW s \in Streams, NEW k \in 1..Len(disp[s].buf), ScanTo(s, k)
  PROVE  LineInv'
<1>. DEFINE d == disp[s]
            c == conn[s]
            x == d.buf \o c
<1>1. /\ d.pc = "scan" /\ k > d.i /\ d.buf[k][1] \in {"zero", "nl", "tab"} /\ Scanned(d, k)
      /\ disp' = [disp EXCEPT ![s] = CASE d.buf[k][1] = "zero" -> AtZero(d, k)
                                       [] d.buf[k][1] = "nl" -> AtLine(d, k)
                                       [] d.buf[k][1] = "tab" -> AtTab(d, k)]
      /\ UNCHANGED <<mode, lmap, conn, call>>
  BY DEF ScanTo, Scanned
<1>2. /\ d \in Dispatchers /\ d.ls \in Requests /\ Kept(d, Printable(s)) /\ c \in Seq(Printable(s))
      /\ conn = [conn EXCEPT ![s] = c] /\ x \in Seq(Symbols) /\ Ahead(d.buf, x)
      /\ ~NoIds(Printed(s, mode)) => Parsed(d, x, lmap.stores)
  BY <1>1, Working
<1>3. /\ Kept(AtZero(d, k), Printable(s)) /\ Kept(AtLine(d, k), Printable(s))
      /\ Kept(AtTab(d, k), Printable(s))
  BY <1>2, ScanKept
<1>4. CASE d.buf[k][1] = "zero"
  <2>1. NoIds(Printed(s, mode))
    <3>. SUFFICES ASSUME ~NoIds(Printed(s, mode)) PROVE FALSE
      OBVIOUS
    <3>1. Formed(x, d.lastln) /\ d.lastln <= d.i /\ d.lastln \in Nat /\ d.i \in Nat /\ Len(x) \in Nat
      BY <1>2, LenProperties DEF Parsed, Dispatchers
    <3>2. k \in (d.lastln + 1)..Len(x) /\ x[k] = d.buf[k]
      <4>1. Len(d.buf) <= Len(x) /\ x[k] = d.buf[k]
        BY <1>2 DEF Ahead
      <4>. HIDE DEF d, x
      <4>. QED  BY <1>1, <3>1, <4>1 DEF d
    <3>3. x[k][1] # "zero"
      BY <3>1, <3>2 DEF Formed
    <3>. QED  BY <1>4, <3>2, <3>3
  <2>2. disp' = [disp EXCEPT ![s] = AtZero(d, k)]
    BY <1>1, <1>4
  <2>. HIDE DEF d, c
  <2>. QED  BY <1>1, <1>2, <1>3, <2>1, <2>2, DispatcherLines
<1>5. CASE d.buf[k][1] = "nl"
  <2>1. disp' = [disp EXCEPT ![s] = AtLine(d, k)]
    BY <1>1, <1>5
  <2>2. ~NoIds(Printed(s, mode)) => Parsed(AtLine(d, k), x, lmap.stores)
    BY <1>1, <1>2, <1>5, LineParsed
  <2>3. AtLine(d, k).buf = d.buf
    BY <1>2 DEF AtLine, Writing, Resume, Dispatchers
  <2>. HIDE DEF d, c
  <2>. QED  BY <1>1, <1>2, <1>3, <2>1, <2>2, <2>3, DispatcherLines
<1>6. CASE d.buf[k][1] = "tab"
  <2>1. disp' = [disp EXCEPT ![s] = AtTab(d, k)]
    BY <1>1, <1>6
  <2>2. ~NoIds(Printed(s, mode)) => Parsed(AtTab(d, k), x, lmap.stores)
    BY <1>1, <1>2, <1>6, TabParsed
  <2>3. AtTab(d, k).buf = d.buf
    BY <1>2 DEF AtTab, Dispatchers
  <2>. HIDE DEF d, c
  <2>. QED  BY <1>1, <1>2, <1>3, <2>1, <2>2, <2>3, DispatcherLines
<1>. QED  BY <1>1, <1>4, <1>5, <1>6

LEMMA ScanEndsLines ==
  ASSUME LineForm, LineInv, LogInv', NEW s \in Streams, ScanEnds(s)
  PROVE  LineInv'
<1>. DEFINE d == disp[s]
            c == conn[s]
            P == Printable(s)
            y == <<"nl", Last(d.buf)[2]>>
            whole == [d EXCEPT !.i = Len(d.buf) + 1, !.buf = Append(@, y)]
            rest == SubSeq(d.buf, d.lastln + 1, Len(d.buf))
            A == d.zeros > 0 \/ d.lastln > 0
            B == d.zeros = 0 /\ d.lastln = 0 /\ Len(d.buf) < BufferLength
            C == d.zeros = 0 /\ d.lastln = 0 /\ Len(d.buf) >= BufferLength
            u == Reading(rest, 0, d.stale)
            v == Reading(d.buf, d.tabs, d.stale)
            w == Writing(whole, whole.buf, FALSE)
            e == CASE A -> u [] B -> v [] C -> w
            IdStream == ~NoIds(Printed(s, mode))
<1>1. /\ d.pc = "scan" /\ disp' = [disp EXCEPT ![s] = e] /\ UNCHANGED <<mode, lmap, conn, call>>
  BY DEF ScanEnds
<1>2. /\ d \in Dispatchers /\ d.ls \in Requests /\ Kept(d, P) /\ c \in Seq(P) /\ c \in Seq(Symbols)
      /\ conn = [conn EXCEPT ![s] = c] /\ d.buf \in Seq(Symbols)
      /\ IdStream => Parsed(d, d.buf \o c, lmap.stores)
  BY <1>1, Working
<1>3. /\ d.buf \in Seq(P) /\ Len(d.buf) \in Nat /\ d.lastln \in Nat /\ d.zeros \in Nat
      /\ << >> \in Seq(P) /\ BufferLength \in Nat \ {0} /\ BufferLength >= 3
  BY <1>2, LenProperties, EmptySeq, RequestLogAssumption DEF Kept, Dispatchers, LineForm
<1>4. Scanned(d, Len(d.buf) + 1)
  <2>1. (Len(d.buf) + 1) - 1 = Len(d.buf)
    BY <1>3
  <2>. QED  BY <2>1 DEF ScanEnds, Scanned
<1>5. Kept(u, P) /\ (IdStream => Parsed(u, u.buf \o c, lmap.stores))
  <2>1. rest \in Seq(P)
    <3>1. d.lastln + 1 \in Nat \ {0} /\ Len(d.buf) \in Int /\ Len(d.buf) <= Len(d.buf)
      BY <1>3
    <3>. QED  BY <1>3, <3>1, PieceFacts
  <2>2. IdStream => Parsed(u, rest \o c, lmap.stores)
    BY <1>2, RestParsed
  <2>3. u.buf = rest /\ u.data = << >>
    BY DEF Reading
  <2>. HIDE DEF u, rest
  <2>. QED  BY <1>3, <2>1, <2>2, <2>3 DEF Kept
<1>6. B => Kept(v, P) /\ (IdStream => Parsed(v, v.buf \o c, lmap.stores))
  <2>1. v.buf = d.buf /\ v.data = << >>
    BY DEF Reading
  <2>2. B /\ IdStream => Parsed(v, d.buf \o c, lmap.stores)
    BY <1>2, StayParsed
  <2>. HIDE DEF v, d
  <2>. QED  BY <1>3, <2>1, <2>2 DEF Kept
<1>7. C => Kept(w, P) /\ (IdStream => Parsed(w, w.buf \o c, lmap.stores))
  <2>. SUFFICES ASSUME C PROVE Kept(w, P) /\ (IdStream => Parsed(w, w.buf \o c, lmap.stores))
    OBVIOUS
  <2>1. Len(d.buf) >= 3 /\ Len(d.buf) \in 1..Len(d.buf) /\ d.lastln = 0
    BY <1>3
  <2>2. Last(d.buf) \in P
    BY <1>3, <2>1, LenProperties DEF Last
  <2>3. y \in P /\ y \in Symbols /\ y[1] = "nl"
    BY <2>2 DEF Printable, Symbols
  <2>. HIDE DEF y, P
  <2>4. Append(d.buf, y) \in Seq(P) /\ Append(d.buf, y) \in Seq(Symbols) /\ Len(d.buf) + 1 \in Nat
    BY <1>2, <1>3, <2>3, AppendProperties
  <2>. DEFINE m == Len(d.buf) + 1
              a == Append(d.buf, y)
  <2>5. whole \in Dispatchers /\ whole.buf \in Seq(P)
    <3>1. m \in Nat /\ a \in Seq(P) /\ a \in Seq(Symbols) /\ whole = [d EXCEPT !.i = m, !.buf = a]
      BY <2>4
    <3>. HIDE DEF m, a, whole
    <3>. QED  BY <1>2, <3>1 DEF Dispatchers
  <2>6. IdStream => Parsed(w, whole.buf \o c, lmap.stores)
    BY <1>1, <1>2, <1>4, <2>1, <2>3, FullParsed
  <2>. HIDE DEF whole
  <2>7. Kept(w, P)
    BY <2>5, WritingKept
  <2>8. w.buf = whole.buf
    BY <2>5 DEF Writing, Resume, Dispatchers
  <2>. HIDE DEF w
  <2>. QED  BY <2>6, <2>7, <2>8
<1>8. (A \/ B \/ C) /\ ~(A /\ B) /\ ~(A /\ C) /\ ~(B /\ C)
  BY <1>3
<1>. HIDE DEF A, B, C, u, v, w, d, c, P, IdStream
<1>9. e = u \/ (e = v /\ B) \/ (e = w /\ C)
  BY <1>8
<1>. HIDE DEF e
<1>10. Kept(e, P) /\ (IdStream => Parsed(e, e.buf \o c, lmap.stores))
  BY <1>5, <1>6, <1>7, <1>9
<1>. QED  BY <1>1, <1>2, <1>10, DispatcherLines DEF P, IdStream

LEMMA WriterLines ==
  ASSUME LineInv, LogInv', NEW s \in Streams, WriteEOF(s) \/ WriteTail(s) \/ WriteFile(s)
  PROVE  LineInv'
<1>. DEFINE d == disp[s]
            c == conn[s]
            x == d.buf \o c
            P == Printable(s)
            IdStream == ~NoIds(Printed(s, mode))
<1>1. d.pc \in {"eof", "append", "file"} /\ UNCHANGED <<mode, lmap, conn, call>>
  BY DEF WriteEOF, WriteTail, WriteFile
<1>2. /\ d \in Dispatchers /\ d.ls \in Requests /\ Kept(d, P) /\ c \in Seq(P)
      /\ conn = [conn EXCEPT ![s] = c] /\ x \in Seq(Symbols) /\ Ahead(d.buf, x)
      /\ IdStream => Parsed(d, x, lmap.stores)
  BY <1>1, Working
<1>3. ASSUME NEW e, disp' = [disp EXCEPT ![s] = e], e.buf = d.buf, e.data = d.data,
             IdStream => Parsed(e, x, lmap.stores)
      PROVE  LineInv'
  <2>1. Kept(e, P)
    BY <1>2, <1>3 DEF Kept
  <2>. HIDE DEF c
  <2>. QED  BY <1>1, <1>2, <1>3, <2>1, DispatcherLines
<1>4. \A n : Resume(d, n).buf = d.buf /\ Resume(d, n).data = d.data
  BY <1>2 DEF Resume, Dispatchers
<1>5. CASE WriteEOF(s)
  <2>. DEFINE e == IF d.data = << >> THEN Resume(d, 0) ELSE [d EXCEPT !.pc = "append"]
  <2>1. d.pc = "eof" /\ disp' = [disp EXCEPT ![s] = e]
    BY <1>5 DEF WriteEOF
  <2>2. ~IdStream
    BY <1>2, <2>1 DEF Parsed
  <2>3. e.buf = d.buf /\ e.data = d.data
    BY <1>2, <1>4 DEF Dispatchers
  <2>. HIDE DEF e, IdStream, d
  <2>. QED  BY <1>3, <2>1, <2>2, <2>3
<1>6. CASE WriteTail(s)
  <2>. DEFINE e == [d EXCEPT !.pc = "file"]
  <2>1. d.pc = "append" /\ disp' = [disp EXCEPT ![s] = e]
    BY <1>6 DEF WriteTail
  <2>2. IdStream => Parsed(e, x, lmap.stores)
    BY <1>2, <2>1, TailParsed
  <2>3. e.buf = d.buf /\ e.data = d.data
    BY <1>2 DEF Dispatchers
  <2>. HIDE DEF e, IdStream, d
  <2>. QED  BY <1>3, <2>1, <2>2, <2>3
<1>7. CASE WriteFile(s)
  <2>. DEFINE st == store[d.ls]
              n == IF st.open /\ st.capacity > 0 THEN Written(d.data) ELSE Len(d.data)
              e == Resume(d, n)
  <2>1. d.pc = "file" /\ disp' = [disp EXCEPT ![s] = e]
    BY <1>7 DEF WriteFile
  <2>2. IdStream => Written(d.data) = Len(d.data) /\ Parsed(Resume(d, Len(d.data)), x, lmap.stores)
    BY <1>2, <2>1, FileParsed
  <2>3. IdStream => Parsed(e, x, lmap.stores)
    <3>1. IdStream => n = Len(d.data)
      BY <2>2
    <3>. HIDE DEF n
    <3>. QED  BY <2>2, <3>1
  <2>4. e.buf = d.buf /\ e.data = d.data
    BY <1>4
  <2>. HIDE DEF e, IdStream, d
  <2>. QED  BY <1>3, <2>1, <2>3, <2>4
<1>. QED  BY <1>5, <1>6, <1>7

-----------------------------------------------------------------------------

LEMMA LineInvInit == LogInit => LineInv
<1>. SUFFICES ASSUME LogInit PROVE LineInv
  OBVIOUS
<1>1. LogInv
  BY LogInvInit
<1>2. ASSUME NEW s \in Streams
      PROVE  conn[s] = << >> /\ disp[s] = Reading(<< >>, 0, FALSE) /\ disp[s].buf = << >> /\ disp[s].data = << >>
  BY DEF LogInit, Reading
<1>3. Streamed
  BY <1>2, EmptySeq DEF Streamed
<1>4. lmap.stores = {}
  BY DEF LogInit
<1>5. ASSUME NEW s \in Streams PROVE Parsed(disp[s], disp[s].buf \o conn[s], lmap.stores)
  <2>1. << >> \in Seq(Symbols) /\ << >> \o << >> = << >> /\ Len(<< >>) = 0
    <3>1. << >> \in Seq(Symbols)
      BY EmptySeq
    <3>. QED  BY <3>1, ConcatEmptySeq, EmptySeq
  <2>2. Formed(<< >>, 0)
    BY <2>1 DEF Formed
  <2>3. Parsed(Reading(<< >>, 0, FALSE), << >>, lmap.stores)
    <3>1. PICK z : z = << >>
      OBVIOUS
    <3>2. z \in Seq(Symbols) /\ Formed(z, 0) /\ 0 \in Nat /\ FALSE \in BOOLEAN
      BY <2>1, <2>2, <3>1
    <3>3. ~FALSE => (0 < Len(z) => z[1][1] # "id")
      BY <2>1, <3>1
    <3>4. Parsed(Reading(z, 0, FALSE), z, lmap.stores)
      BY <3>2, <3>3, ReadingParsed
    <3>. QED  BY <3>1, <3>4
  <2>. QED  BY <1>2, <2>1, <2>3
<1>. QED  BY <1>1, <1>3, <1>4, <1>5 DEF LineInv

LEMMA LineInvNext ==
  ASSUME LineForm
  PROVE  LineInv /\ [LogNext]_lvars => LineInv'
<1>. SUFFICES ASSUME LineInv, [LogNext]_lvars PROVE LineInv'
  OBVIOUS
<1>1. LogInv'
  BY LogInvNext DEF LineInv
<1>2. /\ call \in [Requests -> Calls] /\ lmap.stores \subseteq Requests
      /\ \A r \in lmap.stores : call[r].pc # "new"
  BY DEF LineInv, LogInv, LogTypeOK, Calls
<1>3. ASSUME NEW q \in Requests, CallStep(q) \/ LogTimer(q) PROVE LineInv'
  <2>1. UNCHANGED <<mode, conn, disp>>
    BY <1>3 DEF CallStep, LogTimer, startRecvLog, InvokeStart, Awake, InvokeReportDone,
                WaitReturns, WriteReport, Close, StopRecvLog
  <2>2. call' = call \/ \E pc \in {"start", "run", "report", "wait", "write", "close", "stop", "done"} :
          call' = [call EXCEPT ![q].pc = pc]
    BY <1>3 DEF CallStep, LogTimer, startRecvLog, InvokeStart, Awake, InvokeReportDone,
                WaitReturns, WriteReport, Close, StopRecvLog
  <2>3. /\ \A r \in Requests : call[r].pc # "new" => call'[r].pc # "new"
        /\ call' = call \/ call'[q].pc # "new"
    BY <1>2, <2>2 DEF Calls
  <2>4. \/ lmap'.stores \subseteq lmap.stores
        \/ call[q].pc = "new" /\ call'[q].pc = "start" /\ lmap'.stores = lmap.stores \cup {q}
    <3>1. CASE startRecvLog(q)
      BY <1>2, <3>1 DEF startRecvLog, StartRecvLog, Calls
    <3>2. CASE StopRecvLog(q)
      BY <3>2 DEF StopRecvLog, Forget
    <3>3. CASE ~startRecvLog(q) /\ ~StopRecvLog(q)
      BY <1>3, <3>3 DEF CallStep, LogTimer, InvokeStart, Awake, InvokeReportDone,
                        WaitReturns, WriteReport, Close
    <3>. QED  BY <3>1, <3>2, <3>3
  <2>5. \A r \in lmap'.stores : (r \in lmap.stores \/ call[r].pc = "new") /\ call'[r].pc # "new"
    BY <1>2, <2>3, <2>4
  <2>. QED  BY <1>1, <2>1, <2>3, <2>5, CallLines
<1>4. ASSUME NEW q \in Requests, Execute(q) PROVE LineInv'
  BY <1>1, <1>4, ExecuteLines
<1>5. ASSUME NEW s \in Streams, DispatcherStep(s) PROVE LineInv'
  <2>1. ASSUME NEW n \in 1..BufferLength, ReadConn(s, n) PROVE LineInv'
    BY <1>1, <2>1, ReadConnLines
  <2>2. ASSUME NEW k \in 1..Len(disp[s].buf), ScanTo(s, k) PROVE LineInv'
    BY <1>1, <2>2, ScanToLines
  <2>3. CASE ScanEnds(s)
    BY <1>1, <2>3, ScanEndsLines
  <2>4. CASE WriteEOF(s) \/ WriteTail(s) \/ WriteFile(s)
    BY <1>1, <2>4, WriterLines
  <2>. QED  BY <1>5, <2>1, <2>2, <2>3, <2>4 DEF DispatcherStep
<1>6. CASE UNCHANGED lvars
  <2>1. UNCHANGED <<mode, lmap, conn, disp, call>>
    BY <1>6 DEF lvars
  <2>. QED  BY <1>1, <1>2, <2>1, CallLines
<1>. QED  BY <1>3, <1>4, <1>5, <1>6 DEF LogNext

LEMMA LineInvFinds == LineInv => LinesFindOwner
<1>. SUFFICES ASSUME LineInv, NEW s \in Streams, NEW q \in lmap.stores, disp[s].pc = "append",
                     ~disp[s].stale, Contains(disp[s].data, <<"id", q>>)
              PROVE  disp[s].ls = q
  BY DEF LinesFindOwner
<1>. DEFINE d == disp[s]
            x == d.buf \o conn[s]
            l == d.lastln
<1>. SUFFICES d.ls = q
  OBVIOUS
<1>1. /\ d \in Dispatchers /\ d.buf \in Seq(Symbols) /\ Kept(d, Printable(s)) /\ x \in Seq(Symbols)
      /\ Ahead(d.buf, x) /\ (~NoIds(Printed(s, mode)) => Parsed(d, x, lmap.stores))
  BY Working
<1>2. q \in Requests
  BY DEF LineInv, LogInv, LogTypeOK
<1>3. d.data \in Seq(Printable(s)) /\ Len(d.data) \in Nat /\ d.data \in Seq(Symbols)
  BY <1>1, LenProperties DEF Kept, Dispatchers
<1>4. PICK h \in 1..Len(d.data) : d.data[h] = <<"id", q>>
  BY <1>3 DEF Contains
<1>5. Parsed(d, x, lmap.stores)
  <2>1. d.data[h] \in Printable(s)
    BY <1>3, <1>4, LenProperties
  <2>2. <<"id", q>>[1] = "id"
    OBVIOUS
  <2>. QED  BY <1>1, <1>4, <2>1, <2>2 DEF Printable
<1>6. /\ l \in Nat /\ d.i \in Nat /\ Len(d.buf) \in Nat /\ Len(x) \in Nat /\ l < d.i /\ d.i <= Len(d.buf)
      /\ d.buf[d.i][1] = "nl" /\ d.data = SubSeq(d.buf, l + 1, d.i)
      /\ \A j \in (l + 1)..(d.i - 1) : d.buf[j][1] # "nl"
  BY <1>1, <1>5, LenProperties DEF Parsed, Dispatchers
<1>7. Len(d.data) = d.i - l /\ \A i \in 1..(d.i - l) : d.data[i] = d.buf[l + i]
  <2>. DEFINE b == d.buf
              k == d.i
              a == SubSeq(b, l + 1, k)
  <2>1. b \in Seq(Symbols) /\ l \in Nat /\ k \in Nat /\ l < k /\ k <= Len(b) /\ d.data = a
    BY <1>1, <1>6
  <2>. HIDE DEF b, k, l
  <2>2. Len(a) = k - l /\ \A i \in 1..(k - l) : a[i] = b[l + i]
    BY <2>1, LineFacts
  <2>. HIDE DEF a
  <2>. QED  BY <2>1, <2>2 DEF b, k
<1>. DEFINE j == l + h
<1>. HIDE DEF d, x, l
<1>8. /\ j \in Nat /\ l + 1 <= j /\ j <= d.i /\ j \in 1..Len(d.buf) /\ j \in (l + 1)..Len(x)
      /\ d.buf[j] = <<"id", q>>
  <2>1. h \in 1..(d.i - l) /\ h \in Nat
    BY <1>6, <1>7
  <2>2. d.buf[l + h] = <<"id", q>>
    BY <1>4, <1>7, <2>1
  <2>3. Len(d.buf) <= Len(x)
    BY <1>1 DEF Ahead
  <2>4. j \in Nat /\ l + 1 <= j /\ j <= d.i
    BY <1>6, <2>1
  <2>. HIDE DEF j
  <2>5. j \in 1..Len(d.buf) /\ j \in (l + 1)..Len(x)
    <3>1. l \in Nat /\ d.i \in Nat /\ Len(d.buf) \in Nat /\ Len(x) \in Nat /\ d.i <= Len(d.buf)
      BY <1>6
    <3>. QED  BY <2>3, <2>4, <3>1
  <2>. QED  BY <2>2, <2>4, <2>5 DEF j
<1>. HIDE DEF j
<1>9. x[j] = <<"id", q>>
  BY <1>1, <1>8 DEF Ahead
<1>10. /\ j - 1 > l => x[j - 1][1] = "tab"
       /\ j - 2 > l => x[j - 2][1] = "nl"
  <2>1. Formed(x, l)
    BY <1>5 DEF Parsed, l
  <2>. QED  BY <1>8, <1>9, <2>1 DEF Formed
<1>11. j # l + 1
  <2>1. x[l + 1][1] # "id"
    <3>1. l < Len(x)
      BY <1>6, <1>8
    <3>. QED  BY <1>5, <3>1 DEF Parsed, Attributed, l, d
  <2>. QED  BY <1>9, <2>1
<1>12. ~(j - 2 > l)
  <2>. SUFFICES ASSUME j - 2 > l PROVE FALSE
    OBVIOUS
  <2>1. j - 2 \in (l + 1)..(d.i - 1) /\ j - 2 \in 1..Len(d.buf)
    <3>1. j \in Nat /\ l \in Nat /\ d.i \in Nat /\ Len(d.buf) \in Nat /\ j <= d.i /\ d.i <= Len(d.buf)
      BY <1>6, <1>8
    <3>. QED  BY <3>1
  <2>2. x[j - 2] = d.buf[j - 2]
    BY <1>1, <2>1 DEF Ahead
  <2>. QED  BY <1>6, <1>10, <2>1, <2>2
<1>13. j = l + 2
  BY <1>6, <1>8, <1>11, <1>12
<1>14. Headed(d, q)
  <2>1. j - 1 > l /\ j - 1 = l + 1 /\ l + 1 \in 1..Len(d.buf) /\ l + 2 <= Len(d.buf)
    BY <1>6, <1>8, <1>13
  <2>2. d.buf[l + 1][1] = "tab"
    BY <1>1, <1>10, <2>1 DEF Ahead
  <2>. QED  BY <1>8, <1>13, <2>1, <2>2 DEF Headed, l
<1>15. d.i > l + 2
  <2>1. d.buf[d.i][1] = "nl" /\ l \in Nat /\ d.i \in Nat /\ j \in Nat /\ j <= d.i
    BY <1>6, <1>8
  <2>2. d.buf[j][1] = "id"
    BY <1>8
  <2>3. d.i # j
    BY <2>1, <2>2
  <2>. QED  BY <1>13, <2>1, <2>3
<1>. QED  BY <1>2, <1>5, <1>14, <1>15 DEF Parsed, Attributed, l, d

\* In a runtime whose lines name their requests a line is written to the log of the request it
\* names while that request is open, whatever the other requests and the other stream do and
\* wherever Read cuts the stream, unless a read after a tab or a discarded one tore the line.
THEOREM LinesAlways ==
  ASSUME LineForm
  PROVE  LogInit /\ [][LogNext]_lvars => []LinesFindOwner
<1>. QED  BY LineInvInit, LineInvNext, LineInvFinds, PTL

-----------------------------------------------------------------------------
(* What is printed and what is logged *)

Pieces(x) == [i \in DOMAIN x |-> IF x[i][1] \in {"nl", "zero"} THEN << >> ELSE <<x[i]>>]

LEMMA PiecesFacts ==
  ASSUME NEW x \in Seq(Symbols)
  PROVE  /\ Pieces(x) \in Seq(Seq(Symbols)) /\ Len(Pieces(x)) = Len(x) /\ Len(x) \in Nat
         /\ \A i \in 1..Len(x) :
              Pieces(x)[i] = IF x[i][1] \in {"nl", "zero"} THEN << >> ELSE <<x[i]>>
<1>1. Len(x) \in Nat /\ DOMAIN x = 1..Len(x) /\ \A i \in 1..Len(x) : x[i] \in Symbols
  BY LenProperties
<1>2. \A i \in 1..Len(x) :
        (IF x[i][1] \in {"nl", "zero"} THEN << >> ELSE <<x[i]>>) \in Seq(Symbols)
  <2>1. \A y \in Symbols : <<y>> \in Seq(Symbols)
    OBVIOUS
  <2>2. << >> \in Seq(Symbols)
    BY EmptySeq
  <2>. QED  BY <1>1, <2>1, <2>2
<1>. DEFINE p == [i \in 1..Len(x) |-> IF x[i][1] \in {"nl", "zero"} THEN << >> ELSE <<x[i]>>]
<1>3. p \in Seq(Seq(Symbols))
  BY <1>1, <1>2, IsASeq
<1>4. Len(p) = Len(x)
  BY <1>1, <1>3, LenProperties
<1>5. Pieces(x) = p
  BY <1>1 DEF Pieces
<1>. QED  BY <1>1, <1>3, <1>4, <1>5

LEMMA TextConcat ==
  ASSUME NEW x \in Seq(Symbols), NEW y \in Seq(Symbols)
  PROVE  /\ Text(x) \in Seq(Symbols) /\ Text(y) \in Seq(Symbols)
         /\ Text(x \o y) = Text(x) \o Text(y)
<1>1. /\ x \o y \in Seq(Symbols) /\ Len(x \o y) = Len(x) + Len(y)
      /\ \A i \in 1..(Len(x) + Len(y)) : (x \o y)[i] = IF i <= Len(x) THEN x[i] ELSE y[i - Len(x)]
  BY ConcatProperties
<1>. DEFINE z == x \o y
            px == Pieces(x)
            py == Pieces(y)
            pz == Pieces(z)
<1>2. /\ px \in Seq(Seq(Symbols)) /\ Len(px) = Len(x) /\ Len(x) \in Nat
      /\ \A i \in 1..Len(x) : px[i] = IF x[i][1] \in {"nl", "zero"} THEN << >> ELSE <<x[i]>>
  BY PiecesFacts
<1>3. /\ py \in Seq(Seq(Symbols)) /\ Len(py) = Len(y) /\ Len(y) \in Nat
      /\ \A i \in 1..Len(y) : py[i] = IF y[i][1] \in {"nl", "zero"} THEN << >> ELSE <<y[i]>>
  BY PiecesFacts
<1>4. /\ pz \in Seq(Seq(Symbols)) /\ Len(pz) = Len(z)
      /\ \A i \in 1..Len(z) : pz[i] = IF z[i][1] \in {"nl", "zero"} THEN << >> ELSE <<z[i]>>
  BY <1>1, PiecesFacts
<1>5. /\ px \o py \in Seq(Seq(Symbols)) /\ Len(px \o py) = Len(x) + Len(y)
      /\ \A i \in 1..(Len(x) + Len(y)) :
           (px \o py)[i] = IF i <= Len(x) THEN px[i] ELSE py[i - Len(x)]
  <2>. HIDE DEF px, py
  <2>. DEFINE SS == Seq(Symbols)
  <2>1. px \in Seq(SS) /\ py \in Seq(SS)
    BY <1>2, <1>3
  <2>. HIDE DEF SS
  <2>2. /\ px \o py \in Seq(SS) /\ Len(px \o py) = Len(px) + Len(py)
        /\ \A i \in 1..(Len(px) + Len(py)) :
             (px \o py)[i] = IF i <= Len(px) THEN px[i] ELSE py[i - Len(px)]
    BY <2>1, ConcatProperties
  <2>. QED  BY <1>2, <1>3, <2>2 DEF SS
<1>6. /\ Len(z) = Len(x) + Len(y)
      /\ \A i \in 1..(Len(x) + Len(y)) : z[i] = IF i <= Len(x) THEN x[i] ELSE y[i - Len(x)]
  BY <1>1
<1>. HIDE DEF px, py, pz, z
<1>7. ASSUME NEW i \in 1..Len(pz) PROVE pz[i] = (px \o py)[i]
  <2>1. i \in 1..Len(z) /\ i \in 1..(Len(x) + Len(y))
    BY <1>4, <1>6
  <2>2. CASE i <= Len(x)
    <3>1. i \in 1..Len(x)
      BY <1>2, <2>1, <2>2
    <3>. QED  BY <1>2, <1>4, <1>5, <1>6, <2>1, <2>2, <3>1
  <2>3. CASE ~(i <= Len(x))
    <3>1. i - Len(x) \in 1..Len(y)
      BY <1>2, <1>3, <2>1, <2>3
    <3>. QED  BY <1>3, <1>4, <1>5, <1>6, <2>1, <2>3, <3>1
  <2>. QED  BY <2>2, <2>3
<1>8. pz = px \o py
  <2>. DEFINE pp == px \o py
  <2>1. pp \in Seq(Seq(Symbols)) /\ Len(pp) = Len(pz) /\ \A i \in 1..Len(pz) : pz[i] = pp[i]
    BY <1>4, <1>5, <1>6, <1>7
  <2>. HIDE DEF pp
  <2>2. pz = pp
    BY <1>4, <2>1, SeqEqual
  <2>. QED  BY <2>2 DEF pp
<1>9. Text(x) = FlattenSeq(px) /\ Text(y) = FlattenSeq(py) /\ Text(x \o y) = FlattenSeq(pz)
  BY DEF Text, px, py, pz, Pieces, z
<1>. QED  BY <1>2, <1>3, <1>8, <1>9, FlattenConcat

\* Ends of lines and markers are no text; everything else is.
LEMMA TextFacts ==
  ASSUME NEW x \in Seq(Symbols)
  PROVE  /\ (\A i \in 1..Len(x) : x[i][1] \in {"nl", "zero"}) => Text(x) = << >>
         /\ (\A i \in 1..Len(x) : x[i][1] \notin {"nl", "zero"}) => Text(x) = x
<1>. DEFINE p == Pieces(x)
<1>1. /\ p \in Seq(Seq(Symbols)) /\ Len(p) = Len(x) /\ Len(x) \in Nat
      /\ \A i \in 1..Len(x) : p[i] = IF x[i][1] \in {"nl", "zero"} THEN << >> ELSE <<x[i]>>
  BY PiecesFacts
<1>2. Text(x) = FlattenSeq(p)
  BY DEF Text, Pieces
<1>. HIDE DEF p
<1>3. ASSUME \A i \in 1..Len(x) : x[i][1] \in {"nl", "zero"} PROVE Text(x) = << >>
  <2>1. \A i \in 1..Len(p) : p[i] = << >>
    BY <1>1, <1>3
  <2>. QED  BY <1>1, <1>2, <2>1, FlattenNothing
<1>4. ASSUME \A i \in 1..Len(x) : x[i][1] \notin {"nl", "zero"} PROVE Text(x) = x
  <2>1. \A i \in 1..Len(x) : p[i] = <<x[i]>>
    BY <1>1, <1>4
  <2>2. p = [i \in 1..Len(p) |-> p[i]]
    BY <1>1, LenProperties
  <2>3. p = [i \in 1..Len(x) |-> <<x[i]>>]
    BY <1>1, <2>1, <2>2
  <2>. QED  BY <1>2, <2>3, FlattenSingles
<1>. QED  BY <1>3, <1>4

\* What a log file has of a stream.
Messages(f, s) == [i \in DOMAIN f |-> IF f[i].src = s THEN f[i].msg ELSE << >>]
LoggedIn(f, s) == FlattenSeq(Messages(f, s))

LEMMA MessagesFacts ==
  ASSUME NEW f \in Seq(LogLines), NEW s
  PROVE  /\ Messages(f, s) \in Seq(Seq(Symbols)) /\ Len(Messages(f, s)) = Len(f) /\ Len(f) \in Nat
         /\ \A i \in 1..Len(f) : Messages(f, s)[i] = IF f[i].src = s THEN f[i].msg ELSE << >>
<1>1. Len(f) \in Nat /\ DOMAIN f = 1..Len(f) /\ \A i \in 1..Len(f) : f[i] \in LogLines
  BY LenProperties
<1>2. \A i \in 1..Len(f) : (IF f[i].src = s THEN f[i].msg ELSE << >>) \in Seq(Symbols)
  <2>1. \A y \in LogLines : y.msg \in Seq(Symbols)
    BY DEF LogLines
  <2>2. << >> \in Seq(Symbols)
    BY EmptySeq
  <2>. QED  BY <1>1, <2>1, <2>2
<1>. DEFINE p == [i \in 1..Len(f) |-> IF f[i].src = s THEN f[i].msg ELSE << >>]
<1>3. p \in Seq(Seq(Symbols))
  BY <1>1, <1>2, IsASeq
<1>4. Len(p) = Len(f)
  BY <1>1, <1>3, LenProperties
<1>5. Messages(f, s) = p
  BY <1>1 DEF Messages
<1>. QED  BY <1>1, <1>3, <1>4, <1>5

LEMMA LoggedConcat ==
  ASSUME NEW x \in Seq(LogLines), NEW y \in Seq(LogLines), NEW s
  PROVE  /\ LoggedIn(x, s) \in Seq(Symbols) /\ LoggedIn(y, s) \in Seq(Symbols)
         /\ LoggedIn(x \o y, s) = LoggedIn(x, s) \o LoggedIn(y, s)
<1>1. /\ x \o y \in Seq(LogLines) /\ Len(x \o y) = Len(x) + Len(y)
      /\ \A i \in 1..(Len(x) + Len(y)) : (x \o y)[i] = IF i <= Len(x) THEN x[i] ELSE y[i - Len(x)]
  BY ConcatProperties
<1>. DEFINE z == x \o y
            px == Messages(x, s)
            py == Messages(y, s)
            pz == Messages(z, s)
<1>2. /\ px \in Seq(Seq(Symbols)) /\ Len(px) = Len(x) /\ Len(x) \in Nat
      /\ \A i \in 1..Len(x) : px[i] = IF x[i].src = s THEN x[i].msg ELSE << >>
  BY MessagesFacts
<1>3. /\ py \in Seq(Seq(Symbols)) /\ Len(py) = Len(y) /\ Len(y) \in Nat
      /\ \A i \in 1..Len(y) : py[i] = IF y[i].src = s THEN y[i].msg ELSE << >>
  BY MessagesFacts
<1>4. /\ pz \in Seq(Seq(Symbols)) /\ Len(pz) = Len(z)
      /\ \A i \in 1..Len(z) : pz[i] = IF z[i].src = s THEN z[i].msg ELSE << >>
  <2>1. z \in Seq(LogLines)
    BY <1>1
  <2>. HIDE DEF z
  <2>. QED  BY <2>1, MessagesFacts
<1>5. /\ px \o py \in Seq(Seq(Symbols)) /\ Len(px \o py) = Len(x) + Len(y)
      /\ \A i \in 1..(Len(x) + Len(y)) :
           (px \o py)[i] = IF i <= Len(x) THEN px[i] ELSE py[i - Len(x)]
  <2>. HIDE DEF px, py
  <2>. DEFINE SS == Seq(Symbols)
  <2>1. px \in Seq(SS) /\ py \in Seq(SS)
    BY <1>2, <1>3
  <2>. HIDE DEF SS
  <2>2. /\ px \o py \in Seq(SS) /\ Len(px \o py) = Len(px) + Len(py)
        /\ \A i \in 1..(Len(px) + Len(py)) :
             (px \o py)[i] = IF i <= Len(px) THEN px[i] ELSE py[i - Len(px)]
    BY <2>1, ConcatProperties
  <2>. QED  BY <1>2, <1>3, <2>2 DEF SS
<1>6. /\ Len(z) = Len(x) + Len(y)
      /\ \A i \in 1..(Len(x) + Len(y)) : z[i] = IF i <= Len(x) THEN x[i] ELSE y[i - Len(x)]
  BY <1>1
<1>. HIDE DEF px, py, pz, z
<1>7. ASSUME NEW i \in 1..Len(pz) PROVE pz[i] = (px \o py)[i]
  <2>1. i \in 1..Len(z) /\ i \in 1..(Len(x) + Len(y))
    BY <1>4, <1>6
  <2>2. CASE i <= Len(x)
    <3>1. i \in 1..Len(x)
      BY <1>2, <2>1, <2>2
    <3>. QED  BY <1>2, <1>4, <1>5, <1>6, <2>1, <2>2, <3>1
  <2>3. CASE ~(i <= Len(x))
    <3>1. i - Len(x) \in 1..Len(y)
      BY <1>2, <1>3, <2>1, <2>3
    <3>. QED  BY <1>3, <1>4, <1>5, <1>6, <2>1, <2>3, <3>1
  <2>. QED  BY <2>2, <2>3
<1>8. pz = px \o py
  <2>. DEFINE pp == px \o py
  <2>1. pp \in Seq(Seq(Symbols)) /\ Len(pp) = Len(pz) /\ \A i \in 1..Len(pz) : pz[i] = pp[i]
    BY <1>4, <1>5, <1>6, <1>7
  <2>. HIDE DEF pp
  <2>2. pz = pp
    BY <1>4, <2>1, SeqEqual
  <2>. QED  BY <2>2 DEF pp
<1>9. /\ LoggedIn(x, s) = FlattenSeq(px) /\ LoggedIn(y, s) = FlattenSeq(py)
      /\ LoggedIn(x \o y, s) = FlattenSeq(pz)
  BY DEF LoggedIn, px, py, pz, z
<1>. QED  BY <1>2, <1>3, <1>8, <1>9, FlattenConcat

\* The lines of another source say nothing of a stream.
LEMMA OtherRecords ==
  ASSUME NEW q \in Requests, NEW src \in Streams \cup {"faas"}, NEW data \in Seq(Symbols), NEW s,
         s # src, NEW f \in Seq(LogLines)
  PROVE  LoggedIn(f \o Records(q, src, data), s) = LoggedIn(f, s)
<1>. DEFINE rs == Records(q, src, data)
<1>1. rs \in Seq(LogLines)
  BY RecordsType
<1>2. \A i \in DOMAIN rs : rs[i].src = src
  BY DEF Records, Record
<1>. HIDE DEF rs
<1>3. /\ Messages(rs, s) \in Seq(Seq(Symbols)) /\ Len(Messages(rs, s)) = Len(rs)
      /\ \A i \in 1..Len(rs) : Messages(rs, s)[i] = IF rs[i].src = s THEN rs[i].msg ELSE << >>
  BY <1>1, MessagesFacts
<1>4. DOMAIN rs = 1..Len(rs)
  BY <1>1, LenProperties
<1>5. \A i \in 1..Len(rs) : Messages(rs, s)[i] = << >>
  BY <1>2, <1>3, <1>4
<1>6. LoggedIn(rs, s) = << >>
  BY <1>3, <1>5, FlattenNothing DEF LoggedIn
<1>7. LoggedIn(f, s) \in Seq(Symbols) /\ LoggedIn(f \o rs, s) = LoggedIn(f, s) \o LoggedIn(rs, s)
  BY <1>1, LoggedConcat
<1>8. LoggedIn(f, s) \o << >> = LoggedIn(f, s)
  BY <1>7, ConcatEmptySeq
<1>. QED  BY <1>6, <1>7, <1>8 DEF rs

\* A line, its newline included.
Line(x) == /\ x # << >> /\ x[Len(x)][1] = "nl"
           /\ \A i \in 1..(Len(x) - 1) : x[i][1] \notin {"nl", "zero"}

\* A line becomes one record, or none when it is empty: its text is what is logged.
LEMMA LineRecords ==
  ASSUME NEW q \in Requests, NEW s \in Streams, NEW data \in Seq(Symbols), Line(data),
         NEW f \in Seq(LogLines)
  PROVE  LoggedIn(f \o Records(q, s, data), s) = LoggedIn(f, s) \o Text(data)
<1>. DEFINE rs == Records(q, s, data)
            n == Len(data)
            b == SubSeq(data, 1, n - 1)
            IsEnd(i) == i = n + 1 \/ data[i][1] = "nl"
            starts == {i \in DOMAIN data : ~IsEnd(i) /\ (i = 1 \/ IsEnd(i - 1))}
            StartOf(k) == CHOOSE i \in starts : Cardinality({j \in starts : j <= i}) = k
            EndOf(i) == Min({j \in i..(n + 1) : IsEnd(j)})
<1>1. n \in Nat \ {0} /\ DOMAIN data = 1..n
  BY LenProperties, EmptySeq DEF Line
<1>2. /\ b \in Seq(Symbols) /\ Len(b) = n - 1 /\ \A i \in 1..(n - 1) : b[i] = data[i]
  <2>1. 1 \in Nat \ {0} /\ n - 1 \in Int /\ n - 1 <= Len(data)
    BY <1>1
  <2>2. b \in Seq(Symbols) /\ Len(b) = IF 1 <= n - 1 THEN (n - 1) - 1 + 1 ELSE 0
    <3>. DEFINE m == n - 1
    <3>. HIDE DEF m
    <3>1. SubSeq(data, 1, m) \in Seq(Symbols) /\ Len(SubSeq(data, 1, m)) = IF 1 <= m THEN m - 1 + 1 ELSE 0
      BY <2>1, PieceFacts DEF m
    <3>. QED  BY <3>1 DEF m
  <2>3. \A i \in 1..(n - 1) : b[i] = data[i]
    BY <1>1
  <2>. QED  BY <1>1, <2>2, <2>3
<1>3. Text(data) = b
  <2>. DEFINE e == <<data[n]>>
  <2>1. data[n] \in Symbols /\ data[n][1] = "nl"
    BY <1>1, LenProperties DEF Line
  <2>2. e \in Seq(Symbols) /\ Len(e) = 1 /\ e[1] = data[n]
    BY <2>1
  <2>. HIDE DEF e, b
  <2>3. b \o e = data
    <3>1. /\ b \o e \in Seq(Symbols) /\ Len(b \o e) = n
          /\ \A i \in 1..n : (b \o e)[i] = IF i <= n - 1 THEN b[i] ELSE e[i - (n - 1)]
      <4>1. Len(b) + Len(e) = n
        BY <1>1, <1>2, <2>2
      <4>2. Len(b) = n - 1 /\ b \in Seq(Symbols)
        BY <1>2
      <4>3. /\ b \o e \in Seq(Symbols) /\ Len(b \o e) = Len(b) + Len(e)
            /\ \A i \in 1..(Len(b) + Len(e)) : (b \o e)[i] = IF i <= Len(b) THEN b[i] ELSE e[i - Len(b)]
        BY <2>2, <4>2, JoinFacts, Zenon
      <4>. HIDE DEF n
      <4>. QED  BY <4>1, <4>2, <4>3
    <3>2. ASSUME NEW i \in 1..n PROVE (b \o e)[i] = data[i]
      <4>1. CASE i <= n - 1
        BY <1>2, <3>1, <4>1
      <4>2. CASE ~(i <= n - 1)
        <5>. HIDE DEF n
        <5>1. i = n /\ i - (n - 1) = 1
          BY <1>1, <4>2
        <5>. QED  BY <2>2, <3>1, <4>2, <5>1
      <4>. QED  BY <4>1, <4>2
    <3>. DEFINE w == b \o e
    <3>3. w \in Seq(Symbols) /\ Len(w) = Len(data) /\ \A i \in 1..Len(w) : w[i] = data[i]
      BY <3>1, <3>2
    <3>. HIDE DEF w
    <3>4. w = data
      BY <3>3, SeqEqual
    <3>. QED  BY <3>4 DEF w
  <2>4. Text(b) = b
    BY <1>2, TextFacts DEF Line
  <2>5. Text(e) = << >>
    BY <2>1, <2>2, TextFacts
  <2>6. Text(b \o e) = Text(b) \o Text(e)
    BY <1>2, <2>2, TextConcat
  <2>7. b \o << >> = b
    BY <1>2, ConcatEmptySeq
  <2>. QED  BY <2>3, <2>4, <2>5, <2>6, <2>7
<1>4. starts = IF n = 1 THEN {} ELSE {1}
  <2>1. ASSUME NEW i \in starts PROVE i = 1 /\ n # 1
    <3>1. i \in 1..n /\ ~IsEnd(i) /\ (i = 1 \/ IsEnd(i - 1))
      BY <1>1
    <3>2. i # n
      BY <3>1 DEF Line
    <3>3. CASE i # 1
      <4>1. i - 1 \in 1..(n - 1) /\ i - 1 # n + 1
        BY <1>1, <3>1, <3>2, <3>3
      <4>. QED  BY <3>1, <3>3, <4>1 DEF Line
    <3>. QED  BY <3>2, <3>1, <3>3
  <2>2. ASSUME n # 1 PROVE 1 \in starts
    <3>1. 1 \in 1..(n - 1) /\ 1 \in 1..n /\ 1 # n + 1
      BY <1>1, <2>2
    <3>. QED  BY <1>1, <3>1 DEF Line
  <2>. HIDE DEF starts
  <2>. QED  BY <2>1, <2>2
<1>5. rs = [k \in 1..Cardinality(starts) |->
              Record(q, s, SubSeq(data, StartOf(k), EndOf(StartOf(k)) - 1))]
  BY DEF Records
<1>6. rs \in Seq(LogLines)
  BY RecordsType
<1>7. CASE n = 1
  <2>1. b = << >>
    BY <1>2, <1>7, EmptySeq
  <2>2. Cardinality(starts) = 0
    <3>. HIDE DEF starts
    <3>. QED  BY <1>4, <1>7, FS_EmptySet
  <2>3. rs = << >>
    <3>1. DOMAIN rs = 1..0
      BY <1>5, <2>2
    <3>2. Len(rs) = 0
      BY <1>6, <3>1, LenProperties
    <3>. HIDE DEF rs
    <3>. QED  BY <1>6, <3>2, EmptySeq
  <2>. HIDE DEF rs
  <2>4. f \o << >> = f
    BY ConcatEmptySeq
  <2>5. LoggedIn(f, s) \in Seq(Symbols)
    BY LoggedConcat
  <2>6. LoggedIn(f, s) \o << >> = LoggedIn(f, s)
    BY <2>5, ConcatEmptySeq
  <2>. QED  BY <1>3, <2>1, <2>3, <2>4, <2>6 DEF rs
<1>8. CASE n # 1
  <2>1. starts = {1} /\ Cardinality(starts) = 1
    <3>. HIDE DEF starts
    <3>. QED  BY <1>4, <1>8, FS_Singleton
  <2>2. StartOf(1) = 1
    <3>1. {j \in starts : j <= 1} = {1}
      <4>. HIDE DEF starts
      <4>. QED  BY <2>1
    <3>2. Cardinality({j \in starts : j <= 1}) = 1
      <4>. HIDE DEF starts
      <4>. QED  BY <3>1, FS_Singleton
    <3>. HIDE DEF starts
    <3>. QED  BY <2>1, <3>2
  <2>3. EndOf(1) = n
    <3>. DEFINE ends == {j \in 1..(n + 1) : IsEnd(j)}
    <3>1. n \in ends
      <4>1. data[n][1] = "nl" /\ n \in 1..(n + 1)
        BY <1>1 DEF Line
      <4>. QED  BY <4>1
    <3>2. \A j \in ends : n <= j /\ j \in Nat
      BY <1>1 DEF Line
    <3>. HIDE DEF ends
    <3>3. Min(ends) = n
      <4>1. \A x \in ends : (\A y \in ends : x <= y) => x = n
        BY <1>1, <3>1, <3>2
      <4>. QED  BY <3>1, <3>2, <4>1 DEF Min
    <3>. QED  BY <3>3 DEF ends
  <2>4. rs = << Record(q, s, b) >>
    <3>1. rs[1] = Record(q, s, b) /\ DOMAIN rs = 1..1
      <4>. HIDE DEF starts, StartOf, EndOf
      <4>. QED  BY <1>5, <2>1, <2>2, <2>3
    <3>2. Len(rs) = 1
      BY <1>6, <3>1, LenProperties
    <3>. HIDE DEF rs, b
    <3>. QED  BY <1>6, <3>1, <3>2
  <2>. HIDE DEF rs
  <2>5. Messages(rs, s) = <<b>>
    <3>1. /\ Messages(rs, s) \in Seq(Seq(Symbols)) /\ Len(Messages(rs, s)) = Len(rs)
          /\ \A i \in 1..Len(rs) : Messages(rs, s)[i] = IF rs[i].src = s THEN rs[i].msg ELSE << >>
      BY <1>6, MessagesFacts
    <3>2. Len(rs) = 1 /\ rs[1].src = s /\ rs[1].msg = b
      BY <2>4 DEF Record
    <3>3. Messages(rs, s)[1] = b
      BY <3>1, <3>2
    <3>. HIDE DEF b
    <3>. QED  BY <3>1, <3>2, <3>3
  <2>6. FlattenSeq(<<b>>) = b
    <3>. HIDE DEF b
    <3>. QED  BY <1>2 DEF FlattenSeq
  <2>7. LoggedIn(f \o rs, s) = LoggedIn(f, s) \o LoggedIn(rs, s)
    BY <1>6, LoggedConcat
  <2>. QED  BY <1>3, <2>5, <2>6, <2>7 DEF LoggedIn, rs
<1>. QED  BY <1>7, <1>8
-----------------------------------------------------------------------------
(* The log of a request that is served alone *)

Idle == {"new", "done"}

\* A common runtime serves one request at a time, whose store is the only one in the map.
Serial ==
  mode = "common" =>
    \A q \in Requests :
      /\ call[q].pc \notin Idle => /\ lmap = [last |-> q, stores |-> {q}]
                                   /\ \A r \in Requests \ {q} : call[r].pc \in Idle
      /\ q \in lmap.stores => call[q].pc \notin Idle

\* The log file of a request with the call c and the store st, for the log type lt.
Filed(lt, c, st) ==
  /\ c.pc \in {"new", "start"} => ~c.ran
  /\ c.pc = "new" => st = NoStore
  /\ lt # "file" => st.file = << >> /\ ~st.open
  /\ lt = "file" /\ c.pc \notin Idle => st.open
  /\ st.closed <=> c.pc \in {"stop", "done"}

\* A dispatcher that reads is at the beginning of its buffer.
Rested(d) == d.pc = "read" => d.i = 0 /\ d.lastln = 0 /\ d.zeros = 0

CallInv ==
  /\ Serial
  /\ \A q \in Requests : Filed(logType, call[q], store[q])
  /\ \A s \in Streams : /\ Rested(disp[s])
                        /\ disp[s].pc # "read" => call[disp[s].ls].pc # "new"

\* What a dispatcher may do to a store: a file that is not open stays as it is.
Touched(n, st) == n.open = st.open /\ n.closed = st.closed /\ (~st.open => n.file = st.file)

LEMMA FileWriteTouches ==
  ASSUME NEW st \in Stores, NEW q, NEW src, NEW data
  PROVE  Touched(FileWrite(st, q, src, data), st)
BY DEF FileWrite, Touched, Stores

LEMMA WritingRests ==
  ASSUME NEW d \in Dispatchers, NEW data, NEW eof
  PROVE  Writing(d, data, eof).pc # "read" /\ Writing(d, data, eof).ls = d.ls
BY DEF Writing, Resume, Dispatchers

\* A dispatcher works for the store it has or takes one of the map.
LEMMA DispatcherGoes ==
  ASSUME LogInv, NEW s \in Streams, DispatcherStep(s)
  PROVE  /\ \E e : /\ disp' = [disp EXCEPT ![s] = e] /\ Rested(e)
                   /\ e.pc # "read" => \/ e.ls \in lmap.stores
                                       \/ disp[s].pc # "read" /\ e.ls = disp[s].ls
         /\ \A q \in Requests : \/ store'[q] = store[q]
                                \/ disp[s].pc # "read" /\ q = disp[s].ls /\ Touched(store'[q], store[q])
         /\ UNCHANGED <<mode, logType, lmap, call>>
<1>. DEFINE d == disp[s]
            Fine(e) == /\ Rested(e)
                       /\ e.pc # "read" => e.ls \in lmap.stores \/ (disp[s].pc # "read" /\ e.ls = disp[s].ls)
            Stored == \A q \in Requests :
                        \/ store'[q] = store[q]
                        \/ disp[s].pc # "read" /\ q = disp[s].ls /\ Touched(store'[q], store[q])
<1>. SUFFICES (\E e : disp' = [disp EXCEPT ![s] = e] /\ Fine(e)) /\ Stored /\ UNCHANGED <<mode, logType, lmap, call>>
  BY DEF Fine
<1>1. /\ d \in Dispatchers /\ store \in [Requests -> Stores] /\ disp \in [Streams -> Dispatchers]
  BY DEF LogInv, LogTypeOK
<1>2. \A buf, tabs, stale : Fine(Reading(buf, tabs, stale))
  BY DEF Reading, Rested
<1>3. \A e : e.pc # "read" /\ d.pc # "read" /\ e.ls = d.ls => Fine(e)
  BY DEF Rested
<1>4. ASSUME NEW n \in 1..BufferLength, ReadConn(s, n)
      PROVE  (\E e : disp' = [disp EXCEPT ![s] = e] /\ Fine(e)) /\ Stored /\ UNCHANGED <<mode, logType, lmap, call>>
  <2>. DEFINE data == d.buf \o SubSeq(conn[s], 1, n)
              r == Reading(data, d.tabs, d.stale \/ d.tabs # 0)
              a == Reading(<< >>, d.tabs, Last(data)[1] \notin {"nl", "zero"})
              b == [r EXCEPT !.pc = "scan", !.ls = LastStore]
              e == IF LastStore = NoRequest THEN a ELSE b
  <2>1. disp' = [disp EXCEPT ![s] = e] /\ UNCHANGED <<mode, logType, lmap, store, call>>
    BY <1>4 DEF ReadConn
  <2>2. Fine(a)
    BY <1>2
  <2>3. LastStore # NoRequest => Fine(b)
    <3>1. b.pc = "scan" /\ b.ls = LastStore
      BY DEF Reading
    <3>2. LastStore # NoRequest => LastStore \in lmap.stores
      BY DEF LastStore
    <3>. HIDE DEF b
    <3>. QED  BY <3>1, <3>2 DEF Rested
  <2>. HIDE DEF Fine, a, b
  <2>4. Fine(e)
    BY <2>2, <2>3
  <2>. HIDE DEF e
  <2>. QED  BY <2>1, <2>4
<1>5. ASSUME NEW k \in 1..Len(disp[s].buf), ScanTo(s, k)
      PROVE  (\E e : disp' = [disp EXCEPT ![s] = e] /\ Fine(e)) /\ Stored /\ UNCHANGED <<mode, logType, lmap, call>>
  <2>1. /\ d.pc = "scan" /\ d.buf[k][1] \in {"zero", "nl", "tab"}
        /\ disp' = [disp EXCEPT ![s] = CASE d.buf[k][1] = "zero" -> AtZero(d, k)
                                         [] d.buf[k][1] = "nl" -> AtLine(d, k)
                                         [] d.buf[k][1] = "tab" -> AtTab(d, k)]
        /\ UNCHANGED <<mode, logType, lmap, store, call>>
    BY <1>5 DEF ScanTo
  <2>2. d.buf \in Seq(Symbols) /\ k \in Nat /\ k - 1 \in Nat /\ d.zeros + 1 \in Nat /\ k \in 1..Len(d.buf)
    BY <1>1, LenProperties DEF Dispatchers
  <2>3. Fine(AtZero(d, k))
    <3>. DEFINE e == [d EXCEPT !.i = k - 1, !.zeros = @ + 1, !.buf = RemoveAt(@, k)]
    <3>1. RemoveAt(d.buf, k) \in Seq(Symbols)
      BY <2>2, RemoveAtFacts
    <3>2. e \in Dispatchers /\ e.ls = d.ls
      BY <1>1, <2>2, <3>1 DEF Dispatchers
    <3>3. AtZero(d, k) = Writing(e, SubSeq(d.buf, d.lastln + 1, k - 1), TRUE)
      BY DEF AtZero
    <3>. HIDE DEF e
    <3>4. AtZero(d, k).pc # "read" /\ AtZero(d, k).ls = d.ls
      <4>. DEFINE w == Writing(e, SubSeq(d.buf, d.lastln + 1, k - 1), TRUE)
      <4>1. w.pc # "read" /\ w.ls = e.ls
        BY <3>2, WritingRests
      <4>. HIDE DEF w
      <4>. QED  BY <3>2, <3>3, <4>1 DEF w
    <3>. HIDE DEF Fine, d
    <3>. QED  BY <1>3, <2>1, <3>4
  <2>4. Fine(AtLine(d, k))
    <3>. DEFINE e == [d EXCEPT !.i = k]
    <3>1. e \in Dispatchers /\ e.ls = d.ls
      BY <1>1, <2>2 DEF Dispatchers
    <3>2. AtLine(d, k) = Writing(e, SubSeq(d.buf, d.lastln + 1, k), FALSE)
      BY DEF AtLine
    <3>. HIDE DEF e
    <3>3. AtLine(d, k).pc # "read" /\ AtLine(d, k).ls = d.ls
      <4>. DEFINE w == Writing(e, SubSeq(d.buf, d.lastln + 1, k), FALSE)
      <4>1. w.pc # "read" /\ w.ls = e.ls
        BY <3>1, WritingRests
      <4>. HIDE DEF w
      <4>. QED  BY <3>1, <3>2, <4>1 DEF w
    <3>. HIDE DEF Fine, d
    <3>. QED  BY <1>3, <2>1, <3>3
  <2>5. Fine(AtTab(d, k))
    <3>. DEFINE field == SubSeq(d.buf, d.lastTab + 1, k - 1)
                owner == {q \in lmap.stores : field = <<<<"id", q>>>>}
                l == IF d.tabs = 1 /\ owner # {} THEN CHOOSE q \in owner : TRUE ELSE d.ls
    <3>1. l \in lmap.stores \/ l = d.ls
      OBVIOUS
    <3>2. AtTab(d, k).pc = "scan" /\ AtTab(d, k).ls = l
      <4>1. AtTab(d, k) = [d EXCEPT !.i = k, !.tabs = @ + 1, !.lastTab = k, !.ls = l]
        BY DEF AtTab
      <4>. HIDE DEF l
      <4>. QED  BY <1>1, <2>1, <4>1 DEF Dispatchers
    <3>. HIDE DEF l
    <3>. QED  BY <2>1, <3>1, <3>2 DEF Rested
  <2>. HIDE DEF d, Fine
  <2>6. \/ disp' = [disp EXCEPT ![s] = AtZero(d, k)]
        \/ disp' = [disp EXCEPT ![s] = AtLine(d, k)]
        \/ disp' = [disp EXCEPT ![s] = AtTab(d, k)]
    BY <2>1
  <2>. QED  BY <2>1, <2>3, <2>4, <2>5, <2>6
<1>6. CASE ScanEnds(s)
  <2>. DEFINE m == Len(d.buf) + 1
              z == Append(d.buf, <<"nl", Last(d.buf)[2]>>)
              whole == [d EXCEPT !.i = m, !.buf = z]
              rest == SubSeq(d.buf, d.lastln + 1, Len(d.buf))
              A == d.zeros > 0 \/ d.lastln > 0
              B == d.zeros = 0 /\ d.lastln = 0 /\ Len(d.buf) < BufferLength
              C == d.zeros = 0 /\ d.lastln = 0 /\ Len(d.buf) >= BufferLength
              u == Reading(rest, 0, d.stale)
              v == Reading(d.buf, d.tabs, d.stale)
              w == Writing(whole, whole.buf, FALSE)
              e == CASE A -> u [] B -> v [] C -> w
  <2>1. /\ d.pc = "scan" /\ disp' = [disp EXCEPT ![s] = e]
        /\ UNCHANGED <<mode, logType, lmap, store, call>>
    BY <1>6 DEF ScanEnds
  <2>2. d.zeros \in Nat /\ d.lastln \in Nat /\ Len(d.buf) \in Nat /\ BufferLength \in Nat
    BY <1>1, LenProperties, RequestLogAssumption DEF Dispatchers
  <2>3. Fine(u) /\ Fine(v)
    BY <1>2
  <2>4. w.pc # "read" /\ w.ls = d.ls
    <3>1. whole.ls = d.ls
      BY <1>1 DEF Dispatchers
    <3>2. Writing(whole, whole.buf, FALSE).pc # "read" /\ Writing(whole, whole.buf, FALSE).ls = whole.ls
      BY <1>1 DEF Writing, Resume, Dispatchers
    <3>. QED  BY <3>1, <3>2
  <2>5. Fine(w)
    <3>. HIDE DEF w, Fine, d
    <3>. QED  BY <1>3, <2>1, <2>4
  <2>6. (A \/ B \/ C) /\ ~(A /\ B) /\ ~(A /\ C) /\ ~(B /\ C)
    BY <2>2
  <2>. HIDE DEF A, B, C, u, v, w, Fine
  <2>7. e = u \/ e = v \/ e = w
    BY <2>6
  <2>. HIDE DEF e
  <2>8. Fine(e)
    BY <2>3, <2>5, <2>7
  <2>. QED  BY <2>1, <2>8
<1>7. CASE WriteEOF(s)
  <2>. DEFINE e == IF d.data = << >> THEN Resume(d, 0) ELSE [d EXCEPT !.pc = "append"]
              n == setFlagLocked(store[d.ls], {s})
  <2>1. /\ d.pc = "eof" /\ disp' = [disp EXCEPT ![s] = e] /\ store' = [store EXCEPT ![d.ls] = n]
        /\ UNCHANGED <<mode, logType, lmap, call>>
    BY <1>7 DEF WriteEOF
  <2>2. e.pc # "read" /\ e.ls = d.ls
    BY <1>1 DEF Resume, Dispatchers
  <2>3. d.ls \in Requests /\ store[d.ls] \in Stores
    BY <2>1, WriterFacts
  <2>4. Touched(n, store[d.ls])
    BY <2>3 DEF setFlagLocked, Touched, Stores
  <2>. HIDE DEF n
  <2>5. Stored
    BY <1>1, <2>1, <2>3, <2>4
  <2>6. Fine(e)
    <3>. HIDE DEF e, Fine, d
    <3>. QED  BY <1>3, <2>1, <2>2
  <2>. HIDE DEF e, Fine, Stored
  <2>. QED  BY <2>1, <2>5, <2>6
<1>8. CASE WriteTail(s)
  <2>. DEFINE e == [d EXCEPT !.pc = "file"]
              n == [store[d.ls] EXCEPT !.remain = @ - Len(Appended(store[d.ls], d.data, FALSE))]
  <2>1. /\ d.pc = "append" /\ disp' = [disp EXCEPT ![s] = e] /\ store' = [store EXCEPT ![d.ls] = n]
        /\ UNCHANGED <<mode, logType, lmap, call>>
    BY <1>8 DEF WriteTail, appendLogbuf
  <2>2. e.pc # "read" /\ e.ls = d.ls
    BY <1>1 DEF Dispatchers
  <2>3. d.ls \in Requests /\ store[d.ls] \in Stores
    BY <2>1, WriterFacts
  <2>4. Touched(n, store[d.ls])
    BY <2>3 DEF Touched, Stores
  <2>. HIDE DEF n
  <2>5. Stored
    BY <1>1, <2>1, <2>3, <2>4
  <2>6. Fine(e)
    <3>. HIDE DEF e, Fine, d
    <3>. QED  BY <1>3, <2>1, <2>2
  <2>. HIDE DEF e, Fine, Stored
  <2>. QED  BY <2>1, <2>5, <2>6
<1>9. CASE WriteFile(s)
  <2>. DEFINE st == store[d.ls]
              k == IF st.open /\ st.capacity > 0 THEN Written(d.data) ELSE Len(d.data)
              e == Resume(d, k)
              n == FileWrite(st, d.ls, s, d.data)
  <2>1. /\ d.pc = "file" /\ disp' = [disp EXCEPT ![s] = e] /\ store' = [store EXCEPT ![d.ls] = n]
        /\ UNCHANGED <<mode, logType, lmap, call>>
    BY <1>9 DEF WriteFile
  <2>2. e.pc # "read" /\ e.ls = d.ls
    <3>. HIDE DEF k
    <3>. QED  BY <1>1 DEF Resume, Dispatchers
  <2>3. d.ls \in Requests /\ store[d.ls] \in Stores
    BY <2>1, WriterFacts
  <2>4. Touched(n, store[d.ls])
    BY <2>3, FileWriteTouches
  <2>. HIDE DEF n
  <2>5. Stored
    BY <1>1, <2>1, <2>3, <2>4
  <2>6. Fine(e)
    <3>. HIDE DEF e, Fine, d
    <3>. QED  BY <1>3, <2>1, <2>2
  <2>. HIDE DEF e, Fine, Stored
  <2>. QED  BY <2>1, <2>5, <2>6
<1>. HIDE DEF Fine, Stored
<1>. QED  BY <1>4, <1>5, <1>6, <1>7, <1>8, <1>9 DEF DispatcherStep

LEMMA CallInvInit == LogInit => CallInv
<1>. SUFFICES ASSUME LogInit PROVE CallInv
  OBVIOUS
<1>1. Serial
  BY DEF LogInit, Serial, Idle
<1>2. \A q \in Requests : Filed(logType, call[q], store[q])
  BY DEF LogInit, Filed, NoStore, Idle
<1>3. \A s \in Streams : disp[s].pc = "read" /\ Rested(disp[s])
  BY DEF LogInit, Reading, Rested
<1>. QED  BY <1>1, <1>2, <1>3 DEF CallInv

\* One request goes on, and at most its store changes.
LEMMA RequestGoes ==
  ASSUME LogInv, CallInv, NEW q \in Requests, NEW n, NEW e,
         store' = [store EXCEPT ![q] = n], call' = [call EXCEPT ![q] = e],
         UNCHANGED <<mode, logType, disp>>,
         e.pc = "new" => call[q].pc = "new", Filed(logType, e, n), Serial'
  PROVE  CallInv'
<1>1. /\ store \in [Requests -> Stores] /\ call \in [Requests -> Calls]
      /\ \A s \in Streams : disp[s].pc # "read" => disp[s].ls \in Requests
  BY DEF LogInv, LogTypeOK, Calls, Dispatching
<1>2. \A r \in Requests : Filed(logType, call'[r], store'[r]) /\ (call[r].pc # "new" => call'[r].pc # "new")
  <2>. TAKE r \in Requests
  <2>1. CASE r = q
    BY <1>1, <2>1
  <2>2. CASE r # q
    BY <1>1, <2>2 DEF CallInv
  <2>. QED  BY <2>1, <2>2
<1>3. \A s \in Streams : Rested(disp[s]) /\ (disp[s].pc # "read" => call'[disp[s].ls].pc # "new")
  BY <1>1, <1>2 DEF CallInv
<1>. QED  BY <1>2, <1>3 DEF CallInv

\* As long as nobody starts or ends, the map stays as it is.
LEMMA SerialStays ==
  ASSUME LogInv, Serial, NEW q \in Requests, NEW e, call' = [call EXCEPT ![q] = e],
         e.pc \in Idle <=> call[q].pc \in Idle, UNCHANGED <<mode, lmap>>
  PROVE  Serial'
<1>1. call \in [Requests -> Calls] /\ lmap.stores \subseteq Requests
  BY DEF LogInv, LogTypeOK, Calls
<1>2. \A r \in Requests : call'[r].pc \in Idle <=> call[r].pc \in Idle
  <2>. TAKE r \in Requests
  <2>1. CASE r = q
    BY <1>1, <2>1
  <2>2. CASE r # q
    BY <1>1, <2>2
  <2>. QED  BY <2>1, <2>2
<1>. QED  BY <1>2 DEF Serial

LEMMA StartCalls ==
  ASSUME LogInv, CallInv, NEW q \in Requests, startRecvLog(q)
  PROVE  CallInv'
<1>. DEFINE n == newLogStatStore(q)
            e == [call[q] EXCEPT !.pc = "start"]
<1>1. /\ call[q].pc = "new" /\ store' = [store EXCEPT ![q] = n] /\ call' = [call EXCEPT ![q] = e]
      /\ mode = "concurrent" \/ \A r \in Requests : call[r].pc \in Idle
      /\ lmap' = [last |-> q, stores |-> lmap.stores \cup {q}]
      /\ UNCHANGED <<mode, logType, disp>>
  BY DEF startRecvLog, StartRecvLog, Idle
<1>2. /\ call \in [Requests -> Calls] /\ call[q] \in Calls /\ lmap.stores \subseteq Requests
      /\ mode \in {"common", "concurrent"}
  BY RequestLogAssumption DEF LogInv, LogTypeOK, Calls
<1>3. e.pc = "start" /\ e.ran = call[q].ran
  BY <1>2 DEF Calls
<1>4. ~call[q].ran
  BY <1>1 DEF CallInv, Filed
<1>5. /\ n.file = << >> /\ (n.open <=> logType = "file") /\ ~n.closed
  BY DEF newLogStatStore, NoStore, getUserLogPath
<1>. HIDE DEF n, e
<1>6. Filed(logType, e, n)
  BY <1>3, <1>4, <1>5 DEF Filed, Idle
<1>7. Serial'
  <2>. SUFFICES ASSUME mode = "common", NEW r \in Requests
                PROVE  /\ call'[r].pc \notin Idle => /\ lmap' = [last |-> r, stores |-> {r}]
                                                     /\ \A t \in Requests \ {r} : call'[t].pc \in Idle
                       /\ r \in lmap'.stores => call'[r].pc \notin Idle
    BY <1>1 DEF Serial
  <2>1. \A t \in Requests : call[t].pc \in Idle
    BY <1>1, <1>2
  <2>2. lmap.stores = {}
    BY <1>2, <2>1 DEF CallInv, Serial
  <2>3. lmap' = [last |-> q, stores |-> {q}]
    BY <1>1, <2>2
  <2>4. call'[q].pc \notin Idle /\ \A t \in Requests \ {q} : call'[t].pc \in Idle
    BY <1>1, <1>2, <1>3, <2>1 DEF Idle
  <2>. QED  BY <2>3, <2>4
<1>. QED  BY <1>1, <1>3, <1>6, <1>7, RequestGoes

LEMMA StopCalls ==
  ASSUME LogInv, CallInv, NEW q \in Requests, StopRecvLog(q)
  PROVE  CallInv'
<1>. DEFINE n == [store[q] EXCEPT !.open = FALSE]
            e == [call[q] EXCEPT !.pc = "done"]
<1>1. /\ call[q].pc = "stop" /\ store' = [store EXCEPT ![q] = n] /\ call' = [call EXCEPT ![q] = e]
      /\ lmap' = [last |-> NoRequest, stores |-> lmap.stores \ {q}]
      /\ UNCHANGED <<mode, logType, disp>>
  BY DEF StopRecvLog, Forget
<1>2. call \in [Requests -> Calls] /\ call[q] \in Calls /\ store[q] \in Stores
  BY DEF LogInv, LogTypeOK, Calls
<1>3. e.pc = "done" /\ e.ran = call[q].ran /\ n.file = store[q].file /\ ~n.open /\ n.closed = store[q].closed
  BY <1>2 DEF Calls, Stores
<1>4. Filed(logType, call[q], store[q])
  BY DEF CallInv
<1>. HIDE DEF n, e
<1>5. Filed(logType, e, n)
  BY <1>1, <1>3, <1>4 DEF Filed, Idle
<1>6. Serial'
  <2>. SUFFICES ASSUME mode = "common" PROVE Serial'
    BY <1>1 DEF Serial
  <2>1. lmap = [last |-> q, stores |-> {q}] /\ \A t \in Requests \ {q} : call[t].pc \in Idle
    BY <1>1 DEF CallInv, Serial, Idle
  <2>2. lmap'.stores = {} /\ \A t \in Requests : call'[t].pc \in Idle
    BY <1>1, <1>2, <1>3, <2>1 DEF Idle
  <2>. QED  BY <2>2 DEF Serial
<1>. QED  BY <1>1, <1>3, <1>5, <1>6, RequestGoes

LEMMA LogDoneFields ==
  ASSUME NEW st \in Stores
  PROVE  /\ LogDone(st).open = st.open /\ LogDone(st).closed = st.closed /\ LogDone(st).file = st.file
         /\ LogDone(st).capacity = st.capacity /\ LogDone(st).clean = st.clean
         /\ LogDone(st).done = Streams /\ (~LogDone(st).forced => ~st.forced /\ st.done = Streams)
<1>1. st.done \subseteq Streams
  BY DEF Stores
<1>. QED  BY <1>1 DEF LogDone, setFlagLocked, Stores

\* The steps of a request between the two.
LEMMA OtherCalls ==
  ASSUME LogInv, CallInv, NEW q \in Requests,
         \/ InvokeStart(q) \/ Awake(q) \/ InvokeReportDone(q) \/ WaitReturns(q) \/ WriteReport(q)
         \/ Close(q) \/ Execute(q) \/ LogTimer(q)
  PROVE  CallInv'
<1>. DEFINE st == store[q]
            c == call[q]
            At(pc) == [c EXCEPT !.pc = pc]
            Mid == {"start", "run", "report", "wait", "write", "close"}
            Same(n) == n.open = st.open /\ n.closed = st.closed /\ (~st.open => n.file = st.file)
<1>1. /\ store \in [Requests -> Stores] /\ call \in [Requests -> Calls] /\ c \in Calls /\ st \in Stores
      /\ store = [store EXCEPT ![q] = st] /\ call = [call EXCEPT ![q] = c]
      /\ Filed(logType, c, st)
  BY DEF LogInv, LogTypeOK, Calls, CallInv
<1>2. ASSUME NEW n, NEW e, store' = [store EXCEPT ![q] = n], call' = [call EXCEPT ![q] = e],
             UNCHANGED <<mode, logType, lmap, disp>>, Filed(logType, e, n),
             e.pc = "new" <=> c.pc = "new", e.pc = "done" <=> c.pc = "done"
      PROVE  CallInv'
  <2>1. Serial'
    BY <1>2, SerialStays DEF CallInv, Idle
  <2>. QED  BY <1>2, <2>1, RequestGoes
<1>3. \A pc \in Mid \cup {"stop"} : At(pc).pc = pc /\ At(pc).ran = c.ran
  BY <1>1 DEF Calls
<1>4. ASSUME NEW n, NEW pc \in Mid \ {"start"}, c.pc \in Mid, Same(n)
      PROVE  Filed(logType, At(pc), n)
  BY <1>1, <1>3, <1>4 DEF Filed, Idle
<1>5. ASSUME NEW n, NEW pc \in Mid \ {"start"}, c.pc \in Mid, Same(n),
             store' = [store EXCEPT ![q] = n], call' = [call EXCEPT ![q] = At(pc)],
             UNCHANGED <<mode, logType, lmap, disp>>
      PROVE  CallInv'
  <2>1. Filed(logType, At(pc), n)
    BY <1>4, <1>5
  <2>2. At(pc).pc = pc
    BY <1>3, <1>5
  <2>. HIDE DEF At, c
  <2>3. (At(pc).pc = "new" <=> c.pc = "new") /\ (At(pc).pc = "done" <=> c.pc = "done")
    BY <1>5, <2>2
  <2>. QED  BY <1>2, <1>5, <2>1, <2>3
<1>6. Same(st)
  OBVIOUS
<1>7. ASSUME NEW data, NEW pc \in Mid \ {"start"}, c.pc \in Mid, WriteFunctionLog(q, data),
             call' = [call EXCEPT ![q] = At(pc)], UNCHANGED <<mode, logType, lmap, disp>>
      PROVE  CallInv'
  <2>. DEFINE m == [st EXCEPT !.remain = @ - Len(Appended(st, data, TRUE))]
              n == FileWrite(m, q, "faas", data)
  <2>1. store' = [store EXCEPT ![q] = n]
    BY <1>7 DEF WriteFunctionLog
  <2>2. Same(n)
    BY <1>1 DEF FileWrite, Stores
  <2>. HIDE DEF n, At, Same
  <2>. QED  BY <1>5, <1>7, <2>1, <2>2
<1>8. CASE InvokeStart(q)
  <2>1. /\ WriteFunctionLog(q, <<<<"START", q>>, <<"nl", q>>>>) /\ c.pc = "start"
        /\ call' = [call EXCEPT ![q] = At("run")] /\ UNCHANGED <<mode, logType, lmap, disp>>
    BY <1>8 DEF InvokeStart
  <2>. HIDE DEF At, c
  <2>. QED  BY <1>7, <2>1
<1>9. CASE WriteReport(q)
  <2>1. /\ WriteFunctionLog(q, <<<<"END", q>>, <<"nl", q>>, <<"REPORT", q>>>>) /\ c.pc = "write"
        /\ call' = [call EXCEPT ![q] = At("close")] /\ UNCHANGED <<mode, logType, lmap, disp>>
    BY <1>9 DEF WriteReport
  <2>. HIDE DEF At, c
  <2>. QED  BY <1>7, <2>1
<1>10. CASE Awake(q)
  <2>1. /\ c.pc = "run" /\ call' = [call EXCEPT ![q] = At("report")] /\ store' = [store EXCEPT ![q] = st]
        /\ UNCHANGED <<mode, logType, lmap, disp>>
    BY <1>1, <1>10 DEF Awake
  <2>. HIDE DEF At, c, Same, st
  <2>. QED  BY <1>5, <1>6, <2>1
<1>11. CASE WaitReturns(q)
  <2>1. /\ c.pc = "wait" /\ call' = [call EXCEPT ![q] = At("write")] /\ store' = [store EXCEPT ![q] = st]
        /\ UNCHANGED <<mode, logType, lmap, disp>>
    BY <1>1, <1>11 DEF WaitReturns
  <2>. HIDE DEF At, c, Same, st
  <2>. QED  BY <1>5, <1>6, <2>1
<1>12. CASE InvokeReportDone(q)
  <2>. DEFINE m == [st EXCEPT !.timer = @ \/ st.done # Streams]
  <2>1. Same(m) /\ Same(LogDone(st))
    BY <1>1, LogDoneFields DEF Stores
  <2>2. /\ c.pc = "report" /\ UNCHANGED <<mode, logType, lmap, disp>>
        /\ \/ store' = [store EXCEPT ![q] = m] /\ call' = [call EXCEPT ![q] = At("wait")]
           \/ store' = [store EXCEPT ![q] = LogDone(st)] /\ call' = [call EXCEPT ![q] = At("write")]
    BY <1>12 DEF InvokeReportDone
  <2>. HIDE DEF At, c, Same, st, m
  <2>. QED  BY <1>5, <2>1, <2>2
<1>13. CASE Close(q)
  <2>. DEFINE d == LogDone(st)
              b == contents[st.buffer]
              n == [d EXCEPT !.closed = TRUE, !.tail = b, !.buffer = NoBuffer]
  <2>1. /\ c.pc = "close" /\ call' = [call EXCEPT ![q] = At("stop")] /\ store' = [store EXCEPT ![q] = n]
        /\ UNCHANGED <<mode, logType, lmap, disp>>
    BY <1>13 DEF Close
  <2>2. d \in Stores /\ d.open = st.open /\ d.file = st.file
    <3>1. Counted(st)
      BY DEF LogInv, WaitGroupExact, Counted
    <3>. QED  BY <1>1, <3>1, LogDoneFacts, LogDoneFields
  <2>. HIDE DEF d, b
  <2>3. n.open = st.open /\ n.file = st.file /\ n.closed
    BY <2>2 DEF Stores
  <2>4. At("stop").pc = "stop" /\ At("stop").ran = c.ran
    BY <1>3
  <2>. HIDE DEF n, At, c, st
  <2>5. Filed(logType, At("stop"), n)
    BY <1>1, <2>1, <2>3, <2>4 DEF Filed, Idle
  <2>. QED  BY <1>2, <2>1, <2>4, <2>5
<1>14. CASE Execute(q)
  <2>. DEFINE e == [c EXCEPT !.ran = TRUE]
  <2>1. /\ c.pc \notin {"new", "start"} /\ call' = [call EXCEPT ![q] = e]
        /\ store' = [store EXCEPT ![q] = st] /\ UNCHANGED <<mode, logType, lmap, disp>>
    BY <1>1, <1>14 DEF Execute
  <2>2. e.pc = c.pc
    BY <1>1 DEF Calls
  <2>. HIDE DEF e, c, st
  <2>3. Filed(logType, e, st)
    BY <1>1, <2>1, <2>2 DEF Filed
  <2>. QED  BY <1>2, <2>1, <2>2, <2>3
<1>15. CASE LogTimer(q)
  <2>. DEFINE d == LogDone(st)
              n == [d EXCEPT !.timer = FALSE]
  <2>1. /\ store[q].timer /\ call' = [call EXCEPT ![q] = c] /\ store' = [store EXCEPT ![q] = n]
        /\ UNCHANGED <<mode, logType, lmap, disp>>
    BY <1>1, <1>15 DEF LogTimer
  <2>2. d \in Stores /\ d.open = st.open /\ d.file = st.file /\ d.closed = st.closed
    <3>1. Counted(st)
      BY DEF LogInv, WaitGroupExact, Counted
    <3>. QED  BY <1>1, <3>1, LogDoneFacts, LogDoneFields
  <2>. HIDE DEF d
  <2>3. n.open = st.open /\ n.file = st.file /\ n.closed = st.closed
    BY <2>2 DEF Stores
  <2>4. c.pc # "new"
    <3>1. c.pc = "new" => st = NoStore
      BY <1>1 DEF Filed
    <3>. QED  BY <2>1, <3>1 DEF NoStore
  <2>. HIDE DEF n, c, st
  <2>5. Filed(logType, c, n)
    BY <1>1, <2>3, <2>4 DEF Filed
  <2>. QED  BY <1>2, <2>1, <2>5
<1>. QED  BY <1>8, <1>9, <1>10, <1>11, <1>12, <1>13, <1>14, <1>15

LEMMA CallInvNext ==
  LineInv /\ CallInv /\ [LogNext]_lvars => CallInv'
<1>. SUFFICES ASSUME LineInv, CallInv, [LogNext]_lvars PROVE CallInv'
  OBVIOUS
<1>1. LogInv
  BY DEF LineInv
<1>2. ASSUME NEW q \in Requests, CallStep(q) \/ Execute(q) \/ LogTimer(q) PROVE CallInv'
  BY <1>1, <1>2, StartCalls, StopCalls, OtherCalls DEF CallStep
<1>3. ASSUME NEW s \in Streams, DispatcherStep(s) PROVE CallInv'
  <2>1. /\ \E e : /\ disp' = [disp EXCEPT ![s] = e] /\ Rested(e)
                  /\ e.pc # "read" => \/ e.ls \in lmap.stores
                                      \/ disp[s].pc # "read" /\ e.ls = disp[s].ls
        /\ \A q \in Requests : \/ store'[q] = store[q]
                               \/ disp[s].pc # "read" /\ q = disp[s].ls /\ Touched(store'[q], store[q])
        /\ UNCHANGED <<mode, logType, lmap, call>>
    BY <1>1, <1>3, DispatcherGoes
  <2>2. disp \in [Streams -> Dispatchers] /\ \A q \in lmap.stores : call[q].pc # "new"
    BY <1>1 DEF LineInv, LogInv, LogTypeOK
  <2>3. Serial'
    BY <2>1 DEF CallInv, Serial
  <2>4. ASSUME NEW q \in Requests PROVE Filed(logType, call[q], store'[q])
    <3>1. Filed(logType, call[q], store[q])
      BY DEF CallInv
    <3>2. CASE store'[q] = store[q]
      BY <3>1, <3>2
    <3>3. CASE disp[s].pc # "read" /\ q = disp[s].ls /\ Touched(store'[q], store[q])
      <4>1. call[q].pc # "new"
        BY <3>3 DEF CallInv
      <4>. QED  BY <3>1, <3>3, <4>1 DEF Filed, Touched
    <3>. QED  BY <2>1, <3>2, <3>3
  <2>5. ASSUME NEW t \in Streams
        PROVE  Rested(disp'[t]) /\ (disp'[t].pc # "read" => call[disp'[t].ls].pc # "new")
    <3>1. CASE t = s
      BY <2>1, <2>2, <3>1 DEF CallInv
    <3>2. CASE t # s
      <4>1. disp'[t] = disp[t]
        BY <2>1, <2>2, <3>2
      <4>. QED  BY <4>1 DEF CallInv
    <3>. QED  BY <3>1, <3>2
  <2>. QED  BY <2>1, <2>3, <2>4, <2>5 DEF CallInv
<1>4. CASE UNCHANGED lvars
  BY <1>4 DEF lvars, CallInv, Serial
<1>. QED  BY <1>2, <1>3, <1>4 DEF LogNext

-----------------------------------------------------------------------------
(* What is left of the output of a request *)

\* What is behind the last line written, and behind the line that is being written.
Rest(d, x) == SubSeq(d.buf, d.lastln + 1, Len(d.buf)) \o x
Behind(d, x) == SubSeq(d.buf, d.i + 1, Len(d.buf)) \o x

\* The end marker is at the end, behind a newline.
Sealed(x) ==
  /\ x # << >> /\ \A j \in 1..Len(x) : x[j][1] = "zero" <=> j = Len(x)
  /\ Len(x) > 1 => x[Len(x) - 1][1] = "nl"

Passed(d, n) == \A j \in (d.lastln + 1)..n : d.buf[j][1] \notin {"nl", "zero"}

\* Of the output p of the request q the log has f; the dispatcher d has the rest in its buffer
\* or will read it from the connection x.
Flowing(q, p, f, d, x) ==
  /\ d.pc # "read" => d.ls = q
  /\ d.pc \in {"read", "scan"} =>
       /\ d.lastln <= d.i /\ d.i <= Len(d.buf) /\ Passed(d, d.i)
       /\ Sealed(Rest(d, x)) /\ f \o Text(Rest(d, x)) = p
  /\ d.pc \in {"append", "file"} =>
       /\ d.lastln < d.i /\ d.i <= Len(d.buf) /\ Passed(d, d.i - 1) /\ d.buf[d.i][1] = "nl"
       /\ d.data = SubSeq(d.buf, d.lastln + 1, d.i)
       /\ Sealed(Behind(d, x)) /\ f \o Text(d.data \o Behind(d, x)) = p
  /\ d.pc = "eof" =>
       /\ d.data = << >> /\ x = << >> /\ d.i = d.lastln /\ d.lastln = Len(d.buf) /\ d.zeros > 0
       /\ f = p

LEMMA RestFacts ==
  ASSUME NEW b \in Seq(Symbols), NEW x \in Seq(Symbols), NEW l \in Nat, l <= Len(b)
  PROVE  /\ SubSeq(b, l + 1, Len(b)) \o x \in Seq(Symbols)
         /\ Len(SubSeq(b, l + 1, Len(b)) \o x) = (Len(b) - l) + Len(x)
         /\ \A j \in 1..(Len(b) - l) : (SubSeq(b, l + 1, Len(b)) \o x)[j] = b[l + j]
<1>. DEFINE a == SubSeq(b, l + 1, Len(b))
            r == a \o x
<1>1. Len(b) \in Nat /\ Len(x) \in Nat
  BY LenProperties
<1>2. /\ a \in Seq(Symbols) /\ Len(a) = Len(b) - l
      /\ \A i \in 1..(Len(b) - (l + 1) + 1) : a[i] = b[(l + 1) + i - 1]
  <2>1. \A i \in (l + 1)..Len(b) : b[i] \in Symbols
    BY LenProperties
  <2>2. /\ a \in Seq(Symbols) /\ Len(a) = IF l + 1 <= Len(b) THEN Len(b) - (l + 1) + 1 ELSE 0
        /\ \A i \in 1..(Len(b) - (l + 1) + 1) : a[i] = b[(l + 1) + i - 1]
    BY <1>1, <2>1, SubSeqProperties
  <2>. QED  BY <1>1, <2>2
<1>. HIDE DEF a
<1>3. /\ r \in Seq(Symbols) /\ Len(r) = Len(a) + Len(x)
      /\ \A i \in 1..(Len(a) + Len(x)) : r[i] = IF i <= Len(a) THEN a[i] ELSE x[i - Len(a)]
  <2>1. /\ a \o x \in Seq(Symbols) /\ Len(a \o x) = Len(a) + Len(x)
        /\ \A i \in 1..(Len(a) + Len(x)) : (a \o x)[i] = IF i <= Len(a) THEN a[i] ELSE x[i - Len(a)]
    BY <1>2, JoinFacts
  <2>. QED  BY <2>1
<1>. HIDE DEF r
<1>4. ASSUME NEW j \in 1..(Len(b) - l) PROVE r[j] = b[l + j]
  <2>1. /\ j \in 1..(Len(a) + Len(x)) /\ j <= Len(a) /\ j \in 1..(Len(b) - (l + 1) + 1)
        /\ (l + 1) + j - 1 = l + j
    BY <1>1, <1>2
  <2>2. r[j] = a[j]
    BY <1>3, <2>1
  <2>3. a[j] = b[(l + 1) + j - 1]
    BY <1>2, <2>1
  <2>. QED  BY <2>1, <2>2, <2>3
<1>5. r \in Seq(Symbols) /\ Len(r) = (Len(b) - l) + Len(x)
  BY <1>2, <1>3
<1>. QED  BY <1>4, <1>5 DEF r, a

\* What follows l is what is between l and k and what follows k.
Splits(b, l, k, x) ==
  /\ SubSeq(b, l + 1, k) \in Seq(Symbols) /\ SubSeq(b, k + 1, Len(b)) \o x \in Seq(Symbols)
  /\ Len(SubSeq(b, l + 1, k)) = k - l /\ \A j \in 1..(k - l) : SubSeq(b, l + 1, k)[j] = b[l + j]
  /\ SubSeq(b, l + 1, k) \o (SubSeq(b, k + 1, Len(b)) \o x) = SubSeq(b, l + 1, Len(b)) \o x

LEMMA RestSplits ==
  ASSUME NEW b \in Seq(Symbols), NEW x \in Seq(Symbols), NEW l \in Nat, NEW k \in Nat, l <= k, k <= Len(b)
  PROVE  Splits(b, l, k, x)
<1>. DEFINE u == SubSeq(b, l + 1, k)
            v == SubSeq(b, k + 1, Len(b))
            w == SubSeq(b, l + 1, Len(b))
<1>1. Len(b) \in Nat /\ k + 1 \in Nat \ {0} /\ l + 1 \in Nat \ {0}
  BY LenProperties
<1>2. v \in Seq(Symbols)
  BY <1>1, PieceFacts
<1>3. /\ u \in Seq(Symbols) /\ Len(u) = k - l
      /\ \A i \in 1..(k - (l + 1) + 1) : u[i] = b[(l + 1) + i - 1]
  <2>1. \A i \in (l + 1)..k : b[i] \in Symbols
    BY <1>1, LenProperties
  <2>2. /\ u \in Seq(Symbols) /\ Len(u) = IF l + 1 <= k THEN k - (l + 1) + 1 ELSE 0
        /\ \A i \in 1..(k - (l + 1) + 1) : u[i] = b[(l + 1) + i - 1]
    BY <1>1, <2>1, SubSeqProperties
  <2>. QED  BY <1>1, <2>2
<1>4. u \o v = w
  <2>. DEFINE m == l + 1
  <2>1. m \in 1..(Len(b) + 1) /\ k \in (m - 1)..Len(b) /\ Len(b) \in k..Len(b)
    BY <1>1
  <2>. HIDE DEF m
  <2>2. SubSeq(b, m, k) \o SubSeq(b, k + 1, Len(b)) = SubSeq(b, m, Len(b))
    BY <2>1, ConcatAdjacentSubSeq
  <2>. QED  BY <2>2 DEF m
<1>5. ASSUME NEW j \in 1..(k - l) PROVE u[j] = b[l + j]
  <2>1. j \in 1..(k - (l + 1) + 1) /\ (l + 1) + j - 1 = l + j
    BY <1>1
  <2>2. u[j] = b[(l + 1) + j - 1]
    BY <1>3, <2>1
  <2>. QED  BY <2>1, <2>2
<1>. HIDE DEF u, v, w
<1>6. u \o (v \o x) = w \o x
  <2>1. (u \o v) \o x = u \o (v \o x)
    BY <1>2, <1>3, Associative
  <2>. QED  BY <1>4, <2>1
<1>7. v \o x \in Seq(Symbols)
  BY <1>2, ConcatProperties
<1>8. /\ u \in Seq(Symbols) /\ v \o x \in Seq(Symbols) /\ Len(u) = k - l
      /\ \A j \in 1..(k - l) : u[j] = b[l + j]
      /\ u \o (v \o x) = w \o x
  BY <1>3, <1>5, <1>6, <1>7
<1>. QED  BY <1>8, Zenon DEF Splits, u, v, w

LEMMA RemoveAtLength ==
  ASSUME NEW b \in Seq(Symbols), NEW k \in 1..Len(b)
  PROVE  RemoveAt(b, k) \in Seq(Symbols) /\ Len(RemoveAt(b, k)) = Len(b) - 1
<1>. DEFINE u == SubSeq(b, 1, k - 1)
            v == SubSeq(b, k + 1, Len(b))
<1>1. /\ Len(b) \in Nat /\ k + 1 \in Nat \ {0} /\ 1 \in Nat \ {0} /\ k - 1 \in Nat /\ k - 1 <= Len(b)
      /\ k \in Nat /\ k <= Len(b)
  BY LenProperties
<1>2. u \in Seq(Symbols) /\ Len(u) = k - 1
  <2>. DEFINE w == k - 1
  <2>1. w \in Nat /\ w <= Len(b)
    BY <1>1
  <2>. HIDE DEF w
  <2>2. SubSeq(b, 1, w) \in Seq(Symbols) /\ Len(SubSeq(b, 1, w)) = IF 1 <= w THEN w - 1 + 1 ELSE 0
    BY <1>1, <2>1, PieceFacts
  <2>3. (IF 1 <= w THEN w - 1 + 1 ELSE 0) = w
    BY <2>1
  <2>. QED  BY <2>2, <2>3 DEF w
<1>3. v \in Seq(Symbols) /\ Len(v) = Len(b) - k
  <2>. DEFINE w == k + 1
              n == Len(b)
  <2>1. w \in Nat \ {0} /\ n \in Int /\ n <= Len(b) /\ n = Len(b)
    BY <1>1
  <2>2. (IF w <= n THEN n - w + 1 ELSE 0) = n - k
    BY <1>1
  <2>. HIDE DEF w, n
  <2>3. SubSeq(b, w, n) \in Seq(Symbols) /\ Len(SubSeq(b, w, n)) = IF w <= n THEN n - w + 1 ELSE 0
    BY <2>1, PieceFacts
  <2>. QED  BY <2>2, <2>3 DEF w, n
<1>4. RemoveAt(b, k) = u \o v
  BY DEF RemoveAt
<1>. HIDE DEF u, v
<1>5. u \o v \in Seq(Symbols) /\ Len(u \o v) = Len(u) + Len(v)
  BY <1>2, <1>3, ConcatProperties
<1>6. (k - 1) + (Len(b) - k) = Len(b) - 1
  BY <1>1
<1>. QED  BY <1>2, <1>3, <1>4, <1>5, <1>6

\* What precedes the end marker is taken away.
LEMMA SealedBehind ==
  ASSUME NEW a \in Seq(Symbols), NEW c \in Seq(Symbols), Sealed(a \o c),
         \A j \in 1..Len(a) : a[j][1] # "zero"
  PROVE  Sealed(c)
<1>. DEFINE y == a \o c
<1>1. /\ Len(a) \in Nat /\ Len(c) \in Nat /\ Len(y) = Len(a) + Len(c) /\ y \in Seq(Symbols)
      /\ \A i \in 1..(Len(a) + Len(c)) : y[i] = IF i <= Len(a) THEN a[i] ELSE c[i - Len(a)]
  BY JoinFacts
<1>. HIDE DEF y
<1>2. y # << >> /\ (\A j \in 1..Len(y) : y[j][1] = "zero" <=> j = Len(y))
      /\ (Len(y) > 1 => y[Len(y) - 1][1] = "nl")
  BY DEF Sealed, y
<1>3. Len(y) # 0
  BY <1>1, <1>2, EmptySeq
<1>4. Len(c) # 0
  <2>. SUFFICES ASSUME Len(c) = 0 PROVE FALSE
    OBVIOUS
  <2>1. Len(y) \in 1..Len(y) /\ Len(y) = Len(a) /\ Len(y) \in 1..Len(a) /\ Len(y) \in 1..(Len(a) + Len(c))
    BY <1>1, <1>3
  <2>2. y[Len(y)] = a[Len(y)] /\ y[Len(y)][1] = "zero"
    BY <1>1, <1>2, <2>1
  <2>. QED  BY <2>1, <2>2
<1>5. ASSUME NEW j \in 1..Len(c) PROVE y[Len(a) + j] = c[j] /\ Len(a) + j \in 1..Len(y)
  <2>1. Len(a) + j \in 1..(Len(a) + Len(c)) /\ ~(Len(a) + j <= Len(a)) /\ (Len(a) + j) - Len(a) = j
    BY <1>1
  <2>. QED  BY <1>1, <2>1
<1>6. \A j \in 1..Len(c) : c[j][1] = "zero" <=> j = Len(c)
  <2>. TAKE j \in 1..Len(c)
  <2>1. y[Len(a) + j][1] = "zero" <=> Len(a) + j = Len(y)
    BY <1>2, <1>5
  <2>2. Len(a) + j = Len(y) <=> j = Len(c)
    <3>1. Len(a) \in Nat /\ Len(c) \in Nat /\ j \in Nat /\ Len(y) = Len(a) + Len(c)
      BY <1>1
    <3>. QED  BY <3>1
  <2>. QED  BY <1>5, <2>1, <2>2
<1>7. Len(c) > 1 => c[Len(c) - 1][1] = "nl"
  <2>. SUFFICES ASSUME Len(c) > 1 PROVE c[Len(c) - 1][1] = "nl"
    OBVIOUS
  <2>1. Len(c) - 1 \in 1..Len(c) /\ Len(a) + (Len(c) - 1) = Len(y) - 1 /\ Len(y) > 1
    BY <1>1
  <2>2. y[Len(a) + (Len(c) - 1)] = c[Len(c) - 1]
    BY <1>5, <2>1
  <2>. QED  BY <1>2, <2>1, <2>2
<1>8. c # << >>
  BY <1>4, EmptySeq
<1>. QED  BY <1>6, <1>7, <1>8 DEF Sealed

-----------------------------------------------------------------------------
(* The steps of its dispatcher *)

LEMMA ReadFlows ==
  ASSUME NEW d \in Dispatchers, NEW x \in Seq(Symbols), NEW q, NEW p, NEW f, Rested(d), d.pc = "read",
         Flowing(q, p, f, d, x), NEW n \in Nat, n <= Len(x), NEW t, NEW g
  PROVE  Flowing(q, p, f, [Reading(d.buf \o SubSeq(x, 1, n), t, g) EXCEPT !.pc = "scan", !.ls = q],
                 SubSeq(x, n + 1, Len(x)))
<1>. DEFINE b == d.buf
            z == b \o SubSeq(x, 1, n)
            y == SubSeq(x, n + 1, Len(x))
            e == [Reading(z, t, g) EXCEPT !.pc = "scan", !.ls = q]
<1>1. b \in Seq(Symbols) /\ d.lastln = 0 /\ Len(x) \in Nat /\ Len(b) \in Nat
  BY LenProperties DEF Dispatchers, Rested
<1>2. Sealed(Rest(d, x)) /\ f \o Text(Rest(d, x)) = p
  BY DEF Flowing
<1>3. Rest(d, x) = b \o x
  <2>1. SubSeq(b, 1, Len(b)) = b
    BY <1>1, SubSeqFull
  <2>2. 0 + 1 = 1
    OBVIOUS
  <2>. QED  BY <1>1, <2>1, <2>2 DEF Rest
<1>4. z \o y = b \o x
  <2>. HIDE DEF b
  <2>1. (b \o SubSeq(x, 1, n)) \o SubSeq(x, n + 1, Len(x)) = b \o x
    BY <1>1, MoveFront
  <2>. QED  BY <2>1
<1>5. z \in Seq(Symbols) /\ Len(z) \in Nat
  <2>1. 1 \in Nat \ {0} /\ n \in Int
    OBVIOUS
  <2>2. SubSeq(x, 1, n) \in Seq(Symbols)
    BY <2>1, PieceFacts
  <2>. HIDE DEF b
  <2>3. z \in Seq(Symbols)
    BY <1>1, <2>2, ConcatProperties
  <2>. QED  BY <2>3, LenProperties
<1>. HIDE DEF z, y
<1>6. e.pc = "scan" /\ e.ls = q /\ e.buf = z /\ e.i = 0 /\ e.lastln = 0
  BY DEF Reading
<1>. HIDE DEF e
<1>7. Rest(e, y) = z \o y
  <2>1. SubSeq(z, 1, Len(z)) = z
    BY <1>5, SubSeqFull
  <2>2. 0 + 1 = 1
    OBVIOUS
  <2>. QED  BY <1>6, <2>1, <2>2 DEF Rest
<1>8. Passed(e, e.i)
  BY <1>6 DEF Passed
<1>9. Flowing(q, p, f, e, y)
  BY <1>2, <1>3, <1>4, <1>5, <1>6, <1>7, <1>8 DEF Flowing
<1>. QED  BY <1>9 DEF e, y, z

\* The end marker: everything has been written.
LEMMA ZeroFlows ==
  ASSUME NEW d \in Dispatchers, NEW x \in Seq(Symbols), NEW q, NEW p, NEW f \in Seq(Symbols),
         d.pc = "scan", Flowing(q, p, f, d, x), NEW k \in 1..Len(d.buf), k > d.i, Scanned(d, k),
         d.buf[k][1] = "zero", ~store[q].closed
  PROVE  Flowing(q, p, f, AtZero(d, k), x)
<1>. DEFINE b == d.buf
            l == d.lastln
            r == Rest(d, x)
<1>1. /\ b \in Seq(Symbols) /\ l \in Nat /\ d.i \in Nat /\ Len(b) \in Nat /\ k \in Nat /\ d.zeros \in Nat
      /\ l <= d.i /\ d.i <= Len(b) /\ k <= Len(b)
  BY LenProperties DEF Dispatchers, Flowing
<1>2. Sealed(r) /\ f \o Text(r) = p /\ Passed(d, d.i) /\ d.ls = q
  BY DEF Flowing
<1>3. /\ r \in Seq(Symbols) /\ Len(x) \in Nat /\ Len(r) = (Len(b) - l) + Len(x)
      /\ \A j \in 1..(Len(b) - l) : r[j] = b[l + j]
  <2>1. r = SubSeq(b, l + 1, Len(b)) \o x /\ l <= Len(b) /\ b \in Seq(Symbols) /\ l \in Nat
    BY <1>1 DEF Rest
  <2>. HIDE DEF b, l, r
  <2>2. /\ SubSeq(b, l + 1, Len(b)) \o x \in Seq(Symbols)
        /\ Len(SubSeq(b, l + 1, Len(b)) \o x) = (Len(b) - l) + Len(x)
        /\ \A j \in 1..(Len(b) - l) : (SubSeq(b, l + 1, Len(b)) \o x)[j] = b[l + j]
    BY <2>1, RestFacts
  <2>. QED  BY <2>1, <2>2, LenProperties
<1>. HIDE DEF r
<1>4. (\A j \in 1..Len(r) : r[j][1] = "zero" <=> j = Len(r)) /\ (Len(r) > 1 => r[Len(r) - 1][1] = "nl")
  BY <1>2 DEF Sealed
<1>5. k - l = Len(r) /\ Len(x) = 0 /\ k = Len(b)
  <2>. HIDE DEF b, l
  <2>1. k - l \in 1..(Len(b) - l) /\ k - l \in 1..Len(r) /\ l + (k - l) = k /\ d.buf = b /\ k > l
    <3>1. d.i \in Nat /\ l <= d.i
      BY <1>1
    <3>. QED  BY <1>1, <1>3, <3>1 DEF b
  <2>2. r[k - l][1] = "zero"
    BY <1>3, <2>1
  <2>3. k - l = Len(r)
    BY <1>4, <2>1, <2>2
  <2>. QED  BY <1>1, <1>3, <2>3
<1>6. x = << >>
  BY <1>5, EmptySeq
<1>7. k = l + 1
  <2>. SUFFICES ASSUME k # l + 1 PROVE FALSE
    OBVIOUS
  <2>1. Len(r) > 1 /\ Len(r) - 1 \in 1..(Len(b) - l) /\ l + (Len(r) - 1) = k - 1 /\ k - 1 \in (l + 1)..(k - 1)
    <3>. HIDE DEF b, l
    <3>1. k > l
      <4>1. d.i \in Nat /\ l <= d.i
        BY <1>1
      <4>. QED  BY <1>1, <4>1
    <3>. QED  BY <1>1, <1>3, <1>5, <3>1
  <2>2. b[k - 1][1] = "nl"
    BY <1>3, <1>4, <2>1
  <2>3. CASE k - 1 <= d.i
    <3>1. k - 1 \in (l + 1)..d.i
      BY <1>1, <2>1, <2>3
    <3>. QED  BY <1>2, <2>2, <3>1 DEF Passed
  <2>4. CASE ~(k - 1 <= d.i)
    <3>1. k - 1 \in (d.i + 1)..(k - 1)
      BY <1>1, <2>4
    <3>. QED  BY <2>2, <3>1 DEF Scanned
  <2>. QED  BY <2>3, <2>4
<1>8. f = p
  <2>1. Len(r) = 1 /\ r[1] = b[k]
    <3>1. Len(r) = 1 /\ 1 \in 1..(Len(b) - l) /\ l + 1 = k
      <4>1. l \in Nat /\ k \in Nat
        BY <1>1
      <4>. HIDE DEF b, l
      <4>. QED  BY <1>5, <1>7, <4>1
    <3>. QED  BY <1>3, <3>1
  <2>2. Text(r) = << >>
    <3>1. \A i \in 1..Len(r) : r[i][1] \in {"nl", "zero"}
      BY <2>1
    <3>. QED  BY <1>3, <3>1, TextFacts
  <2>3. f \o << >> = f
    BY ConcatEmptySeq
  <2>. QED  BY <1>2, <2>2, <2>3
<1>. DEFINE m == RemoveAt(b, k)
            o == SubSeq(b, l + 1, k - 1)
            z == d.zeros + 1
            h == k - 1
            e == [d EXCEPT !.i = h, !.zeros = z, !.buf = m]
<1>9. m \in Seq(Symbols) /\ Len(m) = Len(b) - 1
  <2>1. k \in 1..Len(b) /\ b \in Seq(Symbols)
    BY <1>1
  <2>. HIDE DEF b
  <2>. QED  BY <2>1, RemoveAtLength
<1>10. o = << >>
  <2>1. l + 1 \in Nat \ {0} /\ k - 1 \in Int /\ k - 1 <= Len(b) /\ ~(l + 1 <= k - 1)
    BY <1>1, <1>7
  <2>. HIDE DEF b, l
  <2>. DEFINE v == l + 1
              w == k - 1
  <2>. HIDE DEF v, w
  <2>2. SubSeq(b, v, w) \in Seq(Symbols) /\ Len(SubSeq(b, v, w)) = IF v <= w THEN w - v + 1 ELSE 0
    BY <1>1, <2>1, PieceFacts DEF v, w
  <2>3. Len(SubSeq(b, v, w)) = 0
    BY <2>1, <2>2 DEF v, w
  <2>4. SubSeq(b, v, w) = << >>
    BY <2>2, <2>3, EmptySeq
  <2>. QED  BY <2>4 DEF v, w
<1>11. AtZero(d, k) = Writing(e, o, TRUE)
  BY DEF AtZero
<1>12. z \in Nat /\ z > 0 /\ h \in Nat /\ h = l /\ Len(m) = l
  <2>1. d.zeros \in Nat /\ l \in Nat /\ k \in Nat
    BY <1>1
  <2>2. z \in Nat /\ z > 0
    BY <2>1
  <2>. HIDE DEF b, l, m, z
  <2>3. k = Len(b) /\ k = l + 1 /\ Len(m) = Len(b) - 1
    BY <1>5, <1>7, <1>9
  <2>4. k - 1 = l /\ Len(m) = l
    <3>1. \A n, w \in Nat : k = w /\ k = n + 1 => k - 1 = n /\ w - 1 = n
      OBVIOUS
    <3>2. Len(b) \in Nat
      BY <2>1, <2>3
    <3>. QED  BY <2>1, <2>3, <3>1, <3>2
  <2>5. h \in Nat /\ h = l /\ Len(m) = l
    BY <2>1, <2>4
  <2>. QED  BY <2>2, <2>5
<1>. HIDE DEF m, o, z, h
<1>13. /\ e \in Dispatchers /\ e.i = h /\ e.zeros = z /\ e.buf = m /\ e.ls = d.ls /\ e.lastln = l
  BY <1>9, <1>12 DEF Dispatchers
<1>. HIDE DEF e
<1>. DEFINE w == Writing(e, o, TRUE)
<1>14. /\ w.pc = "eof" /\ w.i = h /\ w.zeros = z /\ w.buf = m /\ w.ls = q /\ w.lastln = l /\ w.data = o
  BY <1>2, <1>13 DEF Writing, Dispatchers
<1>. HIDE DEF w
<1>15. Flowing(q, p, f, w, x)
  BY <1>6, <1>8, <1>10, <1>12, <1>14 DEF Flowing
<1>. QED  BY <1>11, <1>15 DEF w

\* A line is complete.
LEMMA LineFlows ==
  ASSUME NEW d \in Dispatchers, NEW x \in Seq(Symbols), NEW q, NEW p, NEW f,
         d.pc = "scan", Flowing(q, p, f, d, x), NEW k \in 1..Len(d.buf), k > d.i, Scanned(d, k),
         d.buf[k][1] = "nl", ~store[q].closed
  PROVE  Flowing(q, p, f, AtLine(d, k), x)
<1>. DEFINE b == d.buf
            l == d.lastln
            o == SubSeq(b, l + 1, k)
            y == SubSeq(b, k + 1, Len(b)) \o x
            e == [d EXCEPT !.i = k]
            w == Writing(e, o, FALSE)
<1>1. /\ b \in Seq(Symbols) /\ l \in Nat /\ d.i \in Nat /\ Len(b) \in Nat /\ k \in Nat
      /\ l <= d.i /\ d.i <= Len(b) /\ k <= Len(b) /\ l < k
  <2>1. /\ b \in Seq(Symbols) /\ l \in Nat /\ d.i \in Nat /\ Len(b) \in Nat /\ k \in Nat
        /\ l <= d.i /\ d.i <= Len(b) /\ k <= Len(b)
    BY LenProperties DEF Dispatchers, Flowing
  <2>. QED  BY <2>1
<1>2. Sealed(Rest(d, x)) /\ f \o Text(Rest(d, x)) = p /\ Passed(d, d.i) /\ d.ls = q
  BY DEF Flowing
<1>3. /\ o \in Seq(Symbols) /\ y \in Seq(Symbols) /\ Len(o) = k - l /\ \A j \in 1..(k - l) : o[j] = b[l + j]
      /\ o \o y = Rest(d, x)
  <2>1. Rest(d, x) = SubSeq(b, l + 1, Len(b)) \o x
    BY DEF Rest
  <2>2. l <= k /\ l \in Nat /\ k \in Nat /\ k <= Len(b) /\ b \in Seq(Symbols)
    BY <1>1
  <2>. HIDE DEF b, l
  <2>3. Splits(b, l, k, x)
    BY <2>2, RestSplits
  <2>. QED  BY <2>1, <2>3, Zenon DEF Splits
<1>4. \A j \in (l + 1)..(k - 1) : b[j][1] \notin {"nl", "zero"}
  <2>. TAKE j \in (l + 1)..(k - 1)
  <2>1. CASE j <= d.i
    BY <1>1, <1>2, <2>1 DEF Passed
  <2>2. CASE ~(j <= d.i)
    <3>1. j \in (d.i + 1)..(k - 1)
      BY <1>1, <2>2
    <3>. QED  BY <3>1 DEF Scanned
  <2>. QED  BY <2>1, <2>2
<1>5. Sealed(y)
  <2>1. ASSUME NEW j \in 1..Len(o) PROVE o[j][1] # "zero"
    <3>1. j \in 1..(k - l) /\ l + j \in (l + 1)..k
      <4>1. l \in Nat /\ k \in Nat /\ Len(o) = k - l
        BY <1>1, <1>3
      <4>. HIDE DEF l, o
      <4>. QED  BY <2>1, <4>1
    <3>2. o[j] = b[l + j]
      BY <1>3, <3>1
    <3>3. CASE l + j = k
      BY <3>2, <3>3
    <3>4. CASE l + j # k
      <4>1. l + j \in (l + 1)..(k - 1)
        BY <1>1, <3>1, <3>4
      <4>. QED  BY <1>4, <3>2, <4>1
    <3>. QED  BY <3>3, <3>4
  <2>2. Sealed(o \o y)
    BY <1>2, <1>3
  <2>. HIDE DEF o, y
  <2>. QED  BY <1>3, <2>1, <2>2, SealedBehind
<1>6. AtLine(d, k) = w
  BY DEF AtLine
<1>7. e \in Dispatchers /\ e.i = k /\ e.buf = b /\ e.ls = d.ls /\ e.lastln = l
  BY <1>1 DEF Dispatchers
<1>. HIDE DEF e, o, y
<1>8. w.pc = "append" /\ w.i = k /\ w.buf = b /\ w.ls = q /\ w.lastln = l /\ w.data = o
  BY <1>2, <1>7 DEF Writing, Dispatchers
<1>. HIDE DEF w
<1>9. Behind(w, x) = y
  BY <1>8 DEF Behind, y
<1>10. Passed(w, k - 1)
  BY <1>4, <1>8 DEF Passed
<1>11. w.data = SubSeq(w.buf, w.lastln + 1, w.i)
  BY <1>8 DEF o
<1>12. f \o Text(w.data \o Behind(w, x)) = p
  BY <1>2, <1>3, <1>8, <1>9
<1>13. w.lastln < w.i /\ w.i <= Len(w.buf) /\ Passed(w, w.i - 1) /\ w.buf[w.i][1] = "nl"
  BY <1>1, <1>8, <1>10
<1>. QED  BY <1>5, <1>6, <1>8, <1>9, <1>11, <1>12, <1>13 DEF Flowing

LEMMA TabFlows ==
  ASSUME NEW d \in Dispatchers, NEW x \in Seq(Symbols), NEW q, NEW p, NEW f,
         d.pc = "scan", Flowing(q, p, f, d, x), NEW k \in 1..Len(d.buf), k > d.i, Scanned(d, k),
         d.buf[k][1] = "tab", lmap.stores = {q}
  PROVE  Flowing(q, p, f, AtTab(d, k), x)
<1>. DEFINE field == SubSeq(d.buf, d.lastTab + 1, k - 1)
            owner == {r \in lmap.stores : field = <<<<"id", r>>>>}
            h == IF d.tabs = 1 /\ owner # {} THEN CHOOSE r \in owner : TRUE ELSE d.ls
            w == AtTab(d, k)
<1>1. /\ d.lastln \in Nat /\ d.i \in Nat /\ Len(d.buf) \in Nat /\ k \in Nat
      /\ d.lastln <= d.i /\ d.i <= Len(d.buf) /\ k <= Len(d.buf)
  BY LenProperties DEF Dispatchers, Flowing
<1>2. Sealed(Rest(d, x)) /\ f \o Text(Rest(d, x)) = p /\ Passed(d, d.i) /\ d.ls = q
  BY DEF Flowing
<1>3. h = q
  <2>1. \A r \in owner : r = q
    OBVIOUS
  <2>. HIDE DEF owner
  <2>. QED  BY <1>2, <2>1
<1>4. w = [d EXCEPT !.i = k, !.tabs = @ + 1, !.lastTab = k, !.ls = h]
  BY DEF AtTab
<1>. HIDE DEF h, w
<1>5. w.pc = "scan" /\ w.ls = q /\ w.i = k /\ w.lastln = d.lastln /\ w.buf = d.buf
  BY <1>3, <1>4 DEF Dispatchers
<1>6. Rest(w, x) = Rest(d, x)
  BY <1>5 DEF Rest
<1>7. \A j \in (d.lastln + 1)..k : d.buf[j][1] \notin {"nl", "zero"}
  <2>. TAKE j \in (d.lastln + 1)..k
  <2>1. CASE j <= d.i
    BY <1>1, <1>2, <2>1 DEF Passed
  <2>2. CASE j = k
    BY <2>2
  <2>3. CASE ~(j <= d.i) /\ j # k
    <3>1. j \in (d.i + 1)..(k - 1)
      BY <1>1, <2>3
    <3>. QED  BY <3>1 DEF Scanned
  <2>. QED  BY <2>1, <2>2, <2>3
<1>8. Passed(w, w.i)
  BY <1>5, <1>7 DEF Passed
<1>9. w.lastln <= w.i /\ w.i <= Len(w.buf)
  BY <1>1, <1>5
<1>10. Flowing(q, p, f, w, x)
  BY <1>2, <1>5, <1>6, <1>8, <1>9 DEF Flowing
<1>. QED  BY <1>10 DEF w

\* The loop over the buffer is over.
LEMMA RestFlows ==
  ASSUME NEW d \in Dispatchers, NEW x \in Seq(Symbols), NEW q, NEW p, NEW f,
         d.pc = "scan", Flowing(q, p, f, d, x), NEW t, NEW g
  PROVE  Flowing(q, p, f, Reading(SubSeq(d.buf, d.lastln + 1, Len(d.buf)), t, g), x)
<1>. DEFINE b == SubSeq(d.buf, d.lastln + 1, Len(d.buf))
            e == Reading(b, t, g)
<1>1. Sealed(Rest(d, x)) /\ f \o Text(Rest(d, x)) = p
  BY DEF Flowing
<1>2. b \in Seq(Symbols) /\ Len(b) \in Nat
  <2>1. /\ d.buf \in Seq(Symbols) /\ d.lastln + 1 \in Nat \ {0} /\ Len(d.buf) \in Int
        /\ Len(d.buf) <= Len(d.buf)
    BY LenProperties DEF Dispatchers
  <2>2. b \in Seq(Symbols)
    BY <2>1, PieceFacts
  <2>. HIDE DEF b
  <2>. QED  BY <2>2, LenProperties
<1>3. b \o x = Rest(d, x)
  BY DEF Rest
<1>. HIDE DEF b
<1>4. e.pc = "read" /\ e.i = 0 /\ e.lastln = 0 /\ e.buf = b
  BY DEF Reading
<1>. HIDE DEF e
<1>5. Rest(e, x) = b \o x
  <2>1. SubSeq(b, 1, Len(b)) = b
    BY <1>2, SubSeqFull
  <2>2. 0 + 1 = 1
    OBVIOUS
  <2>. QED  BY <1>4, <2>1, <2>2 DEF Rest
<1>6. Passed(e, e.i)
  BY <1>4 DEF Passed
<1>7. Flowing(q, p, f, e, x)
  BY <1>1, <1>2, <1>3, <1>4, <1>5, <1>6 DEF Flowing
<1>. QED  BY <1>7 DEF e, b

LEMMA StayFlows ==
  ASSUME NEW d \in Dispatchers, NEW x \in Seq(Symbols), NEW q, NEW p, NEW f,
         d.pc = "scan", Flowing(q, p, f, d, x), d.lastln = 0, NEW t, NEW g
  PROVE  Flowing(q, p, f, Reading(d.buf, t, g), x)
<1>1. d.buf \in Seq(Symbols)
  BY DEF Dispatchers
<1>2. SubSeq(d.buf, 1, Len(d.buf)) = d.buf
  BY <1>1, SubSeqFull
<1>3. d.lastln + 1 = 1
  OBVIOUS
<1>4. SubSeq(d.buf, d.lastln + 1, Len(d.buf)) = d.buf
  BY <1>2, <1>3
<1>. QED  BY <1>4, RestFlows

\* A full buffer is written as a line; its newline is no text.
LEMMA FullFlows ==
  ASSUME NEW d \in Dispatchers, NEW x \in Seq(Symbols), NEW q, NEW p, NEW f,
         d.pc = "scan", Flowing(q, p, f, d, x), d.lastln = 0, Scanned(d, Len(d.buf) + 1),
         d.buf # << >>, ~store[q].closed, NEW whole,
         whole = [d EXCEPT !.i = Len(d.buf) + 1, !.buf = Append(@, <<"nl", Last(@)[2]>>)]
  PROVE  Flowing(q, p, f, Writing(whole, whole.buf, FALSE), x)
<1>. DEFINE b == d.buf
            n == Len(b)
            y == <<"nl", Last(b)[2]>>
            z == Append(b, y)
            w == Writing(whole, whole.buf, FALSE)
<1>1. /\ b \in Seq(Symbols) /\ n \in Nat /\ n # 0 /\ d.i \in Nat /\ d.lastln = 0
  BY LenProperties, EmptySeq DEF Dispatchers
<1>2. Sealed(Rest(d, x)) /\ f \o Text(Rest(d, x)) = p /\ Passed(d, d.i) /\ d.ls = q
  BY DEF Flowing
<1>3. Rest(d, x) = b \o x
  <2>1. SubSeq(b, 1, Len(b)) = b
    BY <1>1, SubSeqFull
  <2>2. 0 + 1 = 1
    OBVIOUS
  <2>. QED  BY <1>1, <2>1, <2>2 DEF Rest
<1>4. \A j \in 1..n : b[j][1] \notin {"nl", "zero"}
  <2>. TAKE j \in 1..n
  <2>1. CASE j <= d.i
    <3>1. j \in (d.lastln + 1)..d.i
      BY <1>1, <2>1
    <3>. QED  BY <1>2, <3>1 DEF Passed
  <2>2. CASE ~(j <= d.i)
    <3>1. j \in (d.i + 1)..((n + 1) - 1)
      BY <1>1, <2>2
    <3>. QED  BY <3>1 DEF Scanned
  <2>. QED  BY <2>1, <2>2
<1>5. Sealed(x)
  <2>1. Sealed(b \o x) /\ b \in Seq(Symbols) /\ \A j \in 1..Len(b) : b[j][1] # "zero"
    BY <1>1, <1>2, <1>3, <1>4
  <2>. HIDE DEF b
  <2>. QED  BY <2>1, SealedBehind
<1>6. y \in Symbols /\ y[1] = "nl"
  <2>1. Last(b) \in Symbols
    <3>1. n \in 1..n
      BY <1>1
    <3>. QED  BY <1>1, <3>1, ElementOfSeq DEF Last
  <2>. QED  BY <2>1 DEF Symbols
<1>. HIDE DEF y
<1>7. /\ z \in Seq(Symbols) /\ Len(z) = n + 1 /\ z[n + 1] = y /\ \A j \in 1..n : z[j] = b[j]
  <2>1. b \in Seq(Symbols)
    BY <1>1
  <2>. HIDE DEF b
  <2>2. /\ z \in Seq(Symbols) /\ Len(z) = Len(b) + 1 /\ z[Len(b) + 1] = y
        /\ \A j \in 1..Len(b) : z[j] = b[j]
    BY <1>6, <2>1, AppendProperties
  <2>. QED  BY <2>2
<1>8. Text(z \o x) = Text(b \o x)
  <2>. DEFINE o == <<y>>
  <2>1. o \in Seq(Symbols) /\ Len(o) = 1 /\ o[1] = y
    BY <1>6
  <2>2. z = b \o o
    <3>1. b \in Seq(Symbols)
      BY <1>1
    <3>. HIDE DEF b
    <3>. QED  BY <1>6, <3>1, AppendIsConcat
  <2>. HIDE DEF o, z
  <2>3. Text(o) = << >>
    BY <1>6, <2>1, TextFacts
  <2>4. /\ Text(b) \in Seq(Symbols) /\ Text(b \o o) = Text(b) \o Text(o)
    BY <1>1, <2>1, TextConcat
  <2>5. Text(b) \o << >> = Text(b)
    BY <2>4, ConcatEmptySeq
  <2>6. Text(z) = Text(b)
    BY <2>2, <2>3, <2>4, <2>5
  <2>7. Text(z \o x) = Text(z) \o Text(x)
    BY <1>7, TextConcat
  <2>8. Text(b \o x) = Text(b) \o Text(x)
    BY <1>1, TextConcat
  <2>. QED  BY <2>6, <2>7, <2>8
<1>. DEFINE m == n + 1
<1>9. m \in Nat /\ m > 0 /\ whole = [d EXCEPT !.i = m, !.buf = z]
  BY <1>1 DEF y
<1>. HIDE DEF z, m
<1>10. whole \in Dispatchers /\ whole.i = m /\ whole.buf = z /\ whole.ls = q /\ whole.lastln = 0
  BY <1>1, <1>2, <1>7, <1>9 DEF Dispatchers
<1>11. w.pc = "append" /\ w.i = m /\ w.buf = z /\ w.ls = q /\ w.lastln = 0 /\ w.data = z
  BY <1>10 DEF Writing, Dispatchers
<1>. HIDE DEF w
<1>12. SubSeq(z, 0 + 1, m) = z
  <2>1. SubSeq(z, 1, Len(z)) = z
    BY <1>7, SubSeqFull
  <2>2. 0 + 1 = 1 /\ m = Len(z)
    BY <1>7 DEF m
  <2>. QED  BY <2>1, <2>2
<1>13. Behind(w, x) = x
  <2>1. SubSeq(z, m + 1, Len(z)) = << >>
    <3>. DEFINE v == m + 1
                u == Len(z)
    <3>1. v \in Nat \ {0} /\ u \in Int /\ u <= Len(z) /\ ~(v <= u)
      <4>1. u = m
        BY <1>7 DEF m
      <4>. HIDE DEF u
      <4>2. u <= Len(z)
        BY <1>9, <4>1 DEF u
      <4>. QED  BY <1>9, <4>1, <4>2
    <3>. HIDE DEF u, v
    <3>2. SubSeq(z, v, u) \in Seq(Symbols) /\ Len(SubSeq(z, v, u)) = IF v <= u THEN u - v + 1 ELSE 0
      BY <1>7, <3>1, PieceFacts
    <3>3. SubSeq(z, v, u) = << >>
      BY <3>1, <3>2, EmptySeq
    <3>. QED  BY <3>3 DEF u, v
  <2>2. << >> \o x = x
    BY ConcatEmptySeq
  <2>. QED  BY <1>11, <2>1, <2>2 DEF Behind
<1>14. Passed(w, w.i - 1)
  <2>1. \A j \in (0 + 1)..(m - 1) : j \in 1..n
    BY <1>1 DEF m
  <2>2. \A j \in (0 + 1)..(m - 1) : z[j][1] \notin {"nl", "zero"}
    BY <1>4, <1>7, <2>1
  <2>. QED  BY <1>11, <2>2 DEF Passed
<1>15. w.lastln < w.i /\ w.i <= Len(w.buf) /\ w.buf[w.i][1] = "nl"
  <2>1. m = Len(z) /\ z[m][1] = "nl"
    BY <1>6, <1>7 DEF m
  <2>. QED  BY <1>9, <1>11, <2>1
<1>16. w.data = SubSeq(w.buf, w.lastln + 1, w.i)
  BY <1>11, <1>12
<1>17. Sealed(Behind(w, x)) /\ f \o Text(w.data \o Behind(w, x)) = p
  BY <1>2, <1>3, <1>5, <1>8, <1>11, <1>13
<1>18. Flowing(q, p, f, w, x)
  BY <1>11, <1>14, <1>15, <1>16, <1>17 DEF Flowing
<1>. QED  BY <1>18 DEF w

LEMMA TailFlows ==
  ASSUME NEW d \in Dispatchers, NEW x, NEW q, NEW p, NEW f, d.pc = "append", Flowing(q, p, f, d, x)
  PROVE  Flowing(q, p, f, [d EXCEPT !.pc = "file"], x)
<1>. DEFINE e == [d EXCEPT !.pc = "file"]
<1>1. e.pc = "file" /\ e.buf = d.buf /\ e.i = d.i /\ e.lastln = d.lastln /\ e.ls = d.ls /\ e.data = d.data
  BY DEF Dispatchers
<1>. HIDE DEF e
<1>2. Behind(e, x) = Behind(d, x) /\ (Passed(d, d.i - 1) => Passed(e, e.i - 1))
  BY <1>1 DEF Behind, Passed
<1>3. Flowing(q, p, f, e, x)
  BY <1>1, <1>2 DEF Flowing
<1>. QED  BY <1>3 DEF e

\* A line goes to the log.
LEMMA FileFlows ==
  ASSUME NEW d \in Dispatchers, NEW x \in Seq(Symbols), NEW q, NEW p, NEW f \in Seq(Symbols),
         d.pc = "file", Flowing(q, p, f, d, x)
  PROVE  /\ Line(d.data) /\ Written(d.data) = Len(d.data)
         /\ Flowing(q, p, f \o Text(d.data), Resume(d, Len(d.data)), x)
<1>. DEFINE b == d.buf
            l == d.lastln
            k == d.i
            o == d.data
            y == Behind(d, x)
            e == Resume(d, Len(o))
            h == f \o Text(o)
<1>1. /\ b \in Seq(Symbols) /\ l \in Nat /\ k \in Nat /\ Len(b) \in Nat /\ o \in Seq(Symbols)
      /\ l < k /\ k <= Len(b) /\ b[k][1] = "nl" /\ \A j \in (l + 1)..(k - 1) : b[j][1] \notin {"nl", "zero"}
      /\ o = SubSeq(b, l + 1, k) /\ Sealed(y) /\ f \o Text(o \o y) = p /\ d.ls = q
  BY LenProperties DEF Dispatchers, Flowing, Passed
<1>2. /\ y \in Seq(Symbols) /\ Len(o) = k - l /\ \A j \in 1..(k - l) : o[j] = b[l + j]
  <2>1. y = SubSeq(b, k + 1, Len(b)) \o x
    BY DEF Behind
  <2>2. l <= k /\ l \in Nat /\ k \in Nat /\ k <= Len(b) /\ b \in Seq(Symbols) /\ o = SubSeq(b, l + 1, k)
    BY <1>1
  <2>. HIDE DEF b, l, k, o, y
  <2>3. Splits(b, l, k, x)
    BY <2>2, RestSplits
  <2>. QED  BY <2>1, <2>2, <2>3, Zenon DEF Splits
<1>3. e = [d EXCEPT !.pc = "scan", !.lastln = d.i, !.tabs = 0, !.lastTab = 0, !.stale = FALSE]
  BY DEF Resume
<1>4. e.pc = "scan" /\ e.ls = q /\ e.lastln = k /\ e.i = k /\ e.buf = b
  BY <1>1, <1>3 DEF Dispatchers
<1>. HIDE DEF b, l, k, o, y, e
<1>5. Line(o)
  <2>1. k - l \in 1..(k - l) /\ l + (k - l) = k /\ Len(o) = k - l /\ k - l # 0
    BY <1>1, <1>2
  <2>2. o[Len(o)][1] = "nl" /\ o # << >>
    BY <1>1, <1>2, <2>1, EmptySeq
  <2>3. ASSUME NEW j \in 1..(Len(o) - 1) PROVE o[j][1] \notin {"nl", "zero"}
    <3>1. j \in 1..(k - l) /\ l + j \in (l + 1)..(k - 1)
      BY <1>1, <2>1
    <3>. QED  BY <1>1, <1>2, <3>1
  <2>. QED  BY <2>2, <2>3 DEF Line
<1>6. Written(o) = Len(o)
  BY <1>5 DEF Line, Written, Last
<1>7. Rest(e, x) = y
  BY <1>4 DEF Rest, Behind, y, b, k
<1>8. Passed(e, e.i)
  <2>1. \A j \in (k + 1)..k : FALSE
    BY <1>1
  <2>. QED  BY <1>4, <2>1 DEF Passed
<1>9. h \o Text(y) = p
  <2>1. Text(o) \in Seq(Symbols) /\ Text(y) \in Seq(Symbols) /\ Text(o \o y) = Text(o) \o Text(y)
    BY <1>1, <1>2, TextConcat
  <2>2. (f \o Text(o)) \o Text(y) = f \o (Text(o) \o Text(y))
    BY <2>1, Associative
  <2>. QED  BY <1>1, <2>1, <2>2
<1>. HIDE DEF h
<1>10. Flowing(q, p, h, e, x)
  BY <1>1, <1>4, <1>7, <1>8, <1>9 DEF Flowing
<1>. QED  BY <1>5, <1>6, <1>10 DEF h, e, o

-----------------------------------------------------------------------------
(* The log of a request and its streams *)

\* All of the output p is in the log f: the dispatcher d and the connection x have nothing left
\* of it, and no more of it will come.
Handled(q, p, f, c, d, x) ==
  /\ f = p
  /\ d.pc # "read" /\ d.ls = q =>
       d.pc = "scan" /\ d.zeros > 0 /\ d.lastln <= d.i /\ d.lastln = Len(d.buf)
  /\ c.pc # "done" => c.ran /\ x = << >> /\ d.lastln = Len(d.buf) /\ (d.pc # "read" => d.ls = q)

\* The output will come, or is on its way.
Pending(q, p, f, c, d, x) ==
  /\ c.pc \in {"start", "run", "report", "wait"}
  /\ ~c.ran => f = << >> /\ x = << >> /\ d.pc = "read" /\ d.buf = << >>
  /\ c.ran => Flowing(q, p, f, d, x)

Tracked(q, s) ==
  IF s \in store[q].done
  THEN Handled(q, PrintedBy(q, s), LoggedIn(store[q].file, s), call[q], disp[s], conn[s])
  ELSE Pending(q, PrintedBy(q, s), LoggedIn(store[q].file, s), call[q], disp[s], conn[s])

Watched(q) ==
  /\ mode = "common" /\ logType = "file"
  /\ store[q].clean /\ ~store[q].forced /\ store[q].capacity > 0

\* Nobody else will print.
Alone(q) == call[q].pc # "done" => \A r \in Requests \ {q} : call[r].pc = "new" \/ call[r].ran

CompleteInv ==
  /\ LineInv /\ CallInv
  /\ \A q \in Requests : Watched(q) => Alone(q) /\ \A s \in Streams : Tracked(q, s)

\* Capacity only shrinks, and a watched store was never forced.
LEMMA FileWriteFields ==
  ASSUME NEW st \in Stores, NEW q, NEW src, NEW data \in Seq(Symbols)
  PROVE  LET n == FileWrite(st, q, src, data)
         IN  /\ n.done = st.done /\ n.clean = st.clean /\ n.forced = st.forced
             /\ n.capacity > 0 => st.capacity > 0
             /\ n.file = IF ~st.open \/ st.capacity <= 0 THEN st.file
                         ELSE st.file \o Records(q, src, data)
<1>1. st.capacity \in Int
  BY DEF Stores
<1>2. Written(data) \in Nat
  <2>1. Len(data) \in Nat
    BY LenProperties
  <2>. QED  BY <2>1 DEF Written
<1>. DEFINE f == st.file \o Records(q, src, data)
            c == st.capacity - Written(data)
<1>3. c > 0 => st.capacity > 0
  BY <1>1, <1>2
<1>4. FileWrite(st, q, src, data) =
        IF ~st.open \/ st.capacity <= 0 THEN st ELSE [st EXCEPT !.file = f, !.capacity = c]
  BY DEF FileWrite
<1>. HIDE DEF f, c
<1>5. LET n == FileWrite(st, q, src, data)
      IN  /\ n.done = st.done /\ n.clean = st.clean /\ n.forced = st.forced
          /\ n.capacity > 0 => st.capacity > 0
          /\ n.file = IF ~st.open \/ st.capacity <= 0 THEN st.file ELSE f
  BY <1>3, <1>4 DEF Stores
<1>. QED  BY <1>5 DEF f

LEMMA FlagFields ==
  ASSUME NEW st \in Stores, NEW flags
  PROVE  LET n == setFlagLocked(st, flags)
         IN  /\ n.done = st.done \cup flags /\ n.clean = st.clean /\ n.forced = st.forced
             /\ n.capacity = st.capacity /\ n.file = st.file
BY DEF setFlagLocked, Stores

\* A dispatcher that has written everything goes back to the connection.
LEMMA HandledScan ==
  ASSUME LogInv, NEW s \in Streams, DispatcherStep(s), disp[s].pc = "scan", disp[s].zeros > 0,
         disp[s].lastln <= disp[s].i, disp[s].lastln = Len(disp[s].buf)
  PROVE  /\ disp'[s].pc = "read" /\ disp'[s].lastln = Len(disp'[s].buf)
         /\ UNCHANGED <<store, conn, call>>
<1>. DEFINE d == disp[s]
<1>1. /\ d \in Dispatchers /\ d.buf \in Seq(Symbols) /\ Len(d.buf) \in Nat /\ d.i \in Nat /\ d.lastln \in Nat
      /\ disp \in [Streams -> Dispatchers]
  BY LenProperties DEF LogInv, LogTypeOK, Dispatchers
<1>2. ScanEnds(s)
  <2>1. ~ \E k \in 1..Len(d.buf) : ScanTo(s, k)
    <3>. SUFFICES ASSUME NEW k \in 1..Len(d.buf), ScanTo(s, k) PROVE FALSE
      OBVIOUS
    <3>1. k > d.i
      BY DEF ScanTo
    <3>. QED  BY <1>1, <3>1
  <2>. QED  BY <2>1 DEF DispatcherStep, ReadConn, WriteEOF, WriteTail, WriteFile
<1>. DEFINE z == SubSeq(d.buf, d.lastln + 1, Len(d.buf))
            A == d.zeros > 0 \/ d.lastln > 0
            B == d.zeros = 0 /\ d.lastln = 0 /\ Len(d.buf) < BufferLength
            C == d.zeros = 0 /\ d.lastln = 0 /\ Len(d.buf) >= BufferLength
            u == Reading(z, 0, d.stale)
            whole == [d EXCEPT !.i = Len(d.buf) + 1, !.buf = Append(@, <<"nl", Last(@)[2]>>)]
            v == Reading(d.buf, d.tabs, d.stale)
            w == Writing(whole, whole.buf, FALSE)
            e == CASE A -> u [] B -> v [] C -> w
<1>3. disp' = [disp EXCEPT ![s] = e] /\ UNCHANGED <<store, conn, call>>
  BY <1>2 DEF ScanEnds
<1>4. A /\ ~B /\ ~C
  <2>1. d.zeros \in Nat
    BY <1>1 DEF Dispatchers
  <2>. QED  BY <2>1
<1>5. z = << >>
  <2>1. d.lastln + 1 \in Int /\ Len(d.buf) \in Int /\ Len(d.buf) < d.lastln + 1
    BY <1>1
  <2>. QED  BY <2>1, SubSeqEmpty
<1>6. u.pc = "read" /\ u.lastln = 0 /\ u.buf = << >> /\ Len(<< >>) = 0
  BY <1>5 DEF Reading
<1>. HIDE DEF A, B, C, u, v, w
<1>7. e = u
  BY <1>4
<1>. HIDE DEF e
<1>8. disp'[s] = u
  BY <1>1, <1>3, <1>7
<1>. QED  BY <1>3, <1>6, <1>8

\* Nothing more happens to what is handled.
LEMMA HandledStays ==
  ASSUME LogInv, CallInv, mode = "common", NEW q \in Requests, NEW s \in Streams, DispatcherStep(s),
         NEW p, NEW f, Handled(q, p, f, call[q], disp[s], conn[s])
  PROVE  /\ Handled(q, p, f, call[q], disp'[s], conn'[s])
         /\ store'[q] = store[q]
<1>. DEFINE d == disp[s]
<1>1. /\ \E e : /\ disp' = [disp EXCEPT ![s] = e] /\ Rested(e)
                /\ e.pc # "read" => \/ e.ls \in lmap.stores
                                    \/ disp[s].pc # "read" /\ e.ls = disp[s].ls
      /\ \A r \in Requests : \/ store'[r] = store[r]
                             \/ disp[s].pc # "read" /\ r = disp[s].ls /\ Touched(store'[r], store[r])
      /\ UNCHANGED <<mode, logType, lmap, call>>
  BY DispatcherGoes
<1>2. disp'[s].pc # "read" => disp'[s].ls \in lmap.stores \/ (d.pc # "read" /\ disp'[s].ls = d.ls)
  <2>1. disp \in [Streams -> Dispatchers]
    BY DEF LogInv, LogTypeOK
  <2>. QED  BY <1>1, <2>1
<1>3. CASE d.pc # "read" /\ d.ls = q
  <2>1. /\ disp'[s].pc = "read" /\ disp'[s].lastln = Len(disp'[s].buf)
        /\ UNCHANGED <<store, conn, call>>
    BY <1>3, HandledScan DEF Handled
  <2>. QED  BY <2>1 DEF Handled
<1>4. CASE ~(d.pc # "read" /\ d.ls = q)
  <2>1. store'[q] = store[q]
    BY <1>1, <1>4
  <2>2. CASE call[q].pc = "done"
    <3>1. q \notin lmap.stores
      BY <2>2 DEF CallInv, Serial, Idle
    <3>2. ~(disp'[s].pc # "read" /\ disp'[s].ls = q)
      BY <1>2, <1>4, <3>1
    <3>. QED  BY <2>1, <2>2, <3>2 DEF Handled
  <2>3. CASE call[q].pc # "done"
    <3>1. conn[s] = << >> /\ d.pc = "read"
      BY <1>4, <2>3 DEF Handled
    <3>2. PICK n \in 1..BufferLength : ReadConn(s, n)
      BY <3>1 DEF DispatcherStep, ScanTo, ScanEnds, WriteEOF, WriteTail, WriteFile
    <3>3. n <= Len(conn[s]) /\ Len(conn[s]) = 0 /\ n >= 1
      BY <3>1, <3>2, RequestLogAssumption DEF ReadConn
    <3>. QED  BY <3>3
  <2>. QED  BY <2>2, <2>3
<1>. QED  BY <1>3, <1>4

\* What is on its way comes nearer to the log, or the end marker ends it.
LEMMA PendingStays ==
  ASSUME LogInv, CallInv, mode = "common", logType = "file", NEW q \in Requests, NEW s \in Streams,
         DispatcherStep(s), store'[q].capacity > 0, s \notin store[q].done, NEW p,
         Pending(q, p, LoggedIn(store[q].file, s), call[q], disp[s], conn[s])
  PROVE  /\ IF s \in store'[q].done
            THEN Handled(q, p, LoggedIn(store'[q].file, s), call[q], disp'[s], conn'[s])
            ELSE Pending(q, p, LoggedIn(store'[q].file, s), call[q], disp'[s], conn'[s])
         /\ \A t \in Streams \ {s} : /\ LoggedIn(store'[q].file, t) = LoggedIn(store[q].file, t)
                                     /\ t \in store'[q].done <=> t \in store[q].done
<1>. DEFINE d == disp[s]
            x == conn[s]
            st == store[q]
            f == LoggedIn(st.file, s)
            Goal == /\ IF s \in store'[q].done
                       THEN Handled(q, p, LoggedIn(store'[q].file, s), call[q], disp'[s], conn'[s])
                       ELSE Pending(q, p, LoggedIn(store'[q].file, s), call[q], disp'[s], conn'[s])
                    /\ \A t \in Streams \ {s} : /\ LoggedIn(store'[q].file, t) = LoggedIn(store[q].file, t)
                                                /\ t \in store'[q].done <=> t \in store[q].done
<1>. SUFFICES Goal
  OBVIOUS
<1>1. /\ d \in Dispatchers /\ x \in Seq(Symbols) /\ st \in Stores /\ disp \in [Streams -> Dispatchers]
      /\ conn \in [Streams -> Seq(Symbols)] /\ store \in [Requests -> Stores]
      /\ st.file \in Seq(LogLines) /\ Rested(d)
  BY StoresDef DEF LogInv, LogTypeOK, CallInv
<1>2. f \in Seq(Symbols)
  BY <1>1, LoggedConcat
<1>3. call[q].pc \in {"start", "run", "report", "wait"}
  BY DEF Pending
<1>4. /\ lmap = [last |-> q, stores |-> {q}] /\ lmap.stores = {q} /\ LastStore = q /\ q # NoRequest
      /\ st.open /\ ~st.closed
  <2>1. lmap = [last |-> q, stores |-> {q}]
    BY <1>3 DEF CallInv, Serial, Idle
  <2>2. st.open /\ ~st.closed
    BY <1>3 DEF CallInv, Filed, Idle
  <2>3. q # NoRequest
    BY RequestLogAssumption
  <2>. QED  BY <2>1, <2>2, <2>3 DEF LastStore
<1>5. call[q].ran
  <2>. SUFFICES ASSUME ~call[q].ran PROVE FALSE
    OBVIOUS
  <2>1. x = << >> /\ d.pc = "read"
    BY DEF Pending
  <2>2. PICK n \in 1..BufferLength : ReadConn(s, n)
    BY <2>1 DEF DispatcherStep, ScanTo, ScanEnds, WriteEOF, WriteTail, WriteFile
  <2>3. n <= Len(x) /\ Len(x) = 0 /\ n >= 1
    BY <2>1, <2>2, RequestLogAssumption DEF ReadConn
  <2>. QED  BY <2>3
<1>6. Flowing(q, p, f, d, x) /\ (d.pc # "read" => d.ls = q)
  BY <1>5 DEF Pending, Flowing
<1>7. ASSUME store'[q].file = st.file, store'[q].done = st.done, Flowing(q, p, f, disp'[s], conn'[s])
      PROVE  Goal
  BY <1>3, <1>5, <1>7 DEF Pending
<1>8. ASSUME NEW n \in 1..BufferLength, ReadConn(s, n) PROVE Goal
  <2>. DEFINE e == [Reading(d.buf \o SubSeq(x, 1, n), d.tabs, d.stale \/ d.tabs # 0)
                      EXCEPT !.pc = "scan", !.ls = q]
              y == SubSeq(x, n + 1, Len(x))
  <2>1. /\ d.pc = "read" /\ n <= Len(x) /\ conn' = [conn EXCEPT ![s] = y]
        /\ disp' = [disp EXCEPT ![s] = e] /\ UNCHANGED store
    BY <1>4, <1>8 DEF ReadConn
  <2>2. n \in Nat
    BY RequestLogAssumption
  <2>3. Flowing(q, p, f, e, y)
    <3>. HIDE DEF d, x, f
    <3>. QED  BY <1>1, <1>6, <2>1, <2>2, ReadFlows
  <2>. HIDE DEF e, y, Goal
  <2>4. disp'[s] = e /\ conn'[s] = y
    BY <1>1, <2>1
  <2>. QED  BY <1>7, <2>1, <2>3, <2>4
<1>9. ASSUME NEW k \in 1..Len(disp[s].buf), ScanTo(s, k) PROVE Goal
  <2>1. /\ d.pc = "scan" /\ k > d.i /\ Scanned(d, k) /\ d.buf[k][1] \in {"zero", "nl", "tab"}
        /\ disp' = [disp EXCEPT ![s] = CASE d.buf[k][1] = "zero" -> AtZero(d, k)
                                         [] d.buf[k][1] = "nl" -> AtLine(d, k)
                                         [] d.buf[k][1] = "tab" -> AtTab(d, k)]
        /\ UNCHANGED <<store, conn>> /\ k \in 1..Len(d.buf)
    BY <1>9 DEF ScanTo, Scanned
  <2>2. ~store[q].closed /\ conn'[s] = x
    BY <1>4, <2>1
  <2>. HIDE DEF d, x, f, Goal
  <2>3. CASE d.buf[k][1] = "zero"
    <3>1. disp'[s] = AtZero(d, k)
      BY <1>1, <2>1, <2>3
    <3>2. Flowing(q, p, f, AtZero(d, k), x)
      BY <1>1, <1>2, <1>6, <2>1, <2>2, <2>3, ZeroFlows
    <3>. QED  BY <1>7, <2>1, <2>2, <3>1, <3>2
  <2>4. CASE d.buf[k][1] = "nl"
    <3>1. disp'[s] = AtLine(d, k)
      BY <1>1, <2>1, <2>4
    <3>2. Flowing(q, p, f, AtLine(d, k), x)
      BY <1>1, <1>6, <2>1, <2>2, <2>4, LineFlows
    <3>. QED  BY <1>7, <2>1, <2>2, <3>1, <3>2
  <2>5. CASE d.buf[k][1] = "tab"
    <3>1. disp'[s] = AtTab(d, k)
      BY <1>1, <2>1, <2>5
    <3>2. Flowing(q, p, f, AtTab(d, k), x)
      BY <1>1, <1>4, <1>6, <2>1, <2>5, TabFlows
    <3>. QED  BY <1>7, <2>1, <2>2, <3>1, <3>2
  <2>. QED  BY <2>1, <2>3, <2>4, <2>5
<1>10. CASE ScanEnds(s)
  <2>. DEFINE z == SubSeq(d.buf, d.lastln + 1, Len(d.buf))
              A == d.zeros > 0 \/ d.lastln > 0
              B == d.zeros = 0 /\ d.lastln = 0 /\ Len(d.buf) < BufferLength
              C == d.zeros = 0 /\ d.lastln = 0 /\ Len(d.buf) >= BufferLength
              u == Reading(z, 0, d.stale)
              whole == [d EXCEPT !.i = Len(d.buf) + 1, !.buf = Append(@, <<"nl", Last(@)[2]>>)]
              v == Reading(d.buf, d.tabs, d.stale)
              w == Writing(whole, whole.buf, FALSE)
              e == CASE A -> u [] B -> v [] C -> w
  <2>1. /\ d.pc = "scan" /\ disp' = [disp EXCEPT ![s] = e] /\ UNCHANGED <<store, conn>>
        /\ \A j \in (d.i + 1)..Len(d.buf) : d.buf[j][1] \notin {"zero", "nl", "tab"}
    BY <1>10 DEF ScanEnds
  <2>2. /\ d.zeros \in Nat /\ d.lastln \in Nat /\ d.buf \in Seq(Symbols) /\ Len(d.buf) \in Nat
        /\ BufferLength \in Nat \ {0} /\ d.i \in Nat
    BY <1>1, LenProperties, RequestLogAssumption DEF Dispatchers
  <2>3. Scanned(d, Len(d.buf) + 1)
    <3>1. (Len(d.buf) + 1) - 1 = Len(d.buf)
      BY <2>2
    <3>. QED  BY <2>1, <3>1 DEF Scanned
  <2>4. Flowing(q, p, f, u, x)
    <3>. HIDE DEF d, x, f
    <3>. QED  BY <1>1, <1>6, <2>1, RestFlows
  <2>5. B => Flowing(q, p, f, v, x)
    <3>. HIDE DEF d, x, f
    <3>. QED  BY <1>1, <1>6, <2>1, StayFlows
  <2>6. C => Flowing(q, p, f, w, x)
    <3>. SUFFICES ASSUME C PROVE Flowing(q, p, f, w, x)
      OBVIOUS
    <3>1. d.buf # << >> /\ d.lastln = 0
      BY <2>2, EmptySeq
    <3>. DEFINE wh == [d EXCEPT !.i = Len(d.buf) + 1, !.buf = Append(@, <<"nl", Last(@)[2]>>)]
    <3>2. PICK g : g = wh
      OBVIOUS
    <3>3. Flowing(q, p, f, Writing(g, g.buf, FALSE), x)
      <4>. HIDE DEF d, x, f
      <4>. QED  BY <1>1, <1>4, <1>6, <2>1, <2>3, <3>1, <3>2, FullFlows DEF st
    <3>. QED  BY <3>2, <3>3
  <2>7. (A \/ B \/ C) /\ ~(A /\ B) /\ ~(A /\ C) /\ ~(B /\ C)
    BY <2>2
  <2>. HIDE DEF A, B, C, u, v, w, d, x, f, Goal
  <2>8. e = u \/ (e = v /\ B) \/ (e = w /\ C)
    BY <2>7
  <2>. HIDE DEF e
  <2>9. Flowing(q, p, f, e, x)
    BY <2>4, <2>5, <2>6, <2>8
  <2>10. disp'[s] = e /\ conn'[s] = x /\ store'[q] = st
    BY <1>1, <2>1 DEF x, st
  <2>. QED  BY <1>7, <2>9, <2>10
<1>11. CASE WriteEOF(s)
  <2>. DEFINE n == setFlagLocked(st, {s})
              e == Resume(d, 0)
  <2>1. d.pc = "eof" /\ d.ls = q
    BY <1>6, <1>11 DEF WriteEOF
  <2>2. /\ d.data = << >> /\ x = << >> /\ d.i = d.lastln /\ d.lastln = Len(d.buf) /\ d.zeros > 0 /\ f = p
    BY <1>6, <2>1 DEF Flowing
  <2>3. store' = [store EXCEPT ![q] = n] /\ disp' = [disp EXCEPT ![s] = e] /\ UNCHANGED conn
    BY <1>11, <2>1, <2>2 DEF WriteEOF
  <2>4. e.pc = "scan" /\ e.zeros = d.zeros /\ e.lastln = d.i /\ e.i = d.i /\ e.buf = d.buf /\ e.ls = d.ls
    <3>1. Len(d.data) = 0
      BY <2>2
    <3>. QED  BY <1>1, <3>1 DEF Resume, Dispatchers
  <2>5. n.done = st.done \cup {s} /\ n.file = st.file
    BY <1>1, FlagFields
  <2>. HIDE DEF n, e
  <2>6. store'[q] = n /\ disp'[s] = e /\ conn'[s] = x
    BY <1>1, <2>3
  <2>7. d.i <= d.i
    BY <1>1 DEF Dispatchers
  <2>8. Handled(q, p, f, call[q], e, x)
    BY <1>5, <2>1, <2>2, <2>4, <2>7 DEF Handled
  <2>. QED  BY <2>5, <2>6, <2>8
<1>12. CASE WriteTail(s)
  <2>. DEFINE n == [st EXCEPT !.remain = @ - Len(Appended(st, d.data, FALSE))]
              e == [d EXCEPT !.pc = "file"]
  <2>1. d.pc = "append" /\ d.ls = q
    BY <1>6, <1>12 DEF WriteTail
  <2>2. store' = [store EXCEPT ![q] = n] /\ disp' = [disp EXCEPT ![s] = e] /\ UNCHANGED conn
    BY <1>12, <2>1 DEF WriteTail, appendLogbuf
  <2>3. n.done = st.done /\ n.file = st.file
    BY <1>1 DEF Stores
  <2>4. Flowing(q, p, f, e, x)
    <3>. HIDE DEF d, x, f
    <3>. QED  BY <1>1, <1>6, <2>1, TailFlows
  <2>. HIDE DEF n, e, Goal
  <2>5. store'[q] = n /\ disp'[s] = e /\ conn'[s] = x
    BY <1>1, <2>2
  <2>. QED  BY <1>7, <2>3, <2>4, <2>5
<1>13. CASE WriteFile(s)
  <2>. DEFINE o == d.data
              n == FileWrite(st, q, s, o)
              rs == Records(q, s, o)
              e == Resume(d, Len(o))
  <2>1. d.pc = "file" /\ d.ls = q
    BY <1>6, <1>13 DEF WriteFile
  <2>2. /\ Line(o) /\ Written(o) = Len(o) /\ Flowing(q, p, f \o Text(o), e, x)
    <3>. HIDE DEF d, x, f
    <3>. QED  BY <1>1, <1>2, <1>6, <2>1, FileFlows
  <2>3. store' = [store EXCEPT ![q] = n] /\ disp' = [disp EXCEPT ![s] = e] /\ UNCHANGED conn
    BY <1>13, <2>1, <2>2 DEF WriteFile
  <2>4. o \in Seq(Symbols)
    BY <1>1 DEF Dispatchers
  <2>. HIDE DEF e, n, o
  <2>5. store'[q] = n /\ disp'[s] = e /\ conn'[s] = x
    BY <1>1, <2>3
  <2>6. n.done = st.done /\ n.file = st.file \o rs
    <3>1. /\ n.done = st.done /\ (n.capacity > 0 => st.capacity > 0)
          /\ n.file = IF ~st.open \/ st.capacity <= 0 THEN st.file ELSE st.file \o rs
      BY <1>1, <2>4, FileWriteFields DEF n
    <3>2. st.capacity \in Int /\ n.capacity > 0
      BY <1>1, <2>5 DEF Stores
    <3>. QED  BY <1>4, <3>1, <3>2
  <2>7. LoggedIn(n.file, s) = f \o Text(o)
    <3>1. LoggedIn(st.file \o Records(q, s, o), s) = LoggedIn(st.file, s) \o Text(o)
      BY <1>1, <2>2, <2>4, LineRecords
    <3>. QED  BY <2>6, <3>1
  <2>8. ASSUME NEW t \in Streams \ {s} PROVE LoggedIn(n.file, t) = LoggedIn(st.file, t)
    <3>1. LoggedIn(st.file \o Records(q, s, o), t) = LoggedIn(st.file, t)
      <4>1. s \in Streams \cup {"faas"} /\ t # s
        OBVIOUS
      <4>. QED  BY <1>1, <2>4, <4>1, OtherRecords
    <3>. QED  BY <2>6, <3>1
  <2>9. Pending(q, p, LoggedIn(n.file, s), call[q], e, x)
    BY <1>3, <1>5, <2>2, <2>7 DEF Pending
  <2>. QED  BY <2>5, <2>6, <2>8, <2>9
<1>. HIDE DEF Goal
<1>. QED  BY <1>8, <1>9, <1>10, <1>11, <1>12, <1>13 DEF DispatcherStep

\* What a step leaves alone.
LEMMA TrackedStays ==
  ASSUME NEW q \in Requests, NEW s \in Streams, Tracked(q, s), mode' = mode,
         s \in store'[q].done <=> s \in store[q].done,
         LoggedIn(store'[q].file, s) = LoggedIn(store[q].file, s),
         call'[q] = call[q], disp'[s] = disp[s], conn'[s] = conn[s]
  PROVE  Tracked(q, s)'
<1>1. PrintedBy(q, s)' = PrintedBy(q, s)
  BY DEF PrintedBy
<1>. QED  BY <1>1 DEF Tracked

LEMMA StoreShrinks ==
  ASSUME LogInv, NEW s \in Streams, DispatcherStep(s), NEW q \in Requests
  PROVE  /\ store'[q].clean = store[q].clean /\ store'[q].forced = store[q].forced
         /\ store'[q].capacity > 0 => store[q].capacity > 0
<1>. DEFINE d == disp[s]
            st == store[d.ls]
            Shrunk(n) == /\ n.clean = st.clean /\ n.forced = st.forced
                         /\ n.capacity > 0 => st.capacity > 0
<1>1. store \in [Requests -> Stores]
  BY DEF LogInv, LogTypeOK
<1>2. \/ store' = store
      \/ d.pc # "read" /\ \E n : Shrunk(n) /\ store' = [store EXCEPT ![d.ls] = n]
  <2>1. CASE WriteEOF(s)
    <3>. DEFINE n == setFlagLocked(st, {s})
    <3>1. d.pc = "eof" /\ store' = [store EXCEPT ![d.ls] = n]
      BY <2>1 DEF WriteEOF
    <3>2. st \in Stores
      BY <3>1, WriterFacts
    <3>3. Shrunk(n)
      BY <3>2, FlagFields
    <3>. HIDE DEF n, Shrunk
    <3>. QED  BY <3>1, <3>3
  <2>2. CASE WriteTail(s)
    <3>. DEFINE n == [st EXCEPT !.remain = @ - Len(Appended(st, d.data, FALSE))]
    <3>1. d.pc = "append" /\ store' = [store EXCEPT ![d.ls] = n]
      BY <2>2 DEF WriteTail, appendLogbuf
    <3>2. st \in Stores
      BY <3>1, WriterFacts
    <3>3. Shrunk(n)
      BY <3>2 DEF Stores
    <3>. HIDE DEF n, Shrunk
    <3>. QED  BY <3>1, <3>3
  <2>3. CASE WriteFile(s)
    <3>. DEFINE n == FileWrite(st, d.ls, s, d.data)
    <3>1. d.pc = "file" /\ store' = [store EXCEPT ![d.ls] = n]
      BY <2>3 DEF WriteFile
    <3>2. st \in Stores /\ d.data \in Seq(Symbols)
      BY <3>1, WriterFacts
    <3>3. Shrunk(n)
      BY <3>2, FileWriteFields
    <3>. HIDE DEF n, Shrunk
    <3>. QED  BY <3>1, <3>3
  <2>4. CASE ~WriteEOF(s) /\ ~WriteTail(s) /\ ~WriteFile(s)
    BY <2>4 DEF DispatcherStep, ReadConn, ScanTo, ScanEnds
  <2>. QED  BY <2>1, <2>2, <2>3, <2>4
<1>3. CASE store' = store
  BY <1>3
<1>4. ASSUME NEW n, Shrunk(n), store' = [store EXCEPT ![d.ls] = n], d.pc # "read"
      PROVE  /\ store'[q].clean = store[q].clean /\ store'[q].forced = store[q].forced
             /\ store'[q].capacity > 0 => store[q].capacity > 0
  <2>1. CASE q = d.ls
    BY <1>1, <1>4, <2>1
  <2>2. CASE q # d.ls
    BY <1>1, <1>4, <2>2
  <2>. QED  BY <2>1, <2>2
<1>. HIDE DEF Shrunk
<1>. QED  BY <1>2, <1>3, <1>4

\* Steps of the dispatchers.
LEMMA DispatcherCompletes ==
  ASSUME CompleteInv, LineInv', CallInv', NEW s \in Streams, DispatcherStep(s)
  PROVE  CompleteInv'
<1>1. LogInv /\ CallInv
  BY DEF CompleteInv, LineInv
<1>2. /\ \E e : disp' = [disp EXCEPT ![s] = e]
      /\ UNCHANGED <<mode, logType, lmap, call>>
  BY <1>1, DispatcherGoes
<1>3. disp \in [Streams -> Dispatchers] /\ conn \in [Streams -> Seq(Symbols)]
  BY <1>1 DEF LogInv, LogTypeOK
<1>4. \A t \in Streams \ {s} : disp'[t] = disp[t] /\ conn'[t] = conn[t]
  <2>1. conn' = conn \/ \E y : conn' = [conn EXCEPT ![s] = y]
    BY DEF DispatcherStep, ReadConn, ScanTo, ScanEnds, WriteEOF, WriteTail, WriteFile
  <2>. QED  BY <1>2, <1>3, <2>1
<1>5. ASSUME NEW q \in Requests, Watched(q)' PROVE Alone(q)' /\ \A t \in Streams : Tracked(q, t)'
  <2>1. Watched(q) /\ store'[q].capacity > 0 /\ mode = "common" /\ logType = "file"
    <3>1. /\ store'[q].clean = store[q].clean /\ store'[q].forced = store[q].forced
          /\ store'[q].capacity > 0 => store[q].capacity > 0
      BY <1>1, StoreShrinks
    <3>. QED  BY <1>2, <1>5, <3>1 DEF Watched
  <2>2. Alone(q) /\ \A t \in Streams : Tracked(q, t)
    BY <2>1 DEF CompleteInv
  <2>3. Alone(q)'
    BY <1>2, <2>2 DEF Alone
  <2>. DEFINE p == PrintedBy(q, s)
  <2>4. p' = p
    BY <1>2 DEF PrintedBy
  <2>5. CASE s \in store[q].done
    <3>1. Handled(q, p, LoggedIn(store[q].file, s), call[q], disp[s], conn[s])
      BY <2>2, <2>5 DEF Tracked
    <3>2. /\ Handled(q, p, LoggedIn(store[q].file, s), call[q], disp'[s], conn'[s])
          /\ store'[q] = store[q]
      BY <1>1, <2>1, <3>1, HandledStays
    <3>3. Tracked(q, s)'
      BY <1>2, <2>4, <2>5, <3>2 DEF Tracked
    <3>4. ASSUME NEW t \in Streams \ {s} PROVE Tracked(q, t)'
      BY <1>2, <1>4, <2>2, <3>2, TrackedStays
    <3>. QED  BY <2>3, <3>3, <3>4
  <2>6. CASE s \notin store[q].done
    <3>1. Pending(q, p, LoggedIn(store[q].file, s), call[q], disp[s], conn[s])
      BY <2>2, <2>6 DEF Tracked
    <3>2. /\ IF s \in store'[q].done
             THEN Handled(q, p, LoggedIn(store'[q].file, s), call[q], disp'[s], conn'[s])
             ELSE Pending(q, p, LoggedIn(store'[q].file, s), call[q], disp'[s], conn'[s])
          /\ \A t \in Streams \ {s} : /\ LoggedIn(store'[q].file, t) = LoggedIn(store[q].file, t)
                                      /\ t \in store'[q].done <=> t \in store[q].done
      <4>. HIDE DEF p
      <4>. QED  BY <1>1, <2>1, <2>6, <3>1, PendingStays
    <3>3. Tracked(q, s)'
      BY <1>2, <2>4, <3>2 DEF Tracked
    <3>4. ASSUME NEW t \in Streams \ {s} PROVE Tracked(q, t)'
      BY <1>2, <1>4, <2>2, <3>2, TrackedStays
    <3>. QED  BY <2>3, <3>3, <3>4
  <2>. QED  BY <2>5, <2>6
<1>. QED  BY <1>5 DEF CompleteInv

\* Steps of a request that is neither started nor printing. Its flags are set only when they
\* were set, and only the controller's own lines are added to its file.
LEMMA RequestCompletes ==
  ASSUME CompleteInv, LineInv', CallInv', NEW q \in Requests, NEW n, NEW e,
         store' = [store EXCEPT ![q] = n], call' = [call EXCEPT ![q] = e],
         UNCHANGED <<mode, logType, disp, conn>>,
         e.ran = call[q].ran, call[q].pc # "done" \/ e.pc = "done", call[q].pc # "new",
         n.clean = store[q].clean, n.forced \/ ~store[q].forced,
         n.capacity > 0 => store[q].capacity > 0,
         mode = "common" /\ logType = "file" /\ ~n.forced =>
            /\ n.done = store[q].done
            /\ e.pc \in {"start", "run", "report", "wait"} \/ store[q].done = Streams
               \/ call[q].pc \notin {"start", "run", "report", "wait"},
         \A s \in Streams : LoggedIn(n.file, s) = LoggedIn(store[q].file, s)
  PROVE  CompleteInv'
<1>1. /\ store \in [Requests -> Stores] /\ call \in [Requests -> Calls]
      /\ CallInv /\ \A r \in Requests : call[r].pc # "new" \/ store[r] = NoStore
  BY DEF CompleteInv, LineInv, LogInv, LogTypeOK, Calls, CallInv, Filed
<1>2. store'[q] = n /\ call'[q] = e /\ \A r \in Requests \ {q} : store'[r] = store[r] /\ call'[r] = call[r]
  BY <1>1
<1>3. \A r, s : PrintedBy(r, s)' = PrintedBy(r, s)
  BY DEF PrintedBy
<1>4. ASSUME NEW r \in Requests, Watched(r)' PROVE Alone(r)' /\ \A s \in Streams : Tracked(r, s)'
  <2>1. CASE r = q
    <3>1. Watched(q) /\ mode = "common" /\ logType = "file" /\ ~n.forced
      BY <1>2, <1>4, <2>1 DEF Watched
    <3>2. Alone(q) /\ \A s \in Streams : Tracked(q, s)
      BY <3>1 DEF CompleteInv
    <3>3. Alone(q)'
      BY <1>2, <3>2 DEF Alone
    <3>4. ASSUME NEW s \in Streams PROVE Tracked(q, s)'
      <4>. DEFINE p == PrintedBy(q, s)
                  f == LoggedIn(store[q].file, s)
      <4>1. n.done = store[q].done /\ LoggedIn(n.file, s) = f
        BY <3>1
      <4>2. CASE s \in store[q].done
        <5>1. Handled(q, p, f, call[q], disp[s], conn[s])
          BY <3>2, <4>2 DEF Tracked
        <5>2. Handled(q, p, f, e, disp[s], conn[s])
          BY <5>1 DEF Handled
        <5>. QED  BY <1>2, <1>3, <4>1, <4>2, <5>2 DEF Tracked
      <4>3. CASE s \notin store[q].done
        <5>1. Pending(q, p, f, call[q], disp[s], conn[s])
          BY <3>2, <4>3 DEF Tracked
        <5>2. e.pc \in {"start", "run", "report", "wait"}
          BY <3>1, <4>3, <5>1 DEF Pending
        <5>3. Pending(q, p, f, e, disp[s], conn[s])
          BY <5>1, <5>2 DEF Pending
        <5>. QED  BY <1>2, <1>3, <4>1, <4>3, <5>3 DEF Tracked
      <4>. QED  BY <4>2, <4>3
    <3>. QED  BY <2>1, <3>3, <3>4
  <2>2. CASE r # q
    <3>1. Watched(r) /\ store'[r] = store[r] /\ call'[r] = call[r]
      BY <1>2, <1>4, <2>2 DEF Watched
    <3>2. Alone(r) /\ \A s \in Streams : Tracked(r, s)
      BY <3>1 DEF CompleteInv
    <3>3. Alone(r)'
      <4>1. \A t \in Requests : (call[t].pc = "new" \/ call[t].ran) => (call'[t].pc = "new" \/ call'[t].ran)
        BY <1>2
      <4>. QED  BY <3>1, <3>2, <4>1 DEF Alone
    <3>4. \A s \in Streams : Tracked(r, s)'
      BY <3>1, <3>2, TrackedStays
    <3>. QED  BY <3>3, <3>4
  <2>. QED  BY <2>1, <2>2
<1>. QED  BY <1>4 DEF CompleteInv

\* A request writes a line of the controller, which is in no stream of the process.
LEMMA FunctionLogFields ==
  ASSUME LogInv, NEW q \in Requests, NEW data \in Seq(Symbols), WriteFunctionLog(q, data)
  PROVE  \E n : /\ store' = [store EXCEPT ![q] = n] /\ n.done = store[q].done
                /\ n.clean = store[q].clean /\ n.forced = store[q].forced
                /\ n.capacity > 0 => store[q].capacity > 0
                /\ \A s \in Streams : LoggedIn(n.file, s) = LoggedIn(store[q].file, s)
<1>. DEFINE st == store[q]
            k == st.remain - Len(Appended(st, data, TRUE))
            m == [st EXCEPT !.remain = k]
            n == FileWrite(m, q, "faas", data)
<1>1. st \in Stores
  BY DEF LogInv, LogTypeOK
<1>2. store' = [store EXCEPT ![q] = n]
  BY DEF WriteFunctionLog
<1>3. k \in Int
  <2>1. Appended(st, data, TRUE) \in Seq(Symbols)
    BY <1>1, AppendedFacts
  <2>. DEFINE l == Len(Appended(st, data, TRUE))
  <2>2. st.remain \in Int /\ l \in Nat
    BY <1>1, <2>1, LenProperties DEF Stores
  <2>. HIDE DEF l, st
  <2>3. st.remain - l \in Int
    BY <2>2
  <2>. QED  BY <2>3 DEF l
<1>. HIDE DEF k
<1>4. /\ m \in Stores /\ m.done = st.done /\ m.clean = st.clean /\ m.forced = st.forced
      /\ m.capacity = st.capacity /\ m.file = st.file
  BY <1>1, <1>3 DEF Stores
<1>. HIDE DEF m
<1>5. /\ n.done = st.done /\ n.clean = st.clean /\ n.forced = st.forced
      /\ n.capacity > 0 => st.capacity > 0
      /\ n.file = st.file \/ n.file = st.file \o Records(q, "faas", data)
  <2>. HIDE DEF st
  <2>1. /\ n.done = m.done /\ n.clean = m.clean /\ n.forced = m.forced
        /\ n.capacity > 0 => m.capacity > 0
        /\ n.file = IF ~m.open \/ m.capacity <= 0 THEN m.file
                    ELSE m.file \o Records(q, "faas", data)
    BY <1>4, FileWriteFields
  <2>. HIDE DEF n
  <2>. QED  BY <1>4, <2>1
<1>6. ASSUME NEW s \in Streams PROVE LoggedIn(n.file, s) = LoggedIn(st.file, s)
  <2>1. s # "faas" /\ st.file \in Seq(LogLines) /\ "faas" \in Streams \cup {"faas"}
    BY <1>1, RequestLogAssumption DEF Stores, LogLines
  <2>2. LoggedIn(st.file \o Records(q, "faas", data), s) = LoggedIn(st.file, s)
    BY <2>1, OtherRecords
  <2>. QED  BY <1>5, <2>2
<1>. HIDE DEF n
<1>. QED  BY <1>2, <1>5, <1>6

\* A call goes from c to e and its store from st to n.
Steady(c, e, st, n) ==
  /\ e.ran = c.ran /\ c.pc # "new" /\ (c.pc # "done" \/ e.pc = "done")
  /\ n.clean = st.clean /\ (n.forced \/ ~st.forced) /\ (n.capacity > 0 => st.capacity > 0)
  /\ mode = "common" /\ logType = "file" /\ ~n.forced =>
       /\ n.done = st.done
       /\ \/ e.pc \in {"start", "run", "report", "wait"} \/ st.done = Streams
          \/ c.pc \notin {"start", "run", "report", "wait"}
  /\ \A s \in Streams : LoggedIn(n.file, s) = LoggedIn(st.file, s)

LEMMA SteadyCompletes ==
  ASSUME CompleteInv, LineInv', CallInv', NEW q \in Requests, NEW n, NEW e,
         store' = [store EXCEPT ![q] = n], call' = [call EXCEPT ![q] = e],
         UNCHANGED <<mode, logType, disp, conn>>, Steady(call[q], e, store[q], n)
  PROVE  CompleteInv'
<1>1. /\ e.ran = call[q].ran /\ call[q].pc # "new" /\ (call[q].pc # "done" \/ e.pc = "done")
      /\ n.clean = store[q].clean /\ (n.forced \/ ~store[q].forced)
      /\ n.capacity > 0 => store[q].capacity > 0
      /\ mode = "common" /\ logType = "file" /\ ~n.forced =>
           /\ n.done = store[q].done
           /\ e.pc \in {"start", "run", "report", "wait"} \/ store[q].done = Streams
              \/ call[q].pc \notin {"start", "run", "report", "wait"}
      /\ \A s \in Streams : LoggedIn(n.file, s) = LoggedIn(store[q].file, s)
  BY DEF Steady
<1>. QED  BY <1>1, RequestCompletes

\* The other steps of a request that is neither started nor printing.
LEMMA CallCompletes ==
  ASSUME CompleteInv, LineInv', CallInv', NEW q \in Requests,
         \/ InvokeStart(q) \/ Awake(q) \/ InvokeReportDone(q) \/ WaitReturns(q) \/ WriteReport(q)
         \/ Close(q) \/ StopRecvLog(q) \/ LogTimer(q)
  PROVE  CompleteInv'
<1>. DEFINE st == store[q]
            c == call[q]
            At(pc) == [c EXCEPT !.pc = pc]
<1>1. /\ store \in [Requests -> Stores] /\ call \in [Requests -> Calls] /\ c \in Calls /\ st \in Stores
      /\ store = [store EXCEPT ![q] = st] /\ call = [call EXCEPT ![q] = c]
      /\ Filed(logType, c, st) /\ Counted(st) /\ LogInv
  BY DEF CompleteInv, LineInv, LogInv, LogTypeOK, Calls, CallInv, WaitGroupExact, Counted
<1>2. ASSUME NEW n, NEW e, store' = [store EXCEPT ![q] = n], call' = [call EXCEPT ![q] = e],
             UNCHANGED <<mode, logType, disp, conn>>, Steady(c, e, st, n)
      PROVE  CompleteInv'
  BY <1>2, SteadyCompletes
<1>3. \A pc \in {"run", "report", "wait", "write", "close", "stop", "done"} : At(pc).pc = pc /\ At(pc).ran = c.ran
  BY <1>1 DEF Calls
<1>4. CASE InvokeStart(q)
  <2>. DEFINE data == <<<<"START", q>>, <<"nl", q>>>>
  <2>1. /\ WriteFunctionLog(q, data) /\ c.pc = "start"
        /\ call' = [call EXCEPT ![q] = At("run")] /\ UNCHANGED <<mode, logType, disp, conn>>
    BY <1>4 DEF InvokeStart
  <2>2. data \in Seq(Symbols)
    BY LinesType
  <2>. HIDE DEF data
  <2>3. PICK n : /\ store' = [store EXCEPT ![q] = n] /\ n.done = st.done
                 /\ n.clean = st.clean /\ n.forced = st.forced
                 /\ n.capacity > 0 => st.capacity > 0
                 /\ \A s \in Streams : LoggedIn(n.file, s) = LoggedIn(st.file, s)
    BY <1>1, <2>1, <2>2, FunctionLogFields
  <2>. HIDE DEF At, c, st
  <2>4. Steady(c, At("run"), st, n)
    BY <1>3, <2>1, <2>3 DEF Steady
  <2>. QED  BY <1>2, <2>1, <2>3, <2>4
<1>5. CASE WriteReport(q)
  <2>. DEFINE data == <<<<"END", q>>, <<"nl", q>>, <<"REPORT", q>>>>
  <2>1. /\ WriteFunctionLog(q, data) /\ c.pc = "write"
        /\ call' = [call EXCEPT ![q] = At("close")] /\ UNCHANGED <<mode, logType, disp, conn>>
    BY <1>5 DEF WriteReport
  <2>2. data \in Seq(Symbols)
    BY LinesType
  <2>. HIDE DEF data
  <2>3. PICK n : /\ store' = [store EXCEPT ![q] = n] /\ n.done = st.done
                 /\ n.clean = st.clean /\ n.forced = st.forced
                 /\ n.capacity > 0 => st.capacity > 0
                 /\ \A s \in Streams : LoggedIn(n.file, s) = LoggedIn(st.file, s)
    BY <1>1, <2>1, <2>2, FunctionLogFields
  <2>. HIDE DEF At, c, st
  <2>4. Steady(c, At("close"), st, n)
    BY <1>3, <2>1, <2>3 DEF Steady
  <2>. QED  BY <1>2, <2>1, <2>3, <2>4
<1>6. CASE Awake(q)
  <2>1. /\ c.pc = "run" /\ call' = [call EXCEPT ![q] = At("report")] /\ store' = [store EXCEPT ![q] = st]
        /\ UNCHANGED <<mode, logType, disp, conn>>
    BY <1>1, <1>6 DEF Awake
  <2>. HIDE DEF At, c, st
  <2>2. Steady(c, At("report"), st, st)
    BY <1>3, <2>1 DEF Steady
  <2>. QED  BY <1>2, <2>1, <2>2
<1>7. CASE WaitReturns(q)
  <2>1. /\ c.pc = "wait" /\ call' = [call EXCEPT ![q] = At("write")] /\ store' = [store EXCEPT ![q] = st]
        /\ st.waitg = 0 /\ UNCHANGED <<mode, logType, disp, conn>>
    BY <1>1, <1>7 DEF WaitReturns
  <2>2. st.done = Streams
    <3>1. IsFiniteSet(Streams \ st.done) /\ Cardinality(Streams \ st.done) = 0 /\ st.done \subseteq Streams
      BY <1>1, <2>1, RequestLogAssumption, FS_Subset DEF Counted, Stores
    <3>2. Streams \ st.done = {}
      BY <3>1, FS_EmptySet
    <3>. QED  BY <3>1, <3>2
  <2>. HIDE DEF At, c, st
  <2>3. Steady(c, At("write"), st, st)
    BY <1>3, <2>1, <2>2 DEF Steady
  <2>. QED  BY <1>2, <2>1, <2>3
<1>8. CASE InvokeReportDone(q)
  <2>. DEFINE m == [st EXCEPT !.timer = @ \/ st.done # Streams]
              d == LogDone(st)
  <2>1. /\ m.clean = st.clean /\ m.forced = st.forced /\ m.capacity = st.capacity /\ m.file = st.file
        /\ m.done = st.done
    BY <1>1 DEF Stores
  <2>2. /\ d.clean = st.clean /\ d.capacity = st.capacity /\ d.file = st.file /\ d.done = Streams
        /\ ~d.forced => ~st.forced /\ st.done = Streams
    BY <1>1, LogDoneFields
  <2>3. /\ c.pc = "report" /\ UNCHANGED <<mode, logType, disp, conn>>
        /\ \/ store' = [store EXCEPT ![q] = m] /\ call' = [call EXCEPT ![q] = At("wait")]
           \/ store' = [store EXCEPT ![q] = d] /\ call' = [call EXCEPT ![q] = At("write")]
    BY <1>8 DEF InvokeReportDone
  <2>. HIDE DEF At, c, st, m, d
  <2>4. CASE store' = [store EXCEPT ![q] = m] /\ call' = [call EXCEPT ![q] = At("wait")]
    <3>1. Steady(c, At("wait"), st, m)
      BY <1>3, <2>1, <2>3 DEF Steady
    <3>. QED  BY <1>2, <2>3, <2>4, <3>1
  <2>5. CASE store' = [store EXCEPT ![q] = d] /\ call' = [call EXCEPT ![q] = At("write")]
    <3>1. Steady(c, At("write"), st, d)
      BY <1>3, <2>2, <2>3 DEF Steady
    <3>. QED  BY <1>2, <2>3, <2>5, <3>1
  <2>. QED  BY <2>3, <2>4, <2>5
<1>9. CASE Close(q)
  <2>. DEFINE d == LogDone(st)
              b == contents[st.buffer]
              n == [d EXCEPT !.closed = TRUE, !.tail = b, !.buffer = NoBuffer]
  <2>1. /\ c.pc = "close" /\ call' = [call EXCEPT ![q] = At("stop")] /\ store' = [store EXCEPT ![q] = n]
        /\ UNCHANGED <<mode, logType, disp, conn>>
    BY <1>9 DEF Close
  <2>2. /\ d \in Stores /\ d.clean = st.clean /\ d.capacity = st.capacity /\ d.file = st.file
        /\ d.done = Streams /\ (~d.forced => ~st.forced /\ st.done = Streams)
    BY <1>1, LogDoneFacts, LogDoneFields
  <2>. HIDE DEF d, b
  <2>3. /\ n.clean = st.clean /\ n.capacity = st.capacity /\ n.file = st.file
        /\ n.done = Streams /\ (~n.forced => ~st.forced /\ st.done = Streams)
    BY <2>2 DEF Stores
  <2>. HIDE DEF n, At, c, st
  <2>4. Steady(c, At("stop"), st, n)
    BY <1>3, <2>1, <2>3 DEF Steady
  <2>. QED  BY <1>2, <2>1, <2>4
<1>10. CASE StopRecvLog(q)
  <2>. DEFINE n == [st EXCEPT !.open = FALSE]
  <2>1. /\ c.pc = "stop" /\ call' = [call EXCEPT ![q] = At("done")] /\ store' = [store EXCEPT ![q] = n]
        /\ UNCHANGED <<mode, logType, disp, conn>>
    BY <1>10 DEF StopRecvLog
  <2>2. /\ n.clean = st.clean /\ n.forced = st.forced /\ n.capacity = st.capacity /\ n.file = st.file
        /\ n.done = st.done
    BY <1>1 DEF Stores
  <2>. HIDE DEF n, At, c, st
  <2>3. Steady(c, At("done"), st, n)
    BY <1>3, <2>1, <2>2 DEF Steady
  <2>. QED  BY <1>2, <2>1, <2>3
<1>11. CASE LogTimer(q)
  <2>. DEFINE d == LogDone(st)
              n == [d EXCEPT !.timer = FALSE]
  <2>1. /\ store[q].timer /\ call' = [call EXCEPT ![q] = c] /\ store' = [store EXCEPT ![q] = n]
        /\ UNCHANGED <<mode, logType, disp, conn>>
    BY <1>1, <1>11 DEF LogTimer
  <2>2. /\ d \in Stores /\ d.clean = st.clean /\ d.capacity = st.capacity /\ d.file = st.file
        /\ d.done = Streams /\ (~d.forced => ~st.forced /\ st.done = Streams)
    BY <1>1, LogDoneFacts, LogDoneFields
  <2>. HIDE DEF d
  <2>3. /\ n.clean = st.clean /\ n.capacity = st.capacity /\ n.file = st.file
        /\ n.done = Streams /\ (~n.forced => ~st.forced /\ st.done = Streams)
    BY <2>2 DEF Stores
  <2>4. c.pc # "new"
    <3>1. c.pc = "new" => st = NoStore
      BY <1>1 DEF Filed
    <3>. QED  BY <2>1, <3>1 DEF NoStore
  <2>. HIDE DEF n, c, st
  <2>5. Steady(c, c, st, n)
    BY <2>1, <2>3, <2>4 DEF Steady
  <2>. QED  BY <1>2, <2>1, <2>5
<1>. QED  BY <1>4, <1>5, <1>6, <1>7, <1>8, <1>9, <1>10, <1>11

\* A store made when nothing was on its way finds the streams empty.
LEMMA CleanStreams ==
  ASSUME LineInv, CallInv, NEW q \in Requests, call[q].pc = "new", Clean(q), NEW s \in Streams
  PROVE  conn[s] = << >> /\ disp[s].pc = "read" /\ disp[s].buf = << >>
<1>1. /\ conn[s] \in Seq(Printable(s)) /\ disp[s].buf \in Seq(Printable(s))
      /\ disp[s].pc # "read" => disp[s].ls \in Requests
      /\ \A y \in Printable(s) : y[2] \in Requests \ {q} /\ call[y[2]].pc # "new"
  BY DEF LineInv, Streamed, LogInv, Dispatching, Printable, Symbols
<1>2. disp[s].pc = "read"
  <2>. SUFFICES ASSUME disp[s].pc # "read" PROVE FALSE
    OBVIOUS
  <2>1. disp[s].ls \in Requests /\ call[disp[s].ls].pc # "new"
    BY <1>1 DEF CallInv
  <2>2. OnTheWay(disp[s].ls)
    BY DEF OnTheWay
  <2>. QED  BY <2>1, <2>2 DEF Clean
<1>3. disp[s].lastln = 0
  BY <1>2 DEF CallInv, Rested
<1>4. conn[s] = << >>
  <2>. SUFFICES ASSUME conn[s] # << >> PROVE FALSE
    OBVIOUS
  <2>1. 1 \in DOMAIN conn[s] /\ conn[s][1] \in Printable(s)
    <3>1. Len(conn[s]) \in Nat /\ Len(conn[s]) # 0 /\ DOMAIN conn[s] = 1..Len(conn[s])
      BY <1>1, LenProperties, EmptySeq
    <3>2. 1 \in 1..Len(conn[s])
      BY <3>1
    <3>. QED  BY <1>1, <3>1, <3>2, LenProperties
  <2>2. conn[s][1][2] \in Requests \ {q} /\ call[conn[s][1][2]].pc # "new"
    BY <1>1, <2>1
  <2>3. OnTheWay(conn[s][1][2])
    BY <2>1 DEF OnTheWay
  <2>. QED  BY <2>2, <2>3 DEF Clean
<1>5. disp[s].buf = << >>
  <2>. DEFINE b == disp[s].buf
  <2>. SUFFICES ASSUME b # << >> PROVE FALSE
    OBVIOUS
  <2>1. 1 \in (disp[s].lastln + 1)..Len(b) /\ b[1] \in Printable(s)
    <3>1. Len(b) \in Nat /\ Len(b) # 0
      BY <1>1, LenProperties, EmptySeq
    <3>2. 1 \in 1..Len(b)
      BY <3>1
    <3>. QED  BY <1>1, <1>3, <3>1, <3>2, LenProperties
  <2>2. b[1][2] \in Requests \ {q} /\ call[b[1][2]].pc # "new"
    BY <1>1, <2>1
  <2>3. OnTheWay(b[1][2])
    BY <2>1 DEF OnTheWay
  <2>. QED  BY <2>2, <2>3 DEF Clean
<1>. QED  BY <1>2, <1>4, <1>5

LEMMA StartCompletes ==
  ASSUME CompleteInv, LineInv', CallInv', NEW q \in Requests, startRecvLog(q)
  PROVE  CompleteInv'
<1>. DEFINE n == newLogStatStore(q)
            e == [call[q] EXCEPT !.pc = "start"]
<1>1. /\ store \in [Requests -> Stores] /\ call \in [Requests -> Calls] /\ LineInv /\ CallInv
      /\ \A r \in Requests : Filed(logType, call[r], store[r])
  BY DEF CompleteInv, LineInv, LogInv, LogTypeOK, Calls, CallInv
<1>2. /\ call[q].pc = "new" /\ store' = [store EXCEPT ![q] = n] /\ call' = [call EXCEPT ![q] = e]
      /\ mode = "concurrent" \/ \A r \in Requests : call[r].pc \in Idle
      /\ UNCHANGED <<mode, logType, disp, conn>>
  BY DEF startRecvLog, Idle
<1>3. e.pc = "start" /\ ~e.ran
  BY <1>1, <1>2 DEF Calls, Filed
<1>4. n.done = {} /\ n.file = << >> /\ n.clean = Clean(q)
  BY DEF newLogStatStore, NoStore
<1>. HIDE DEF n, e
<1>5. store'[q] = n /\ call'[q] = e /\ \A r \in Requests \ {q} : store'[r] = store[r] /\ call'[r] = call[r]
  BY <1>1, <1>2
<1>6. ASSUME NEW r \in Requests, Watched(r)' PROVE Alone(r)' /\ \A s \in Streams : Tracked(r, s)'
  <2>1. CASE r = q
    <3>1. Clean(q)
      BY <1>4, <1>5, <1>6, <2>1 DEF Watched
    <3>2. Alone(q)'
      <4>1. \A t \in Requests \ {q} : call[t].pc = "new" \/ call[t].ran
        BY <3>1 DEF Clean, OnTheWay
      <4>. QED  BY <1>5, <4>1 DEF Alone
    <3>3. ASSUME NEW s \in Streams PROVE Tracked(q, s)'
      <4>1. conn[s] = << >> /\ disp[s].pc = "read" /\ disp[s].buf = << >>
        BY <1>1, <1>2, <3>1, CleanStreams
      <4>2. LoggedIn(<< >>, s) = << >>
        <5>1. Messages(<< >>, s) = << >>
          BY DEF Messages
        <5>. QED  BY <5>1, FlattenEmpty DEF LoggedIn
      <4>. DEFINE p == PrintedBy(q, s)'
      <4>3. Pending(q, p, << >>, e, disp[s], conn[s])
        BY <1>3, <4>1 DEF Pending
      <4>4. s \notin store'[q].done /\ LoggedIn(store'[q].file, s) = << >>
        BY <1>4, <1>5, <4>2
      <4>. QED  BY <1>2, <1>5, <4>3, <4>4 DEF Tracked
    <3>. QED  BY <2>1, <3>2, <3>3
  <2>2. CASE r # q
    <3>1. Watched(r) /\ store'[r] = store[r] /\ call'[r] = call[r]
      BY <1>2, <1>5, <1>6, <2>2 DEF Watched
    <3>2. \A s \in Streams : Tracked(r, s)
      BY <3>1 DEF CompleteInv
    <3>3. call[r].pc = "done"
      <4>1. call[r].pc \in Idle
        BY <1>2, <3>1 DEF Watched
      <4>2. call[r].pc # "new"
        <5>1. call[r].pc = "new" => store[r] = NoStore
          BY <1>1 DEF Filed
        <5>. QED  BY <3>1, <5>1 DEF Watched, NoStore
      <4>. QED  BY <4>1, <4>2 DEF Idle
    <3>4. Alone(r)'
      BY <3>1, <3>3 DEF Alone
    <3>5. \A s \in Streams : Tracked(r, s)'
      BY <1>2, <3>1, <3>2, TrackedStays
    <3>. QED  BY <3>4, <3>5
  <2>. QED  BY <2>1, <2>2
<1>. QED  BY <1>6 DEF CompleteInv

\* What a request prints ends with its only end marker, behind a newline.
LEMMA OutputSealed ==
  ASSUME MarkForm, mode \in Modes, mode = "common", NEW q \in Requests, NEW s \in Streams
  PROVE  LET y == [i \in DOMAIN Printed(s, mode) |-> <<Printed(s, mode)[i], q>>]
         IN  y \in Seq(Symbols) /\ Sealed(y) /\ Text(y) = PrintedBy(q, s)
<1>. DEFINE p == Printed(s, mode)
            Kinds == {"text", "id", "tab", "nl", "zero"}
            y == [i \in DOMAIN p |-> <<p[i], q>>]
<1>1. p \in Seq(Kinds)
  BY RequestLogAssumption
<1>2. /\ p # << >> /\ \A i \in 1..Len(p) : p[i] = "zero" <=> i = Len(p)
      /\ Len(p) > 1 => p[Len(p) - 1] = "nl"
  BY DEF MarkForm
<1>3. Text(y) = PrintedBy(q, s)
  BY DEF PrintedBy
<1>4. \A k \in Kinds : <<k, q>> \in Symbols
  BY DEF Symbols
<1>. HIDE DEF p
<1>5. Len(p) \in Nat /\ Len(p) # 0 /\ DOMAIN p = 1..Len(p) /\ \A i \in 1..Len(p) : p[i] \in Kinds
  BY <1>1, <1>2, LenProperties, EmptySeq
<1>6. y = [i \in 1..Len(p) |-> <<p[i], q>>] /\ y \in Seq(Symbols)
  <2>1. [i \in 1..Len(p) |-> <<p[i], q>>] \in Seq(Symbols)
    BY <1>4, <1>5, IsASeq
  <2>. QED  BY <1>5, <2>1
<1>7. Len(y) = Len(p) /\ \A i \in 1..Len(p) : y[i][1] = p[i]
  <2>1. DOMAIN y = 1..Len(y) /\ DOMAIN y = 1..Len(p) /\ Len(y) \in Nat
    BY <1>5, <1>6, LenProperties
  <2>. QED  BY <1>5, <1>6, <2>1
<1>. HIDE DEF y
<1>8. Sealed(y)
  <2>1. y # << >>
    BY <1>5, <1>6, <1>7, EmptySeq
  <2>2. Len(p) > 1 => Len(p) - 1 \in 1..Len(p)
    BY <1>5
  <2>. QED  BY <1>2, <1>7, <2>1, <2>2 DEF Sealed
<1>. QED  BY <1>3, <1>6, <1>8 DEF p, y

\* The output of the request begins to flow.
LEMMA OutputFlows ==
  ASSUME NEW q \in Requests, NEW d \in Dispatchers, NEW y \in Seq(Symbols), Sealed(y),
         d.pc = "read", d.buf = << >>, Rested(d), NEW x, x = << >> \o y
  PROVE  Flowing(q, Text(y), << >>, d, x)
<1>1. d.i = 0 /\ d.lastln = 0 /\ Len(d.buf) = 0
  BY DEF Rested
<1>2. x = y
  BY ConcatEmptySeq
<1>3. Rest(d, x) = y
  <2>1. SubSeq(d.buf, d.lastln + 1, Len(d.buf)) = << >>
    BY <1>1, SubSeqEmpty
  <2>. QED  BY <1>2, <2>1, ConcatEmptySeq DEF Rest
<1>4. Text(y) \in Seq(Symbols)
  BY TextConcat
<1>5. << >> \o Text(y) = Text(y)
  BY <1>4, ConcatEmptySeq
<1>6. Passed(d, d.i)
  BY <1>1 DEF Passed
<1>. QED  BY <1>1, <1>3, <1>5, <1>6 DEF Flowing

LEMMA ExecuteCompletes ==
  ASSUME MarkForm, CompleteInv, LineInv', CallInv', NEW q \in Requests, Execute(q)
  PROVE  CompleteInv'
<1>. DEFINE Out(s) == [i \in DOMAIN Printed(s, mode) |-> <<Printed(s, mode)[i], q>>]
            e == [call[q] EXCEPT !.ran = TRUE]
<1>1. /\ call \in [Requests -> Calls] /\ conn \in [Streams -> Seq(Symbols)] /\ mode \in Modes
      /\ disp \in [Streams -> Dispatchers] /\ CallInv
  BY DEF CompleteInv, LineInv, LogInv, LogTypeOK, Calls
<1>2. /\ call[q].pc # "new" /\ ~call[q].ran /\ call' = [call EXCEPT ![q] = e]
      /\ \A s \in Streams : conn'[s] = conn[s] \o Out(s)
      /\ UNCHANGED <<mode, logType, store, disp>>
  BY DEF Execute
<1>3. e.pc = call[q].pc /\ e.ran
  BY <1>1 DEF Calls
<1>. HIDE DEF e
<1>4. call'[q] = e /\ \A r \in Requests \ {q} : call'[r] = call[r]
  BY <1>1, <1>2
<1>5. \A r, s : PrintedBy(r, s)' = PrintedBy(r, s)
  BY <1>2 DEF PrintedBy
<1>6. ASSUME NEW r \in Requests, Watched(r)' PROVE Alone(r)' /\ \A s \in Streams : Tracked(r, s)'
  <2>1. Watched(r) /\ mode = "common" /\ Alone(r) /\ \A s \in Streams : Tracked(r, s)
    BY <1>2, <1>6 DEF Watched, CompleteInv
  <2>2. Alone(r)'
    <3>1. \A t \in Requests : /\ (call[t].pc = "new" \/ call[t].ran) => (call'[t].pc = "new" \/ call'[t].ran)
                              /\ call'[t].pc = call[t].pc
      BY <1>3, <1>4
    <3>. QED  BY <2>1, <3>1 DEF Alone
  <2>3. CASE r = q
    <3>. SUFFICES ASSUME NEW s \in Streams PROVE Tracked(q, s)'
      BY <2>2, <2>3
    <3>. DEFINE p == PrintedBy(q, s)
                f == LoggedIn(store[q].file, s)
    <3>1. CASE s \in store[q].done
      <4>1. Handled(q, p, f, call[q], disp[s], conn[s])
        BY <2>1, <2>3, <3>1 DEF Tracked
      <4>2. call[q].pc = "done"
        BY <1>2, <4>1 DEF Handled
      <4>3. Handled(q, p, f, e, disp[s], conn'[s])
        BY <1>3, <4>1, <4>2 DEF Handled
      <4>. QED  BY <1>2, <1>4, <1>5, <3>1, <4>3 DEF Tracked
    <3>2. CASE s \notin store[q].done
      <4>1. Pending(q, p, f, call[q], disp[s], conn[s])
        BY <2>1, <2>3, <3>2 DEF Tracked
      <4>2. f = << >> /\ conn[s] = << >> /\ disp[s].pc = "read" /\ disp[s].buf = << >>
        BY <1>2, <4>1 DEF Pending
      <4>. DEFINE y == Out(s)
      <4>3. y \in Seq(Symbols) /\ Sealed(y) /\ Text(y) = p
        BY <1>1, <2>1, OutputSealed
      <4>4. conn'[s] = << >> \o y /\ Rested(disp[s]) /\ disp[s] \in Dispatchers
        BY <1>1, <1>2, <4>2 DEF CallInv
      <4>. HIDE DEF y
      <4>5. Flowing(q, Text(y), << >>, disp[s], conn'[s])
        BY <4>2, <4>3, <4>4, OutputFlows
      <4>. HIDE DEF p, f
      <4>6. Pending(q, p, f, e, disp[s], conn'[s])
        BY <1>3, <4>1, <4>2, <4>3, <4>5 DEF Pending
      <4>. QED  BY <1>2, <1>4, <1>5, <3>2, <4>6 DEF Tracked, p, f
    <3>. QED  BY <3>1, <3>2
  <2>4. CASE r # q
    <3>1. call[r].pc = "done" /\ call'[r] = call[r]
      BY <1>2, <1>4, <2>1, <2>4 DEF Alone
    <3>. SUFFICES ASSUME NEW s \in Streams PROVE Tracked(r, s)'
      BY <2>2
    <3>2. CASE s \in store[r].done
      <4>. DEFINE p == PrintedBy(r, s)
                  f == LoggedIn(store[r].file, s)
      <4>1. Handled(r, p, f, call[r], disp[s], conn[s])
        BY <2>1, <3>2 DEF Tracked
      <4>2. Handled(r, p, f, call[r], disp[s], conn'[s])
        BY <3>1, <4>1 DEF Handled
      <4>. QED  BY <1>2, <1>5, <3>1, <3>2, <4>2 DEF Tracked
    <3>3. CASE s \notin store[r].done
      BY <2>1, <3>1, <3>3 DEF Tracked, Pending
    <3>. QED  BY <3>2, <3>3
  <2>. QED  BY <2>3, <2>4
<1>. QED  BY <1>6 DEF CompleteInv

LEMMA CompleteInvInit == LogInit => CompleteInv
<1>. SUFFICES ASSUME LogInit PROVE CompleteInv
  OBVIOUS
<1>1. LineInv /\ CallInv
  BY LineInvInit, CallInvInit
<1>2. \A q \in Requests : ~Watched(q)
  BY DEF LogInit, NoStore, Watched
<1>. QED  BY <1>1, <1>2 DEF CompleteInv

LEMMA CompleteInvNext ==
  ASSUME LineForm, MarkForm
  PROVE  CompleteInv /\ [LogNext]_lvars => CompleteInv'
<1>. SUFFICES ASSUME CompleteInv, [LogNext]_lvars PROVE CompleteInv'
  OBVIOUS
<1>1. LineInv' /\ CallInv'
  BY LineInvNext, CallInvNext DEF CompleteInv
<1>2. ASSUME NEW q \in Requests, CallStep(q) \/ Execute(q) \/ LogTimer(q) PROVE CompleteInv'
  BY <1>1, <1>2, StartCompletes, CallCompletes, ExecuteCompletes DEF CallStep
<1>3. ASSUME NEW s \in Streams, DispatcherStep(s) PROVE CompleteInv'
  BY <1>1, <1>3, DispatcherCompletes
<1>4. CASE UNCHANGED lvars
  <2>1. UNCHANGED <<mode, logType, store, call, disp, conn>>
    BY <1>4 DEF lvars
  <2>2. ASSUME NEW q \in Requests, Watched(q)' PROVE Alone(q)' /\ \A s \in Streams : Tracked(q, s)'
    <3>1. Watched(q)
      BY <2>1, <2>2 DEF Watched
    <3>2. Alone(q) /\ \A s \in Streams : Tracked(q, s)
      BY <3>1 DEF CompleteInv
    <3>3. Alone(q)'
      BY <2>1, <3>2 DEF Alone
    <3>. QED  BY <2>1, <3>2, <3>3, TrackedStays
  <2>. QED  BY <1>1, <2>2 DEF CompleteInv
<1>. QED  BY <1>2, <1>3, <1>4 DEF LogNext

LEMMA CompleteInvLogs == CompleteInv => LogsRight
<1>. SUFFICES ASSUME CompleteInv PROVE LogsRight
  OBVIOUS
<1>1. LinesFindOwner
  BY LineInvFinds DEF CompleteInv
<1>2. ASSUME NEW q \in Requests, mode = "common", OwnMarkers(q), store[q].file # << >>,
             store[q].capacity > 0, NEW s \in Streams
      PROVE  Logged(q, s) = PrintedBy(q, s)
  <2>1. Filed(logType, call[q], store[q])
    BY DEF CompleteInv, CallInv
  <2>2. Watched(q) /\ call[q].pc \in {"stop", "done"}
    BY <1>2, <2>1 DEF Watched, Filed, OwnMarkers
  <2>3. Tracked(q, s)
    BY <2>2 DEF CompleteInv
  <2>4. LoggedIn(store[q].file, s) = PrintedBy(q, s)
    BY <2>2, <2>3 DEF Tracked, Handled, Pending
  <2>5. Logged(q, s) = LoggedIn(store[q].file, s)
    BY DEF Logged, LoggedIn, Messages
  <2>. QED  BY <2>4, <2>5
<1>. QED  BY <1>1, <1>2 DEF LogsRight, LogComplete

\* What is printed reaches the log of its request. In a runtime that serves one request at a
\* time and marks the end of its output, a log file that was closed by the end markers of its
\* request, and that its limit did not cut, holds exactly what the request printed to each
\* stream, however the streams are cut into reads and whatever late writers, timers and the
\* requests before and after it do; in a runtime whose lines name their requests each line is
\* written to the log of the request it names.
THEOREM LogsRightAlways ==
  ASSUME LineForm, MarkForm
  PROVE  LogInit /\ [][LogNext]_lvars => []LogsRight
<1>. QED  BY CompleteInvInit, CompleteInvNext, CompleteInvLogs, PTL

=============================================================================
