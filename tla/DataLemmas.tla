----------------------------- MODULE DataLemmas ------------------------------
(***************************************************************************)
(* Facts about queues, numbers and sums that the proofs about the          *)
(* components share.                                                       *)
(***************************************************************************)
EXTENDS Integers, Sequences, FiniteSets, SequencesExt, FiniteSetTheorems, SequenceTheorems,
        WellFoundedInduction, TLAPS

\* A set of natural numbers has a least element: what induction is made of here.
LEMMA LeastElement ==
  ASSUME NEW T, T \subseteq Nat, T # {}
  PROVE  \E x \in T : \A y \in T : x <= y
<1>. DEFINE R == OpToRel(<, Nat)
<1>1. IsWellFoundedOn(R, Nat)
  BY NatLessThanWellFounded
<1>. HIDE DEF R
<1>2. PICK x \in T : \A y \in T : ~(<<y, x>> \in R)
  BY <1>1, WFMin
<1>3. ASSUME NEW y \in T, y < x PROVE FALSE
  <2>1. y \in Nat /\ x \in Nat
    OBVIOUS
  <2>2. <<y, x>> \in R
    BY <1>3, <2>1 DEF R, OpToRel
  <2>. QED  BY <1>2, <2>2
<1>. QED  BY <1>2, <1>3

-----------------------------------------------------------------------------
(* Queues *)

\* x is in s at most once.
Once(s, x) == \A j, k \in 1..Len(s) : s[j] = x /\ s[k] = x => j = k

LEMMA AppendFacts ==
  ASSUME NEW S, NEW s \in Seq(S), NEW e \in S, NEW x
  PROVE  /\ Append(s, e) \in Seq(S)
         /\ Contains(Append(s, e), x) <=> Contains(s, x) \/ x = e
         /\ Once(s, x) /\ (x = e => ~Contains(s, x)) => Once(Append(s, e), x)
<1>1. /\ Append(s, e) \in Seq(S) /\ Len(Append(s, e)) = Len(s) + 1
      /\ \A i \in 1..Len(s) : Append(s, e)[i] = s[i]
      /\ Append(s, e)[Len(s) + 1] = e
  OBVIOUS
<1>2. Len(s) \in Nat
  OBVIOUS
<1>3. Contains(Append(s, e), x) <=> Contains(s, x) \/ x = e
  BY <1>1, <1>2 DEF Contains
<1>4. Once(s, x) /\ (x = e => ~Contains(s, x)) => Once(Append(s, e), x)
  BY <1>1, <1>2 DEF Once, Contains
<1>. QED  BY <1>1, <1>3, <1>4

LEMMA TailFacts ==
  ASSUME NEW S, NEW s \in Seq(S), s # << >>, NEW x
  PROVE  /\ Head(s) \in S /\ Tail(s) \in Seq(S)
         /\ Contains(s, x) <=> Contains(Tail(s), x) \/ x = Head(s)
         /\ Once(s, x) => Once(Tail(s), x)
         /\ Once(s, x) /\ x = Head(s) => ~Contains(Tail(s), x)
<1>1. /\ Head(s) = s[1] /\ s[1] \in S /\ Len(s) \in Nat \ {0}
      /\ Tail(s) \in Seq(S) /\ Len(Tail(s)) = Len(s) - 1
      /\ \A i \in 1..(Len(s) - 1) : Tail(s)[i] = s[i + 1]
  OBVIOUS
<1>2. \A i \in 1..Len(s) : i = 1 \/ (i - 1 \in 1..(Len(s) - 1) /\ Tail(s)[i - 1] = s[i])
  BY <1>1
<1>3. Contains(s, x) <=> Contains(Tail(s), x) \/ x = Head(s)
  BY <1>1, <1>2, SMTT(30) DEF Contains
<1>4. Once(s, x) => Once(Tail(s), x)
  BY <1>1 DEF Once
<1>5. Once(s, x) /\ x = Head(s) => ~Contains(Tail(s), x)
  BY <1>1 DEF Once, Contains
<1>. QED  BY <1>1, <1>3, <1>4, <1>5

LEMMA RemoveAtFacts ==
  ASSUME NEW S, NEW s \in Seq(S), NEW k \in 1..Len(s), NEW x
  PROVE  /\ RemoveAt(s, k) \in Seq(S)
         /\ Contains(s, x) <=> Contains(RemoveAt(s, k), x) \/ x = s[k]
         /\ Once(s, x) => Once(RemoveAt(s, k), x)
         /\ Once(s, x) /\ x = s[k] => ~Contains(RemoveAt(s, k), x)
<1>. DEFINE a == SubSeq(s, 1, k - 1)
            b == SubSeq(s, k + 1, Len(s))
            r == RemoveAt(s, k)
<1>1. /\ a \in Seq(S) /\ Len(a) = k - 1 /\ \A i \in 1..(k - 1) : a[i] = s[i]
      /\ b \in Seq(S) /\ Len(b) = Len(s) - k /\ \A i \in 1..(Len(s) - k) : b[i] = s[k + i]
  OBVIOUS
<1>2. r = a \o b
  BY DEF RemoveAt
<1>. HIDE DEF a, b, r
<1>3. /\ r \in Seq(S) /\ Len(r) = Len(s) - 1
      /\ \A i \in 1..(k - 1) : r[i] = s[i]
      /\ \A i \in k..(Len(s) - 1) : r[i] = s[i + 1]
  <2>1. /\ r \in Seq(S) /\ Len(r) = Len(a) + Len(b)
        /\ \A i \in 1..Len(r) : r[i] = IF i <= Len(a) THEN a[i] ELSE b[i - Len(a)]
    <3>1. a \in Seq(S) /\ b \in Seq(S)
      BY <1>1
    <3>2. r = a \o b
      BY <1>2 DEF a, b
    <3>. QED  BY <3>1, <3>2
  <2>2. Len(s) \in Nat /\ k \in 1..Len(s)
    OBVIOUS
  <2>3. Len(a) = k - 1 /\ Len(r) = Len(s) - 1
    BY <1>1, <2>1, <2>2
  <2>4. \A i \in 1..(Len(s) - 1) : r[i] = IF i <= k - 1 THEN a[i] ELSE b[i - (k - 1)]
    BY <2>1, <2>3
  <2>5. ASSUME NEW i \in 1..(k - 1) PROVE r[i] = s[i]
    <3>1. i \in 1..(Len(s) - 1) /\ i <= k - 1
      BY <2>2
    <3>. QED  BY <1>1, <2>4, <3>1
  <2>6. ASSUME NEW i \in k..(Len(s) - 1) PROVE r[i] = s[i + 1]
    <3>1. i - (k - 1) \in 1..(Len(s) - k) /\ k + (i - (k - 1)) = i + 1
      BY <2>2
    <3>2. i \in 1..(Len(s) - 1) /\ ~(i <= k - 1)
      BY <2>2
    <3>3. r[i] = b[i - (k - 1)]
      BY <2>4, <3>2
    <3>. QED  BY <1>1, <3>1, <3>3
  <2>. QED  BY <2>1, <2>3, <2>5, <2>6
<1>4. \A i \in 1..Len(s) : i = k \/ (i \in 1..(k - 1) /\ r[i] = s[i])
                                 \/ (i - 1 \in k..(Len(s) - 1) /\ r[i - 1] = s[i])
  BY <1>3
<1>5. Contains(s, x) <=> Contains(r, x) \/ x = s[k]
  BY <1>3, <1>4, SMTT(30) DEF Contains
<1>6. Once(s, x) => Once(r, x)
  BY <1>3 DEF Once
<1>7. Once(s, x) /\ x = s[k] => ~Contains(r, x)
  BY <1>3 DEF Once, Contains
<1>. QED  BY <1>3, <1>5, <1>6, <1>7 DEF r

-----------------------------------------------------------------------------
(* Short sequences *)

LEMMA OneAndOne ==
  ASSUME NEW a, NEW b
  PROVE  <<a>> \o <<b>> = <<a, b>>
<1>1. PICK S : S = {a, b}
  OBVIOUS
<1>2. <<a>> \in Seq(S) /\ <<b>> \in Seq(S) /\ <<a, b>> \in Seq(S)
  BY <1>1
<1>3. Len(<<a>>) = 1 /\ Len(<<b>>) = 1 /\ Len(<<a, b>>) = 2
  OBVIOUS
<1>4. PICK s : s = <<a>> \o <<b>>
  OBVIOUS
<1>5. /\ s \in Seq(S) /\ Len(s) = 2
      /\ \A i \in 1..2 : s[i] = IF i <= 1 THEN <<a>>[i] ELSE <<b>>[i - 1]
  BY <1>2, <1>3, <1>4, ConcatProperties
<1>6. PICK t : t = <<a, b>>
  OBVIOUS
<1>7. t \in Seq(S) /\ Len(t) = 2 /\ \A i \in 1..2 : s[i] = t[i]
  BY <1>2, <1>3, <1>5, <1>6
<1>8. s = t
  BY <1>5, <1>7, SeqEqual
<1>. QED  BY <1>4, <1>6, <1>8

LEMMA OneAndTwo ==
  ASSUME NEW a, NEW b, NEW c
  PROVE  <<a>> \o <<b, c>> = <<a, b, c>>
<1>1. PICK S : S = {a, b, c}
  OBVIOUS
<1>2. <<a>> \in Seq(S) /\ <<b, c>> \in Seq(S) /\ <<a, b, c>> \in Seq(S)
  BY <1>1
<1>3. Len(<<a>>) = 1 /\ Len(<<b, c>>) = 2 /\ Len(<<a, b, c>>) = 3
  OBVIOUS
<1>4. PICK s : s = <<a>> \o <<b, c>>
  OBVIOUS
<1>5. /\ s \in Seq(S) /\ Len(s) = 3
      /\ \A i \in 1..3 : s[i] = IF i <= 1 THEN <<a>>[i] ELSE <<b, c>>[i - 1]
  BY <1>2, <1>3, <1>4, ConcatProperties
<1>6. PICK t : t = <<a, b, c>>
  OBVIOUS
<1>7. t \in Seq(S) /\ Len(t) = 3 /\ \A i \in 1..3 : s[i] = t[i]
  BY <1>2, <1>3, <1>5, <1>6
<1>8. s = t
  BY <1>5, <1>7, SeqEqual
<1>. QED  BY <1>4, <1>6, <1>8

LEMMA FourAndThree ==
  ASSUME NEW a, NEW b, NEW c, NEW d, NEW e, NEW f, NEW g
  PROVE  <<a, b, c, d>> \o <<e, f, g>> = <<a, b, c, d, e, f, g>>
<1>1. PICK S : S = {a, b, c, d, e, f, g}
  OBVIOUS
<1>2. <<a, b, c, d>> \in Seq(S) /\ <<e, f, g>> \in Seq(S) /\ <<a, b, c, d, e, f, g>> \in Seq(S)
  BY <1>1
<1>3. Len(<<a, b, c, d>>) = 4 /\ Len(<<e, f, g>>) = 3 /\ Len(<<a, b, c, d, e, f, g>>) = 7
  OBVIOUS
<1>4. PICK s : s = <<a, b, c, d>> \o <<e, f, g>>
  OBVIOUS
<1>5. /\ s \in Seq(S) /\ Len(s) = 7
      /\ \A i \in 1..7 : s[i] = IF i <= 4 THEN <<a, b, c, d>>[i] ELSE <<e, f, g>>[i - 4]
  BY <1>2, <1>3, <1>4, ConcatProperties
<1>6. PICK t : t = <<a, b, c, d, e, f, g>>
  OBVIOUS
<1>7. t \in Seq(S) /\ Len(t) = 7 /\ \A i \in 1..7 : s[i] = t[i]
  BY <1>2, <1>3, <1>5, <1>6
<1>8. s = t
  BY <1>5, <1>7, SeqEqual
<1>. QED  BY <1>4, <1>6, <1>8

LEMMA SevenAndOne ==
  ASSUME NEW a, NEW b, NEW c, NEW d, NEW e, NEW f, NEW g, NEW h
  PROVE  <<a, b, c, d, e, f, g>> \o <<h>> = <<a, b, c, d, e, f, g, h>>
<1>1. PICK S : S = {a, b, c, d, e, f, g, h}
  OBVIOUS
<1>2. <<a, b, c, d, e, f, g>> \in Seq(S) /\ <<h>> \in Seq(S) /\ <<a, b, c, d, e, f, g, h>> \in Seq(S)
  BY <1>1
<1>3. Len(<<a, b, c, d, e, f, g>>) = 7 /\ Len(<<h>>) = 1 /\ Len(<<a, b, c, d, e, f, g, h>>) = 8
  OBVIOUS
<1>4. PICK s : s = <<a, b, c, d, e, f, g>> \o <<h>>
  OBVIOUS
<1>5. /\ s \in Seq(S) /\ Len(s) = 8
      /\ \A i \in 1..8 : s[i] = IF i <= 7 THEN <<a, b, c, d, e, f, g>>[i] ELSE <<h>>[i - 7]
  BY <1>2, <1>3, <1>4, ConcatProperties
<1>6. PICK t : t = <<a, b, c, d, e, f, g, h>>
  OBVIOUS
<1>7. t \in Seq(S) /\ Len(t) = 8 /\ \A i \in 1..8 : s[i] = t[i]
  BY <1>2, <1>3, <1>5, <1>6
<1>8. s = t
  BY <1>5, <1>7, SeqEqual
<1>. QED  BY <1>4, <1>6, <1>8

LEMMA FirstFour ==
  ASSUME NEW n, NEW a, NEW b, NEW c, NEW d, n[1] = a, n[2] = b, n[3] = c, n[4] = d
  PROVE  SubSeq(n, 1, 4) = <<a, b, c, d>>
<1>1. PICK S : S = {a, b, c, d}
  OBVIOUS
<1>2. <<a, b, c, d>> \in Seq(S) /\ Len(<<a, b, c, d>>) = 4
  BY <1>1
<1>3. \A i \in 1..4 : n[i] \in S
  BY <1>1
<1>4. PICK j : j = SubSeq(n, 1, 4)
  OBVIOUS
<1>5. j \in Seq(S) /\ Len(j) = 4 /\ \A i \in 1..4 : j[i] = n[i]
  BY <1>3, <1>4, SubSeqProperties
<1>6. PICK t : t = <<a, b, c, d>>
  OBVIOUS
<1>7. t \in Seq(S) /\ Len(t) = 4 /\ \A i \in 1..4 : j[i] = t[i]
  BY <1>2, <1>5, <1>6
<1>8. j = t
  BY <1>5, <1>7, SeqEqual
<1>. QED  BY <1>4, <1>6, <1>8

-----------------------------------------------------------------------------
(* Sums *)

\* The element that SumFunction, a fold, takes first from s.
Pick(s) == CHOOSE x \in s : TRUE

\* g is the recursive function of the sum of w.
IsSum(w, g) ==
    g = [s \in SUBSET (DOMAIN w) |-> IF s = {} THEN 0 ELSE w[Pick(s)] + g[s \ {Pick(s)}]]

\* Without its first element a subset of D is a smaller one.
LEMMA PickFacts ==
  ASSUME NEW D, IsFiniteSet(D), NEW s \in SUBSET D, s # {}
  PROVE  /\ Pick(s) \in s /\ s \ {Pick(s)} \in SUBSET D
         /\ Cardinality(s) \in Nat /\ Cardinality(s \ {Pick(s)}) = Cardinality(s) - 1
<1>1. Pick(s) \in s
  BY DEF Pick
<1>2. IsFiniteSet(s)
  BY FS_Subset
<1>3. Cardinality(s) \in Nat
  BY <1>2, FS_CardinalityType
<1>4. Cardinality(s \ {Pick(s)}) = Cardinality(s) - 1
  BY <1>1, <1>2, FS_RemoveElement
<1>. QED  BY <1>1, <1>3, <1>4

\* That recursive function exists: it is built up by the size of the subsets,
LEMMA SumExists ==
  ASSUME NEW D, IsFiniteSet(D), NEW w \in [D -> Int]
  PROVE  \E g : g \in [SUBSET D -> Int] /\ IsSum(w, g)
<1>. DEFINE Step(h) == [s \in SUBSET D |-> IF s = {} THEN 0 ELSE w[Pick(s)] + h[s \ {Pick(s)}]]
            Upto(n, h) == /\ h \in [SUBSET D -> Int]
                          /\ \A s \in SUBSET D : Cardinality(s) <= n => h[s] = Step(h)[s]
            Bad == {n \in Nat : ~ \E h : Upto(n, h)}
<1>1. ASSUME NEW h \in [SUBSET D -> Int] PROVE Step(h) \in [SUBSET D -> Int]
  <2>1. ASSUME NEW s \in SUBSET D
        PROVE  (IF s = {} THEN 0 ELSE w[Pick(s)] + h[s \ {Pick(s)}]) \in Int
    <3>1. CASE s = {}
      BY <3>1
    <3>2. CASE s # {}
      <4>1. Pick(s) \in D /\ s \ {Pick(s)} \in SUBSET D
        BY <3>2, PickFacts
      <4>2. w[Pick(s)] \in Int /\ h[s \ {Pick(s)}] \in Int
        BY <1>1, <4>1
      <4>. QED  BY <3>2, <4>2
    <3>. QED  BY <3>1, <3>2
  <2>. QED  BY <2>1
<1>2. \E h : Upto(0, h)
  <2>. DEFINE h == [s \in SUBSET D |-> 0]
  <2>1. ASSUME NEW s \in SUBSET D, Cardinality(s) <= 0 PROVE h[s] = Step(h)[s]
    <3>1. s = {}
      <4>1. SUFFICES ASSUME s # {} PROVE FALSE
        OBVIOUS
      <4>2. /\ Cardinality(s) \in Nat /\ Cardinality(s \ {Pick(s)}) = Cardinality(s) - 1
            /\ s \ {Pick(s)} \in SUBSET D
        BY <4>1, PickFacts
      <4>3. Cardinality(s \ {Pick(s)}) \in Nat
        BY <4>2, FS_Subset, FS_CardinalityType
      <4>. QED  BY <2>1, <4>2, <4>3
    <3>. QED  BY <3>1
  <2>2. h \in [SUBSET D -> Int]
    OBVIOUS
  <2>3. Upto(0, h)
    <3>. HIDE DEF Step, h
    <3>. QED  BY <2>1, <2>2
  <2>. QED  BY <2>3
<1>3. ASSUME NEW n \in Nat, NEW h, Upto(n, h) PROVE Upto(n + 1, Step(h))
  <2>1. ASSUME NEW s \in SUBSET D, Cardinality(s) <= n + 1
        PROVE  Step(h)[s] = Step(Step(h))[s]
    <3>1. CASE s = {}
      BY <3>1
    <3>2. CASE s # {}
      <4>1. /\ s \ {Pick(s)} \in SUBSET D /\ Cardinality(s \ {Pick(s)}) <= n
        BY <2>1, <3>2, PickFacts
      <4>2. h[s \ {Pick(s)}] = Step(h)[s \ {Pick(s)}]
        BY <1>3, <4>1
      <4>3. Step(Step(h))[s] = w[Pick(s)] + Step(h)[s \ {Pick(s)}]
        BY <3>2
      <4>4. Step(h)[s] = w[Pick(s)] + h[s \ {Pick(s)}]
        BY <3>2
      <4>. QED  BY <4>2, <4>3, <4>4
    <3>. QED  BY <3>1, <3>2
  <2>2. Step(h) \in [SUBSET D -> Int]
    BY <1>1, <1>3
  <2>. HIDE DEF Step
  <2>. QED  BY <2>1, <2>2
<1>4. Bad = {}
  <2>1. SUFFICES ASSUME Bad # {} PROVE FALSE
    OBVIOUS
  <2>2. PICK m \in Bad : \A k \in Bad : m <= k
    BY <2>1, LeastElement
  <2>. HIDE DEF Upto
  <2>3. m \in Nat /\ m # 0
    BY <1>2, <2>2
  <2>4. m - 1 \in Nat /\ m - 1 \notin Bad
    <3>. HIDE DEF Bad
    <3>. QED  BY <2>2, <2>3
  <2>5. PICK h : Upto(m - 1, h)
    BY <2>4
  <2>6. Upto((m - 1) + 1, Step(h))
    BY <1>3, <2>4, <2>5
  <2>7. (m - 1) + 1 = m
    BY <2>4
  <2>. QED  BY <2>2, <2>6, <2>7
<1>5. Cardinality(D) \in Nat
  BY FS_CardinalityType
<1>6. PICK h : Upto(Cardinality(D), h)
  BY <1>4, <1>5
<1>7. \A s \in SUBSET D : h[s] = Step(h)[s]
  <2>1. ASSUME NEW s \in SUBSET D PROVE Cardinality(s) <= Cardinality(D)
    BY FS_Subset
  <2>. HIDE DEF Step
  <2>. QED  BY <1>6, <2>1
<1>8. h = Step(h)
  BY <1>6, <1>7
<1>. QED  BY <1>6, <1>8 DEF IsSum


\* Of a non-empty set of subsets of D one is smallest.
LEMMA SmallestSet ==
  ASSUME NEW D, IsFiniteSet(D), NEW B \in SUBSET SUBSET D, B # {}
  PROVE  \E s \in B : \A t \in B : Cardinality(s) <= Cardinality(t)
<1>1. \A s \in B : Cardinality(s) \in Nat
  BY FS_Subset, FS_CardinalityType
<1>2. {Cardinality(s) : s \in B} \subseteq Nat /\ {Cardinality(s) : s \in B} # {}
  BY <1>1
<1>3. PICK n \in {Cardinality(s) : s \in B} : \A m \in {Cardinality(s) : s \in B} : n <= m
  BY <1>2, LeastElement
<1>. QED  BY <1>3

\* and there is only one.
LEMMA SumUnique ==
  ASSUME NEW D, IsFiniteSet(D), NEW w \in [D -> Int], NEW g, NEW h, IsSum(w, g), IsSum(w, h)
  PROVE  g = h
<1>. DEFINE B == {s \in SUBSET D : g[s] # h[s]}
<1>1. B = {}
  <2>1. SUFFICES ASSUME B # {} PROVE FALSE
    OBVIOUS
  <2>2. PICK s \in B : \A t \in B : Cardinality(s) <= Cardinality(t)
    BY <2>1, SmallestSet
  <2>3. s # {}
    BY <2>2 DEF IsSum
  <2>4. /\ s \ {Pick(s)} \in SUBSET D /\ Cardinality(s) \in Nat
        /\ Cardinality(s \ {Pick(s)}) = Cardinality(s) - 1
    BY <2>2, <2>3, PickFacts
  <2>5. s \ {Pick(s)} \notin B
    <3>. HIDE DEF B
    <3>. QED  BY <2>2, <2>4
  <2>6. g[s] = w[Pick(s)] + g[s \ {Pick(s)}] /\ h[s] = w[Pick(s)] + h[s \ {Pick(s)}]
    BY <2>2, <2>3 DEF IsSum
  <2>. QED  BY <2>2, <2>4, <2>5, <2>6
<1>2. DOMAIN g = SUBSET D /\ DOMAIN h = SUBSET D
  BY DEF IsSum
<1>3. g = [s \in SUBSET D |-> g[s]] /\ h = [s \in SUBSET D |-> h[s]]
  BY DEF IsSum
<1>. QED  BY <1>1, <1>3

\* SumFunction takes its value from that function.
LEMMA TotalDef ==
  ASSUME NEW D, IsFiniteSet(D), NEW w \in [D -> Int]
  PROVE  \E g : g \in [SUBSET D -> Int] /\ IsSum(w, g) /\ SumFunction(w) = g[D]
<1>. DEFINE G == CHOOSE g : IsSum(w, g)
<1>1. PICK g : g \in [SUBSET D -> Int] /\ IsSum(w, g)
  BY SumExists
<1>2. IsSum(w, G)
  BY <1>1
<1>3. SumFunction(w) = G[DOMAIN w]
  BY DEF SumFunction, SumFunctionOnSet, FoldFunctionOnSet, MapThenFoldSet, IsSum, Pick
<1>. HIDE DEF G
<1>4. G = g
  BY <1>1, <1>2, SumUnique
<1>. QED  BY <1>1, <1>3, <1>4

\* Induction on the subsets of a finite set, for a set B of counterexamples.
LEMMA SubsetInduction ==
  ASSUME NEW D, IsFiniteSet(D), NEW B \in SUBSET SUBSET D, {} \notin B,
         \A s \in SUBSET D : s # {} /\ s \ {Pick(s)} \notin B => s \notin B
  PROVE  B = {}
<1>1. SUFFICES ASSUME B # {} PROVE FALSE
  OBVIOUS
<1>2. PICK s \in B : \A t \in B : Cardinality(s) <= Cardinality(t)
  BY <1>1, SmallestSet
<1>3. s # {}
  BY <1>2
<1>4. /\ Cardinality(s) \in Nat /\ Cardinality(s \ {Pick(s)}) = Cardinality(s) - 1
  BY <1>2, <1>3, PickFacts
<1>5. s \ {Pick(s)} \notin B
  BY <1>2, <1>4
<1>. QED  BY <1>2, <1>3, <1>5

\* One element more.
LEMMA SumStep ==
  ASSUME NEW D, IsFiniteSet(D), NEW w \in [D -> Int], NEW g, IsSum(w, g)
  PROVE  /\ g[{}] = 0
         /\ \A s \in SUBSET D : s # {} =>
              /\ Pick(s) \in s /\ s \ {Pick(s)} \in SUBSET D
              /\ g[s] = w[Pick(s)] + g[s \ {Pick(s)}]
<1>1. \A s \in SUBSET D : s # {} => Pick(s) \in s /\ s \ {Pick(s)} \in SUBSET D
  BY PickFacts
<1>. QED  BY <1>1 DEF IsSum

\* A sum of integers is an integer.
LEMMA TotalType ==
  ASSUME NEW D, IsFiniteSet(D), NEW w \in [D -> Int]
  PROVE  SumFunction(w) \in Int
<1>1. PICK g : g \in [SUBSET D -> Int] /\ IsSum(w, g) /\ SumFunction(w) = g[D]
  BY TotalDef
<1>. QED  BY <1>1

\* One value changes.
LEMMA TotalUpdate ==
  ASSUME NEW D, IsFiniteSet(D), NEW w \in [D -> Int], NEW v \in [D -> Int], NEW x \in D,
         \A y \in D \ {x} : v[y] = w[y]
  PROVE  SumFunction(v) = SumFunction(w) - w[x] + v[x]
<1>1. PICK g : g \in [SUBSET D -> Int] /\ IsSum(w, g) /\ SumFunction(w) = g[D]
  BY TotalDef
<1>2. PICK h : h \in [SUBSET D -> Int] /\ IsSum(v, h) /\ SumFunction(v) = h[D]
  BY TotalDef
<1>. DEFINE B == {s \in SUBSET D : h[s] # g[s] + (IF x \in s THEN v[x] - w[x] ELSE 0)}
<1>3. {} \notin B
  BY <1>1, <1>2, SumStep
<1>4. ASSUME NEW s \in SUBSET D, s # {}, s \ {Pick(s)} \notin B PROVE s \notin B
  <2>1. /\ Pick(s) \in s /\ s \ {Pick(s)} \in SUBSET D
        /\ g[s] = w[Pick(s)] + g[s \ {Pick(s)}] /\ h[s] = v[Pick(s)] + h[s \ {Pick(s)}]
    BY <1>1, <1>2, <1>4, SumStep
  <2>2. h[s \ {Pick(s)}] = g[s \ {Pick(s)}] + (IF x \in s \ {Pick(s)} THEN v[x] - w[x] ELSE 0)
    BY <1>4, <2>1
  <2>3. /\ w[Pick(s)] \in Int /\ v[Pick(s)] \in Int /\ w[x] \in Int /\ v[x] \in Int
        /\ g[s \ {Pick(s)}] \in Int /\ h[s \ {Pick(s)}] \in Int
    BY <1>1, <1>2, <2>1
  <2>4. CASE Pick(s) = x
    BY <2>1, <2>2, <2>3, <2>4
  <2>5. CASE Pick(s) # x
    <3>1. v[Pick(s)] = w[Pick(s)]
      BY <2>1, <2>5
    <3>2. x \in s \ {Pick(s)} <=> x \in s
      BY <2>5
    <3>. QED  BY <2>1, <2>2, <2>3, <3>1, <3>2
  <2>. QED  BY <2>4, <2>5
<1>5. B = {}
  <2>. HIDE DEF B
  <2>1. \A s \in SUBSET D : s # {} /\ s \ {Pick(s)} \notin B => s \notin B
    BY <1>4
  <2>2. B \in SUBSET SUBSET D
    BY DEF B
  <2>. QED  BY <1>3, <2>1, <2>2, SubsetInduction
<1>. QED  BY <1>1, <1>2, <1>5

\* Every value grows or stays.
LEMMA TotalLeq ==
  ASSUME NEW D, IsFiniteSet(D), NEW w \in [D -> Int], NEW v \in [D -> Int],
         \A y \in D : w[y] <= v[y]
  PROVE  SumFunction(w) <= SumFunction(v)
<1>1. PICK g : g \in [SUBSET D -> Int] /\ IsSum(w, g) /\ SumFunction(w) = g[D]
  BY TotalDef
<1>2. PICK h : h \in [SUBSET D -> Int] /\ IsSum(v, h) /\ SumFunction(v) = h[D]
  BY TotalDef
<1>. DEFINE B == {s \in SUBSET D : ~(g[s] <= h[s])}
<1>3. {} \notin B
  BY <1>1, <1>2, SumStep
<1>4. ASSUME NEW s \in SUBSET D, s # {}, s \ {Pick(s)} \notin B PROVE s \notin B
  <2>1. /\ Pick(s) \in s /\ s \ {Pick(s)} \in SUBSET D
        /\ g[s] = w[Pick(s)] + g[s \ {Pick(s)}] /\ h[s] = v[Pick(s)] + h[s \ {Pick(s)}]
    BY <1>1, <1>2, <1>4, SumStep
  <2>2. /\ w[Pick(s)] \in Int /\ v[Pick(s)] \in Int /\ w[Pick(s)] <= v[Pick(s)]
        /\ g[s \ {Pick(s)}] \in Int /\ h[s \ {Pick(s)}] \in Int
        /\ g[s \ {Pick(s)}] <= h[s \ {Pick(s)}]
    BY <1>1, <1>2, <1>4, <2>1
  <2>. QED  BY <2>1, <2>2
<1>5. B = {}
  <2>. HIDE DEF B
  <2>1. \A s \in SUBSET D : s # {} /\ s \ {Pick(s)} \notin B => s \notin B
    BY <1>4
  <2>2. B \in SUBSET SUBSET D
    BY DEF B
  <2>. QED  BY <1>3, <2>1, <2>2, SubsetInduction
<1>. QED  BY <1>1, <1>2, <1>5

\* d times the values of w, and those of v.
LEMMA TotalLinear ==
  ASSUME NEW D, IsFiniteSet(D), NEW w \in [D -> Int], NEW v \in [D -> Int], NEW d \in Int
  PROVE  SumFunction([y \in D |-> d * w[y] + v[y]]) = d * SumFunction(w) + SumFunction(v)
<1>. DEFINE u == [y \in D |-> d * w[y] + v[y]]
<1>1. PICK g : g \in [SUBSET D -> Int] /\ IsSum(w, g) /\ SumFunction(w) = g[D]
  BY TotalDef
<1>2. PICK h : h \in [SUBSET D -> Int] /\ IsSum(v, h) /\ SumFunction(v) = h[D]
  BY TotalDef
<1>3. ASSUME NEW y \in D PROVE d * w[y] \in Int /\ d * w[y] + v[y] \in Int
  <2>1. w[y] \in Int /\ v[y] \in Int
    OBVIOUS
  <2>. QED  BY <2>1
<1>4. u \in [D -> Int]
  BY <1>3
<1>5. PICK k : k \in [SUBSET D -> Int] /\ IsSum(u, k) /\ SumFunction(u) = k[D]
  BY <1>4, TotalDef
<1>. DEFINE B == {s \in SUBSET D : k[s] # d * g[s] + h[s]}
<1>6. {} \notin B
  <2>1. k[{}] = 0 /\ g[{}] = 0 /\ h[{}] = 0
    <3>. HIDE DEF u
    <3>. QED  BY <1>1, <1>2, <1>4, <1>5, SumStep
  <2>. QED  BY <2>1
<1>7. ASSUME NEW s \in SUBSET D, s # {}, s \ {Pick(s)} \notin B PROVE s \notin B
  <2>1. /\ Pick(s) \in s /\ s \ {Pick(s)} \in SUBSET D
        /\ g[s] = w[Pick(s)] + g[s \ {Pick(s)}] /\ h[s] = v[Pick(s)] + h[s \ {Pick(s)}]
    BY <1>1, <1>2, <1>7, SumStep
  <2>2. k[s] = u[Pick(s)] + k[s \ {Pick(s)}]
    <3>. HIDE DEF u
    <3>. QED  BY <1>4, <1>5, <1>7, SumStep
  <2>3. u[Pick(s)] = d * w[Pick(s)] + v[Pick(s)]
    BY <2>1
  <2>4. k[s \ {Pick(s)}] = d * g[s \ {Pick(s)}] + h[s \ {Pick(s)}]
    BY <1>7, <2>1
  <2>5. /\ w[Pick(s)] \in Int /\ v[Pick(s)] \in Int
        /\ g[s \ {Pick(s)}] \in Int /\ h[s \ {Pick(s)}] \in Int
    BY <1>1, <1>2, <2>1
  <2>6. d * g[s] = d * w[Pick(s)] + d * g[s \ {Pick(s)}]
    BY <2>1, <2>5
  <2>7. d * w[Pick(s)] \in Int /\ d * g[s \ {Pick(s)}] \in Int
    BY <2>5
  <2>8. k[s] = d * g[s] + h[s]
    <3>. HIDE DEF u
    <3>. QED  BY <2>1, <2>2, <2>3, <2>4, <2>5, <2>6, <2>7
  <2>. QED  BY <2>8
<1>8. B = {}
  <2>. HIDE DEF B
  <2>1. \A s \in SUBSET D : s # {} /\ s \ {Pick(s)} \notin B => s \notin B
    BY <1>7
  <2>2. B \in SUBSET SUBSET D
    BY DEF B
  <2>. QED  BY <1>6, <2>1, <2>2, SubsetInduction
<1>9. k[D] = d * g[D] + h[D]
  BY <1>8
<1>. QED  BY <1>1, <1>2, <1>5, <1>9

\* Ones on a set, zeros elsewhere.
LEMMA TotalCount ==
  ASSUME NEW D, IsFiniteSet(D), NEW A \in SUBSET D
  PROVE  SumFunction([y \in D |-> IF y \in A THEN 1 ELSE 0]) = Cardinality(A)
<1>. DEFINE w == [y \in D |-> IF y \in A THEN 1 ELSE 0]
<1>1. w \in [D -> Int]
  OBVIOUS
<1>2. PICK g : g \in [SUBSET D -> Int] /\ IsSum(w, g) /\ SumFunction(w) = g[D]
  BY <1>1, TotalDef
<1>. DEFINE B == {s \in SUBSET D : g[s] # Cardinality(s \cap A)}
<1>3. {} \notin B
  <2>1. g[{}] = 0
    <3>. HIDE DEF w
    <3>. QED  BY <1>1, <1>2, SumStep
  <2>2. {} \cap A = {}
    OBVIOUS
  <2>. QED  BY <2>1, <2>2, FS_EmptySet
<1>4. ASSUME NEW s \in SUBSET D, s # {}, s \ {Pick(s)} \notin B PROVE s \notin B
  <2>1. /\ Pick(s) \in s /\ s \ {Pick(s)} \in SUBSET D /\ g[s] = w[Pick(s)] + g[s \ {Pick(s)}]
    <3>. HIDE DEF w
    <3>. QED  BY <1>1, <1>2, <1>4, SumStep
  <2>2. g[s \ {Pick(s)}] = Cardinality((s \ {Pick(s)}) \cap A)
    BY <1>4, <2>1
  <2>3. IsFiniteSet(s \cap A) /\ IsFiniteSet((s \ {Pick(s)}) \cap A)
    BY FS_Subset
  <2>4. CASE Pick(s) \in A
    <3>1. w[Pick(s)] = 1
      BY <2>1, <2>4
    <3>2. (s \ {Pick(s)}) \cap A = (s \cap A) \ {Pick(s)} /\ Pick(s) \in s \cap A
      BY <2>1, <2>4
    <3>3. /\ Cardinality((s \cap A) \ {Pick(s)}) = Cardinality(s \cap A) - 1
          /\ Cardinality(s \cap A) \in Nat
      BY <2>3, <3>2, FS_RemoveElement, FS_CardinalityType
    <3>4. Cardinality((s \ {Pick(s)}) \cap A) = Cardinality(s \cap A) - 1
      BY <3>2, <3>3
    <3>5. g[s] = Cardinality(s \cap A)
      <4>. HIDE DEF w
      <4>. QED  BY <2>1, <2>2, <3>1, <3>3, <3>4
    <3>. QED  BY <3>5
  <2>5. CASE Pick(s) \notin A
    <3>1. w[Pick(s)] = 0
      BY <2>1, <2>5
    <3>2. (s \ {Pick(s)}) \cap A = s \cap A
      BY <2>5
    <3>3. Cardinality(s \cap A) \in Nat
      BY <2>3, FS_CardinalityType
    <3>4. g[s] = Cardinality(s \cap A)
      <4>. HIDE DEF w
      <4>. QED  BY <2>1, <2>2, <3>1, <3>2, <3>3
    <3>. QED  BY <3>4
  <2>. QED  BY <2>4, <2>5
<1>5. B = {}
  <2>. HIDE DEF B
  <2>1. \A s \in SUBSET D : s # {} /\ s \ {Pick(s)} \notin B => s \notin B
    BY <1>4
  <2>2. B \in SUBSET SUBSET D
    BY DEF B
  <2>. QED  BY <1>3, <2>1, <2>2, SubsetInduction
<1>6. g[D] = Cardinality(D \cap A)
  BY <1>5
<1>7. D \cap A = A
  OBVIOUS
<1>. QED  BY <1>2, <1>6, <1>7

\* The sum of nothing but zeroes.
LEMMA TotalZero ==
  ASSUME NEW D, IsFiniteSet(D)
  PROVE  SumFunction([x \in D |-> 0]) = 0
<1>1. SumFunction([x \in D |-> IF x \in {} THEN 1 ELSE 0]) = Cardinality({})
  BY TotalCount
<1>2. [x \in D |-> IF x \in {} THEN 1 ELSE 0] = [x \in D |-> 0]
  OBVIOUS
<1>. QED  BY <1>1, <1>2, FS_EmptySet

\* A union has at most as many elements as its parts.
LEMMA TotalCovers ==
  ASSUME NEW D, IsFiniteSet(D), NEW w \in [D -> Int], NEW U, IsFiniteSet(U),
         NEW X \in [D -> SUBSET U], \A y \in D : Cardinality(X[y]) <= w[y]
  PROVE  Cardinality(UNION {X[y] : y \in D}) <= SumFunction(w)
<1>1. PICK g : g \in [SUBSET D -> Int] /\ IsSum(w, g) /\ SumFunction(w) = g[D]
  BY TotalDef
<1>. DEFINE Un(s) == UNION {X[y] : y \in s}
            B == {s \in SUBSET D : ~(Cardinality(Un(s)) <= g[s])}
<1>2. {} \notin B
  <2>1. g[{}] = 0
    BY <1>1, SumStep
  <2>2. Un({}) = {}
    OBVIOUS
  <2>3. Cardinality(Un({})) = 0
    BY <2>2, FS_EmptySet
  <2>. HIDE DEF Un
  <2>. QED  BY <2>1, <2>3
<1>3. ASSUME NEW s \in SUBSET D, s # {}, s \ {Pick(s)} \notin B PROVE s \notin B
  <2>1. /\ Pick(s) \in s /\ s \ {Pick(s)} \in SUBSET D /\ g[s] = w[Pick(s)] + g[s \ {Pick(s)}]
    BY <1>1, <1>3, SumStep
  <2>2. Cardinality(Un(s \ {Pick(s)})) <= g[s \ {Pick(s)}]
    <3>. HIDE DEF Un
    <3>. QED  BY <1>3, <2>1
  <2>3. Un(s) = X[Pick(s)] \cup Un(s \ {Pick(s)})
    BY <2>1
  <2>4. Un(s) \subseteq U /\ Un(s \ {Pick(s)}) \subseteq U /\ X[Pick(s)] \subseteq U
    BY <2>1
  <2>. HIDE DEF Un
  <2>5. IsFiniteSet(X[Pick(s)]) /\ IsFiniteSet(Un(s \ {Pick(s)})) /\ IsFiniteSet(Un(s))
    BY <2>4, FS_Subset
  <2>6. /\ Cardinality(X[Pick(s)]) \in Nat /\ Cardinality(Un(s \ {Pick(s)})) \in Nat
        /\ Cardinality(Un(s)) \in Nat
    BY <2>5, FS_CardinalityType
  <2>7. Cardinality(X[Pick(s)] \cup Un(s \ {Pick(s)}))
          <= Cardinality(X[Pick(s)]) + Cardinality(Un(s \ {Pick(s)}))
    <3>1. IsFiniteSet(X[Pick(s)] \cap Un(s \ {Pick(s)}))
      BY <2>5, FS_Subset
    <3>2. Cardinality(X[Pick(s)] \cap Un(s \ {Pick(s)})) \in Nat
      BY <3>1, FS_CardinalityType
    <3>3. Cardinality(X[Pick(s)] \cup Un(s \ {Pick(s)}))
            = Cardinality(X[Pick(s)]) + Cardinality(Un(s \ {Pick(s)}))
                - Cardinality(X[Pick(s)] \cap Un(s \ {Pick(s)}))
      BY <2>5, FS_Union
    <3>. QED  BY <2>6, <3>2, <3>3
  <2>8. Cardinality(X[Pick(s)]) <= w[Pick(s)] /\ w[Pick(s)] \in Int /\ g[s \ {Pick(s)}] \in Int
    BY <1>1, <2>1
  <2>9. Cardinality(Un(s)) <= g[s]
    BY <2>1, <2>2, <2>3, <2>6, <2>7, <2>8
  <2>. QED  BY <2>9
<1>4. B = {}
  <2>. HIDE DEF B
  <2>1. \A s \in SUBSET D : s # {} /\ s \ {Pick(s)} \notin B => s \notin B
    BY <1>3
  <2>2. B \in SUBSET SUBSET D
    BY DEF B
  <2>. QED  BY <1>2, <2>1, <2>2, SubsetInduction
<1>5. Cardinality(Un(D)) <= g[D]
  BY <1>4
<1>. QED  BY <1>1, <1>5

-----------------------------------------------------------------------------
(* Flattened sequences *)

LEMMA JoinAssociative ==
  ASSUME NEW S, NEW x \in Seq(S), NEW y \in Seq(S), NEW z \in Seq(S)
  PROVE  (x \o y) \o z = x \o (y \o z)
BY ConcatAssociative

\* Induction up to n, for the set of those for whom the claim holds.
LEMMA Climb ==
  ASSUME NEW n \in Nat, NEW T, 0 \in T, \A i \in 0..(n - 1) : i \in T => i + 1 \in T
  PROVE  0..n \subseteq T
<1>. DEFINE B == {i \in 0..n : i \notin T}
<1>1. SUFFICES ASSUME B # {} PROVE FALSE
  OBVIOUS
<1>2. B \subseteq Nat
  OBVIOUS
<1>3. PICK m \in B : \A k \in B : m <= k
  BY <1>1, <1>2, LeastElement
<1>4. m \in 1..n /\ m - 1 \in 0..(n - 1) /\ m - 1 \in 0..n /\ (m - 1) + 1 = m /\ ~(m <= m - 1)
  BY <1>3
<1>5. m - 1 \in T
  <2>1. m - 1 \notin B
    <3>. HIDE DEF B
    <3>. QED  BY <1>3, <1>4
  <2>. QED  BY <1>4, <2>1
<1>6. m \in T
  BY <1>4, <1>5
<1>. QED  BY <1>3, <1>6

\* g has the beginnings of the flattened ss.
Flattens(ss, g) ==
  /\ DOMAIN g = 0..Len(ss) /\ g[0] = << >>
  /\ \A i \in 1..Len(ss) : g[i] = g[i - 1] \o ss[i]

LEMMA FlattensType ==
  ASSUME NEW S, NEW ss \in Seq(Seq(S)), NEW g, Flattens(ss, g)
  PROVE  \A i \in 0..Len(ss) : g[i] \in Seq(S)
<1>. DEFINE T == {i \in 0..Len(ss) : g[i] \in Seq(S)}
<1>1. Len(ss) \in Nat /\ \A i \in 1..Len(ss) : ss[i] \in Seq(S)
  BY LenProperties
<1>2. 0 \in T
  <2>1. g[0] = << >> /\ << >> \in Seq(S) /\ 0 \in 0..Len(ss)
    BY <1>1, EmptySeq DEF Flattens
  <2>. QED  BY <2>1
<1>3. ASSUME NEW i \in 0..(Len(ss) - 1), i \in T PROVE i + 1 \in T
  <2>1. i + 1 \in 1..Len(ss) /\ i + 1 \in 0..Len(ss) /\ (i + 1) - 1 = i
    BY <1>1
  <2>2. g[i + 1] = g[i] \o ss[i + 1]
    BY <2>1 DEF Flattens
  <2>3. g[i] \o ss[i + 1] \in Seq(S)
    BY <1>1, <1>3, <2>1, ConcatProperties
  <2>. QED  BY <2>1, <2>2, <2>3
<1>. HIDE DEF T
<1>4. 0..Len(ss) \subseteq T
  BY <1>1, <1>2, <1>3, Climb
<1>. QED  BY <1>4 DEF T

FlattenSteps(ss, n, g) == \A i \in 1..n : g[i] = g[i - 1] \o ss[i]

LEMMA FlattensUnique ==
  ASSUME NEW ss, NEW n \in Nat, NEW g, NEW h, g[0] = h[0], FlattenSteps(ss, n, g), FlattenSteps(ss, n, h)
  PROVE  g[n] = h[n]
<1>. DEFINE T == {i \in 0..n : g[i] = h[i]}
<1>1. n \in Nat
  OBVIOUS
<1>2. 0 \in T
  BY <1>1
<1>3. ASSUME NEW i \in 0..(n - 1), i \in T PROVE i + 1 \in T
  <2>1. i + 1 \in 1..n /\ i + 1 \in 0..n /\ (i + 1) - 1 = i
    BY <1>1
  <2>. QED  BY <1>3, <2>1 DEF FlattenSteps
<1>. HIDE DEF T
<1>4. 0..n \subseteq T
  BY <1>1, <1>2, <1>3, Climb
<1>5. n \in T
  BY <1>1, <1>4
<1>. QED  BY <1>5 DEF T

LEMMA FlattensExists ==
  ASSUME NEW S, NEW ss \in Seq(Seq(S))
  PROVE  \E g : Flattens(ss, g)
<1>. DEFINE Upto(n, g) == /\ DOMAIN g = 0..Len(ss) /\ g[0] = << >>
                          /\ \A i \in 1..n : g[i] = g[i - 1] \o ss[i]
            T == {n \in 0..Len(ss) : \E g : Upto(n, g)}
<1>1. Len(ss) \in Nat
  BY LenProperties
<1>2. 0 \in T
  <2>1. Upto(0, [i \in 0..Len(ss) |-> << >>])
    BY <1>1
  <2>2. 0 \in 0..Len(ss)
    BY <1>1
  <2>. HIDE DEF Upto
  <2>. QED  BY <2>1, <2>2
<1>3. ASSUME NEW n \in 0..(Len(ss) - 1), n \in T PROVE n + 1 \in T
  <2>1. PICK g : Upto(n, g)
    BY <1>3
  <2>2. n + 1 \in 1..Len(ss) /\ n + 1 \in 0..Len(ss) /\ (n + 1) - 1 = n
    BY <1>1
  <2>. DEFINE h == [i \in 0..Len(ss) |-> IF i = n + 1 THEN g[n] \o ss[n + 1] ELSE g[i]]
  <2>3. ASSUME NEW i \in 1..(n + 1) PROVE h[i] = h[i - 1] \o ss[i]
    <3>1. i \in 0..Len(ss) /\ i - 1 \in 0..Len(ss) /\ i - 1 # n + 1
      BY <1>1
    <3>2. h[i - 1] = g[i - 1]
      BY <3>1
    <3>3. CASE i = n + 1
      <4>1. h[i] = g[n] \o ss[n + 1] /\ i - 1 = n
        BY <2>2, <3>1, <3>3
      <4>. QED  BY <3>2, <3>3, <4>1
    <3>4. CASE i # n + 1
      <4>1. i \in 1..n /\ h[i] = g[i]
        BY <3>1, <3>4
      <4>. QED  BY <2>1, <3>2, <4>1
    <3>. QED  BY <3>3, <3>4
  <2>4. DOMAIN h = 0..Len(ss) /\ h[0] = << >>
    BY <1>1, <2>1
  <2>. HIDE DEF h
  <2>5. Upto(n + 1, h)
    BY <2>3, <2>4
  <2>. QED  BY <2>2, <2>5
<1>. HIDE DEF Upto
<1>4. 0..Len(ss) \subseteq T
  <2>. HIDE DEF T
  <2>. QED  BY <1>1, <1>2, <1>3, Climb
<1>5. Len(ss) \in T
  BY <1>1, <1>4
<1>6. PICK g : Upto(Len(ss), g)
  BY <1>5
<1>. QED  BY <1>6 DEF Upto, Flattens

\* FlattenSeq takes its value from that function.
LEMMA FlattenDef ==
  ASSUME NEW S, NEW ss \in Seq(Seq(S))
  PROVE  \E g : Flattens(ss, g) /\ FlattenSeq(ss) = g[Len(ss)]
<1>1. PICK g : Flattens(ss, g)
  BY FlattensExists
<1>2. Len(ss) \in Nat /\ \A i \in 1..Len(ss) : ss[i] \in Seq(S)
  BY LenProperties
<1>3. CASE Len(ss) = 0
  <2>1. ss = << >>
    BY <1>3, EmptySeq
  <2>2. FlattenSeq(ss) = ss
    BY <1>3 DEF FlattenSeq
  <2>. QED  BY <1>1, <1>3, <2>1, <2>2 DEF Flattens
<1>4. CASE Len(ss) # 0
  <2>. DEFINE Step(f) == [i \in 1..Len(ss) |-> IF i = 1 THEN ss[i] ELSE f[i - 1] \o ss[i]]
              F == CHOOSE f : f = Step(f)
              h == [i \in 1..Len(ss) |-> g[i]]
  <2>1. \A i \in 1..Len(ss) : h[i] = IF i = 1 THEN ss[i] ELSE h[i - 1] \o ss[i]
    <3>. TAKE i \in 1..Len(ss)
    <3>1. g[i] = g[i - 1] \o ss[i] /\ h[i] = g[i]
      BY <1>1 DEF Flattens
    <3>2. CASE i = 1
      <4>1. g[i - 1] = << >> /\ ss[i] \in Seq(S)
        BY <1>1, <1>2, <3>2 DEF Flattens
      <4>2. << >> \o ss[i] = ss[i]
        BY <4>1, ConcatEmptySeq
      <4>. QED  BY <3>1, <3>2, <4>1, <4>2
    <3>3. CASE i # 1
      <4>1. i - 1 \in 1..Len(ss)
        BY <1>2, <3>3
      <4>2. h[i - 1] = g[i - 1]
        BY <4>1
      <4>. QED  BY <3>1, <3>3, <4>2
    <3>. QED  BY <3>2, <3>3
  <2>2. h = Step(h)
    <3>1. \A i \in 1..Len(ss) : h[i] = Step(h)[i]
      BY <2>1
    <3>. QED  BY <3>1
  <2>3. F = Step(F)
    <3>. HIDE DEF Step, h
    <3>. QED  BY <2>2
  <2>4. FlattenSeq(ss) = F[Len(ss)]
    BY <1>4 DEF FlattenSeq
  <2>. DEFINE f == [i \in 0..Len(ss) |-> IF i = 0 THEN << >> ELSE F[i]]
  <2>5. \A i \in 1..Len(ss) : F[i] = IF i = 1 THEN ss[i] ELSE F[i - 1] \o ss[i]
    <3>. HIDE DEF F
    <3>1. \A i \in 1..Len(ss) : F[i] = Step(F)[i]
      BY <2>3
    <3>. QED  BY <3>1
  <2>. HIDE DEF F
  <2>6. \A i \in 1..Len(ss) : f[i] = f[i - 1] \o ss[i]
    <3>. TAKE i \in 1..Len(ss)
    <3>1. i \in 0..Len(ss) /\ i - 1 \in 0..Len(ss) /\ i # 0
      BY <1>2
    <3>2. f[i] = F[i]
      BY <3>1
    <3>3. CASE i = 1
      <4>1. f[i - 1] = << >> /\ F[i] = ss[i]
        BY <2>5, <3>1, <3>3
      <4>2. << >> \o ss[i] = ss[i]
        BY <1>2, ConcatEmptySeq
      <4>. QED  BY <3>2, <4>1, <4>2
    <3>4. CASE i # 1
      <4>1. f[i - 1] = F[i - 1]
        BY <1>2, <3>1, <3>4
      <4>. QED  BY <2>5, <3>2, <3>4, <4>1
    <3>. QED  BY <3>3, <3>4
  <2>7. DOMAIN f = 0..Len(ss) /\ f[0] = << >> /\ f[Len(ss)] = F[Len(ss)]
    BY <1>2, <1>4
  <2>. HIDE DEF f
  <2>8. Flattens(ss, f)
    BY <2>6, <2>7 DEF Flattens
  <2>. QED  BY <2>4, <2>7, <2>8
<1>. QED  BY <1>3, <1>4

\* Two sequences of sequences, one behind the other.
LEMMA FlattenConcat ==
  ASSUME NEW S, NEW ss \in Seq(Seq(S)), NEW tt \in Seq(Seq(S))
  PROVE  /\ FlattenSeq(ss) \in Seq(S) /\ FlattenSeq(tt) \in Seq(S)
         /\ FlattenSeq(ss \o tt) = FlattenSeq(ss) \o FlattenSeq(tt)
<1>. DEFINE uu == ss \o tt
            m == Len(ss)
            n == Len(tt)
<1>1. /\ uu \in Seq(Seq(S)) /\ m \in Nat /\ n \in Nat /\ Len(uu) = m + n
      /\ \A i \in 1..m : uu[i] = ss[i]
      /\ \A i \in 1..n : uu[m + i] = tt[i]
  BY ConcatProperties, LenProperties
<1>2. PICK f : Flattens(ss, f) /\ FlattenSeq(ss) = f[m]
  BY FlattenDef
<1>3. PICK g : Flattens(tt, g) /\ FlattenSeq(tt) = g[n]
  BY FlattenDef
<1>. HIDE DEF uu
<1>4. PICK h : Flattens(uu, h) /\ FlattenSeq(uu) = h[Len(uu)]
  BY <1>1, FlattenDef
<1>5. \A i \in 0..m : f[i] \in Seq(S)
  BY <1>2, FlattensType
<1>6. \A i \in 0..n : g[i] \in Seq(S)
  BY <1>3, FlattensType
<1>7. h[m] = f[m]
  <2>1. FlattenSteps(ss, m, f) /\ FlattenSteps(ss, m, h)
    <3>1. \A i \in 1..m : i \in 1..Len(uu)
      BY <1>1
    <3>. QED  BY <1>1, <1>2, <1>4, <3>1 DEF Flattens, FlattenSteps
  <2>2. f[0] = h[0]
    BY <1>2, <1>4 DEF Flattens
  <2>3. m \in Nat
    BY <1>1
  <2>4. f[m] = h[m]
    BY <2>1, <2>2, <2>3, FlattensUnique
  <2>. QED  BY <2>4
<1>. DEFINE T == {j \in 0..n : h[m + j] = f[m] \o g[j]}
<1>8. f[m] \in Seq(S)
  BY <1>1, <1>5
<1>. HIDE DEF m, n
<1>9. 0 \in T
  <2>1. g[0] = << >> /\ m + 0 = m /\ 0 \in 0..n
    BY <1>1, <1>3 DEF Flattens
  <2>2. f[m] \o << >> = f[m]
    BY <1>8, ConcatEmptySeq
  <2>3. h[m + 0] = f[m] \o g[0]
    BY <1>7, <2>1, <2>2
  <2>. QED  BY <2>1, <2>3
<1>10. ASSUME NEW j \in 0..(n - 1), j \in T PROVE j + 1 \in T
  <2>1. /\ j + 1 \in 1..n /\ j + 1 \in 0..n /\ j \in 0..n /\ (j + 1) - 1 = j
        /\ m + (j + 1) \in 1..(m + n) /\ (m + (j + 1)) - 1 = m + j
    BY <1>1
  <2>2. h[m + (j + 1)] = h[m + j] \o tt[j + 1]
    <3>1. m + (j + 1) \in 1..Len(uu)
      BY <1>1, <2>1
    <3>2. h[m + (j + 1)] = h[(m + (j + 1)) - 1] \o uu[m + (j + 1)]
      BY <1>4, <3>1 DEF Flattens
    <3>. QED  BY <1>1, <2>1, <3>2
  <2>3. g[j + 1] = g[j] \o tt[j + 1]
    BY <1>3, <2>1 DEF Flattens, n
  <2>4. h[m + j] = f[m] \o g[j] /\ g[j] \in Seq(S) /\ tt[j + 1] \in Seq(S)
    BY <1>6, <1>10, <2>1, LenProperties DEF n
  <2>5. (f[m] \o g[j]) \o tt[j + 1] = f[m] \o (g[j] \o tt[j + 1])
    <3>. DEFINE a == f[m]
                b == g[j]
                c == tt[j + 1]
    <3>1. a \in Seq(S) /\ b \in Seq(S) /\ c \in Seq(S)
      BY <1>8, <2>4
    <3>. HIDE DEF a, b, c
    <3>2. (a \o b) \o c = a \o (b \o c)
      BY <3>1, JoinAssociative, SMTT(30)
    <3>. QED  BY <3>2 DEF a, b, c
  <2>. QED  BY <2>1, <2>2, <2>3, <2>4, <2>5
<1>. HIDE DEF T
<1>11. 0..n \subseteq T
  BY <1>1, <1>9, <1>10, Climb
<1>12. n \in T
  BY <1>1, <1>11
<1>13. h[m + n] = f[m] \o g[n]
  BY <1>12 DEF T
<1>14. g[n] \in Seq(S)
  BY <1>1, <1>6
<1>. QED  BY <1>1, <1>2, <1>3, <1>4, <1>8, <1>13, <1>14 DEF uu

LEMMA FlattenEmpty ==
  FlattenSeq(<< >>) = << >>
<1>1. Len(<< >>) = 0
  OBVIOUS
<1>. QED  BY <1>1 DEF FlattenSeq

\* Nothing and nothing is nothing.
LEMMA FlattenNothing ==
  ASSUME NEW S, NEW ss \in Seq(Seq(S)), \A i \in 1..Len(ss) : ss[i] = << >>
  PROVE  FlattenSeq(ss) = << >>
<1>1. PICK g : Flattens(ss, g) /\ FlattenSeq(ss) = g[Len(ss)]
  BY FlattenDef
<1>. DEFINE T == {i \in 0..Len(ss) : g[i] = << >>}
<1>2. Len(ss) \in Nat
  BY LenProperties
<1>3. 0 \in T
  BY <1>1, <1>2 DEF Flattens
<1>4. ASSUME NEW i \in 0..(Len(ss) - 1), i \in T PROVE i + 1 \in T
  <2>1. i + 1 \in 1..Len(ss) /\ i + 1 \in 0..Len(ss) /\ (i + 1) - 1 = i
    BY <1>2
  <2>2. g[i + 1] = g[i] \o ss[i + 1]
    BY <1>1, <2>1 DEF Flattens
  <2>3. << >> \o << >> = << >>
    BY EmptySeq, ConcatEmptySeq
  <2>. QED  BY <1>4, <2>1, <2>2, <2>3
<1>. HIDE DEF T
<1>5. 0..Len(ss) \subseteq T
  BY <1>2, <1>3, <1>4, Climb
<1>6. Len(ss) \in T
  BY <1>2, <1>5
<1>. QED  BY <1>1, <1>6 DEF T

\* One by one.
LEMMA FlattenSingles ==
  ASSUME NEW S, NEW x \in Seq(S)
  PROVE  FlattenSeq([i \in 1..Len(x) |-> <<x[i]>>]) = x
<1>. DEFINE ss == [i \in 1..Len(x) |-> <<x[i]>>]
<1>1. Len(x) \in Nat /\ \A i \in 1..Len(x) : x[i] \in S
  BY LenProperties
<1>2. \A i \in 1..Len(x) : <<x[i]>> \in Seq(S)
  BY <1>1
<1>3. ss \in Seq(Seq(S)) /\ Len(ss) = Len(x)
  BY <1>1, <1>2, IsASeq, LenProperties
<1>4. \A i \in 1..Len(x) : ss[i] = <<x[i]>>
  OBVIOUS
<1>. HIDE DEF ss
<1>5. PICK g : Flattens(ss, g) /\ FlattenSeq(ss) = g[Len(x)]
  BY <1>3, FlattenDef
<1>6. \A i \in 0..Len(x) : g[i] \in Seq(S)
  BY <1>3, <1>5, FlattensType
<1>. DEFINE T == {n \in 0..Len(x) : Len(g[n]) = n /\ \A i \in 1..n : g[n][i] = x[i]}
<1>7. 0 \in T
  BY <1>1, <1>5 DEF Flattens
<1>8. ASSUME NEW n \in 0..(Len(x) - 1), n \in T PROVE n + 1 \in T
  <2>1. n \in 0..Len(x) /\ n + 1 \in 1..Len(x) /\ n + 1 \in 0..Len(x) /\ (n + 1) - 1 = n
    BY <1>1
  <2>2. g[n + 1] = g[n] \o <<x[n + 1]>>
    BY <1>3, <1>4, <1>5, <2>1 DEF Flattens
  <2>3. g[n] \in Seq(S) /\ Len(g[n]) = n /\ \A i \in 1..n : g[n][i] = x[i]
    BY <1>6, <1>8, <2>1
  <2>4. <<x[n + 1]>> \in Seq(S) /\ Len(<<x[n + 1]>>) = 1 /\ <<x[n + 1]>>[1] = x[n + 1]
    BY <1>2, <2>1
  <2>. DEFINE y == <<x[n + 1]>>
  <2>5. /\ Len(g[n] \o y) = n + 1
        /\ \A i \in 1..(n + 1) : (g[n] \o y)[i] = IF i <= n THEN g[n][i] ELSE y[i - n]
    <3>. HIDE DEF y
    <3>. QED  BY <2>3, <2>4, ConcatProperties DEF y
  <2>6. ASSUME NEW i \in 1..(n + 1) PROVE (g[n] \o y)[i] = x[i]
    <3>1. CASE i <= n
      BY <2>3, <2>5, <3>1
    <3>2. CASE i = n + 1
      <4>1. i - n = 1 /\ ~(i <= n)
        BY <3>2, <2>1
      <4>. QED  BY <2>4, <2>5, <3>2, <4>1
    <3>3. i <= n \/ i = n + 1
      BY <2>1
    <3>. QED  BY <3>1, <3>2, <3>3
  <2>. QED  BY <2>1, <2>2, <2>5, <2>6
<1>. HIDE DEF T
<1>9. 0..Len(x) \subseteq T
  BY <1>1, <1>7, <1>8, Climb
<1>10. Len(x) \in T
  BY <1>1, <1>9
<1>11. Len(g[Len(x)]) = Len(x) /\ \A i \in 1..Len(x) : g[Len(x)][i] = x[i]
  BY <1>10 DEF T
<1>12. g[Len(x)] \in Seq(S)
  BY <1>1, <1>6
<1>13. g[Len(x)] = x
  BY <1>11, <1>12, SeqEqual
<1>. QED  BY <1>5, <1>13 DEF ss
=============================================================================
