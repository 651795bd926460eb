---------------------------- MODULE Lists_proofs ----------------------------
(***************************************************************************)
(* Proofs about the lists of BaseList, for any lists, nodes and objects    *)
(* and any room in the caches: that they are well linked and copy in place *)
(* (ListsAreSafe), and that every call does what PlainList says it does    *)
(* (ListsDoWhatTheySay).  The invariant, ListInv, names the sequences of   *)
(* nodes that the pointers stand for, ch for the lists and ca for the      *)
(* caches, and says all that the pointers do in terms of these.            *)
(***************************************************************************)
EXTENDS MC_Lists, TLAPS, SequenceTheorems, FiniteSetTheorems, WellFoundedInduction

(***************************************************************************)
(* The nodes that a chain of pointers links                                *)
(***************************************************************************)

LEMMA SameOperators ==
  \A S : L!Cardinality(S) = Cardinality(S) /\ L!Range(S) = Range(S)
BY DEF L!Cardinality, Cardinality, L!Range, Range

LEMMA MakesSeq ==
  ASSUME NEW S, NEW n \in Nat, NEW f \in [1 .. n -> S]
  PROVE  f \in Seq(S) /\ Len(f) = n /\ DOMAIN f = 1 .. n
OBVIOUS

LEMMA SameSeq ==
  ASSUME NEW S, NEW a \in Seq(S), NEW b \in Seq(S), Len(a) = Len(b),
         \A i \in 1 .. Len(a) : a[i] = b[i]
  PROVE  a = b
BY SeqEqual

\* The i-th node of a chain; there is none before the first and after the last.
Nth(s, i) == IF i \in 1 .. Len(s) THEN s[i] ELSE NoNode

Distinct(s) == s \in Seq(Nodes) /\ \A i, j \in 1 .. Len(s) : s[i] = s[j] => i = j

\* The pointers f lead from n through s.
Leads(s, f, n) ==
  Distinct(s) /\ n = Nth(s, 1) /\ \A i \in 1 .. Len(s) : f[s[i]] = Nth(s, i + 1)

LEMMA NthIsNode ==
  ASSUME NEW s \in Seq(Nodes), NEW i
  PROVE  /\ i \in 1 .. Len(s) => Nth(s, i) = s[i] /\ Nth(s, i) \in Nodes
         /\ i \notin 1 .. Len(s) => Nth(s, i) = NoNode
         /\ Nth(s, i) \in L!Position
         /\ Nth(s, i) # NoNode <=> i \in 1 .. Len(s)
BY ListsAssumption DEF Nth, L!Position

\* A chain is no longer than there are nodes.
LEMMA ShortChain ==
  ASSUME NEW s, Distinct(s)
  PROVE  Len(s) \in Nat /\ Cardinality(Nodes) \in Nat /\ Len(s) <= Cardinality(Nodes)
<1>1. s \in Injection(1 .. Len(s), Nodes)
  BY DEF Distinct, Injection, IsInjective
<1>2. Cardinality(1 .. Len(s)) <= Cardinality(Nodes)
  BY <1>1, FS_Injection, ListsAssumption
<1>3. Cardinality(1 .. Len(s)) = Len(s)
  BY FS_Interval DEF Distinct
<1> QED BY <1>2, <1>3, FS_CardinalityType, ListsAssumption DEF Distinct

LEMMA LeastOf ==
  ASSUME NEW W \in SUBSET Nat, W # {}
  PROVE  \E x \in W : \A y \in W : x <= y
<1>1. PICK x \in W : \A y \in W : ~(<<y, x>> \in OpToRel(<, Nat))
  BY NatLessThanWellFounded, WFMin
<1>2. \A y \in W : ~(y < x)
  BY <1>1 DEF OpToRel
<1> QED BY <1>2

\* What the recursive function of Along computes in k steps from what it
\* computes in one step less.
Onwards(g, f, k) ==
  [m \in Nodes \cup {NoNode} |->
     IF m = NoNode \/ k = 0 THEN <<>> ELSE <<m>> \o g[k - 1][f[m]]]

\* There is such a function, for any pointers.
LEMMA WalkExists ==
  ASSUME NEW f, NEW n \in Nat
  PROVE  \E g : g = [k \in 0 .. n |-> Onwards(g, f, k)]
<1> DEFINE Fits(g, k) == g = [j \in 0 .. k |-> Onwards(g, f, j)]
           B == {k \in Nat : ~\E g : Fits(g, k)}
<1>1. B = {}
  <2> SUFFICES ASSUME B # {} PROVE FALSE
    OBVIOUS
  <2>1. PICK k \in B : \A j \in B : k <= j
    <3>1. B \in SUBSET Nat
      OBVIOUS
    <3> HIDE DEF B
    <3> QED BY <3>1, LeastOf
  <2>2. CASE k = 0
    <3> DEFINE e == [m \in Nodes \cup {NoNode} |-> <<>>]
               g == [j \in 0 .. 0 |-> e]
    <3>1. Onwards(g, f, 0) = e
      BY DEF Onwards
    <3>2. Fits(g, 0)
      BY <3>1
    <3> QED BY <2>1, <2>2, <3>2
  <2>3. CASE k # 0
    <3>1. k - 1 \in Nat /\ k - 1 \notin B
      BY <2>1, <2>3
    <3>2. PICK g : Fits(g, k - 1)
      BY <3>1
    <3> DEFINE h == [j \in 0 .. k |-> IF j < k THEN g[j] ELSE Onwards(g, f, k)]
    <3>3. ASSUME NEW j \in 0 .. k PROVE h[j] = Onwards(h, f, j)
      <4>1. j = 0 \/ (j - 1 \in 0 .. k - 1 /\ h[j - 1] = g[j - 1])
        BY <2>1, <3>3
      <4>2. Onwards(h, f, j) = Onwards(g, f, j)
        <5> HIDE DEF h
        <5>1. CASE j = 0
          BY ONLY <5>1 DEF Onwards
        <5>2. CASE h[j - 1] = g[j - 1]
          BY ONLY <5>2 DEF Onwards
        <5> QED BY <4>1, <5>1, <5>2
      <4>3. j < k => g[j] = Onwards(g, f, j)
        <5>1. g = [i \in 0 .. k - 1 |-> Onwards(g, f, i)]
          BY <3>2
        <5>2. j < k => j \in 0 .. k - 1
          BY <2>1, <3>3
        <5> QED BY <5>1, <5>2
      <4>4. h[j] = IF j < k THEN g[j] ELSE Onwards(g, f, k)
        OBVIOUS
      <4> QED BY <2>1, <3>3, <4>2, <4>3, <4>4
    <3>4. Fits(h, k)
      BY <3>3
    <3> QED BY <2>1, <3>4
  <2> QED BY <2>2, <2>3
<1> QED BY <1>1

\* The part of a chain from place i on, of at most k nodes.
Part(s, i, k) == [j \in 1 .. (IF k < Len(s) + 1 - i THEN k ELSE Len(s) + 1 - i) |-> s[j + i - 1]]

LEMMA PartIs ==
  ASSUME NEW s \in Seq(Nodes), NEW i \in 1 .. Len(s) + 1, NEW k \in Nat
  PROVE  /\ Part(s, i, k) \in Seq(Nodes)
         /\ Len(Part(s, i, k)) = IF k < Len(s) + 1 - i THEN k ELSE Len(s) + 1 - i
         /\ \A j \in 1 .. Len(Part(s, i, k)) : Part(s, i, k)[j] = s[j + i - 1]
<1> DEFINE p == Part(s, i, k)
           n == IF k < Len(s) + 1 - i THEN k ELSE Len(s) + 1 - i
<1>0. n \in Nat
  OBVIOUS
<1>1. p = [j \in 1 .. n |-> s[j + i - 1]]
  BY DEF Part
<1>2. \A j \in 1 .. n : s[j + i - 1] \in Nodes
  <2> TAKE j \in 1 .. n
  <2>1. j + i - 1 \in 1 .. Len(s)
    OBVIOUS
  <2> QED BY <2>1
<1> HIDE DEF p, n
<1>3. p \in [1 .. n -> Nodes]
  BY <1>1, <1>2
<1>4. p \in Seq(Nodes) /\ Len(p) = n
  BY <1>0, <1>3, MakesSeq
<1> QED BY <1>1, <1>4 DEF p, n

LEMMA PartEmpty ==
  ASSUME NEW s \in Seq(Nodes), NEW i \in 1 .. Len(s) + 1, NEW k \in Nat,
         i = Len(s) + 1 \/ k = 0
  PROVE  Part(s, i, k) = <<>>
<1>1. (IF k < Len(s) + 1 - i THEN k ELSE Len(s) + 1 - i) = 0
  OBVIOUS
<1>2. Part(s, i, k) \in Seq(Nodes) /\ Len(Part(s, i, k)) = 0
  BY <1>1, PartIs
<1> QED BY ONLY <1>2, EmptySeq

LEMMA PartGrows ==
  ASSUME NEW s \in Seq(Nodes), NEW i \in 1 .. Len(s), NEW k \in Nat, k # 0
  PROVE  <<s[i]>> \o Part(s, i + 1, k - 1) = Part(s, i, k)
<1> DEFINE n == IF k < Len(s) + 1 - i THEN k ELSE Len(s) + 1 - i
           m == n - 1
           a == i + 1
           c == k - 1
           p == Part(s, a, c)
           q == <<s[i]>> \o p
           r == Part(s, i, k)
<1>1. /\ n \in Nat \ {0} /\ m \in Nat /\ a \in 1 .. Len(s) + 1 /\ c \in Nat
      /\ m = IF c < Len(s) + 1 - a THEN c ELSE Len(s) + 1 - a
      /\ i \in 1 .. Len(s) + 1
  OBVIOUS
<1> HIDE DEF a, c, m, n
<1>2. r \in Seq(Nodes) /\ Len(r) = n /\ \A j \in 1 .. n : r[j] = s[j + i - 1]
  <2>1. /\ Part(s, i, k) \in Seq(Nodes)
        /\ Len(Part(s, i, k)) = IF k < Len(s) + 1 - i THEN k ELSE Len(s) + 1 - i
        /\ \A j \in 1 .. Len(Part(s, i, k)) : Part(s, i, k)[j] = s[j + i - 1]
    BY <1>1, PartIs
  <2> QED BY <2>1 DEF n
<1>3. p \in Seq(Nodes) /\ Len(p) = m /\ \A j \in 1 .. m : p[j] = s[j + a - 1]
  <2>1. /\ Part(s, a, c) \in Seq(Nodes)
        /\ Len(Part(s, a, c)) = IF c < Len(s) + 1 - a THEN c ELSE Len(s) + 1 - a
        /\ \A j \in 1 .. Len(Part(s, a, c)) : Part(s, a, c)[j] = s[j + a - 1]
    BY <1>1, PartIs
  <2> QED BY <1>1, <2>1
<1> USE DEF m, a, c
<1> HIDE DEF p, r
<1>4. s[i] \in Nodes
  OBVIOUS
<1>5. /\ q \in Seq(Nodes) /\ Len(q) = n
      /\ \A j \in 1 .. n : q[j] = IF j = 1 THEN s[i] ELSE p[j - 1]
  BY <1>1, <1>3, <1>4
<1>6. ASSUME NEW j \in 1 .. n PROVE q[j] = r[j]
  <2>1. r[j] = s[j + i - 1] /\ q[j] = IF j = 1 THEN s[i] ELSE p[j - 1]
    BY <1>2, <1>5
  <2>2. CASE j = 1
    BY <2>1, <2>2
  <2>3. CASE j # 1
    <3> DEFINE b == j - 1
    <3>1. b \in 1 .. m /\ b + a - 1 = j + i - 1
      BY <1>1, <2>3
    <3> HIDE DEF b, a
    <3>2. p[b] = s[b + a - 1]
      BY <1>3, <3>1
    <3>3. p[b] = s[j + i - 1]
      BY <3>1, <3>2
    <3> QED BY <2>1, <2>3, <3>3 DEF b
  <2> QED BY <2>2, <2>3
<1> HIDE DEF q
<1>7. q = r
  BY <1>2, <1>5, <1>6, SameSeq
<1> QED BY <1>7 DEF p, q, r

\* Along finds the chain.
LEMMA AlongIs ==
  ASSUME NEW s, NEW f, NEW n, Leads(s, f, n)
  PROVE  L!Along(f, n) = s
<1> DEFINE K == Cardinality(Nodes) + 1
           Fits(w) == w = [k \in 0 .. K |-> Onwards(w, f, k)]
           x == CHOOSE w : Fits(w)
<1>1. K \in Nat /\ s \in Seq(Nodes) /\ Len(s) + 1 <= K /\ Len(s) \in Nat
  BY ShortChain DEF Leads, Distinct
<1>2. Fits(x)
  <2> HIDE DEF K
  <2>1. \E w : Fits(w)
    BY <1>1, WalkExists
  <2> QED BY <2>1
<1>3. L!Along(f, n) = x[K][n]
  BY SameOperators DEF L!Along, Onwards
<1> HIDE DEF x
<1>4. \A k \in 0 .. K : x[k] = Onwards(x, f, k)
  BY <1>2
<1> DEFINE Good(k) == \A i \in 1 .. Len(s) + 1 : x[k][Nth(s, i)] = Part(s, i, k)
           B == {k \in 0 .. K : ~Good(k)}
<1> HIDE DEF K
<1>5. B = {}
  <2> SUFFICES ASSUME B # {} PROVE FALSE
    OBVIOUS
  <2>1. PICK k \in B : \A j \in B : k <= j
    <3>1. B \in SUBSET Nat
      BY <1>1
    <3> HIDE DEF B
    <3> QED BY <3>1, LeastOf
  <2>2. k \in 0 .. K /\ x[k] = Onwards(x, f, k)
    BY <1>4
  <2>3. PICK i \in 1 .. Len(s) + 1 : x[k][Nth(s, i)] # Part(s, i, k)
    BY <2>1
  <2>4. x[k][Nth(s, i)] = IF Nth(s, i) = NoNode \/ k = 0 THEN <<>>
                          ELSE <<Nth(s, i)>> \o x[k - 1][f[Nth(s, i)]]
    BY <1>1, <2>2, NthIsNode DEF Onwards, L!Position
  <2>5. CASE i = Len(s) + 1 \/ k = 0
    <3>1. Part(s, i, k) = <<>>
      <4>1. s \in Seq(Nodes) /\ Len(s) \in Nat /\ k \in Nat /\ i \in 1 .. Len(s) + 1
        BY <1>1, <2>2
      <4> QED BY ONLY <2>5, <4>1, PartEmpty
    <3>2. Nth(s, i) = NoNode \/ k = 0
      BY <1>1, <2>5, NthIsNode
    <3> QED BY <2>3, <2>4, <3>1, <3>2
  <2>6. CASE i # Len(s) + 1 /\ k # 0
    <3>1. i \in 1 .. Len(s) /\ i + 1 \in 1 .. Len(s) + 1 /\ k - 1 \in 0 .. K /\ k - 1 < k
      BY <1>1, <2>2, <2>6
    <3>2. Nth(s, i) = s[i] /\ s[i] # NoNode /\ f[s[i]] = Nth(s, i + 1)
      BY <1>1, <3>1, NthIsNode DEF Leads
    <3>3. Good(k - 1)
      BY <2>1, <3>1, <1>1
    <3>4. x[k][Nth(s, i)] = <<s[i]>> \o Part(s, i + 1, k - 1)
      BY <2>4, <2>6, <3>1, <3>2, <3>3
    <3>5. <<s[i]>> \o Part(s, i + 1, k - 1) = Part(s, i, k)
      <4>1. k \in Nat /\ k # 0
        BY <1>1, <2>2, <2>6
      <4> QED BY <1>1, <3>1, <4>1, PartGrows
    <3> QED BY <2>3, <3>4, <3>5
  <2> QED BY <2>5, <2>6
<1>6. Good(K)
  BY <1>1, <1>5
<1>7. Nth(s, 1) = n /\ Part(s, 1, K) = s
  <2>1. Part(s, 1, K) = [j \in 1 .. Len(s) |-> s[j]]
    BY <1>1 DEF Part
  <2> QED BY <1>1, <2>1 DEF Leads
<1> QED BY <1>1, <1>3, <1>6, <1>7

(***************************************************************************)
(* A chain with a node more, a node less, cut, joined or turned            *)
(***************************************************************************)
Ins(s, i, n) ==
  [j \in 1 .. Len(s) + 1 |-> IF j <= i THEN s[j] ELSE IF j = i + 1 THEN n ELSE s[j - 1]]
Del(s, i)  == [j \in 1 .. Len(s) - 1 |-> IF j < i THEN s[j] ELSE s[j + 1]]
Upto(s, i) == [j \in 1 .. i |-> s[j]]
Past(s, i) == [j \in 1 .. Len(s) - i |-> s[j + i]]
Join(s, t) == [j \in 1 .. Len(s) + Len(t) |-> IF j <= Len(s) THEN s[j] ELSE t[j - Len(s)]]
Turn(s)    == [j \in 1 .. Len(s) |-> s[Len(s) + 1 - j]]

\* A place in a sequence, written in another way.
LEMMA LastPlace ==
  ASSUME NEW i \in Nat, NEW k \in Nat, i <= k, NEW m, m = k + 1
  PROVE  ~(m <= i) /\ (m = i + 1 <=> i = k)
OBVIOUS

LEMMA InsLen ==
  ASSUME NEW S, NEW s \in Seq(S), NEW i \in 0 .. Len(s), NEW n \in S
  PROVE  Ins(s, i, n) \in Seq(S) /\ Len(Ins(s, i, n)) = Len(s) + 1 /\ Ins(s, i, n)[i + 1] = n
<1> DEFINE t == Ins(s, i, n)
           m == Len(s) + 1
<1>1. m \in Nat /\ \A j \in 1 .. m : j > i + 1 => j - 1 \in 1 .. Len(s)
  OBVIOUS
<1>2. t = [j \in 1 .. m |-> IF j <= i THEN s[j] ELSE IF j = i + 1 THEN n ELSE s[j - 1]]
  BY DEF Ins
<1> HIDE DEF t
<1>3. \A j \in 1 .. m : t[j] \in S
  <2> TAKE j \in 1 .. m
  <2>1. CASE j <= i
    BY <1>2, <2>1
  <2>2. CASE j > i
    <3> DEFINE k == j - 1
    <3>1. j > i + 1 => k \in 1 .. Len(s)
      BY <1>1
    <3> HIDE DEF k
    <3>2. j > i + 1 => s[k] \in S
      BY <3>1
    <3> QED BY <1>2, <2>2, <3>2 DEF k
  <2> QED BY <2>1, <2>2
<1>4. t \in Seq(S) /\ Len(t) = m
  <2> HIDE DEF m
  <2>1. t \in [1 .. m -> S]
    BY <1>2, <1>3
  <2> QED BY <1>1, <2>1, MakesSeq
<1>5. t[i + 1] = n
  BY <1>2
<1> QED BY <1>4, <1>5 DEF t

LEMMA InsLow ==
  ASSUME NEW S, NEW s \in Seq(S), NEW i \in 0 .. Len(s), NEW n \in S
  PROVE  \A j \in 1 .. i : Ins(s, i, n)[j] = s[j]
BY DEF Ins

LEMMA InsHigh ==
  ASSUME NEW S, NEW s \in Seq(S), NEW i \in 0 .. Len(s), NEW n \in S
  PROVE  \A j \in i + 1 .. Len(s) : Ins(s, i, n)[j + 1] = s[j]
<1> TAKE j \in i + 1 .. Len(s)
<1> DEFINE k == j + 1
<1>1. k \in 1 .. Len(s) + 1 /\ k > i + 1 /\ k - 1 = j
  OBVIOUS
<1> HIDE DEF k
<1>2. Ins(s, i, n)[k] = s[k - 1]
  BY <1>1 DEF Ins
<1> QED BY <1>1, <1>2 DEF k

LEMMA DelIs ==
  ASSUME NEW S, NEW s \in Seq(S), NEW i \in 1 .. Len(s)
  PROVE  /\ Del(s, i) \in Seq(S) /\ Len(Del(s, i)) = Len(s) - 1
         /\ \A j \in 1 .. i - 1 : Del(s, i)[j] = s[j]
         /\ \A j \in i .. Len(s) - 1 : Del(s, i)[j] = s[j + 1]
<1> DEFINE t == Del(s, i)
           m == Len(s) - 1
<1>1. m \in Nat /\ \A j \in 1 .. m : j + 1 \in 1 .. Len(s)
  OBVIOUS
<1>2. t = [j \in 1 .. m |-> IF j < i THEN s[j] ELSE s[j + 1]]
  BY DEF Del
<1> HIDE DEF t
<1>3. \A j \in 1 .. m : t[j] \in S
  <2> TAKE j \in 1 .. m
  <2> DEFINE k == j + 1
  <2>1. k \in 1 .. Len(s)
    BY <1>1
  <2> HIDE DEF k
  <2>2. s[k] \in S
    BY <2>1
  <2> QED BY <1>2, <2>2 DEF k
<1>4. t \in Seq(S) /\ Len(t) = m
  <2> HIDE DEF m
  <2>1. t \in [1 .. m -> S]
    BY <1>2, <1>3
  <2> QED BY <1>1, <2>1, MakesSeq
<1> QED BY <1>2, <1>4 DEF t

LEMMA UptoIs ==
  ASSUME NEW S, NEW s \in Seq(S), NEW i \in 0 .. Len(s)
  PROVE  /\ Upto(s, i) \in Seq(S) /\ Len(Upto(s, i)) = i
         /\ \A j \in 1 .. i : Upto(s, i)[j] = s[j]
<1>1. Upto(s, i) \in [1 .. i -> S]
  BY DEF Upto
<1>2. Upto(s, i) \in Seq(S) /\ Len(Upto(s, i)) = i
  BY <1>1, MakesSeq
<1> QED BY <1>2 DEF Upto

LEMMA PastIs ==
  ASSUME NEW S, NEW s \in Seq(S), NEW i \in 0 .. Len(s)
  PROVE  /\ Past(s, i) \in Seq(S) /\ Len(Past(s, i)) = Len(s) - i
         /\ \A j \in 1 .. Len(s) - i : Past(s, i)[j] = s[j + i]
<1> DEFINE t == Past(s, i)
           m == Len(s) - i
<1>1. m \in Nat /\ \A j \in 1 .. m : j + i \in 1 .. Len(s)
  OBVIOUS
<1>2. t = [j \in 1 .. m |-> s[j + i]]
  BY DEF Past
<1> HIDE DEF t
<1>3. \A j \in 1 .. m : t[j] \in S
  <2> TAKE j \in 1 .. m
  <2> DEFINE k == j + i
  <2>1. k \in 1 .. Len(s)
    BY <1>1
  <2> HIDE DEF k
  <2>2. s[k] \in S
    BY <2>1
  <2> QED BY <1>2, <2>2 DEF k
<1>4. t \in Seq(S) /\ Len(t) = m
  <2> HIDE DEF m
  <2>1. t \in [1 .. m -> S]
    BY <1>2, <1>3
  <2> QED BY <1>1, <2>1, MakesSeq
<1> QED BY <1>2, <1>4 DEF t

LEMMA JoinIs ==
  ASSUME NEW S, NEW s \in Seq(S), NEW t \in Seq(S)
  PROVE  /\ Join(s, t) \in Seq(S) /\ Len(Join(s, t)) = Len(s) + Len(t)
         /\ \A j \in 1 .. Len(s) : Join(s, t)[j] = s[j]
         /\ \A j \in 1 .. Len(t) : Join(s, t)[Len(s) + j] = t[j]
<1> DEFINE r == Join(s, t)
           m == Len(s) + Len(t)
<1>1. m \in Nat /\ \A j \in 1 .. m : j > Len(s) => j - Len(s) \in 1 .. Len(t)
  OBVIOUS
<1>2. r = [j \in 1 .. m |-> IF j <= Len(s) THEN s[j] ELSE t[j - Len(s)]]
  BY DEF Join
<1> HIDE DEF r
<1>3. \A j \in 1 .. m : r[j] \in S
  <2> TAKE j \in 1 .. m
  <2>1. CASE j <= Len(s)
    BY <1>2, <2>1
  <2>2. CASE j > Len(s)
    <3> DEFINE k == j - Len(s)
    <3>1. k \in 1 .. Len(t)
      BY <1>1, <2>2
    <3> HIDE DEF k
    <3>2. t[k] \in S
      BY <3>1
    <3> QED BY <1>2, <2>2, <3>2 DEF k
  <2> QED BY <2>1, <2>2
<1>4. r \in Seq(S) /\ Len(r) = m
  <2> HIDE DEF m
  <2>1. r \in [1 .. m -> S]
    BY <1>2, <1>3
  <2> QED BY <1>1, <2>1, MakesSeq
<1>5. \A j \in 1 .. Len(s) : r[j] = s[j]
  BY <1>2
<1>6. ASSUME NEW j \in 1 .. Len(t) PROVE r[Len(s) + j] = t[j]
  <2> DEFINE k == Len(s) + j
  <2>1. k \in 1 .. m /\ k > Len(s) /\ k - Len(s) = j
    OBVIOUS
  <2> HIDE DEF k
  <2>2. r[k] = t[k - Len(s)]
    BY <1>2, <2>1
  <2> QED BY <2>1, <2>2 DEF k
<1> QED BY <1>4, <1>5, <1>6 DEF r

LEMMA TurnIs ==
  ASSUME NEW S, NEW s \in Seq(S)
  PROVE  /\ Turn(s) \in Seq(S) /\ Len(Turn(s)) = Len(s)
         /\ \A j \in 1 .. Len(s) : Turn(s)[j] = s[Len(s) + 1 - j]
<1> DEFINE t == Turn(s)
           m == Len(s)
<1>1. m \in Nat /\ \A j \in 1 .. m : Len(s) + 1 - j \in 1 .. Len(s)
  OBVIOUS
<1>2. t = [j \in 1 .. m |-> s[Len(s) + 1 - j]]
  BY DEF Turn
<1> HIDE DEF t
<1>3. \A j \in 1 .. m : t[j] \in S
  <2> TAKE j \in 1 .. m
  <2> DEFINE k == Len(s) + 1 - j
  <2>1. k \in 1 .. Len(s)
    BY <1>1
  <2> HIDE DEF k
  <2>2. s[k] \in S
    BY <2>1
  <2> QED BY <1>2, <2>2 DEF k
<1>4. t \in Seq(S) /\ Len(t) = m
  <2> HIDE DEF m
  <2>1. t \in [1 .. m -> S]
    BY <1>2, <1>3
  <2> QED BY <1>1, <2>1, MakesSeq
<1> QED BY <1>2, <1>4 DEF t

\* What stands at each place of a chain after it has been changed.
LEMMA NthIns ==
  ASSUME NEW s \in Seq(Nodes), NEW i \in 0 .. Len(s), NEW n \in Nodes, NEW j \in Int
  PROVE  Nth(Ins(s, i, n), j) = IF j <= i THEN Nth(s, j)
                                ELSE IF j = i + 1 THEN n ELSE Nth(s, j - 1)
<1> DEFINE t == Ins(s, i, n)
           k == j - 1
<1>1. /\ Len(t) = Len(s) + 1 /\ t[i + 1] = n
      /\ \A h \in 1 .. i : t[h] = s[h]
      /\ \A h \in i + 1 .. Len(s) : t[h + 1] = s[h]
  <2>1. Len(t) = Len(s) + 1 /\ t[i + 1] = n
    BY InsLen
  <2>2. \A h \in 1 .. i : t[h] = s[h]
    BY InsLow
  <2>3. \A h \in i + 1 .. Len(s) : t[h + 1] = s[h]
    BY InsHigh
  <2> QED BY <2>1, <2>2, <2>3
<1>2. k \in Int /\ k + 1 = j /\ Len(s) \in Nat
  OBVIOUS
<1> HIDE DEF t, k
<1>3. CASE j <= i
  <2>1. Nth(t, j) = Nth(s, j)
    BY <1>1, <1>2, <1>3 DEF Nth
  <2> QED BY <1>3, <2>1 DEF t
<1>4. CASE j = i + 1
  <2>1. Nth(t, j) = n
    BY <1>1, <1>2, <1>4 DEF Nth
  <2> QED BY <1>4, <2>1 DEF t
<1>5. CASE j > i + 1
  <2>1. k \in 1 .. Len(s) <=> j \in 1 .. Len(t)
    BY <1>1, <1>2, <1>5
  <2>2. k \in 1 .. Len(s) => t[k + 1] = s[k]
    BY <1>1, <1>2, <1>5
  <2>3. Nth(t, j) = Nth(s, k)
    BY <1>2, <2>1, <2>2 DEF Nth
  <2> QED BY <1>5, <2>3 DEF k, t
<1> QED BY <1>3, <1>4, <1>5 DEF t

LEMMA NthDel ==
  ASSUME NEW s \in Seq(Nodes), NEW i \in 1 .. Len(s), NEW j \in Int
  PROVE  Nth(Del(s, i), j) = IF j < i THEN Nth(s, j) ELSE Nth(s, j + 1)
<1> DEFINE t == Del(s, i)
           k == j + 1
<1>1. /\ Len(t) = Len(s) - 1
      /\ \A h \in 1 .. i - 1 : t[h] = s[h]
      /\ \A h \in i .. Len(s) - 1 : t[h] = s[h + 1]
  BY DelIs
<1>2. k \in Int /\ k = j + 1 /\ Len(s) \in Nat
  OBVIOUS
<1> HIDE DEF t
<1>3. CASE j < i
  <2>1. Nth(t, j) = Nth(s, j)
    BY <1>1, <1>2, <1>3 DEF Nth
  <2> QED BY <1>3, <2>1 DEF t
<1>4. CASE j >= i
  <2>1. k \in 1 .. Len(s) <=> j \in 1 .. Len(t)
    BY <1>1, <1>2, <1>4
  <2>2. k \in 1 .. Len(s) => t[j] = s[k]
    BY <1>1, <1>2, <1>4
  <2> HIDE DEF k
  <2>3. Nth(t, j) = Nth(s, k)
    BY <2>1, <2>2 DEF Nth
  <2> QED BY <1>4, <2>3 DEF k, t
<1> QED BY <1>3, <1>4 DEF t

LEMMA NthUpto ==
  ASSUME NEW s \in Seq(Nodes), NEW i \in 0 .. Len(s), NEW j \in Int
  PROVE  Nth(Upto(s, i), j) = IF j <= i THEN Nth(s, j) ELSE NoNode
BY UptoIs DEF Nth

LEMMA NthPast ==
  ASSUME NEW s \in Seq(Nodes), NEW i \in 0 .. Len(s), NEW j \in Int
  PROVE  Nth(Past(s, i), j) = IF j >= 1 THEN Nth(s, j + i) ELSE NoNode
<1> DEFINE t == Past(s, i)
           k == j + i
<1>1. /\ Len(t) = Len(s) - i
      /\ \A h \in 1 .. Len(s) - i : t[h] = s[h + i]
  BY PastIs
<1> HIDE DEF t
<1>2. CASE j < 1
  BY <1>1, <1>2 DEF Nth, t
<1>3. CASE j >= 1
  <2>1. k \in 1 .. Len(s) <=> j \in 1 .. Len(t)
    BY <1>1, <1>3
  <2>2. k \in 1 .. Len(s) => t[j] = s[k]
    BY <1>1, <1>3
  <2> HIDE DEF k
  <2>3. Nth(t, j) = Nth(s, k)
    BY <2>1, <2>2 DEF Nth
  <2> QED BY <1>3, <2>3 DEF k, t
<1> QED BY <1>2, <1>3 DEF t

LEMMA NthJoin ==
  ASSUME NEW s \in Seq(Nodes), NEW t \in Seq(Nodes), NEW j \in Int
  PROVE  Nth(Join(s, t), j) = IF j <= Len(s) THEN Nth(s, j) ELSE Nth(t, j - Len(s))
<1> DEFINE r == Join(s, t)
           k == j - Len(s)
<1>1. /\ Len(r) = Len(s) + Len(t)
      /\ \A h \in 1 .. Len(s) : r[h] = s[h]
      /\ \A h \in 1 .. Len(t) : r[Len(s) + h] = t[h]
  <2>1. Len(Join(s, t)) = Len(s) + Len(t)
    BY JoinIs
  <2>2. \A h \in 1 .. Len(s) : Join(s, t)[h] = s[h]
    BY JoinIs
  <2>3. \A h \in 1 .. Len(t) : Join(s, t)[Len(s) + h] = t[h]
    BY JoinIs
  <2> QED BY <2>1, <2>2, <2>3
<1>0. Len(s) \in Nat /\ Len(t) \in Nat
  OBVIOUS
<1>2. k \in Int /\ Len(s) + k = j
  BY <1>0
<1> HIDE DEF r
<1>3. CASE j <= Len(s)
  <2>1. Nth(r, j) = Nth(s, j)
    BY <1>0, <1>1, <1>3 DEF Nth
  <2> QED BY <1>3, <2>1 DEF r
<1>4. CASE j > Len(s)
  <2>1. k \in 1 .. Len(t) <=> j \in 1 .. Len(r)
    BY <1>1, <1>4
  <2> HIDE DEF k
  <2>2. k \in 1 .. Len(t) => r[j] = t[k]
    BY <1>1, <1>2
  <2>3. Nth(r, j) = Nth(t, k)
    BY <2>1, <2>2 DEF Nth
  <2> QED BY <1>4, <2>3 DEF k, r
<1> QED BY <1>3, <1>4 DEF r

LEMMA NthTurn ==
  ASSUME NEW s \in Seq(Nodes), NEW j \in Int
  PROVE  Nth(Turn(s), j) = Nth(s, Len(s) + 1 - j)
<1> DEFINE r == Turn(s)
           k == Len(s) + 1 - j
<1>1. Len(r) = Len(s) /\ \A h \in 1 .. Len(s) : r[h] = s[Len(s) + 1 - h]
  BY TurnIs
<1> HIDE DEF r
<1>2. k \in 1 .. Len(s) <=> j \in 1 .. Len(r)
  BY <1>1
<1>3. j \in 1 .. Len(r) => r[j] = s[k]
  BY <1>1
<1> HIDE DEF k
<1>4. Nth(r, j) = Nth(s, k)
  BY <1>2, <1>3 DEF Nth
<1> QED BY <1>4 DEF k, r

\* The list from fi to la is the chain s, both ways.
Chained(s, nx, pv, fi, la) ==
  /\ Distinct(s) /\ fi = Nth(s, 1) /\ la = Nth(s, Len(s))
  /\ \A i \in 1 .. Len(s) : nx[s[i]] = Nth(s, i + 1) /\ pv[s[i]] = Nth(s, i - 1)

LEMMA InsertDistinct ==
  ASSUME NEW s, Distinct(s), NEW i \in 0 .. Len(s), NEW n \in Nodes,
         \A j \in 1 .. Len(s) : s[j] # n
  PROVE  /\ Distinct(Ins(s, i, n)) /\ Len(Ins(s, i, n)) = Len(s) + 1
         /\ \A j \in 1 .. Len(s) + 1 :
              \/ j <= i /\ Ins(s, i, n)[j] = s[j]
              \/ j = i + 1 /\ Ins(s, i, n)[j] = n
              \/ j > i + 1 /\ \E k \in i + 1 .. Len(s) : j = k + 1 /\ Ins(s, i, n)[j] = s[k]
<1> DEFINE t == Ins(s, i, n)
<1>1. s \in Seq(Nodes) /\ Len(s) \in Nat
  BY DEF Distinct
<1>2. /\ t \in Seq(Nodes) /\ Len(t) = Len(s) + 1 /\ t[i + 1] = n
      /\ \A h \in 1 .. i : t[h] = s[h]
      /\ \A h \in i + 1 .. Len(s) : t[h + 1] = s[h]
  <2>1. i \in 0 .. Len(s)
    OBVIOUS
  <2>2. t \in Seq(Nodes) /\ Len(t) = Len(s) + 1
    BY <1>1, <2>1, InsLen
  <2>3. t[i + 1] = n
    BY <1>1, <2>1, InsLen
  <2>4. \A h \in 1 .. i : t[h] = s[h]
    BY <1>1, <2>1, InsLow
  <2>5. \A h \in i + 1 .. Len(s) : t[h + 1] = s[h]
    BY <1>1, <2>1, InsHigh
  <2> QED BY <2>2, <2>3, <2>4, <2>5
<1> HIDE DEF t
<1>3. ASSUME NEW j \in 1 .. Len(s) + 1
      PROVE  \/ j <= i /\ t[j] = s[j]
             \/ j = i + 1 /\ t[j] = n
             \/ j > i + 1 /\ \E k \in i + 1 .. Len(s) : j = k + 1 /\ t[j] = s[k]
  <2>1. CASE j <= i
    BY <1>2, <2>1
  <2>2. CASE j = i + 1
    BY <1>2, <2>2
  <2>3. CASE j > i + 1
    <3> DEFINE k == j - 1
    <3>1. k \in i + 1 .. Len(s) /\ j = k + 1
      BY <1>1, <2>3
    <3> HIDE DEF k
    <3>2. t[j] = s[k]
      BY <1>2, <3>1
    <3> QED BY <2>3, <3>1, <3>2
  <2> QED BY <2>1, <2>2, <2>3
<1>4. ASSUME NEW a \in 1 .. Len(s) + 1, NEW b \in 1 .. Len(s) + 1, t[a] = t[b] PROVE a = b
  <2>1. /\ \/ a <= i /\ t[a] = s[a]
           \/ a = i + 1 /\ t[a] = n
           \/ a > i + 1 /\ \E k \in i + 1 .. Len(s) : a = k + 1 /\ t[a] = s[k]
        /\ \/ b <= i /\ t[b] = s[b]
           \/ b = i + 1 /\ t[b] = n
           \/ b > i + 1 /\ \E k \in i + 1 .. Len(s) : b = k + 1 /\ t[b] = s[k]
    BY <1>3
  <2> QED BY <1>1, <1>4, <2>1 DEF Distinct
<1>5. Distinct(t)
  BY <1>2, <1>4 DEF Distinct
<1> QED BY <1>2, <1>3, <1>5 DEF t

\* The pointers nx2 and pv2 are nx and pv with n linked in behind place i of s.
LinkedIn(s, i, n, nx, pv, nx2, pv2) ==
  /\ nx2[n] = Nth(s, i + 1) /\ pv2[n] = Nth(s, i)
  /\ \A j \in 1 .. Len(s) : /\ nx2[s[j]] = IF j = i THEN n ELSE nx[s[j]]
                           /\ pv2[s[j]] = IF j = i + 1 THEN n ELSE pv[s[j]]

\* A node that is linked in between two neighbours, or at an end.
LEMMA InsertChained ==
  ASSUME NEW s, NEW nx, NEW pv, NEW fi, NEW la, Chained(s, nx, pv, fi, la),
         NEW i \in 0 .. Len(s), NEW n \in Nodes, \A j \in 1 .. Len(s) : s[j] # n,
         NEW nx2, NEW pv2, LinkedIn(s, i, n, nx, pv, nx2, pv2)
  PROVE  Chained(Ins(s, i, n), nx2, pv2, IF i = 0 THEN n ELSE fi, IF i = Len(s) THEN n ELSE la)
<1> USE DEF LinkedIn
<1> DEFINE t == Ins(s, i, n)
<1>0. Distinct(s)
  BY DEF Chained
<1>1. Distinct(s) /\ s \in Seq(Nodes) /\ Len(s) \in Nat /\ i \in Nat /\ i <= Len(s)
  BY <1>0 DEF Distinct
<1>2. /\ Distinct(t) /\ Len(t) = Len(s) + 1
      /\ \A j \in 1 .. Len(s) + 1 :
              \/ j <= i /\ t[j] = s[j]
              \/ j = i + 1 /\ t[j] = n
              \/ j > i + 1 /\ \E k \in i + 1 .. Len(s) : j = k + 1 /\ t[j] = s[k]
  BY <1>1, InsertDistinct
<1>3. \A j \in Int : Nth(t, j) = IF j <= i THEN Nth(s, j) ELSE IF j = i + 1 THEN n ELSE Nth(s, j - 1)
  BY <1>1, NthIns
<1> HIDE DEF t
<1>4. Nth(t, 1) = (IF i = 0 THEN n ELSE fi) /\ Nth(t, Len(t)) = IF i = Len(s) THEN n ELSE la
  <2>1. fi = Nth(s, 1) /\ la = Nth(s, Len(s))
    BY DEF Chained
  <2> DEFINE m == Len(t)
  <2>2. m \in Int /\ 1 \in Int /\ m = Len(s) + 1 /\ m - 1 = Len(s)
    BY <1>1, <1>2
  <2>3. Nth(t, 1) = IF i = 0 THEN n ELSE fi
    BY <1>1, <1>3, <2>1
  <2> HIDE DEF m
  <2>4. Nth(t, m) = IF i = Len(s) THEN n ELSE la
    <3>1. Nth(t, m) = IF m <= i THEN Nth(s, m) ELSE IF m = i + 1 THEN n ELSE Nth(s, m - 1)
      BY <1>3, <2>2
    <3>2. ~(m <= i) /\ (m = i + 1 <=> i = Len(s))
      BY ONLY <1>1, <2>2, LastPlace
    <3>3. Nth(s, m - 1) = la
      BY <2>1, <2>2
    <3> QED BY <3>1, <3>2, <3>3
  <2> QED BY <2>3, <2>4 DEF m
<1>5. ASSUME NEW j \in 1 .. Len(t) PROVE nx2[t[j]] = Nth(t, j + 1) /\ pv2[t[j]] = Nth(t, j - 1)
  <2> DEFINE a == j + 1
             b == j - 1
  <2>0. a \in Int /\ b \in Int /\ a - 1 = j /\ b + 1 = j
    BY <1>1, <1>2
  <2>1. \A k \in 1 .. Len(s) : nx[s[k]] = Nth(s, k + 1) /\ pv[s[k]] = Nth(s, k - 1)
    BY DEF Chained
  <2>2. CASE j <= i
    <3>1. t[j] = s[j] /\ j \in 1 .. Len(s)
      BY <1>1, <1>2, <2>2
    <3>2. nx2[t[j]] = Nth(t, a)
      BY <1>1, <1>3, <2>1, <2>2, <3>1
    <3>3. pv2[t[j]] = Nth(t, b)
      BY <1>1, <1>3, <2>1, <2>2, <3>1
    <3> QED BY <3>2, <3>3
  <2>3. CASE j = i + 1
    <3>1. t[j] = n
      BY <1>1, <1>2, <2>3
    <3>2. Nth(t, a) = IF a <= i THEN Nth(s, a) ELSE IF a = i + 1 THEN n ELSE Nth(s, a - 1)
      BY <1>3, <2>0
    <3>3. Nth(t, b) = IF b <= i THEN Nth(s, b) ELSE IF b = i + 1 THEN n ELSE Nth(s, b - 1)
      BY <1>3, <2>0
    <3>4. ~(a <= i) /\ a # i + 1 /\ a - 1 = i + 1 /\ b <= i /\ b = i
      BY <1>1, <2>3
    <3> HIDE DEF a, b
    <3>5. Nth(t, a) = nx2[n] /\ Nth(t, b) = pv2[n]
      BY <3>2, <3>3, <3>4
    <3> QED BY <3>1, <3>5 DEF a, b
  <2>4. CASE j > i + 1
    <3>0. j \in 1 .. Len(s) + 1 /\ ~(j <= i) /\ j # i + 1
      BY <1>1, <1>2, <2>4
    <3>1. PICK k \in i + 1 .. Len(s) : j = k + 1 /\ t[j] = s[k]
      <4> HIDE DEF a, b
      <4> QED BY <1>2, <3>0
    <3>2. k \in 1 .. Len(s) /\ k # i /\ k = b /\ a - 1 = k + 1 /\ b - 1 = k - 1
      BY <1>1, <2>4, <3>1, SMTT(30)
    <3>3. nx2[s[k]] = Nth(s, k + 1) /\ pv2[s[k]] = IF k = i + 1 THEN n ELSE Nth(s, k - 1)
      BY <2>1, <3>2
    <3>4. Nth(t, a) = Nth(s, a - 1)
      <4>1. ~(a <= i) /\ a # i + 1
        BY <1>1, <2>4
      <4> HIDE DEF a
      <4> QED BY <1>3, <2>0, <4>1
    <3>5. Nth(t, b) = IF k = i + 1 THEN n ELSE Nth(s, b - 1)
      <4>1. b > i
        BY <2>4, <3>1
      <4> HIDE DEF b
      <4> QED BY <1>1, <1>3, <2>0, <3>2, <4>1
    <3> QED BY <3>1, <3>2, <3>3, <3>4, <3>5
  <2> QED BY <1>1, <1>2, <2>2, <2>3, <2>4
<1> QED BY <1>2, <1>4, <1>5 DEF Chained, t

LEMMA SameChained ==
  ASSUME NEW s, NEW nx, NEW pv, NEW fi, NEW la, Chained(s, nx, pv, fi, la), NEW nx2, NEW pv2,
         \A j \in 1 .. Len(s) : nx2[s[j]] = nx[s[j]] /\ pv2[s[j]] = pv[s[j]]
  PROVE  Chained(s, nx2, pv2, fi, la)
BY DEF Chained

LEMMA RemoveDistinct ==
  ASSUME NEW s, Distinct(s), NEW i \in 1 .. Len(s)
  PROVE  /\ Distinct(Del(s, i)) /\ Len(Del(s, i)) = Len(s) - 1
         /\ \A j \in 1 .. Len(s) - 1 :
              \/ j < i /\ Del(s, i)[j] = s[j]
              \/ j >= i /\ \E k \in i + 1 .. Len(s) : k = j + 1 /\ Del(s, i)[j] = s[k]
<1> DEFINE t == Del(s, i)
<1>1. s \in Seq(Nodes) /\ Len(s) \in Nat /\ i \in Nat /\ 1 <= i /\ i <= Len(s)
  BY DEF Distinct
<1>2. /\ t \in Seq(Nodes) /\ Len(t) = Len(s) - 1
      /\ \A h \in 1 .. i - 1 : t[h] = s[h]
      /\ \A h \in i .. Len(s) - 1 : t[h] = s[h + 1]
  <2>1. i \in 1 .. Len(s)
    OBVIOUS
  <2>2. t \in Seq(Nodes) /\ Len(t) = Len(s) - 1
    BY <1>1, <2>1, DelIs
  <2>3. \A h \in 1 .. i - 1 : t[h] = s[h]
    BY <1>1, <2>1, DelIs
  <2>4. \A h \in i .. Len(s) - 1 : t[h] = s[h + 1]
    BY <1>1, <2>1, DelIs
  <2> QED BY <2>2, <2>3, <2>4
<1> HIDE DEF t
<1>3. ASSUME NEW j \in 1 .. Len(s) - 1
      PROVE  \/ j < i /\ t[j] = s[j]
             \/ j >= i /\ \E k \in i + 1 .. Len(s) : k = j + 1 /\ t[j] = s[k]
  <2>1. CASE j < i
    BY <1>1, <1>2, <2>1
  <2>2. CASE j >= i
    <3> DEFINE k == j + 1
    <3>1. k \in i + 1 .. Len(s) /\ j \in i .. Len(s) - 1
      BY <1>1, <2>2
    <3>2. t[j] = s[k]
      BY <1>2, <3>1
    <3> QED BY <2>2, <3>1, <3>2
  <2> QED BY <1>1, <2>1, <2>2
<1>4. ASSUME NEW a \in 1 .. Len(s) - 1, NEW b \in 1 .. Len(s) - 1, t[a] = t[b] PROVE a = b
  <2>1. /\ \/ a < i /\ t[a] = s[a]
           \/ a >= i /\ \E k \in i + 1 .. Len(s) : k = a + 1 /\ t[a] = s[k]
        /\ \/ b < i /\ t[b] = s[b]
           \/ b >= i /\ \E k \in i + 1 .. Len(s) : k = b + 1 /\ t[b] = s[k]
    BY <1>3
  <2> QED BY <1>1, <1>4, <2>1 DEF Distinct
<1>5. Distinct(t)
  BY <1>2, <1>4 DEF Distinct
<1> QED BY <1>2, <1>3, <1>5 DEF t

\* The pointers nx2 and pv2 are nx and pv led around the node at place i of s.
LedAround(s, i, nx, pv, nx2, pv2) ==
  \A j \in 1 .. Len(s) : j # i =>
     /\ nx2[s[j]] = IF j = i - 1 THEN Nth(s, i + 1) ELSE nx[s[j]]
     /\ pv2[s[j]] = IF j = i + 1 THEN Nth(s, i - 1) ELSE pv[s[j]]

\* A node whose neighbours are linked past it.
LEMMA RemoveChained ==
  ASSUME NEW s, NEW nx, NEW pv, NEW fi, NEW la, Chained(s, nx, pv, fi, la),
         NEW i \in 1 .. Len(s), NEW nx2, NEW pv2, LedAround(s, i, nx, pv, nx2, pv2)
  PROVE  Chained(Del(s, i), nx2, pv2, IF i = 1 THEN Nth(s, i + 1) ELSE fi,
                 IF i = Len(s) THEN Nth(s, i - 1) ELSE la)
<1> USE DEF LedAround
<1> DEFINE t == Del(s, i)
<1>0. Distinct(s) /\ fi = Nth(s, 1) /\ la = Nth(s, Len(s))
  BY DEF Chained
<1>1. s \in Seq(Nodes) /\ Len(s) \in Nat /\ i \in Nat /\ 1 <= i /\ i <= Len(s)
  BY <1>0 DEF Distinct
<1>2. /\ Distinct(t) /\ Len(t) = Len(s) - 1
      /\ \A j \in 1 .. Len(s) - 1 :
              \/ j < i /\ t[j] = s[j]
              \/ j >= i /\ \E k \in i + 1 .. Len(s) : k = j + 1 /\ t[j] = s[k]
  BY <1>0, RemoveDistinct
<1>3. \A j \in Int : Nth(t, j) = IF j < i THEN Nth(s, j) ELSE Nth(s, j + 1)
  BY <1>1, NthDel
<1>9. \A k \in 1 .. Len(s) : nx[s[k]] = Nth(s, k + 1) /\ pv[s[k]] = Nth(s, k - 1)
  BY DEF Chained
<1> HIDE DEF t
<1>4. Nth(t, 1) = IF i = 1 THEN Nth(s, i + 1) ELSE fi
  <2>1. Nth(t, 1) = IF 1 < i THEN Nth(s, 1) ELSE Nth(s, 1 + 1)
    BY <1>3
  <2> QED BY <1>0, <1>1, <2>1
<1>5. Nth(t, Len(t)) = IF i = Len(s) THEN Nth(s, i - 1) ELSE la
  <2> DEFINE m == Len(t)
  <2>1. m \in Int /\ m = Len(s) - 1
    BY <1>1, <1>2
  <2>2. Nth(t, m) = IF m < i THEN Nth(s, m) ELSE Nth(s, m + 1)
    BY <1>3, <2>1
  <2>3. (m < i <=> i = Len(s)) /\ m + 1 = Len(s)
    BY <1>1, <2>1
  <2> HIDE DEF m
  <2>4. CASE i = Len(s)
    <3>1. m = i - 1
      BY <2>1, <2>4
    <3> QED BY <2>2, <2>3, <2>4, <3>1 DEF m
  <2>5. CASE i # Len(s)
    BY <1>0, <2>2, <2>3, <2>5 DEF m
  <2> QED BY <2>4, <2>5
<1>6. ASSUME NEW j \in 1 .. Len(t) PROVE nx2[t[j]] = Nth(t, j + 1) /\ pv2[t[j]] = Nth(t, j - 1)
  <2> DEFINE a == j + 1
             b == j - 1
  <2>0. a \in Int /\ b \in Int /\ j \in 1 .. Len(s) - 1
    BY <1>1, <1>2
  <2>1. Nth(t, a) = IF a < i THEN Nth(s, a) ELSE Nth(s, a + 1)
    BY <1>3, <2>0
  <2>2. Nth(t, b) = IF b < i THEN Nth(s, b) ELSE Nth(s, b + 1)
    BY <1>3, <2>0
  <2>3. CASE j < i
    <3>1. t[j] = s[j] /\ j \in 1 .. Len(s) /\ j # i
      BY <1>1, <1>2, <2>0, <2>3
    <3>2. nx2[s[j]] = IF j = i - 1 THEN Nth(s, i + 1) ELSE Nth(s, a)
      BY <1>9, <3>1
    <3>3. nx2[s[j]] = Nth(t, a)
      <4>1. CASE j = i - 1
        <5>1. a = i /\ ~(a < i)
          BY <1>1, <4>1
        <5> QED BY <2>1, <3>2, <4>1, <5>1
      <4>2. CASE j # i - 1
        <5>1. a < i
          BY <1>1, <2>3, <4>2
        <5> QED BY <2>1, <3>2, <4>2, <5>1
      <4> QED BY <4>1, <4>2
    <3>4. pv2[s[j]] = Nth(s, b) /\ b < i
      BY <1>1, <1>9, <2>3, <3>1
    <3> QED BY <2>2, <3>1, <3>3, <3>4
  <2>4. CASE j >= i
    <3>1. PICK k \in i + 1 .. Len(s) : k = j + 1 /\ t[j] = s[k]
      <4>1. ~(j < i)
        BY <1>1, <2>4
      <4> HIDE DEF a, b
      <4> QED BY <1>2, <2>0, <4>1
    <3>2. /\ k \in 1 .. Len(s) /\ k # i /\ k # i - 1 /\ k = a /\ b + 1 = j /\ k - 1 = j
          /\ ~(a < i) /\ a + 1 = k + 1 /\ (k = i + 1 <=> b < i) /\ (k = i + 1 => b = i - 1)
      BY <1>1, <2>4, <3>1
    <3>3. nx2[s[k]] = Nth(s, k + 1) /\ pv2[s[k]] = IF k = i + 1 THEN Nth(s, i - 1) ELSE Nth(s, k - 1)
      BY <1>9, <3>2
    <3> HIDE DEF a, b
    <3>4. nx2[s[k]] = Nth(t, a)
      BY <2>1, <3>2, <3>3
    <3>5. pv2[s[k]] = Nth(t, b)
      BY <2>2, <3>2, <3>3
    <3> QED BY <3>1, <3>4, <3>5 DEF a, b
  <2> QED BY <1>1, <1>2, <2>3, <2>4
<1> QED BY <1>2, <1>4, <1>5, <1>6 DEF Chained, t

\* The pointers nx2 and pv2 are nx and pv with the chain s cut behind place i.
CutAt(s, i, nx, pv, nx2, pv2) ==
  \A j \in 1 .. Len(s) : /\ nx2[s[j]] = IF j = i THEN NoNode ELSE nx[s[j]]
                        /\ pv2[s[j]] = IF j = i + 1 THEN NoNode ELSE pv[s[j]]

\* A chain that is cut behind its i-th node is two.
LEMMA CutChained ==
  ASSUME NEW s, NEW nx, NEW pv, NEW fi, NEW la, Chained(s, nx, pv, fi, la),
         NEW i \in 0 .. Len(s), NEW nx2, NEW pv2, CutAt(s, i, nx, pv, nx2, pv2)
  PROVE  /\ Chained(Upto(s, i), nx2, pv2, IF i = 0 THEN NoNode ELSE fi, Nth(s, i))
         /\ Chained(Past(s, i), nx2, pv2, Nth(s, i + 1), IF i = Len(s) THEN NoNode ELSE la)
<1> USE DEF CutAt
<1> DEFINE a == Upto(s, i)
           b == Past(s, i)
<1>0. Distinct(s) /\ fi = Nth(s, 1) /\ la = Nth(s, Len(s))
  BY DEF Chained
<1>1. s \in Seq(Nodes) /\ Len(s) \in Nat /\ i \in Nat /\ i <= Len(s)
  BY <1>0 DEF Distinct
<1>2. a \in Seq(Nodes) /\ Len(a) = i /\ \A j \in 1 .. i : a[j] = s[j]
  BY <1>1, UptoIs
<1>3. b \in Seq(Nodes) /\ Len(b) = Len(s) - i /\ \A j \in 1 .. Len(s) - i : b[j] = s[j + i]
  BY <1>1, PastIs
<1>4. \A j \in Int : Nth(a, j) = IF j <= i THEN Nth(s, j) ELSE NoNode
  BY <1>1, NthUpto
<1>5. \A j \in Int : Nth(b, j) = IF j >= 1 THEN Nth(s, j + i) ELSE NoNode
  BY <1>1, NthPast
<1>6. \A k \in 1 .. Len(s) : nx[s[k]] = Nth(s, k + 1) /\ pv[s[k]] = Nth(s, k - 1)
  BY DEF Chained
<1>7. Nth(s, 0) = NoNode /\ Nth(s, Len(s) + 1) = NoNode
  BY <1>1 DEF Nth
<1> HIDE DEF a, b
<1>8. Chained(a, nx2, pv2, IF i = 0 THEN NoNode ELSE fi, Nth(s, i))
  <2>1. Distinct(a)
    BY <1>0, <1>1, <1>2 DEF Distinct
  <2>2. Nth(a, 1) = IF i = 0 THEN NoNode ELSE fi
    BY <1>0, <1>1, <1>4
  <2>3. Nth(a, Len(a)) = Nth(s, i)
    BY <1>1, <1>2, <1>4
  <2>4. ASSUME NEW j \in 1 .. Len(a) PROVE nx2[a[j]] = Nth(a, j + 1) /\ pv2[a[j]] = Nth(a, j - 1)
    <3> DEFINE c == j + 1
               d == j - 1
    <3>1. j \in 1 .. Len(s) /\ a[j] = s[j] /\ c \in Int /\ d \in Int /\ d <= i /\ j # i + 1
          /\ (c <= i <=> j # i)
      BY <1>1, <1>2
    <3>2. nx2[s[j]] = (IF j = i THEN NoNode ELSE Nth(s, c)) /\ pv2[s[j]] = Nth(s, d)
      BY <1>6, <3>1
    <3> HIDE DEF c, d
    <3>3. Nth(a, c) = (IF j = i THEN NoNode ELSE Nth(s, c)) /\ Nth(a, d) = Nth(s, d)
      BY <1>4, <3>1
    <3> QED BY <3>1, <3>2, <3>3 DEF c, d
  <2> QED BY <2>1, <2>2, <2>3, <2>4 DEF Chained
<1>9. Chained(b, nx2, pv2, Nth(s, i + 1), IF i = Len(s) THEN NoNode ELSE la)
  <2>1. Distinct(b)
    <3>1. ASSUME NEW j \in 1 .. Len(b), NEW k \in 1 .. Len(b), b[j] = b[k] PROVE j = k
      <4> DEFINE c == j + i
                 d == k + i
      <4>1. c \in 1 .. Len(s) /\ d \in 1 .. Len(s) /\ (c = d => j = k)
        BY <1>1, <1>3
      <4>2. s[c] = s[d]
        BY <1>3, <3>1
      <4> HIDE DEF c, d
      <4>3. c = d
        BY <1>0, <4>1, <4>2 DEF Distinct
      <4> QED BY <4>1, <4>3
    <3> QED BY <1>3, <3>1 DEF Distinct
  <2>2. Nth(b, 1) = Nth(s, i + 1)
    <3>1. Nth(b, 1) = Nth(s, 1 + i)
      BY <1>5
    <3>2. 1 + i = i + 1
      BY <1>1
    <3> QED BY <3>1, <3>2
  <2>3. Nth(b, Len(b)) = IF i = Len(s) THEN NoNode ELSE la
    <3> DEFINE m == Len(s) - i
    <3>1. m \in Int /\ m = Len(b) /\ (m >= 1 <=> i # Len(s)) /\ m + i = Len(s)
      BY <1>1, <1>3
    <3>2. Nth(b, m) = IF m >= 1 THEN Nth(s, m + i) ELSE NoNode
      BY <1>5, <3>1
    <3> HIDE DEF m
    <3>3. Nth(s, m + i) = la
      BY <1>0, <3>1
    <3> QED BY <3>1, <3>2, <3>3
  <2>4. ASSUME NEW j \in 1 .. Len(b) PROVE nx2[b[j]] = Nth(b, j + 1) /\ pv2[b[j]] = Nth(b, j - 1)
    <3> DEFINE c == j + 1
               d == j - 1
               k == j + i
    <3>1. /\ k \in 1 .. Len(s) /\ k # i /\ c \in Int /\ d \in Int /\ c >= 1
          /\ k + 1 = c + i /\ k - 1 = d + i /\ (d >= 1 <=> k # i + 1) /\ j \in 1 .. Len(s) - i
      BY <1>1, <1>3
    <3>2. b[j] = s[k]
      BY <1>3, <3>1
    <3> HIDE DEF k
    <3>3. nx2[s[k]] = Nth(s, k + 1) /\ pv2[s[k]] = IF k = i + 1 THEN NoNode ELSE Nth(s, k - 1)
      BY <1>6, <3>1
    <3> HIDE DEF c, d
    <3>4. Nth(b, c) = Nth(s, c + i) /\ Nth(b, d) = IF d >= 1 THEN Nth(s, d + i) ELSE NoNode
      BY <1>5, <3>1
    <3>5. nx2[s[k]] = Nth(b, c) /\ pv2[s[k]] = Nth(b, d)
      BY <3>1, <3>3, <3>4
    <3> QED BY <3>2, <3>5 DEF c, d
  <2> QED BY <1>3, <2>1, <2>2, <2>3, <2>4 DEF Chained
<1> QED BY <1>8, <1>9 DEF a, b

\* The pointers nx2 and pv2 are nx and pv with the last node of a and the first
\* of b linked to each other.
LinkedUp(a, b, nx, pv, nx2, pv2) ==
  /\ \A j \in 1 .. Len(a), k \in 1 .. Len(b) : a[j] # b[k]
  /\ \A j \in 1 .. Len(a) : /\ nx2[a[j]] = IF j = Len(a) THEN Nth(b, 1) ELSE nx[a[j]]
                           /\ pv2[a[j]] = pv[a[j]]
  /\ \A j \in 1 .. Len(b) : /\ nx2[b[j]] = nx[b[j]]
                           /\ pv2[b[j]] = IF j = 1 THEN Nth(a, Len(a)) ELSE pv[b[j]]

\* Two chains whose ends have been linked are one.
LEMMA JoinChained ==
  ASSUME NEW a, NEW b, NEW nx, NEW pv, NEW fa, NEW la, NEW fb, NEW lb,
         Chained(a, nx, pv, fa, la), Chained(b, nx, pv, fb, lb),
         NEW nx2, NEW pv2, LinkedUp(a, b, nx, pv, nx2, pv2)
  PROVE  Chained(Join(a, b), nx2, pv2, IF Len(a) = 0 THEN fb ELSE fa,
                 IF Len(b) = 0 THEN la ELSE lb)
<1> DEFINE t == Join(a, b)
           n == Len(a)
           m == Len(b)
<1>0. /\ Distinct(a) /\ fa = Nth(a, 1) /\ la = Nth(a, Len(a))
      /\ Distinct(b) /\ fb = Nth(b, 1) /\ lb = Nth(b, Len(b))
  BY DEF Chained
<1>1. a \in Seq(Nodes) /\ b \in Seq(Nodes) /\ n \in Nat /\ m \in Nat
  BY <1>0 DEF Distinct
<1>2. t \in Seq(Nodes) /\ Len(t) = n + m
  BY <1>1, JoinIs
<1>3. \A j \in 1 .. n : t[j] = a[j]
  BY <1>1, JoinIs
<1>4. \A j \in 1 .. m : t[n + j] = b[j]
  BY <1>1, JoinIs
<1>5. \A j \in Int : Nth(t, j) = IF j <= n THEN Nth(a, j) ELSE Nth(b, j - n)
  BY <1>1, NthJoin
<1>6. /\ \A k \in 1 .. n : nx[a[k]] = Nth(a, k + 1) /\ pv[a[k]] = Nth(a, k - 1)
      /\ \A k \in 1 .. m : nx[b[k]] = Nth(b, k + 1) /\ pv[b[k]] = Nth(b, k - 1)
  BY DEF Chained
<1>7. /\ \A j \in 1 .. n : nx2[a[j]] = (IF j = n THEN fb ELSE nx[a[j]]) /\ pv2[a[j]] = pv[a[j]]
      /\ \A j \in 1 .. m : nx2[b[j]] = nx[b[j]] /\ pv2[b[j]] = IF j = 1 THEN la ELSE pv[b[j]]
  BY <1>0 DEF LinkedUp
<1>8. Nth(a, 0) = NoNode /\ Nth(b, 0) = NoNode /\ Nth(a, n + 1) = NoNode
      /\ (n = 0 => la = NoNode) /\ (m = 0 => fb = NoNode)
  BY <1>0, <1>1 DEF Nth
<1>9. ASSUME NEW j \in 1 .. Len(t)
      PROVE  \/ j <= n /\ j \in 1 .. n /\ t[j] = a[j]
             \/ j > n /\ \E k \in 1 .. m : j = n + k /\ t[j] = b[k]
  <2>1. CASE j <= n
    BY <1>1, <1>2, <1>3, <2>1
  <2>2. CASE j > n
    <3> DEFINE k == j - n
    <3>1. k \in 1 .. m /\ j = n + k
      BY <1>1, <1>2, <2>2
    <3> HIDE DEF k, n, m, t
    <3> QED BY <1>4, <2>2, <3>1
  <2> QED BY <1>1, <1>2, <2>1, <2>2
<1>10. \A j \in 1 .. n, k \in 1 .. m : a[j] # b[k]
  BY DEF LinkedUp
<1> HIDE DEF t, n, m
<1>11. Distinct(t)
  <2>1. ASSUME NEW j \in 1 .. Len(t), NEW k \in 1 .. Len(t), t[j] = t[k] PROVE j = k
    <3>1. /\ \/ j <= n /\ j \in 1 .. n /\ t[j] = a[j]
             \/ j > n /\ \E h \in 1 .. m : j = n + h /\ t[j] = b[h]
          /\ \/ k <= n /\ k \in 1 .. n /\ t[k] = a[k]
             \/ k > n /\ \E h \in 1 .. m : k = n + h /\ t[k] = b[h]
      BY <1>9
    <3> QED BY <1>0, <1>1, <1>10, <2>1, <3>1 DEF Distinct, n, m
  <2> QED BY <1>2, <2>1 DEF Distinct
<1>12. Nth(t, 1) = IF n = 0 THEN fb ELSE fa
  <2>1. Nth(t, 1) = IF 1 <= n THEN Nth(a, 1) ELSE Nth(b, 1 - n)
    BY <1>5
  <2>2. (1 <= n <=> n # 0) /\ (n = 0 => 1 - n = 1)
    BY <1>1
  <2> QED BY <1>0, <2>1, <2>2
<1>13. Nth(t, Len(t)) = IF m = 0 THEN la ELSE lb
  <2> DEFINE x == Len(t)
  <2>1. x \in Int /\ (x <= n <=> m = 0) /\ (m = 0 => x = n) /\ x - n = m
    BY <1>1, <1>2
  <2> HIDE DEF x
  <2>2. Nth(t, x) = IF x <= n THEN Nth(a, x) ELSE Nth(b, x - n)
    BY <1>5, <2>1
  <2>3. Nth(b, x - n) = lb /\ Nth(a, n) = la
    BY <1>0, <2>1 DEF n, m
  <2> QED BY <2>1, <2>2, <2>3 DEF x
<1>14. ASSUME NEW j \in 1 .. Len(t) PROVE nx2[t[j]] = Nth(t, j + 1) /\ pv2[t[j]] = Nth(t, j - 1)
  <2> DEFINE c == j + 1
             d == j - 1
  <2>0. c \in Int /\ d \in Int
    BY <1>1, <1>2
  <2>1. Nth(t, c) = IF c <= n THEN Nth(a, c) ELSE Nth(b, c - n)
    BY <1>5, <2>0
  <2>2. Nth(t, d) = IF d <= n THEN Nth(a, d) ELSE Nth(b, d - n)
    BY <1>5, <2>0
  <2>3. CASE j <= n
    <3>1. j \in 1 .. n /\ t[j] = a[j]
      BY <1>1, <1>9, <2>3
    <3>2. (c <= n <=> j # n) /\ (j = n => c - n = 1) /\ d <= n
      BY <1>1, <2>3, <3>1
    <3>3. nx2[a[j]] = (IF j = n THEN fb ELSE Nth(a, c)) /\ pv2[a[j]] = Nth(a, d)
      BY <1>6, <1>7, <3>1
    <3> HIDE DEF c, d
    <3>4. Nth(t, c) = IF j = n THEN fb ELSE Nth(a, c)
      BY <1>0, <2>1, <3>2
    <3>5. Nth(t, d) = Nth(a, d)
      BY <2>2, <3>2
    <3> QED BY <3>1, <3>3, <3>4, <3>5 DEF c, d
  <2>4. CASE j > n
    <3>1. PICK k \in 1 .. m : j = n + k /\ t[j] = b[k]
      <4>1. ~(j <= n)
        BY <1>1, <1>2, <2>4
      <4> HIDE DEF c, d
      <4> QED BY <1>9, <4>1
    <3>2. /\ ~(c <= n) /\ c - n = k + 1 /\ (d <= n <=> k = 1) /\ (k = 1 => d = n)
          /\ d - n = k - 1
      BY <1>1, <2>4, <3>1
    <3>3. nx2[b[k]] = Nth(b, k + 1) /\ pv2[b[k]] = IF k = 1 THEN la ELSE Nth(b, k - 1)
      BY <1>6, <1>7
    <3> HIDE DEF c, d
    <3>4. Nth(t, c) = Nth(b, k + 1)
      BY <2>1, <3>2
    <3>5. Nth(t, d) = IF k = 1 THEN la ELSE Nth(b, k - 1)
      BY <1>0, <2>2, <3>2 DEF n
    <3> QED BY <3>1, <3>3, <3>4, <3>5 DEF c, d
  <2> QED BY <1>1, <1>2, <2>3, <2>4
<1> QED BY <1>11, <1>12, <1>13, <1>14 DEF Chained, t, n, m

LEMMA TurnDistinct ==
  ASSUME NEW s, Distinct(s)
  PROVE  Distinct(Turn(s)) /\ Len(Turn(s)) = Len(s)
<1> DEFINE t == Turn(s)
           n == Len(s)
<1>1. s \in Seq(Nodes) /\ n \in Nat
  BY DEF Distinct
<1>2. t \in Seq(Nodes) /\ Len(t) = n /\ \A j \in 1 .. n : t[j] = s[n + 1 - j]
  BY <1>1, TurnIs
<1> HIDE DEF t, n
<1>3. ASSUME NEW j \in 1 .. Len(t), NEW k \in 1 .. Len(t), t[j] = t[k] PROVE j = k
  <2> DEFINE c == n + 1 - j
             d == n + 1 - k
  <2>1. c \in 1 .. n /\ d \in 1 .. n /\ (c = d => j = k)
    BY <1>1, <1>2
  <2>2. s[c] = s[d]
    BY <1>2, <1>3
  <2> HIDE DEF c, d
  <2>3. c = d
    BY <2>1, <2>2 DEF Distinct, n
  <2> QED BY <2>1, <2>3
<1>4. Distinct(t)
  BY <1>2, <1>3 DEF Distinct
<1> QED BY <1>2, <1>4 DEF t, n

\* Pointers that change their direction turn the chain.
LEMMA TurnChained ==
  ASSUME NEW s, NEW nx, NEW pv, NEW fi, NEW la, Chained(s, nx, pv, fi, la), NEW nx2, NEW pv2,
         \A j \in 1 .. Len(s) : nx2[s[j]] = pv[s[j]] /\ pv2[s[j]] = nx[s[j]]
  PROVE  Chained(Turn(s), nx2, pv2, la, fi)
<1> DEFINE t == Turn(s)
           n == Len(s)
<1>0. Distinct(s) /\ fi = Nth(s, 1) /\ la = Nth(s, Len(s))
  BY DEF Chained
<1>1. s \in Seq(Nodes) /\ n \in Nat
  BY <1>0 DEF Distinct
<1>2. Len(t) = n /\ \A j \in 1 .. n : t[j] = s[n + 1 - j]
  BY <1>1, TurnIs
<1>3. Distinct(t)
  BY <1>0, TurnDistinct
<1>4. \A j \in Int : Nth(t, j) = Nth(s, n + 1 - j)
  BY <1>1, NthTurn
<1>5. \A k \in 1 .. n : nx[s[k]] = Nth(s, k + 1) /\ pv[s[k]] = Nth(s, k - 1)
  BY DEF Chained
<1>6. \A k \in 1 .. n : nx2[s[k]] = pv[s[k]] /\ pv2[s[k]] = nx[s[k]]
  OBVIOUS
<1>7. la = Nth(s, n)
  BY <1>0
<1> HIDE DEF t, n
<1>8. Nth(t, 1) = la
  <2>1. Nth(t, 1) = Nth(s, n + 1 - 1) /\ n + 1 - 1 = n
    BY <1>1, <1>4
  <2> QED BY <1>7, <2>1
<1>9. Nth(t, Len(t)) = fi
  <2>1. Nth(t, n) = Nth(s, n + 1 - n) /\ n + 1 - n = 1
    BY <1>1, <1>4
  <2> QED BY <1>0, <1>2, <2>1
<1>10. ASSUME NEW j \in 1 .. Len(t) PROVE nx2[t[j]] = Nth(t, j + 1) /\ pv2[t[j]] = Nth(t, j - 1)
  <2> DEFINE c == j + 1
             d == j - 1
             k == n + 1 - j
  <2>1. c \in Int /\ d \in Int /\ j \in 1 .. n /\ k \in 1 .. n /\ n + 1 - c = k - 1 /\ n + 1 - d = k + 1
    BY <1>1, <1>2
  <2>2. t[j] = s[k]
    BY <1>2, <2>1
  <2> HIDE DEF k
  <2>3. nx2[s[k]] = Nth(s, k - 1) /\ pv2[s[k]] = Nth(s, k + 1)
    BY <1>5, <1>6, <2>1
  <2> HIDE DEF c, d
  <2>4. Nth(t, c) = Nth(s, n + 1 - c) /\ Nth(t, d) = Nth(s, n + 1 - d)
    BY <1>4, <2>1
  <2>5. Nth(t, c) = Nth(s, k - 1) /\ Nth(t, d) = Nth(s, k + 1)
    BY <2>1, <2>4
  <2> QED BY <2>2, <2>3, <2>5 DEF c, d
<1> QED BY <1>3, <1>8, <1>9, <1>10 DEF Chained, t

\* What Along finds in a chain, from either end and from any place.
LEMMA ChainedLeads ==
  ASSUME NEW s, NEW nx, NEW pv, NEW fi, NEW la, Chained(s, nx, pv, fi, la)
  PROVE  L!Along(nx, fi) = s
<1>1. Leads(s, nx, fi)
  BY DEF Chained, Leads
<1> QED BY <1>1, AlongIs

LEMMA ChainedLeadsBack ==
  ASSUME NEW s, NEW nx, NEW pv, NEW fi, NEW la, Chained(s, nx, pv, fi, la),
         NEW i \in 0 .. Len(s)
  PROVE  L!Along(pv, Nth(s, i)) = Turn(Upto(s, i))
<1> DEFINE a == Upto(s, i)
           t == Turn(a)
<1>0. Distinct(s)
  BY DEF Chained
<1>1. s \in Seq(Nodes) /\ Len(s) \in Nat /\ i \in Nat /\ i <= Len(s)
  BY <1>0 DEF Distinct
<1>2. a \in Seq(Nodes) /\ Len(a) = i /\ \A j \in 1 .. i : a[j] = s[j]
  BY <1>1, UptoIs
<1>3. \A j \in Int : Nth(a, j) = IF j <= i THEN Nth(s, j) ELSE NoNode
  BY <1>1, NthUpto
<1> HIDE DEF a
<1>4. Distinct(a)
  BY <1>0, <1>1, <1>2 DEF Distinct
<1>5. Distinct(t) /\ Len(t) = i
  BY <1>2, <1>4, TurnDistinct
<1>6. \A j \in Int : Nth(t, j) = Nth(a, i + 1 - j)
  BY <1>2, NthTurn
<1>7. \A j \in 1 .. i : t[j] = a[i + 1 - j]
  BY <1>2, TurnIs
<1>8. \A k \in 1 .. Len(s) : pv[s[k]] = Nth(s, k - 1)
  BY DEF Chained
<1> HIDE DEF t
<1>9. Nth(t, 1) = Nth(s, i)
  <2>1. Nth(t, 1) = Nth(a, i + 1 - 1) /\ i + 1 - 1 = i
    BY <1>1, <1>6
  <2>2. Nth(a, i) = Nth(s, i)
    BY <1>1, <1>3
  <2> QED BY <2>1, <2>2
<1>10. ASSUME NEW j \in 1 .. i PROVE pv[t[j]] = Nth(t, j + 1)
  <2> DEFINE c == j + 1
             k == i + 1 - j
             d == k - 1
  <2>1. c \in Int /\ k \in 1 .. i /\ k \in 1 .. Len(s) /\ i + 1 - c = d /\ d \in Int /\ d <= i
    BY <1>1
  <2>2. t[j] = s[k]
    BY <1>2, <1>7, <2>1
  <2>3. pv[s[k]] = Nth(s, d)
    BY <1>8, <2>1
  <2> HIDE DEF c, k, d
  <2>4. Nth(t, c) = Nth(a, d) /\ Nth(a, d) = Nth(s, d)
    BY <1>3, <1>6, <2>1
  <2> QED BY <2>2, <2>3, <2>4 DEF c
<1>11. Leads(t, pv, Nth(s, i))
  BY <1>5, <1>9, <1>10 DEF Leads
<1> QED BY <1>11, AlongIs DEF t, a

LEMMA ChainedLeadsOn ==
  ASSUME NEW s, NEW nx, NEW pv, NEW fi, NEW la, Chained(s, nx, pv, fi, la),
         NEW i \in 0 .. Len(s)
  PROVE  L!Along(nx, Nth(s, i + 1)) = Past(s, i)
<1> DEFINE b == Past(s, i)
<1>0. Distinct(s)
  BY DEF Chained
<1>1. s \in Seq(Nodes) /\ Len(s) \in Nat /\ i \in Nat /\ i <= Len(s)
  BY <1>0 DEF Distinct
<1> DEFINE nx2 == [n \in Nodes |-> IF n = Nth(s, i) THEN NoNode ELSE nx[n]]
           pv2 == [n \in Nodes |-> IF n = Nth(s, i + 1) THEN NoNode ELSE pv[n]]
<1>2. CutAt(s, i, nx, pv, nx2, pv2)
  BY <1>0, <1>1, NthIsNode DEF Distinct, CutAt
<1> HIDE DEF nx2, pv2
<1>3. Chained(b, nx2, pv2, Nth(s, i + 1), IF i = Len(s) THEN NoNode ELSE la)
  <2>1. Chained(s, nx, pv, fi, la) /\ i \in 0 .. Len(s)
    OBVIOUS
  <2>2. Chained(Past(s, i), nx2, pv2, Nth(s, i + 1), IF i = Len(s) THEN NoNode ELSE la)
    BY <2>1, <1>2, CutChained
  <2> QED BY <2>2
<1> HIDE DEF b
<1>4. Distinct(b) /\ Nth(s, i + 1) = Nth(b, 1) /\ \A j \in 1 .. Len(b) : nx2[b[j]] = Nth(b, j + 1)
  BY <1>3 DEF Chained
<1>5. Len(b) = Len(s) - i /\ \A j \in 1 .. Len(s) - i : b[j] = s[j + i]
  BY <1>1, PastIs DEF b
<1>6. ASSUME NEW j \in 1 .. Len(b) PROVE nx[b[j]] = Nth(b, j + 1)
  <2> DEFINE k == j + i
  <2>1. k \in 1 .. Len(s) /\ k # i /\ b[j] = s[k]
    BY <1>1, <1>5
  <2> HIDE DEF k
  <2>2. nx2[s[k]] = nx[s[k]]
    BY <1>1, <1>2, <2>1 DEF CutAt
  <2> QED BY <1>4, <2>1, <2>2
<1>7. Leads(b, nx, Nth(s, i + 1))
  BY <1>4, <1>6 DEF Leads
<1> QED BY <1>7, AlongIs DEF b

(***************************************************************************)
(* Where the nodes are                                                     *)
(***************************************************************************)
In(s, n) == \E i \in 1 .. Len(s) : s[i] = n

\* Which nodes a changed chain has.
LEMMA InIns ==
  ASSUME NEW s, Distinct(s), NEW i \in 0 .. Len(s), NEW n \in Nodes,
         ~In(s, n), NEW x
  PROVE  In(Ins(s, i, n), x) <=> In(s, x) \/ x = n
<1> DEFINE t == Ins(s, i, n)
<1>1. s \in Seq(Nodes) /\ Len(s) \in Nat /\ i \in Nat /\ i <= Len(s)
  BY DEF Distinct
<1>2. /\ Len(t) = Len(s) + 1
      /\ \A j \in 1 .. Len(s) + 1 :
              \/ j <= i /\ t[j] = s[j]
              \/ j = i + 1 /\ t[j] = n
              \/ j > i + 1 /\ \E k \in i + 1 .. Len(s) : j = k + 1 /\ t[j] = s[k]
  BY InsertDistinct DEF In
<1>3. t[i + 1] = n
  <2>1. i \in 0 .. Len(s)
    OBVIOUS
  <2> QED BY <1>1, <2>1, InsLen
<1>4. \A h \in 1 .. i : t[h] = s[h]
  <2>1. i \in 0 .. Len(s)
    OBVIOUS
  <2> QED BY <1>1, <2>1, InsLow
<1>5. \A h \in i + 1 .. Len(s) : t[h + 1] = s[h]
  <2>1. i \in 0 .. Len(s)
    OBVIOUS
  <2> QED BY <1>1, <2>1, InsHigh
<1> HIDE DEF t
<1>6. ASSUME In(t, x) PROVE In(s, x) \/ x = n
  <2>1. PICK j \in 1 .. Len(s) + 1 : t[j] = x
    BY <1>2, <1>6 DEF In
  <2>2. CASE j <= i
    <3>1. j \in 1 .. Len(s) /\ t[j] = s[j]
      BY <1>1, <1>2, <2>2
    <3> QED BY <2>1, <3>1 DEF In
  <2>3. CASE j = i + 1
    BY <1>3, <2>1, <2>3
  <2>4. CASE j > i + 1
    <3>1. PICK k \in i + 1 .. Len(s) : t[j] = s[k]
      BY <1>1, <1>2, <2>4
    <3>2. k \in 1 .. Len(s)
      BY <1>1
    <3> QED BY <2>1, <3>1, <3>2 DEF In
  <2> QED BY <1>1, <2>2, <2>3, <2>4
<1>7. ASSUME x = n PROVE In(t, x)
  <2>1. i + 1 \in 1 .. Len(t)
    BY <1>1, <1>2
  <2> QED BY <1>3, <1>7, <2>1 DEF In
<1>8. ASSUME In(s, x) PROVE In(t, x)
  <2>1. PICK k \in 1 .. Len(s) : s[k] = x
    BY <1>8 DEF In
  <2>2. CASE k <= i
    <3>1. k \in 1 .. Len(t) /\ k \in 1 .. i
      BY <1>1, <1>2, <2>2
    <3> QED BY <1>4, <2>1, <3>1 DEF In
  <2>3. CASE k > i
    <3> DEFINE j == k + 1
    <3>1. j \in 1 .. Len(t) /\ k \in i + 1 .. Len(s)
      BY <1>1, <1>2, <2>3
    <3>2. t[j] = s[k]
      BY <1>5, <3>1
    <3> HIDE DEF j
    <3> QED BY <2>1, <3>1, <3>2 DEF In
  <2> QED BY <1>1, <2>2, <2>3
<1> QED BY <1>6, <1>7, <1>8 DEF t

LEMMA InDel ==
  ASSUME NEW s, Distinct(s), NEW i \in 1 .. Len(s), NEW x
  PROVE  In(Del(s, i), x) <=> In(s, x) /\ x # s[i]
<1> DEFINE t == Del(s, i)
<1>1. s \in Seq(Nodes) /\ Len(s) \in Nat /\ i \in Nat /\ i <= Len(s) /\ 1 <= i
  BY DEF Distinct
<1>2. /\ Len(t) = Len(s) - 1
      /\ \A j \in 1 .. Len(s) - 1 :
              \/ j < i /\ t[j] = s[j]
              \/ j >= i /\ \E k \in i + 1 .. Len(s) : k = j + 1 /\ t[j] = s[k]
  BY RemoveDistinct
<1>3. \A h \in 1 .. i - 1 : t[h] = s[h]
  BY <1>1, DelIs
<1>4. \A h \in i .. Len(s) - 1 : t[h] = s[h + 1]
  BY <1>1, DelIs
<1>5. \A h, k \in 1 .. Len(s) : s[h] = s[k] => h = k
  BY DEF Distinct
<1> HIDE DEF t
<1>6. ASSUME In(t, x) PROVE In(s, x) /\ x # s[i]
  <2>1. PICK j \in 1 .. Len(s) - 1 : t[j] = x
    BY <1>2, <1>6 DEF In
  <2>2. CASE j < i
    <3>1. j \in 1 .. Len(s) /\ t[j] = s[j] /\ j # i
      BY <1>1, <1>2, <2>2
    <3> QED BY <1>5, <2>1, <3>1 DEF In
  <2>3. CASE j >= i
    <3>1. PICK k \in i + 1 .. Len(s) : t[j] = s[k]
      BY <1>1, <1>2, <2>3
    <3>2. k \in 1 .. Len(s) /\ k # i
      BY <1>1
    <3> QED BY <1>5, <2>1, <3>1, <3>2 DEF In
  <2> QED BY <1>1, <2>2, <2>3
<1>7. ASSUME In(s, x), x # s[i] PROVE In(t, x)
  <2>1. PICK k \in 1 .. Len(s) : s[k] = x
    BY <1>7 DEF In
  <2>2. CASE k < i
    <3>1. k \in 1 .. Len(t) /\ k \in 1 .. i - 1
      BY <1>1, <1>2, <2>2
    <3> QED BY <1>3, <2>1, <3>1 DEF In
  <2>3. CASE k > i
    <3> DEFINE j == k - 1
    <3>1. j \in 1 .. Len(t) /\ j \in i .. Len(s) - 1 /\ j + 1 = k
      BY <1>1, <1>2, <2>3
    <3> HIDE DEF j
    <3>2. t[j] = s[k]
      BY <1>4, <3>1
    <3> QED BY <2>1, <3>1, <3>2 DEF In
  <2> QED BY <1>1, <1>7, <2>1, <2>2, <2>3
<1> QED BY <1>6, <1>7 DEF t

LEMMA InParts ==
  ASSUME NEW s, Distinct(s), NEW i \in 0 .. Len(s), NEW x
  PROVE  /\ In(s, x) <=> In(Upto(s, i), x) \/ In(Past(s, i), x)
         /\ ~(In(Upto(s, i), x) /\ In(Past(s, i), x))
<1> DEFINE a == Upto(s, i)
           b == Past(s, i)
<1>1. s \in Seq(Nodes) /\ Len(s) \in Nat /\ i \in Nat /\ i <= Len(s)
  BY DEF Distinct
<1>2. Len(a) = i /\ \A j \in 1 .. i : a[j] = s[j]
  BY <1>1, UptoIs
<1>3. Len(b) = Len(s) - i /\ \A j \in 1 .. Len(s) - i : b[j] = s[j + i]
  BY <1>1, PastIs
<1>4. \A h, k \in 1 .. Len(s) : s[h] = s[k] => h = k
  BY DEF Distinct
<1> HIDE DEF a, b
<1>5. In(a, x) <=> \E k \in 1 .. i : s[k] = x
  BY <1>2 DEF In
<1>6. In(b, x) <=> \E k \in i + 1 .. Len(s) : s[k] = x
  <2>1. ASSUME In(b, x) PROVE \E k \in i + 1 .. Len(s) : s[k] = x
    <3>1. PICK j \in 1 .. Len(s) - i : b[j] = x
      BY <1>3, <2>1 DEF In
    <3> DEFINE k == j + i
    <3>2. k \in i + 1 .. Len(s) /\ b[j] = s[k]
      BY <1>1, <1>3
    <3> HIDE DEF k
    <3> QED BY <3>1, <3>2
  <2>2. ASSUME NEW k \in i + 1 .. Len(s), s[k] = x PROVE In(b, x)
    <3> DEFINE j == k - i
    <3>1. j \in 1 .. Len(s) - i /\ j + i = k
      BY <1>1
    <3> HIDE DEF j
    <3>2. b[j] = s[k]
      BY <1>3, <3>1
    <3> QED BY <1>3, <2>2, <3>1, <3>2 DEF In
  <2> QED BY <2>1, <2>2
<1>7. In(s, x) <=> (\E k \in 1 .. i : s[k] = x) \/ \E k \in i + 1 .. Len(s) : s[k] = x
  BY <1>1 DEF In
<1>8. ~((\E k \in 1 .. i : s[k] = x) /\ \E k \in i + 1 .. Len(s) : s[k] = x)
  <2> SUFFICES ASSUME NEW h \in 1 .. i, NEW k \in i + 1 .. Len(s), s[h] = s[k] PROVE FALSE
    OBVIOUS
  <2>1. h \in 1 .. Len(s) /\ k \in 1 .. Len(s) /\ h # k
    BY <1>1
  <2> QED BY <1>4, <2>1
<1> QED BY <1>5, <1>6, <1>7, <1>8 DEF a, b

LEMMA InJoin ==
  ASSUME NEW s, NEW t, Distinct(s), Distinct(t), NEW x
  PROVE  In(Join(s, t), x) <=> In(s, x) \/ In(t, x)
<1> DEFINE r == Join(s, t)
           n == Len(s)
           m == Len(t)
<1>1. s \in Seq(Nodes) /\ t \in Seq(Nodes) /\ n \in Nat /\ m \in Nat
  BY DEF Distinct
<1>2. Len(r) = n + m
  BY <1>1, JoinIs
<1>3. \A j \in 1 .. n : r[j] = s[j]
  BY <1>1, JoinIs
<1>4. \A j \in 1 .. m : r[n + j] = t[j]
  BY <1>1, JoinIs
<1>5. (In(s, x) <=> \E j \in 1 .. n : s[j] = x) /\ (In(t, x) <=> \E j \in 1 .. m : t[j] = x)
  BY DEF In
<1> HIDE DEF r, n, m
<1>6. In(r, x) <=> \E j \in 1 .. n + m : r[j] = x
  BY <1>2 DEF In
<1>7. ASSUME NEW j \in 1 .. n + m, r[j] = x PROVE In(s, x) \/ In(t, x)
  <2>1. CASE j <= n
    <3>1. j \in 1 .. n
      BY <1>1, <2>1
    <3> QED BY <1>3, <1>5, <1>7, <3>1
  <2>2. CASE j > n
    <3> DEFINE k == j - n
    <3>1. k \in 1 .. m /\ n + k = j
      BY <1>1, <2>2
    <3> HIDE DEF k
    <3> QED BY <1>4, <1>5, <1>7, <3>1
  <2> QED BY <1>1, <2>1, <2>2
<1>8. ASSUME NEW j \in 1 .. n, s[j] = x PROVE In(r, x)
  <2>1. j \in 1 .. n + m
    BY <1>1
  <2> QED BY <1>3, <1>6, <1>8, <2>1
<1>9. ASSUME NEW j \in 1 .. m, t[j] = x PROVE In(r, x)
  <2> DEFINE k == n + j
  <2>1. k \in 1 .. n + m /\ r[k] = t[j]
    BY <1>1, <1>4
  <2> HIDE DEF k
  <2> QED BY <1>6, <1>9, <2>1
<1> QED BY <1>5, <1>6, <1>7, <1>8, <1>9 DEF r

LEMMA InTurn ==
  ASSUME NEW s, Distinct(s), NEW x
  PROVE  In(Turn(s), x) <=> In(s, x)
<1> DEFINE t == Turn(s)
           n == Len(s)
<1>1. s \in Seq(Nodes) /\ n \in Nat
  BY DEF Distinct
<1>2. Len(t) = n /\ \A j \in 1 .. n : t[j] = s[n + 1 - j]
  BY <1>1, TurnIs
<1>3. In(s, x) <=> \E j \in 1 .. n : s[j] = x
  BY DEF In
<1> HIDE DEF t, n
<1>4. In(t, x) <=> \E j \in 1 .. n : t[j] = x
  BY <1>2 DEF In
<1>5. ASSUME NEW j \in 1 .. n PROVE \E k \in 1 .. n : t[j] = s[k] /\ t[k] = s[j]
  <2> DEFINE k == n + 1 - j
  <2>1. k \in 1 .. n /\ n + 1 - k = j
    BY <1>1
  <2>2. t[j] = s[k]
    BY <1>2
  <2> HIDE DEF k
  <2>3. t[k] = s[j]
    BY <1>2, <2>1
  <2> QED BY <2>1, <2>2, <2>3
<1> QED BY <1>3, <1>4, <1>5 DEF t

(***************************************************************************)
(* All lists and all caches together                                       *)
(***************************************************************************)

\* ch[l] are the nodes of list l, in their order.
ListsOK(ch, nx, pv, fi, la, co) ==
  /\ ch \in [Lists -> Seq(Nodes)]
  /\ nx \in [Nodes -> L!Position] /\ pv \in [Nodes -> L!Position]
  /\ fi \in [Lists -> L!Position] /\ la \in [Lists -> L!Position] /\ co \in [Lists -> Int]
  /\ \A l \in Lists : Chained(ch[l], nx, pv, fi[l], la[l]) /\ co[l] = Len(ch[l])

\* ca[l] are the nodes in the cache of list l, in their order.
CachesOK(ca, nx, cd, us) ==
  /\ ca \in [Lists -> Seq(Nodes)]
  /\ cd \in [Lists -> L!Position] /\ us \in [Lists -> Int]
  /\ \A l \in Lists : Leads(ca[l], nx, cd[l]) /\ us[l] = Len(ca[l]) /\ us[l] <= CacheSize

\* Every node is in one list, or in one cache, or in hand, or spare.
Apart(ch, ca, hand, sp) ==
  /\ sp \subseteq Nodes /\ hand \subseteq Nodes
  /\ \A l, m \in Lists, x \in Nodes :
       /\ In(ch[l], x) /\ In(ch[m], x) => l = m
       /\ In(ca[l], x) /\ In(ca[m], x) => l = m
       /\ ~(In(ch[l], x) /\ In(ca[m], x))
  /\ \A l \in Lists, x \in hand \cup sp : ~In(ch[l], x) /\ ~In(ca[l], x)
  /\ \A x \in Nodes : x \in sp <=> x \notin hand /\ \A l \in Lists : ~In(ch[l], x) /\ ~In(ca[l], x)

Whole(ch, ca, nx, pv, fi, la, co, cd, us, hand, sp) ==
  ListsOK(ch, nx, pv, fi, la, co) /\ CachesOK(ca, nx, cd, us) /\ Apart(ch, ca, hand, sp)

LEMMA InIsNode == ASSUME NEW s, Distinct(s), NEW x, In(s, x) PROVE x \in Nodes
BY DEF In, Distinct

LEMMA FrameLists ==
  ASSUME NEW ch, NEW nx, NEW pv, NEW fi, NEW la, NEW co, ListsOK(ch, nx, pv, fi, la, co),
         NEW nx2 \in [Nodes -> L!Position], NEW pv2 \in [Nodes -> L!Position],
         \A l \in Lists, x \in Nodes : In(ch[l], x) => nx2[x] = nx[x] /\ pv2[x] = pv[x]
  PROVE  ListsOK(ch, nx2, pv2, fi, la, co)
<1>1. ASSUME NEW l \in Lists PROVE Chained(ch[l], nx2, pv2, fi[l], la[l])
  <2>1. Chained(ch[l], nx, pv, fi[l], la[l])
    BY DEF ListsOK
  <2>2. \A j \in 1 .. Len(ch[l]) : In(ch[l], ch[l][j]) /\ ch[l][j] \in Nodes
    BY DEF ListsOK, In
  <2>3. \A j \in 1 .. Len(ch[l]) : nx2[ch[l][j]] = nx[ch[l][j]] /\ pv2[ch[l][j]] = pv[ch[l][j]]
    BY <2>2
  <2> QED BY <2>1, <2>3, SameChained
<1> QED BY <1>1 DEF ListsOK

LEMMA FrameCaches ==
  ASSUME NEW ca, NEW nx, NEW cd, NEW us, CachesOK(ca, nx, cd, us), NEW nx2,
         \A l \in Lists, x \in Nodes : In(ca[l], x) => nx2[x] = nx[x]
  PROVE  CachesOK(ca, nx2, cd, us)
<1>1. ASSUME NEW l \in Lists PROVE Leads(ca[l], nx2, cd[l])
  <2>1. Leads(ca[l], nx, cd[l])
    BY DEF CachesOK
  <2>2. \A j \in 1 .. Len(ca[l]) : In(ca[l], ca[l][j]) /\ ca[l][j] \in Nodes
    BY DEF CachesOK, In
  <2>3. \A j \in 1 .. Len(ca[l]) : nx2[ca[l][j]] = nx[ca[l][j]]
    BY <2>2
  <2> QED BY <2>1, <2>3 DEF Leads
<1> QED BY <1>1 DEF CachesOK

\* The pointers of the other lists are what they were.
OthersKept(ch, l, nx, pv, nx2, pv2) ==
  /\ nx2 \in [Nodes -> L!Position] /\ pv2 \in [Nodes -> L!Position]
  /\ \A m \in Lists, x \in Nodes :
        m # l /\ In(ch[m], x) => nx2[x] = nx[x] /\ pv2[x] = pv[x]

\* A step on the nodes of one list leaves the other chains as they are.
LEMMA OneList ==
  ASSUME NEW ch, NEW nx, NEW pv, NEW fi, NEW la, NEW co, ListsOK(ch, nx, pv, fi, la, co),
         NEW l \in Lists, NEW t, NEW f, NEW e, NEW nx2, NEW pv2, Chained(t, nx2, pv2, f, e),
         OthersKept(ch, l, nx, pv, nx2, pv2)
  PROVE  ListsOK([ch EXCEPT ![l] = t], nx2, pv2, [fi EXCEPT ![l] = f], [la EXCEPT ![l] = e],
                 [co EXCEPT ![l] = Len(t)])
<1> /\ nx2 \in [Nodes -> L!Position] /\ pv2 \in [Nodes -> L!Position]
    /\ \A m \in Lists, x \in Nodes :
          m # l /\ In(ch[m], x) => nx2[x] = nx[x] /\ pv2[x] = pv[x]
  BY DEF OthersKept
<1> DEFINE ch2 == [ch EXCEPT ![l] = t]
<1>1. t \in Seq(Nodes) /\ f \in L!Position /\ e \in L!Position /\ Len(t) \in Int
  <2>1. Distinct(t) /\ f = Nth(t, 1) /\ e = Nth(t, Len(t))
    BY DEF Chained
  <2>2. t \in Seq(Nodes)
    BY <2>1 DEF Distinct
  <2> QED BY <2>1, <2>2, NthIsNode
<1>2. ASSUME NEW m \in Lists, m # l PROVE Chained(ch[m], nx2, pv2, fi[m], la[m])
  <2>1. Chained(ch[m], nx, pv, fi[m], la[m])
    BY DEF ListsOK
  <2>2. \A j \in 1 .. Len(ch[m]) : In(ch[m], ch[m][j]) /\ ch[m][j] \in Nodes
    BY DEF ListsOK, In
  <2>3. \A j \in 1 .. Len(ch[m]) : nx2[ch[m][j]] = nx[ch[m][j]] /\ pv2[ch[m][j]] = pv[ch[m][j]]
    BY <1>2, <2>2
  <2> QED BY <2>1, <2>3, SameChained
<1> QED BY <1>1, <1>2 DEF ListsOK

\* A node more for list l, behind place i.
LinkStep(ch, nx, pv, fi, la, co, l, i, n, ch2, nx2, pv2, fi2, la2, co2) ==
  /\ i \in 0 .. Len(ch[l])
  /\ nx2 \in [Nodes -> L!Position] /\ pv2 \in [Nodes -> L!Position]
  /\ LinkedIn(ch[l], i, n, nx, pv, nx2, pv2)
  /\ \A x \in Nodes : x # n /\ ~In(ch[l], x) => nx2[x] = nx[x] /\ pv2[x] = pv[x]
  /\ ch2 = [ch EXCEPT ![l] = Ins(ch[l], i, n)]
  /\ fi2 = [fi EXCEPT ![l] = IF i = 0 THEN n ELSE @]
  /\ la2 = [la EXCEPT ![l] = IF i = Len(ch[l]) THEN n ELSE @]
  /\ co2 = [co EXCEPT ![l] = @ + 1]

\* Linking a node in keeps every list a chain.
LEMMA LinkKeeps ==
  ASSUME NEW ch, NEW ca, NEW nx, NEW pv, NEW fi, NEW la, NEW co, NEW cd, NEW us,
         NEW n \in Nodes, NEW sp, Whole(ch, ca, nx, pv, fi, la, co, cd, us, {n}, sp),
         NEW l \in Lists, NEW i, NEW ch2, NEW nx2, NEW pv2, NEW fi2, NEW la2, NEW co2,
         LinkStep(ch, nx, pv, fi, la, co, l, i, n, ch2, nx2, pv2, fi2, la2, co2)
  PROVE  Whole(ch2, ca, nx2, pv2, fi2, la2, co2, cd, us, {}, sp)
<1> ListsOK(ch, nx, pv, fi, la, co) /\ CachesOK(ca, nx, cd, us) /\ Apart(ch, ca, {n}, sp)
  BY DEF Whole
<1> /\ i \in 0 .. Len(ch[l])
    /\ nx2 \in [Nodes -> L!Position] /\ pv2 \in [Nodes -> L!Position]
    /\ LinkedIn(ch[l], i, n, nx, pv, nx2, pv2)
    /\ \A x \in Nodes : x # n /\ ~In(ch[l], x) => nx2[x] = nx[x] /\ pv2[x] = pv[x]
  BY DEF LinkStep
<1> DEFINE s == ch[l]
           t == Ins(s, i, n)
           c2 == [ch EXCEPT ![l] = t]
<1>0. /\ Chained(s, nx, pv, fi[l], la[l]) /\ Distinct(s) /\ co[l] = Len(s) /\ ch \in [Lists -> Seq(Nodes)]
      /\ fi \in [Lists -> L!Position] /\ la \in [Lists -> L!Position] /\ co \in [Lists -> Int]
  BY DEF ListsOK, Chained
<1>1. ~In(s, n) /\ \A m \in Lists : ~In(ch[m], n) /\ ~In(ca[m], n)
  BY DEF Apart
<1>2. \A j \in 1 .. Len(s) : s[j] # n
  BY <1>1 DEF In
<1>3. Chained(t, nx2, pv2, IF i = 0 THEN n ELSE fi[l], IF i = Len(s) THEN n ELSE la[l])
  <2> HIDE DEF s
  <2>1. i \in 0 .. Len(s) /\ LinkedIn(s, i, n, nx, pv, nx2, pv2)
    BY DEF s
  <2> QED BY <1>0, <1>2, <2>1, InsertChained
<1>4. Len(t) = Len(s) + 1
  BY <1>0, <1>2, InsertDistinct
<1>5. \A x : In(t, x) <=> In(s, x) \/ x = n
  BY <1>0, <1>1, InIns
<1>6. OthersKept(ch, l, nx, pv, nx2, pv2)
  <2>1. ASSUME NEW m \in Lists, NEW x \in Nodes, m # l, In(ch[m], x)
        PROVE  nx2[x] = nx[x] /\ pv2[x] = pv[x]
    BY <1>1, <2>1 DEF Apart
  <2> QED BY <2>1 DEF OthersKept
<1>7. ListsOK(c2, nx2, pv2, [fi EXCEPT ![l] = IF i = 0 THEN n ELSE @],
              [la EXCEPT ![l] = IF i = Len(s) THEN n ELSE @], [co EXCEPT ![l] = @ + 1])
  <2> DEFINE f == IF i = 0 THEN n ELSE fi[l]
             e == IF i = Len(s) THEN n ELSE la[l]
  <2> HIDE DEF t, f, e, s
  <2>1. Chained(t, nx2, pv2, f, e)
    BY <1>3 DEF f, e
  <2>2. ListsOK([ch EXCEPT ![l] = t], nx2, pv2, [fi EXCEPT ![l] = f], [la EXCEPT ![l] = e],
                 [co EXCEPT ![l] = Len(t)])
    BY <1>6, <2>1, OneList
  <2>3. /\ [fi EXCEPT ![l] = f] = [fi EXCEPT ![l] = IF i = 0 THEN n ELSE @]
        /\ [la EXCEPT ![l] = e] = [la EXCEPT ![l] = IF i = Len(s) THEN n ELSE @]
        /\ [co EXCEPT ![l] = Len(t)] = [co EXCEPT ![l] = @ + 1]
    BY <1>0, <1>4 DEF f, e
  <2> QED BY <2>2, <2>3
<1>8. CachesOK(ca, nx2, cd, us)
  <2>1. \A m \in Lists, x \in Nodes : In(ca[m], x) => nx2[x] = nx[x]
    BY <1>1 DEF Apart
  <2> QED BY <2>1, FrameCaches
<1>9. Apart(c2, ca, {}, sp)
  <2>1. \A m \in Lists : \A x : In(c2[m], x) <=> In(ch[m], x) \/ (m = l /\ x = n)
    BY <1>0, <1>5
  <2> HIDE DEF c2, t, s
  <2>2. \A k, m \in Lists, x \in Nodes :
          /\ In(c2[k], x) /\ In(c2[m], x) => k = m
          /\ In(ca[k], x) /\ In(ca[m], x) => k = m
          /\ ~(In(c2[k], x) /\ In(ca[m], x))
    <3> TAKE k, m \in Lists, x \in Nodes
    <3>1. /\ In(ch[k], x) /\ In(ch[m], x) => k = m
          /\ In(ca[k], x) /\ In(ca[m], x) => k = m
          /\ ~(In(ch[k], x) /\ In(ca[m], x))
      BY DEF Apart
    <3>2. /\ In(c2[k], x) <=> In(ch[k], x) \/ (k = l /\ x = n)
          /\ In(c2[m], x) <=> In(ch[m], x) \/ (m = l /\ x = n)
      BY <2>1
    <3>3. x = n => ~In(ch[k], x) /\ ~In(ch[m], x) /\ ~In(ca[m], x)
      BY <1>1
    <3> QED BY <3>1, <3>2, <3>3
  <2>3. \A m \in Lists, x \in sp : ~In(c2[m], x) /\ ~In(ca[m], x)
    BY <2>1 DEF Apart
  <2>4. ASSUME NEW x \in Nodes
        PROVE  x \in sp <=> \A m \in Lists : ~In(c2[m], x) /\ ~In(ca[m], x)
    <3>1. x \in sp <=> x # n /\ \A m \in Lists : ~In(ch[m], x) /\ ~In(ca[m], x)
      BY DEF Apart
    <3> QED BY <2>1, <3>1
  <2> QED BY <2>2, <2>3, <2>4 DEF Apart
<1>10. /\ ch2 = c2 /\ fi2 = [fi EXCEPT ![l] = IF i = 0 THEN n ELSE @]
       /\ la2 = [la EXCEPT ![l] = IF i = Len(s) THEN n ELSE @]
       /\ co2 = [co EXCEPT ![l] = @ + 1]
  BY DEF LinkStep
<1> HIDE DEF c2
<1> QED BY <1>7, <1>8, <1>9, <1>10 DEF Whole

\* A node less for list l, the one at place i.
UnlinkStep(ch, nx, pv, fi, la, co, l, i, ch2, nx2, pv2, fi2, la2, co2) ==
  /\ i \in 1 .. Len(ch[l])
  /\ nx2 \in [Nodes -> L!Position] /\ pv2 \in [Nodes -> L!Position]
  /\ LedAround(ch[l], i, nx, pv, nx2, pv2)
  /\ \A x \in Nodes : ~In(ch[l], x) => nx2[x] = nx[x] /\ pv2[x] = pv[x]
  /\ ch2 = [ch EXCEPT ![l] = Del(ch[l], i)]
  /\ fi2 = [fi EXCEPT ![l] = IF i = 1 THEN Nth(ch[l], i + 1) ELSE @]
  /\ la2 = [la EXCEPT ![l] = IF i = Len(ch[l]) THEN Nth(ch[l], i - 1) ELSE @]
  /\ co2 = [co EXCEPT ![l] = @ - 1]

\* So does linking past a node.
LEMMA UnlinkKeeps ==
  ASSUME NEW ch, NEW ca, NEW nx, NEW pv, NEW fi, NEW la, NEW co, NEW cd, NEW us,
         NEW sp, Whole(ch, ca, nx, pv, fi, la, co, cd, us, {}, sp),
         NEW l \in Lists, NEW i, NEW ch2, NEW nx2, NEW pv2, NEW fi2, NEW la2, NEW co2,
         UnlinkStep(ch, nx, pv, fi, la, co, l, i, ch2, nx2, pv2, fi2, la2, co2)
  PROVE  Whole(ch2, ca, nx2, pv2, fi2, la2, co2, cd, us, {ch[l][i]}, sp)
<1> ListsOK(ch, nx, pv, fi, la, co) /\ CachesOK(ca, nx, cd, us) /\ Apart(ch, ca, {}, sp)
  BY DEF Whole
<1> /\ i \in 1 .. Len(ch[l])
    /\ nx2 \in [Nodes -> L!Position] /\ pv2 \in [Nodes -> L!Position]
    /\ LedAround(ch[l], i, nx, pv, nx2, pv2)
    /\ \A x \in Nodes : ~In(ch[l], x) => nx2[x] = nx[x] /\ pv2[x] = pv[x]
  BY DEF UnlinkStep
<1> DEFINE s == ch[l]
           n == s[i]
           t == Del(s, i)
           c2 == [ch EXCEPT ![l] = t]
           f == IF i = 1 THEN Nth(s, i + 1) ELSE fi[l]
           e == IF i = Len(s) THEN Nth(s, i - 1) ELSE la[l]
<1>0. /\ Chained(s, nx, pv, fi[l], la[l]) /\ Distinct(s) /\ co[l] = Len(s) /\ ch \in [Lists -> Seq(Nodes)]
      /\ fi \in [Lists -> L!Position] /\ la \in [Lists -> L!Position] /\ co \in [Lists -> Int]
      /\ i \in 1 .. Len(s)
  BY DEF ListsOK, Chained
<1>1. n \in Nodes /\ In(s, n)
  BY <1>0 DEF In, Distinct
<1>2. /\ Chained(t, nx2, pv2, f, e) /\ Len(t) = Len(s) - 1
      /\ \A x : In(t, x) <=> In(s, x) /\ x # n
  <2>1. LedAround(s, i, nx, pv, nx2, pv2)
    OBVIOUS
  <2> HIDE DEF s
  <2>2. Chained(t, nx2, pv2, f, e)
    BY <1>0, <2>1, RemoveChained
  <2>3. Len(t) = Len(s) - 1
    BY <1>0, RemoveDistinct
  <2>4. \A x : In(t, x) <=> In(s, x) /\ x # n
    BY <1>0, InDel
  <2> QED BY <2>2, <2>3, <2>4
<1>3. OthersKept(ch, l, nx, pv, nx2, pv2)
  <2>1. ASSUME NEW m \in Lists, NEW x \in Nodes, m # l, In(ch[m], x)
        PROVE  nx2[x] = nx[x] /\ pv2[x] = pv[x]
    <3>1. ~In(ch[l], x)
      BY <2>1 DEF Apart
    <3> QED BY <3>1
  <2> QED BY <2>1 DEF OthersKept
<1> HIDE DEF t, n, f, e
<1>4. ListsOK(c2, nx2, pv2, [fi EXCEPT ![l] = f], [la EXCEPT ![l] = e], [co EXCEPT ![l] = Len(t)])
  BY <1>2, <1>3, OneList
<1>5. /\ [fi EXCEPT ![l] = f] = [fi EXCEPT ![l] = IF i = 1 THEN Nth(s, i + 1) ELSE @]
      /\ [la EXCEPT ![l] = e] = [la EXCEPT ![l] = IF i = Len(s) THEN Nth(s, i - 1) ELSE @]
      /\ [co EXCEPT ![l] = Len(t)] = [co EXCEPT ![l] = @ - 1]
  BY <1>0, <1>2 DEF f, e
<1>6. CachesOK(ca, nx2, cd, us)
  <2>1. \A m \in Lists, x \in Nodes : In(ca[m], x) => nx2[x] = nx[x]
    BY DEF Apart
  <2> QED BY <2>1, FrameCaches
<1>7. Apart(c2, ca, {n}, sp)
  <2>1. \A m \in Lists : \A x : In(c2[m], x) <=> In(ch[m], x) /\ ~(m = l /\ x = n)
    BY <1>0, <1>2
  <2>2. \A m \in Lists : In(ch[m], n) <=> m = l
    BY <1>1 DEF Apart
  <2> HIDE DEF c2, s
  <2>3. \A k, m \in Lists, x \in Nodes :
          /\ In(c2[k], x) /\ In(c2[m], x) => k = m
          /\ In(ca[k], x) /\ In(ca[m], x) => k = m
          /\ ~(In(c2[k], x) /\ In(ca[m], x))
    <3> TAKE k, m \in Lists, x \in Nodes
    <3>1. /\ In(ch[k], x) /\ In(ch[m], x) => k = m
          /\ In(ca[k], x) /\ In(ca[m], x) => k = m
          /\ ~(In(ch[k], x) /\ In(ca[m], x))
      BY DEF Apart
    <3> QED BY <2>1, <3>1
  <2>4. \A m \in Lists : ~In(c2[m], n) /\ ~In(ca[m], n)
    <3> TAKE m \in Lists
    <3>1. ~In(ca[m], n)
      BY <1>1, <2>2 DEF Apart
    <3> QED BY <2>1, <2>2, <3>1
  <2>5. \A m \in Lists, x \in sp : ~In(c2[m], x) /\ ~In(ca[m], x)
    BY <2>1 DEF Apart
  <2>6. ASSUME NEW x \in Nodes
        PROVE  x \in sp <=> x \notin {n} /\ \A m \in Lists : ~In(c2[m], x) /\ ~In(ca[m], x)
    <3>1. x \in sp <=> \A m \in Lists : ~In(ch[m], x) /\ ~In(ca[m], x)
      BY DEF Apart
    <3>2. x = n => x \notin sp
      BY <2>2, <3>1
    <3> QED BY <2>1, <3>1, <3>2
  <2>7. sp \subseteq Nodes
    BY DEF Apart
  <2> QED BY <1>1, <2>3, <2>4, <2>5, <2>6, <2>7 DEF Apart
<1>8. /\ ch2 = c2 /\ fi2 = [fi EXCEPT ![l] = IF i = 1 THEN Nth(s, i + 1) ELSE @]
      /\ la2 = [la EXCEPT ![l] = IF i = Len(s) THEN Nth(s, i - 1) ELSE @]
      /\ co2 = [co EXCEPT ![l] = @ - 1]
  BY DEF UnlinkStep, t
<1> HIDE DEF c2
<1> QED BY <1>4, <1>5, <1>6, <1>7, <1>8 DEF n, Whole

(***************************************************************************)
(* The node caches                                                         *)
(***************************************************************************)

LEMMA PopLeads ==
  ASSUME NEW s, NEW f, NEW c, Leads(s, f, c), c # NoNode
  PROVE  /\ 1 \in 1 .. Len(s) /\ c = s[1]
         /\ Leads(Del(s, 1), f, f[c])
<1> DEFINE t == Del(s, 1)
<1>0. Distinct(s) /\ c = Nth(s, 1) /\ \A i \in 1 .. Len(s) : f[s[i]] = Nth(s, i + 1)
  BY DEF Leads
<1>1. s \in Seq(Nodes) /\ Len(s) \in Nat
  BY <1>0 DEF Distinct
<1>2. 1 \in 1 .. Len(s) /\ c = s[1]
  BY <1>0, <1>1, NthIsNode
<1>3. Distinct(t) /\ Len(t) = Len(s) - 1
  BY <1>0, <1>2, RemoveDistinct
<1>4. \A h \in 1 .. Len(s) - 1 : t[h] = s[h + 1]
  BY <1>1, <1>2, DelIs
<1>5. \A j \in Int : Nth(t, j) = IF j < 1 THEN Nth(s, j) ELSE Nth(s, j + 1)
  BY <1>1, <1>2, NthDel
<1> HIDE DEF t
<1>6. f[c] = Nth(t, 1)
  <2>1. Nth(t, 1) = Nth(s, 1 + 1)
    BY <1>5
  <2> QED BY <1>0, <1>2, <2>1
<1>7. ASSUME NEW j \in 1 .. Len(t) PROVE f[t[j]] = Nth(t, j + 1)
  <2> DEFINE k == j + 1
  <2>1. k \in 1 .. Len(s) /\ j \in 1 .. Len(s) - 1 /\ ~(k < 1) /\ k \in Int
    BY <1>1, <1>3
  <2>2. t[j] = s[k]
    BY <1>4, <2>1
  <2> HIDE DEF k
  <2>3. f[s[k]] = Nth(s, k + 1) /\ Nth(t, k) = Nth(s, k + 1)
    BY <1>0, <1>5, <2>1
  <2> QED BY <2>2, <2>3 DEF k
<1> QED BY <1>2, <1>3, <1>6, <1>7 DEF Leads, t

LEMMA PushLeads ==
  ASSUME NEW s, NEW f, NEW c, Leads(s, f, c), NEW n \in Nodes, ~In(s, n), NEW f2,
         f2[n] = c, \A x \in Nodes : In(s, x) => f2[x] = f[x]
  PROVE  Leads(Ins(s, 0, n), f2, n)
<1> DEFINE t == Ins(s, 0, n)
<1>0. Distinct(s) /\ c = Nth(s, 1) /\ \A i \in 1 .. Len(s) : f[s[i]] = Nth(s, i + 1)
  BY DEF Leads
<1>1. s \in Seq(Nodes) /\ Len(s) \in Nat /\ 0 \in 0 .. Len(s)
  BY <1>0 DEF Distinct
<1>2. Distinct(t) /\ Len(t) = Len(s) + 1
  <2>1. \A j \in 1 .. Len(s) : s[j] # n
    BY DEF In
  <2> QED BY <1>0, <1>1, <2>1, InsertDistinct
<1>3. t[0 + 1] = n
  BY <1>1, InsLen
<1>4. \A h \in 0 + 1 .. Len(s) : t[h + 1] = s[h]
  BY <1>1, InsHigh
<1>5. \A j \in Int : Nth(t, j) = IF j <= 0 THEN Nth(s, j) ELSE IF j = 0 + 1 THEN n ELSE Nth(s, j - 1)
  BY <1>1, NthIns
<1> HIDE DEF t
<1>6. n = Nth(t, 1)
  BY <1>5
<1>7. ASSUME NEW j \in 1 .. Len(t) PROVE f2[t[j]] = Nth(t, j + 1)
  <2> DEFINE b == j + 1
             k == j - 1
  <2>1. b \in Int /\ ~(b <= 0) /\ b # 0 + 1 /\ b - 1 = j
    BY <1>1, <1>2
  <2>2. Nth(t, b) = Nth(s, j)
    <3> HIDE DEF b
    <3> QED BY <1>5, <2>1
  <2>3. CASE j = 1
    BY <1>0, <1>3, <2>2, <2>3
  <2>4. CASE j # 1
    <3>1. k \in 1 .. Len(s) /\ k + 1 = j
      BY <1>1, <1>2, <2>4
    <3> HIDE DEF k
    <3>2. t[j] = s[k]
      BY <1>4, <3>1
    <3>3. f2[s[k]] = f[s[k]]
      <4>1. s[k] \in Nodes /\ In(s, s[k])
        BY <1>1, <3>1 DEF In
      <4> QED BY <4>1
    <3>4. f[s[k]] = Nth(s, j)
      BY <1>0, <3>1
    <3> QED BY <2>2, <3>2, <3>3, <3>4
  <2> QED BY <2>3, <2>4
<1> QED BY <1>2, <1>6, <1>7 DEF Leads, t

\* The lists and the caches are chains, and every node is in one place.
Lst(ch, ca) ==
  /\ ListsOK(ch, next, prev, first, last, count) /\ CachesOK(ca, next, cached, used)
  /\ Apart(ch, ca, {}, spare) /\ data = [n \in Nodes |-> data[n]]

\* A node leaves the cache of list l.
LEMMA PopKeeps ==
  ASSUME NEW ch, NEW ca, NEW nx, NEW cd, NEW us, CachesOK(ca, nx, cd, us),
         NEW sp, Apart(ch, ca, {}, sp), NEW l \in Lists, cd[l] # NoNode
  PROVE  /\ cd[l] \in Nodes
         /\ CachesOK([ca EXCEPT ![l] = Del(@, 1)], nx, [cd EXCEPT ![l] = nx[cd[l]]],
                     [us EXCEPT ![l] = @ - 1])
         /\ Apart(ch, [ca EXCEPT ![l] = Del(@, 1)], {cd[l]}, sp)
<1> DEFINE s == ca[l]
           n == cd[l]
           t == Del(s, 1)
           c2 == [ca EXCEPT ![l] = t]
<1>0. /\ Leads(s, nx, n) /\ Distinct(s) /\ us[l] = Len(s) /\ us[l] <= CacheSize
      /\ ca \in [Lists -> Seq(Nodes)] /\ cd \in [Lists -> L!Position] /\ us \in [Lists -> Int]
  BY DEF CachesOK, Leads
<1>1. 1 \in 1 .. Len(s) /\ n = s[1] /\ Leads(t, nx, nx[n])
  BY <1>0, PopLeads
<1>2. Distinct(t) /\ Len(t) = Len(s) - 1
  BY <1>0, <1>1, RemoveDistinct
<1>3. \A x : In(t, x) <=> In(s, x) /\ x # n
  BY <1>0, <1>1, InDel
<1>4. n \in Nodes /\ In(s, n)
  BY <1>0, <1>1 DEF In, Distinct
<1>5. t \in Seq(Nodes) /\ nx[n] \in L!Position
  <2>1. t \in Seq(Nodes) /\ nx[n] = Nth(t, 1)
    BY <1>1 DEF Leads, Distinct
  <2> QED BY <2>1, NthIsNode
<1>6. CachesOK(c2, nx, [cd EXCEPT ![l] = nx[cd[l]]], [us EXCEPT ![l] = @ - 1])
  <2> DEFINE d2 == [cd EXCEPT ![l] = nx[n]]
             u2 == [us EXCEPT ![l] = @ - 1]
  <2> HIDE DEF t, n
  <2>1. /\ c2 \in [Lists -> Seq(Nodes)] /\ d2 \in [Lists -> L!Position]
        /\ u2 \in [Lists -> Int]
    BY <1>0, <1>5
  <2>2. ASSUME NEW m \in Lists
        PROVE  Leads(c2[m], nx, d2[m]) /\ u2[m] = Len(c2[m]) /\ u2[m] <= CacheSize
    <3>1. CASE m = l
      <4>1. c2[m] = t /\ d2[m] = nx[n] /\ u2[m] = us[l] - 1
        BY <1>0, <3>1
      <4>2. Len(t) = us[l] - 1 /\ us[l] - 1 <= CacheSize
        BY <1>0, <1>2, ListsAssumption
      <4> QED BY <1>1, <4>1, <4>2
    <3>2. CASE m # l
      <4>1. c2[m] = ca[m] /\ d2[m] = cd[m] /\ u2[m] = us[m]
        BY <1>0, <3>2
      <4> QED BY <4>1 DEF CachesOK
    <3> QED BY <3>1, <3>2
  <2> HIDE DEF c2, d2, u2
  <2>3. CachesOK(c2, nx, d2, u2)
    BY <2>1, <2>2 DEF CachesOK
  <2> QED BY <2>3 DEF d2, u2, n
<1> HIDE DEF n
<1>7. Apart(ch, c2, {n}, sp)
  <2>1. \A m \in Lists : \A x : In(c2[m], x) <=> In(ca[m], x) /\ ~(m = l /\ x = n)
    BY <1>0, <1>3
  <2>2. \A m \in Lists : In(ca[m], n) <=> m = l
    BY <1>4 DEF Apart
  <2> HIDE DEF c2, s, t
  <2>3. \A k, m \in Lists, x \in Nodes :
          /\ In(ch[k], x) /\ In(ch[m], x) => k = m
          /\ In(c2[k], x) /\ In(c2[m], x) => k = m
          /\ ~(In(ch[k], x) /\ In(c2[m], x))
    <3> TAKE k, m \in Lists, x \in Nodes
    <3>1. /\ In(ch[k], x) /\ In(ch[m], x) => k = m
          /\ In(ca[k], x) /\ In(ca[m], x) => k = m
          /\ ~(In(ch[k], x) /\ In(ca[m], x))
      BY DEF Apart
    <3> QED BY <2>1, <3>1
  <2>4. \A m \in Lists : ~In(ch[m], n) /\ ~In(c2[m], n)
    <3> TAKE m \in Lists
    <3>1. ~In(ch[m], n)
      BY <1>4, <2>2 DEF Apart
    <3> QED BY <2>1, <2>2, <3>1
  <2>5. \A m \in Lists, x \in sp : ~In(ch[m], x) /\ ~In(c2[m], x)
    BY <2>1 DEF Apart
  <2>6. ASSUME NEW x \in Nodes
        PROVE  x \in sp <=> x \notin {n} /\ \A m \in Lists : ~In(ch[m], x) /\ ~In(c2[m], x)
    <3>1. x \in sp <=> \A m \in Lists : ~In(ch[m], x) /\ ~In(ca[m], x)
      BY DEF Apart
    <3>2. x = n => x \notin sp
      BY <2>2, <3>1
    <3> QED BY <2>1, <3>1, <3>2
  <2>7. sp \subseteq Nodes
    BY DEF Apart
  <2> QED BY <1>4, <2>3, <2>4, <2>5, <2>6, <2>7 DEF Apart
<1> QED BY <1>4, <1>6, <1>7 DEF n

\* A node is taken from the cache or allocated, and is then in hand.
LEMMA TakeKeeps ==
  ASSUME NEW ch, NEW ca, Lst(ch, ca), NEW l \in Lists, NEW n \in Nodes, L!TakeNode(l, n)
  PROVE  \E ca2 : CachesOK(ca2, next, cached', used') /\ Apart(ch, ca2, {n}, spare')
<1>0. CachesOK(ca, next, cached, used) /\ Apart(ch, ca, {}, spare)
  BY DEF Lst
<1>1. CASE cached[l] # NoNode
  <2>1. /\ n = cached[l] /\ cached' = [cached EXCEPT ![l] = next[cached[l]]]
        /\ used' = [used EXCEPT ![l] = @ - 1] /\ spare' = spare
    BY <1>1 DEF L!TakeNode
  <2> DEFINE c2 == [ca EXCEPT ![l] = Del(@, 1)]
  <2>2. /\ CachesOK(c2, next, [cached EXCEPT ![l] = next[cached[l]]], [used EXCEPT ![l] = @ - 1])
        /\ Apart(ch, c2, {cached[l]}, spare)
    BY <1>0, <1>1, PopKeeps
  <2> HIDE DEF c2
  <2> QED BY <2>1, <2>2
<1>2. CASE cached[l] = NoNode
  <2>1. /\ spare # {} /\ n = L!Min(spare) /\ spare' = spare \ {n}
        /\ cached' = cached /\ used' = used
    BY <1>2 DEF L!TakeNode
  <2>2. spare \in SUBSET Nat /\ spare \subseteq Nodes
    BY <1>0, ListsAssumption DEF Apart
  <2>3. \E x \in spare : \A y \in spare : x <= y
    BY <2>1, <2>2, LeastOf
  <2>4. n \in spare
    BY <2>1, <2>3 DEF L!Min
  <2>5. Apart(ch, ca, {n}, spare \ {n})
    <3>1. \A k, m \in Lists, x \in Nodes :
          /\ In(ch[k], x) /\ In(ch[m], x) => k = m
          /\ In(ca[k], x) /\ In(ca[m], x) => k = m
          /\ ~(In(ch[k], x) /\ In(ca[m], x))
      BY <1>0 DEF Apart
    <3>2. \A m \in Lists, x \in spare : ~In(ch[m], x) /\ ~In(ca[m], x)
      BY <1>0 DEF Apart
    <3>3. \A x \in Nodes : x \in spare <=> \A m \in Lists : ~In(ch[m], x) /\ ~In(ca[m], x)
      BY <1>0 DEF Apart
    <3>4. ASSUME NEW x \in Nodes
          PROVE  x \in spare \ {n} <=> x \notin {n} /\ \A m \in Lists : ~In(ch[m], x) /\ ~In(ca[m], x)
      BY <3>3
    <3> QED BY <2>2, <2>4, <3>1, <3>2, <3>4 DEF Apart
  <2> QED BY <1>0, <2>1, <2>5
<1> QED BY <1>1, <1>2

\* A node enters the cache of list l.
PushStep(ca, nx, cd, us, l, n, ca2, nx2, cd2, us2) ==
  /\ us[l] < CacheSize
  /\ nx2[n] = cd[l] /\ \A x \in Nodes : x # n => nx2[x] = nx[x]
  /\ ca2 = [ca EXCEPT ![l] = Ins(@, 0, n)] /\ cd2 = [cd EXCEPT ![l] = n]
  /\ us2 = [us EXCEPT ![l] = @ + 1]

LEMMA PushKeeps ==
  ASSUME NEW ch, NEW ca, NEW nx, NEW cd, NEW us, CachesOK(ca, nx, cd, us),
         NEW n \in Nodes, NEW sp, Apart(ch, ca, {n}, sp), NEW l \in Lists,
         NEW ca2, NEW nx2, NEW cd2, NEW us2, PushStep(ca, nx, cd, us, l, n, ca2, nx2, cd2, us2)
  PROVE  CachesOK(ca2, nx2, cd2, us2) /\ Apart(ch, ca2, {}, sp)
<1> us[l] < CacheSize /\ nx2[n] = cd[l] /\ \A x \in Nodes : x # n => nx2[x] = nx[x]
  BY DEF PushStep
<1> DEFINE s == ca[l]
           t == Ins(s, 0, n)
           c2 == [ca EXCEPT ![l] = t]
<1>0. /\ Leads(s, nx, cd[l]) /\ Distinct(s) /\ us[l] = Len(s) /\ us[l] <= CacheSize
      /\ ca \in [Lists -> Seq(Nodes)] /\ cd \in [Lists -> L!Position] /\ us \in [Lists -> Int]
      /\ 0 \in 0 .. Len(s)
  BY DEF CachesOK, Leads
<1>1. \A m \in Lists : ~In(ca[m], n) /\ ~In(ch[m], n)
  BY DEF Apart
<1>2. \A m \in Lists, x \in Nodes : In(ca[m], x) => nx2[x] = nx[x]
  BY <1>1
<1>3. Leads(t, nx2, n)
  <2>1. \A x \in Nodes : In(s, x) => nx2[x] = nx[x]
    BY <1>2
  <2> QED BY <1>0, <1>1, <2>1, PushLeads
<1>4. Distinct(t) /\ Len(t) = Len(s) + 1
  <2>1. \A j \in 1 .. Len(s) : s[j] # n
    BY <1>1 DEF In
  <2> QED BY <1>0, <2>1, InsertDistinct
<1>5. \A x : In(t, x) <=> In(s, x) \/ x = n
  BY <1>0, <1>1, InIns
<1>6. CachesOK(c2, nx2, [cd EXCEPT ![l] = n], [us EXCEPT ![l] = @ + 1])
  <2> DEFINE d2 == [cd EXCEPT ![l] = n]
             u2 == [us EXCEPT ![l] = @ + 1]
  <2>0. t \in Seq(Nodes) /\ n \in L!Position
    BY <1>4 DEF Distinct, L!Position
  <2>9. CachesOK(ca, nx2, cd, us)
    BY <1>2, FrameCaches
  <2> HIDE DEF t
  <2>1. /\ c2 \in [Lists -> Seq(Nodes)] /\ d2 \in [Lists -> L!Position]
        /\ u2 \in [Lists -> Int]
    BY <1>0, <2>0
  <2>2. ASSUME NEW m \in Lists
        PROVE  Leads(c2[m], nx2, d2[m]) /\ u2[m] = Len(c2[m]) /\ u2[m] <= CacheSize
    <3>1. CASE m = l
      <4>1. c2[m] = t /\ d2[m] = n /\ u2[m] = us[l] + 1
        BY <1>0, <3>1
      <4>2. Len(t) = us[l] + 1 /\ us[l] + 1 <= CacheSize
        BY <1>0, <1>4, ListsAssumption
      <4> QED BY <1>3, <4>1, <4>2
    <3>2. CASE m # l
      <4>1. c2[m] = ca[m] /\ d2[m] = cd[m] /\ u2[m] = us[m]
        BY <1>0, <3>2
      <4> QED BY <2>9, <4>1 DEF CachesOK
    <3> QED BY <3>1, <3>2
  <2> HIDE DEF c2, d2, u2
  <2>3. CachesOK(c2, nx2, d2, u2)
    BY <2>1, <2>2 DEF CachesOK
  <2> QED BY <2>3 DEF d2, u2
<1>7. Apart(ch, c2, {}, sp)
  <2>1. \A m \in Lists : \A x : In(c2[m], x) <=> In(ca[m], x) \/ (m = l /\ x = n)
    BY <1>0, <1>5
  <2> HIDE DEF c2, s, t
  <2>3. \A k, m \in Lists, x \in Nodes :
          /\ In(ch[k], x) /\ In(ch[m], x) => k = m
          /\ In(c2[k], x) /\ In(c2[m], x) => k = m
          /\ ~(In(ch[k], x) /\ In(c2[m], x))
    <3> TAKE k, m \in Lists, x \in Nodes
    <3>1. /\ In(ch[k], x) /\ In(ch[m], x) => k = m
          /\ In(ca[k], x) /\ In(ca[m], x) => k = m
          /\ ~(In(ch[k], x) /\ In(ca[m], x))
      BY DEF Apart
    <3> QED BY <1>1, <2>1, <3>1
  <2>4. n \notin sp
    BY DEF Apart
  <2>5. \A m \in Lists, x \in sp : ~In(ch[m], x) /\ ~In(c2[m], x)
    <3> TAKE m \in Lists, x \in sp
    <3>1. ~In(ch[m], x) /\ ~In(ca[m], x) /\ x # n
      BY <2>4 DEF Apart
    <3> QED BY <2>1, <3>1
  <2>6. ASSUME NEW x \in Nodes
        PROVE  x \in sp <=> \A m \in Lists : ~In(ch[m], x) /\ ~In(c2[m], x)
    <3>1. x \in sp <=> x # n /\ \A m \in Lists : ~In(ch[m], x) /\ ~In(ca[m], x)
      BY DEF Apart
    <3> QED BY <1>1, <2>1, <3>1
  <2>7. sp \subseteq Nodes
    BY DEF Apart
  <2> QED BY <2>3, <2>5, <2>6, <2>7 DEF Apart
<1>8. ca2 = c2 /\ cd2 = [cd EXCEPT ![l] = n] /\ us2 = [us EXCEPT ![l] = @ + 1]
  BY DEF PushStep
<1> HIDE DEF c2
<1> QED BY <1>6, <1>7, <1>8

\* What is deleted is spare, and the rest is where it was.
LEMMA SpareApart ==
  ASSUME NEW ch, NEW ca, NEW hand, NEW sp, Apart(ch, ca, hand, sp)
  PROVE  Apart(ch, ca, {}, sp \cup hand)
<1>1. \A k, m \in Lists, x \in Nodes :
          /\ In(ch[k], x) /\ In(ch[m], x) => k = m
          /\ In(ca[k], x) /\ In(ca[m], x) => k = m
          /\ ~(In(ch[k], x) /\ In(ca[m], x))
  BY DEF Apart
<1>2. \A m \in Lists, x \in sp \cup hand : ~In(ch[m], x) /\ ~In(ca[m], x)
  BY DEF Apart
<1>3. \A x \in Nodes : x \in sp \cup hand <=> \A m \in Lists : ~In(ch[m], x) /\ ~In(ca[m], x)
  BY <1>2 DEF Apart
<1>4. sp \cup hand \subseteq Nodes
  BY DEF Apart
<1> QED BY <1>1, <1>2, <1>3, <1>4 DEF Apart

LEMMA WipeIs ==
  ASSUME NEW f, NEW gone
  PROVE  /\ L!Wipe(f, gone) = [n \in Nodes |-> L!Wipe(f, gone)[n]]
         /\ \A x \in Nodes \ gone : L!Wipe(f, gone)[x] = f[x]
         /\ f \in [Nodes -> L!Position] => L!Wipe(f, gone) \in [Nodes -> L!Position]
BY DEF L!Wipe, L!Position

\* A node that has been unlinked goes to the cache, or is deleted when that is full.
LEMMA RecycleKeeps ==
  ASSUME NEW ch, NEW ca, NEW nx, NEW pv, NEW fi, NEW la, NEW co, NEW n \in Nodes,
         Whole(ch, ca, nx, pv, fi, la, co, cached, used, {n}, spare),
         NEW l \in Lists, L!Recycle(l, n, nx, pv), data = [x \in Nodes |-> data[x]]
  PROVE  /\ \E ca2 : Whole(ch, ca2, next', prev', fi, la, co, cached', used', {}, spare')
         /\ data' = [x \in Nodes |-> data'[x]]
         /\ \A m \in Lists, x \in Nodes : In(ch[m], x) => data'[x] = data[x]
<1> ListsOK(ch, nx, pv, fi, la, co) /\ CachesOK(ca, nx, cached, used) /\ Apart(ch, ca, {n}, spare)
  BY DEF Whole
<1>0. nx \in [Nodes -> L!Position] /\ pv \in [Nodes -> L!Position]
  BY DEF ListsOK
<1>1. \A m \in Lists : ~In(ca[m], n) /\ ~In(ch[m], n)
  BY DEF Apart
<1>2. CASE used[l] < CacheSize
  <2>1. /\ next' = [nx EXCEPT ![n] = cached[l]] /\ cached' = [cached EXCEPT ![l] = n]
        /\ used' = [used EXCEPT ![l] = @ + 1] /\ prev' = pv /\ spare' = spare /\ data' = data
    BY <1>2 DEF L!Recycle
  <2>2. cached[l] \in L!Position
    BY DEF CachesOK
  <2>3. /\ next' \in [Nodes -> L!Position] /\ next'[n] = cached[l]
        /\ \A x \in Nodes : x # n => next'[x] = nx[x]
    BY <1>0, <2>1, <2>2
  <2>4. \A m \in Lists, x \in Nodes : In(ch[m], x) => next'[x] = nx[x] /\ prev'[x] = pv[x]
    BY <1>1, <2>1, <2>3
  <2>5. ListsOK(ch, next', prev', fi, la, co)
    BY <1>0, <2>1, <2>3, <2>4, FrameLists
  <2> DEFINE c2 == [ca EXCEPT ![l] = Ins(@, 0, n)]
  <2>6. CachesOK(c2, next', cached', used') /\ Apart(ch, c2, {}, spare)
    <3>1. PushStep(ca, nx, cached, used, l, n, c2, next', cached', used')
      BY <1>2, <2>1, <2>3 DEF PushStep
    <3> HIDE DEF c2
    <3> QED BY <3>1, PushKeeps
  <2> HIDE DEF c2
  <2>7. Whole(ch, c2, next', prev', fi, la, co, cached', used', {}, spare')
    BY <2>1, <2>5, <2>6 DEF Whole
  <2>8. \A m \in Lists, x \in Nodes : In(ch[m], x) => data'[x] = data[x]
    BY <2>1
  <2> QED BY <2>1, <2>7, <2>8
<1>3. CASE ~(used[l] < CacheSize)
  <2>1. /\ spare' = spare \cup {n} /\ next' = L!Wipe(nx, {n}) /\ prev' = L!Wipe(pv, {n})
        /\ data' = L!Wipe(data, {n}) /\ cached' = cached /\ used' = used
    BY <1>3 DEF L!Recycle
  <2>2. /\ next' \in [Nodes -> L!Position] /\ prev' \in [Nodes -> L!Position]
        /\ data' = [x \in Nodes |-> data'[x]]
        /\ \A x \in Nodes : x # n => next'[x] = nx[x] /\ prev'[x] = pv[x] /\ data'[x] = data[x]
    <3>1. next' \in [Nodes -> L!Position] /\ prev' \in [Nodes -> L!Position]
      BY ONLY <1>0, <2>1, WipeIs
    <3>2. data' = [x \in Nodes |-> data'[x]]
      BY ONLY <2>1, WipeIs
    <3>3. \A x \in Nodes : x # n => next'[x] = nx[x] /\ prev'[x] = pv[x] /\ data'[x] = data[x]
      BY ONLY <2>1, WipeIs
    <3> QED BY <3>1, <3>2, <3>3
  <2>3. \A m \in Lists, x \in Nodes : In(ch[m], x) =>
           next'[x] = nx[x] /\ prev'[x] = pv[x] /\ data'[x] = data[x]
    BY <1>1, <2>2
  <2>4. ListsOK(ch, next', prev', fi, la, co)
    BY <2>2, <2>3, FrameLists
  <2>5. CachesOK(ca, next', cached, used)
    <3>1. \A m \in Lists, x \in Nodes : In(ca[m], x) => next'[x] = nx[x]
      BY <1>1, <2>2
    <3> QED BY <3>1, FrameCaches
  <2>6. Apart(ch, ca, {}, spare \cup {n})
    BY SpareApart
  <2>7. Whole(ch, ca, next', prev', fi, la, co, cached', used', {}, spare')
    BY <2>1, <2>4, <2>5, <2>6 DEF Whole
  <2>8. \A m \in Lists, x \in Nodes : In(ch[m], x) => data'[x] = data[x]
    BY <2>3
  <2> QED BY <2>2, <2>7, <2>8
<1> QED BY <1>2, <1>3

LEMMA NthSame ==
  ASSUME NEW s, Distinct(s), NEW j \in 1 .. Len(s), NEW i \in Int
  PROVE  s[j] = Nth(s, i) <=> j = i
<1>1. s \in Seq(Nodes) /\ s[j] \in Nodes
  BY DEF Distinct
<1>2. CASE i \in 1 .. Len(s)
  <2>1. Nth(s, i) = s[i]
    BY <1>2 DEF Nth
  <2> QED BY <1>2, <2>1 DEF Distinct
<1>3. CASE i \notin 1 .. Len(s)
  <2>1. Nth(s, i) = NoNode
    BY <1>3 DEF Nth
  <2> QED BY <1>1, <1>3, <2>1, ListsAssumption
<1> QED BY <1>2, <1>3

(***************************************************************************)
(* The operations of BaseList, one by one                                  *)
(***************************************************************************)

\* What a call that links n behind place i of list l leaves.
Linked(ch, ca, cd, us, sp, l, i, n, x) ==
  /\ Whole([ch EXCEPT ![l] = Ins(ch[l], i, n)], ca, next', prev', first', last', count',
           cd, us, {}, sp)
  /\ data' = [data EXCEPT ![n] = x]

LEMMA LinkTailKeeps ==
  ASSUME NEW ch, NEW ca, NEW cd, NEW us, NEW n \in Nodes, NEW sp,
         Whole(ch, ca, next, prev, first, last, count, cd, us, {n}, sp),
         NEW l \in Lists, NEW x, L!LinkTail(l, n, x)
  PROVE  Linked(ch, ca, cd, us, sp, l, Len(ch[l]), n, x)
<1> /\ ListsOK(ch, next, prev, first, last, count) /\ CachesOK(ca, next, cd, us)
    /\ Apart(ch, ca, {n}, sp)
  BY DEF Whole
<1> DEFINE s == ch[l]
           i == Len(s)
<1>0. /\ Chained(s, next, prev, first[l], last[l]) /\ Distinct(s)
      /\ first \in [Lists -> L!Position] /\ last \in [Lists -> L!Position]
      /\ next \in [Nodes -> L!Position] /\ prev \in [Nodes -> L!Position]
      /\ s \in Seq(Nodes) /\ Len(s) \in Nat /\ i \in 0 .. Len(s)
  BY DEF ListsOK, Chained, Distinct
<1>1. first[l] = Nth(s, 1) /\ last[l] = Nth(s, i)
  BY <1>0 DEF Chained
<1>2. last[l] = NoNode <=> i = 0
  <2>1. i \in 1 .. Len(s) <=> i # 0
    BY <1>0
  <2> HIDE DEF s, i
  <2> QED BY <1>0, <1>1, <2>1, NthIsNode
<1>3. ~In(s, n) /\ \A j \in 1 .. Len(s) : s[j] # n /\ s[j] \in Nodes
  BY <1>0 DEF Apart, In
<1>4. /\ next' = [m \in Nodes |-> IF m = n THEN NoNode
                                ELSE IF m = last[l] THEN n ELSE next[m]]
      /\ prev' = [prev EXCEPT ![n] = last[l]]
      /\ first' = [first EXCEPT ![l] = IF last[l] = NoNode THEN n ELSE @]
      /\ last' = [last EXCEPT ![l] = n]
      /\ count' = [count EXCEPT ![l] = @ + 1]
      /\ data' = [data EXCEPT ![n] = x]
  BY DEF L!LinkTail
<1>5. last[l] \in L!Position /\ n \in L!Position /\ NoNode \in L!Position
  BY <1>0 DEF L!Position
<1>6. next' \in [Nodes -> L!Position] /\ prev' \in [Nodes -> L!Position]
  <2>1. \A m \in Nodes : next[m] \in L!Position
    BY <1>0
  <2> QED BY <1>0, <1>4, <1>5, <2>1
<1> HIDE DEF i
<1>7. LinkedIn(s, i, n, next, prev, next', prev')
  <2>1. Nth(s, i + 1) = NoNode
    BY <1>0, NthIsNode DEF i
  <2>2. next'[n] = Nth(s, i + 1) /\ prev'[n] = Nth(s, i)
    BY <1>0, <1>1, <1>4, <2>1
  <2>3. ASSUME NEW j \in 1 .. Len(s)
        PROVE  /\ next'[s[j]] = IF j = i THEN n ELSE next[s[j]]
               /\ prev'[s[j]] = IF j = i + 1 THEN n ELSE prev[s[j]]
    <3>1. s[j] = last[l] <=> j = i
      BY <1>0, <1>1, NthSame DEF i
    <3>2. j # i + 1
      BY <1>0 DEF i
    <3> QED BY <1>0, <1>3, <1>4, <3>1, <3>2
  <2> QED BY <2>2, <2>3 DEF LinkedIn
<1>8. \A y \in Nodes : y # n /\ ~In(s, y) => next'[y] = next[y] /\ prev'[y] = prev[y]
  <2> TAKE y \in Nodes
  <2>1. y = last[l] => In(s, y)
    <3>1. last[l] \in Nodes => i \in 1 .. Len(s) /\ last[l] = s[i]
      BY <1>0, <1>1, NthIsNode, ListsAssumption
    <3> QED BY <3>1 DEF In
  <2> QED BY <1>0, <1>4, <2>1
<1>9. /\ first' = [first EXCEPT ![l] = IF i = 0 THEN n ELSE @]
       /\ last' = [last EXCEPT ![l] = IF i = Len(ch[l]) THEN n ELSE @]
  BY <1>0, <1>2, <1>4 DEF i
<1> DEFINE ch2 == [ch EXCEPT ![l] = Ins(ch[l], i, n)]
<1>10. LinkStep(ch, next, prev, first, last, count, l, i, n, ch2, next', prev', first', last', count')
  BY <1>0, <1>1, <1>4, <1>6, <1>7, <1>8, <1>9 DEF LinkStep
<1> HIDE DEF ch2, s
<1>11. Whole(ch2, ca, next', prev', first', last', count', cd, us, {}, sp)
  BY <1>10, LinkKeeps
<1>12. Linked(ch, ca, cd, us, sp, l, i, n, x)
  BY <1>4, <1>11 DEF Linked, ch2
<1> QED BY <1>12 DEF i, s

LEMMA LinkHeadKeeps ==
  ASSUME NEW ch, NEW ca, NEW cd, NEW us, NEW n \in Nodes, NEW sp,
         Whole(ch, ca, next, prev, first, last, count, cd, us, {n}, sp),
         NEW l \in Lists, NEW x, L!LinkHead(l, n, x)
  PROVE  Linked(ch, ca, cd, us, sp, l, 0, n, x)
<1> /\ ListsOK(ch, next, prev, first, last, count) /\ CachesOK(ca, next, cd, us)
    /\ Apart(ch, ca, {n}, sp)
  BY DEF Whole
<1> DEFINE s == ch[l]
<1>0. /\ Chained(s, next, prev, first[l], last[l]) /\ Distinct(s)
      /\ first \in [Lists -> L!Position] /\ last \in [Lists -> L!Position]
      /\ next \in [Nodes -> L!Position] /\ prev \in [Nodes -> L!Position]
      /\ s \in Seq(Nodes) /\ Len(s) \in Nat /\ 0 \in 0 .. Len(s)
  BY DEF ListsOK, Chained, Distinct
<1>1. first[l] = Nth(s, 1)
  BY <1>0 DEF Chained
<1>2. first[l] = NoNode <=> 0 = Len(s)
  <2>1. 1 \in 1 .. Len(s) <=> 0 # Len(s)
    BY <1>0
  <2> HIDE DEF s
  <2> QED BY <1>0, <1>1, <2>1, NthIsNode
<1>3. ~In(s, n) /\ \A j \in 1 .. Len(s) : s[j] # n /\ s[j] \in Nodes
  BY <1>0 DEF Apart, In
<1>4. /\ prev' = [m \in Nodes |-> IF m = n THEN NoNode
                                ELSE IF m = first[l] THEN n ELSE prev[m]]
      /\ next' = [next EXCEPT ![n] = first[l]]
      /\ last' = [last EXCEPT ![l] = IF first[l] = NoNode THEN n ELSE @]
      /\ first' = [first EXCEPT ![l] = n]
      /\ count' = [count EXCEPT ![l] = @ + 1]
      /\ data' = [data EXCEPT ![n] = x]
  BY DEF L!LinkHead
<1>5. first[l] \in L!Position /\ n \in L!Position /\ NoNode \in L!Position
  BY <1>0 DEF L!Position
<1>6. next' \in [Nodes -> L!Position] /\ prev' \in [Nodes -> L!Position]
  <2>1. \A m \in Nodes : prev[m] \in L!Position
    BY <1>0
  <2> QED BY <1>0, <1>4, <1>5, <2>1
<1>7. LinkedIn(s, 0, n, next, prev, next', prev')
  <2>1. Nth(s, 0) = NoNode
    BY <1>0, NthIsNode
  <2>2. next'[n] = Nth(s, 0 + 1) /\ prev'[n] = Nth(s, 0)
    BY <1>0, <1>1, <1>4, <2>1
  <2>3. ASSUME NEW j \in 1 .. Len(s)
        PROVE  /\ next'[s[j]] = IF j = 0 THEN n ELSE next[s[j]]
               /\ prev'[s[j]] = IF j = 0 + 1 THEN n ELSE prev[s[j]]
    <3>1. s[j] = first[l] <=> j = 1
      BY <1>0, <1>1, NthSame
    <3>2. j # 0
      BY <1>0
    <3> QED BY <1>0, <1>3, <1>4, <3>1, <3>2
  <2> QED BY <2>2, <2>3 DEF LinkedIn
<1>8. \A y \in Nodes : y # n /\ ~In(s, y) => next'[y] = next[y] /\ prev'[y] = prev[y]
  <2> TAKE y \in Nodes
  <2>1. y = first[l] => In(s, y)
    <3>1. first[l] \in Nodes => 1 \in 1 .. Len(s) /\ first[l] = s[1]
      BY <1>0, <1>1, NthIsNode, ListsAssumption
    <3> QED BY <3>1 DEF In
  <2> QED BY <1>0, <1>4, <2>1
<1>9. /\ first' = [first EXCEPT ![l] = IF 0 = 0 THEN n ELSE @]
       /\ last' = [last EXCEPT ![l] = IF 0 = Len(ch[l]) THEN n ELSE @]
  BY <1>0, <1>2, <1>4
<1> DEFINE ch2 == [ch EXCEPT ![l] = Ins(ch[l], 0, n)]
<1>10. LinkStep(ch, next, prev, first, last, count, l, 0, n, ch2, next', prev', first', last', count')
  BY <1>0, <1>1, <1>4, <1>6, <1>7, <1>8, <1>9 DEF LinkStep
<1> HIDE DEF ch2, s
<1>11. Whole(ch2, ca, next', prev', first', last', count', cd, us, {}, sp)
  BY <1>10, LinkKeeps
<1>12. Linked(ch, ca, cd, us, sp, l, 0, n, x)
  BY <1>4, <1>11 DEF Linked, ch2
<1> QED BY <1>12

LEMMA LinkBetweenKeeps ==
  ASSUME NEW ch, NEW ca, NEW cd, NEW us, NEW n \in Nodes, NEW sp,
         Whole(ch, ca, next, prev, first, last, count, cd, us, {n}, sp),
         NEW l \in Lists, NEW x, NEW i \in 1 .. Len(ch[l]) - 1, NEW after, NEW before,
         after = Nth(ch[l], i), before = Nth(ch[l], i + 1),
         L!LinkBetween(l, n, x, after, before)
  PROVE  Linked(ch, ca, cd, us, sp, l, i, n, x)
<1> /\ ListsOK(ch, next, prev, first, last, count) /\ CachesOK(ca, next, cd, us)
    /\ Apart(ch, ca, {n}, sp)
  BY DEF Whole
<1> DEFINE s == ch[l]
<1>0. /\ Chained(s, next, prev, first[l], last[l]) /\ Distinct(s)
      /\ first \in [Lists -> L!Position] /\ last \in [Lists -> L!Position]
      /\ next \in [Nodes -> L!Position] /\ prev \in [Nodes -> L!Position]
      /\ s \in Seq(Nodes) /\ Len(s) \in Nat
  BY DEF ListsOK, Chained, Distinct
<1>1. i \in 0 .. Len(s) /\ i \in 1 .. Len(s) /\ i + 1 \in 1 .. Len(s) /\ i # 0 /\ i # Len(s)
  BY <1>0
<1>2. after \in Nodes /\ before \in Nodes /\ In(s, after) /\ In(s, before)
  BY <1>0, <1>1, NthIsNode DEF In
<1>3. ~In(s, n) /\ \A j \in 1 .. Len(s) : s[j] # n /\ s[j] \in Nodes
  BY <1>0 DEF Apart, In
<1>4. /\ prev' = [prev EXCEPT ![n] = after, ![before] = n]
      /\ next' = [next EXCEPT ![n] = before, ![after] = n]
      /\ last' = last /\ first' = first
      /\ count' = [count EXCEPT ![l] = @ + 1]
      /\ data' = [data EXCEPT ![n] = x]
  BY DEF L!LinkBetween
<1>5. after \in L!Position /\ before \in L!Position /\ n \in L!Position
  BY <1>2 DEF L!Position
<1>6. next' \in [Nodes -> L!Position] /\ prev' \in [Nodes -> L!Position]
  BY <1>0, <1>4, <1>5
<1>7. LinkedIn(s, i, n, next, prev, next', prev')
  <2>1. after # n /\ before # n
    BY <1>2, <1>3
  <2>2. next'[n] = Nth(s, i + 1) /\ prev'[n] = Nth(s, i)
    BY <1>0, <1>4, <2>1
  <2>3. ASSUME NEW j \in 1 .. Len(s)
        PROVE  /\ next'[s[j]] = IF j = i THEN n ELSE next[s[j]]
               /\ prev'[s[j]] = IF j = i + 1 THEN n ELSE prev[s[j]]
    <3>0. i \in Int /\ i + 1 \in Int
      OBVIOUS
    <3>1. s[j] = after <=> j = i
      BY <1>0, <3>0, NthSame
    <3>2. s[j] = before <=> j = i + 1
      BY <1>0, <3>0, NthSame
    <3>3. s[j] # n /\ s[j] \in Nodes
      BY <1>3
    <3> HIDE DEF s
    <3>4. next'[s[j]] = IF s[j] = after THEN n ELSE next[s[j]]
      BY <1>0, <1>4, <3>3
    <3>5. prev'[s[j]] = IF s[j] = before THEN n ELSE prev[s[j]]
      BY <1>0, <1>4, <3>3
    <3> QED BY <3>1, <3>2, <3>4, <3>5
  <2> QED BY <2>2, <2>3 DEF LinkedIn
<1>8. \A y \in Nodes : y # n /\ ~In(s, y) => next'[y] = next[y] /\ prev'[y] = prev[y]
  BY <1>0, <1>2, <1>4
<1>9. /\ first' = [first EXCEPT ![l] = IF i = 0 THEN n ELSE @]
       /\ last' = [last EXCEPT ![l] = IF i = Len(ch[l]) THEN n ELSE @]
  BY <1>0, <1>1, <1>4
<1> DEFINE ch2 == [ch EXCEPT ![l] = Ins(ch[l], i, n)]
<1>10. LinkStep(ch, next, prev, first, last, count, l, i, n, ch2, next', prev', first', last', count')
  BY <1>0, <1>1, <1>4, <1>6, <1>7, <1>8, <1>9 DEF LinkStep
<1> HIDE DEF ch2, s
<1>11. Whole(ch2, ca, next', prev', first', last', count', cd, us, {}, sp)
  BY <1>10, LinkKeeps
<1>12. Linked(ch, ca, cd, us, sp, l, i, n, x)
  BY <1>4, <1>11 DEF Linked, ch2
<1> QED BY <1>12

LEMMA LinkAfterKeeps ==
  ASSUME NEW ch, NEW ca, NEW cd, NEW us, NEW n \in Nodes, NEW sp,
         Whole(ch, ca, next, prev, first, last, count, cd, us, {n}, sp),
         NEW l \in Lists, NEW x, NEW i \in 0 .. Len(ch[l]), NEW p, p = Nth(ch[l], i),
         L!LinkAfter(l, p, n, x)
  PROVE  Linked(ch, ca, cd, us, sp, l, i, n, x)
<1> DEFINE s == ch[l]
<1>1. /\ Chained(s, next, prev, first[l], last[l]) /\ Distinct(s)
      /\ s \in Seq(Nodes) /\ Len(s) \in Nat /\ i \in 0 .. Len(s) /\ Len(s) \in Int
  BY DEF Whole, ListsOK, Chained, Distinct
<1>2. last[l] = Nth(s, Len(s)) /\ \A j \in 1 .. Len(s) : next[s[j]] = Nth(s, j + 1)
  BY <1>1 DEF Chained
<1>3. p = Nth(s, i)
  OBVIOUS
<1> HIDE DEF s
<1>4. CASE i = 0
  <2>1. p = NoNode
    BY <1>1, <1>3, <1>4, NthIsNode
  <2>2. L!LinkHead(l, n, x)
    BY <2>1 DEF L!LinkAfter
  <2> QED BY <1>4, <2>2, LinkHeadKeeps
<1>5. CASE i = Len(s) /\ i # 0
  <2>1. i \in 1 .. Len(s)
    BY <1>1, <1>5
  <2>2. p # NoNode /\ p = last[l]
    BY <1>1, <1>2, <1>3, <1>5, <2>1, NthIsNode
  <2>3. L!LinkTail(l, n, x)
    BY <2>2 DEF L!LinkAfter
  <2>4. Linked(ch, ca, cd, us, sp, l, Len(ch[l]), n, x)
    BY <2>3, LinkTailKeeps
  <2> QED BY <1>5, <2>4 DEF s
<1>6. CASE i # Len(s) /\ i # 0
  <2>1. i \in 1 .. Len(s) /\ i \in 1 .. Len(s) - 1
    BY <1>1, <1>6
  <2>2. p # NoNode /\ p = s[i] /\ p # last[l]
    BY <1>1, <1>2, <1>3, <1>6, <2>1, NthIsNode, NthSame
  <2>3. L!LinkBetween(l, n, x, p, next[p]) /\ next[p] = Nth(s, i + 1)
    BY <1>2, <2>1, <2>2 DEF L!LinkAfter
  <2> DEFINE b == next[p]
  <2>4. L!LinkBetween(l, n, x, p, b) /\ b = Nth(ch[l], i + 1) /\ i \in 1 .. Len(ch[l]) - 1
    BY <2>1, <2>3 DEF s
  <2> HIDE DEF b
  <2> QED BY <2>4, LinkBetweenKeeps
<1> QED BY <1>4, <1>5, <1>6

LEMMA LinkBeforeKeeps ==
  ASSUME NEW ch, NEW ca, NEW cd, NEW us, NEW n \in Nodes, NEW sp,
         Whole(ch, ca, next, prev, first, last, count, cd, us, {n}, sp),
         NEW l \in Lists, NEW x, NEW i \in 0 .. Len(ch[l]), NEW p, p = Nth(ch[l], i + 1),
         L!LinkBefore(l, p, n, x)
  PROVE  Linked(ch, ca, cd, us, sp, l, i, n, x)
<1> DEFINE s == ch[l]
           k == i + 1
<1>1. /\ Chained(s, next, prev, first[l], last[l]) /\ Distinct(s)
      /\ s \in Seq(Nodes) /\ Len(s) \in Nat /\ i \in 0 .. Len(s) /\ k \in Int
  BY DEF Whole, ListsOK, Chained, Distinct
<1>2. first[l] = Nth(s, 1) /\ \A j \in 1 .. Len(s) : prev[s[j]] = Nth(s, j - 1)
  BY <1>1 DEF Chained
<1>3. p = Nth(s, k)
  OBVIOUS
<1>4. CASE i = Len(s)
  <2>1. k \notin 1 .. Len(s)
    BY <1>1, <1>4
  <2> HIDE DEF k, s
  <2>2. p = NoNode
    BY <1>1, <1>3, <2>1, NthIsNode
  <2>3. L!LinkTail(l, n, x)
    BY <2>2 DEF L!LinkBefore
  <2>4. Linked(ch, ca, cd, us, sp, l, Len(ch[l]), n, x)
    BY <2>3, LinkTailKeeps
  <2> QED BY <1>4, <2>4 DEF s
<1>5. CASE i = 0 /\ i # Len(s)
  <2>1. k \in 1 .. Len(s) /\ k = 1
    BY <1>1, <1>5
  <2> HIDE DEF k, s
  <2>2. p # NoNode /\ p = first[l]
    BY <1>1, <1>2, <1>3, <1>5, <2>1, NthIsNode
  <2>3. L!LinkHead(l, n, x)
    BY <2>2 DEF L!LinkBefore
  <2> QED BY <1>5, <2>3, LinkHeadKeeps
<1>6. CASE i # Len(s) /\ i # 0
  <2>1. i \in 1 .. Len(s) - 1 /\ k \in 1 .. Len(s) /\ k # 1 /\ k - 1 = i
    BY <1>1, <1>6
  <2> HIDE DEF k, s
  <2>2. p # NoNode /\ p = s[k]
    BY <1>1, <1>3, <2>1, NthIsNode
  <2>3. p # first[l]
    <3>1. s[k] = Nth(s, 1) <=> k = 1
      BY <1>1, <2>1, NthSame
    <3> QED BY <1>2, <2>1, <2>2, <3>1
  <2>4. L!LinkBetween(l, n, x, prev[p], p) /\ prev[p] = Nth(s, i)
    BY <1>2, <2>1, <2>2, <2>3 DEF L!LinkBefore
  <2> DEFINE a == prev[p]
  <2>5. L!LinkBetween(l, n, x, a, p) /\ a = Nth(ch[l], i) /\ i \in 1 .. Len(ch[l]) - 1
    BY <2>1, <2>4 DEF s
  <2> HIDE DEF a
  <2> QED BY <2>5, LinkBetweenKeeps
<1> QED BY <1>4, <1>5, <1>6

\* What a call that adds x behind place i of list l leaves, n is its node.
Added(ch, l, i, n, x) ==
  /\ n \in Nodes /\ i \in 0 .. Len(ch[l]) /\ \A m \in Lists : ~In(ch[m], n)
  /\ \E ca2 : Lst([ch EXCEPT ![l] = Ins(ch[l], i, n)], ca2)'
  /\ data' = [data EXCEPT ![n] = x]

LEMMA TakeWhole ==
  ASSUME NEW ch, NEW ca, Lst(ch, ca), NEW l \in Lists, NEW n \in Nodes, L!TakeNode(l, n)
  PROVE  /\ \A m \in Lists : ~In(ch[m], n)
         /\ \E ca2 : Whole(ch, ca2, next, prev, first, last, count, cached', used', {n}, spare')
<1>1. PICK ca2 : CachesOK(ca2, next, cached', used') /\ Apart(ch, ca2, {n}, spare')
  BY TakeKeeps
<1>2. Whole(ch, ca2, next, prev, first, last, count, cached', used', {n}, spare')
  BY <1>1 DEF Whole, Lst
<1>3. \A m \in Lists : ~In(ch[m], n)
  BY <1>1 DEF Apart
<1> QED BY <1>2, <1>3

LEMMA LinkedAdded ==
  ASSUME NEW ch, NEW ca, Lst(ch, ca), NEW l \in Lists, NEW n \in Nodes,
         \A m \in Lists : ~In(ch[m], n), NEW i \in 0 .. Len(ch[l]), NEW x, NEW ca2,
         Linked(ch, ca2, cached', used', spare', l, i, n, x)
  PROVE  Added(ch, l, i, n, x)
<1> DEFINE ch2 == [ch EXCEPT ![l] = Ins(ch[l], i, n)]
<1>1. data' = [data EXCEPT ![n] = x] /\ data = [y \in Nodes |-> data[y]]
  BY DEF Linked, Lst
<1>2. data' = [y \in Nodes |-> data'[y]]
  BY <1>1
<1>3. Whole(ch2, ca2, next', prev', first', last', count', cached', used', {}, spare')
  BY DEF Linked
<1> HIDE DEF ch2
<1>4. Lst(ch2, ca2)'
  BY <1>2, <1>3 DEF Whole, Lst
<1>5. Lst([ch EXCEPT ![l] = Ins(ch[l], i, n)], ca2)'
  BY <1>4 DEF ch2
<1> QED BY <1>1, <1>5 DEF Added

LEMMA AddsTail ==
  ASSUME NEW ch, NEW ca, Lst(ch, ca), NEW l \in Lists, NEW n \in Nodes, L!TakeNode(l, n),
         NEW x, L!LinkTail(l, n, x)
  PROVE  Added(ch, l, Len(ch[l]), n, x)
<1>1. PICK ca2 : Whole(ch, ca2, next, prev, first, last, count, cached', used', {n}, spare')
  BY TakeWhole
<1>2. Linked(ch, ca2, cached', used', spare', l, Len(ch[l]), n, x)
  BY <1>1, LinkTailKeeps
<1>3. Len(ch[l]) \in 0 .. Len(ch[l])
  BY DEF Lst, ListsOK
<1>4. \A m \in Lists : ~In(ch[m], n)
  BY TakeWhole
<1> QED BY <1>2, <1>3, <1>4, LinkedAdded

LEMMA AddsHead ==
  ASSUME NEW ch, NEW ca, Lst(ch, ca), NEW l \in Lists, NEW n \in Nodes, L!TakeNode(l, n),
         NEW x, L!LinkHead(l, n, x)
  PROVE  Added(ch, l, 0, n, x)
<1>1. PICK ca2 : Whole(ch, ca2, next, prev, first, last, count, cached', used', {n}, spare')
  BY TakeWhole
<1>2. Linked(ch, ca2, cached', used', spare', l, 0, n, x)
  BY <1>1, LinkHeadKeeps
<1>3. 0 \in 0 .. Len(ch[l])
  BY DEF Lst, ListsOK
<1>4. \A m \in Lists : ~In(ch[m], n)
  BY TakeWhole
<1> QED BY <1>2, <1>3, <1>4, LinkedAdded

LEMMA AddsAfter ==
  ASSUME NEW ch, NEW ca, Lst(ch, ca), NEW l \in Lists, NEW n \in Nodes, L!TakeNode(l, n),
         NEW x, NEW i \in 0 .. Len(ch[l]), NEW p, p = Nth(ch[l], i), L!LinkAfter(l, p, n, x)
  PROVE  Added(ch, l, i, n, x)
<1>1. PICK ca2 : Whole(ch, ca2, next, prev, first, last, count, cached', used', {n}, spare')
  BY TakeWhole
<1>2. Linked(ch, ca2, cached', used', spare', l, i, n, x)
  BY <1>1, LinkAfterKeeps
<1>4. \A m \in Lists : ~In(ch[m], n)
  BY TakeWhole
<1> QED BY <1>2, <1>4, LinkedAdded

LEMMA AddsBefore ==
  ASSUME NEW ch, NEW ca, Lst(ch, ca), NEW l \in Lists, NEW n \in Nodes, L!TakeNode(l, n),
         NEW x, NEW i \in 0 .. Len(ch[l]), NEW p, p = Nth(ch[l], i + 1), L!LinkBefore(l, p, n, x)
  PROVE  Added(ch, l, i, n, x)
<1>1. PICK ca2 : Whole(ch, ca2, next, prev, first, last, count, cached', used', {n}, spare')
  BY TakeWhole
<1>2. Linked(ch, ca2, cached', used', spare', l, i, n, x)
  BY <1>1, LinkBeforeKeeps
<1>4. \A m \in Lists : ~In(ch[m], n)
  BY TakeWhole
<1> QED BY <1>2, <1>4, LinkedAdded

LEMMA InListIs ==
  ASSUME NEW ch, NEW ca, Lst(ch, ca), NEW l \in Lists
  PROVE  /\ L!Along(next, first[l]) = ch[l] /\ L!Along(next, cached[l]) = ca[l]
         /\ \A x : x \in L!InList(l) <=> In(ch[l], x)
         /\ \A x : x \in L!CacheNodes(l) <=> In(ca[l], x)
<1>1. /\ Chained(ch[l], next, prev, first[l], last[l]) /\ Leads(ca[l], next, cached[l])
      /\ ch[l] \in Seq(Nodes) /\ ca[l] \in Seq(Nodes)
  BY DEF Lst, ListsOK, CachesOK
<1>2. L!Along(next, first[l]) = ch[l] /\ L!Along(next, cached[l]) = ca[l]
  BY <1>1, ChainedLeads, AlongIs
<1>3. \A s \in Seq(Nodes) : \A x : x \in L!Range(s) <=> In(s, x)
  BY SameOperators DEF Range, In
<1> QED BY <1>1, <1>2, <1>3 DEF L!InList, L!CacheNodes

\* The entries of list l without the one of node p.
Removed(ch, l, i, p) ==
  /\ i \in 1 .. Len(ch[l]) /\ p = ch[l][i]
  /\ \E ca2 : Lst([ch EXCEPT ![l] = Del(ch[l], i)], ca2)'
  /\ \A m \in Lists, x \in Nodes : In(ch[m], x) /\ x # p => data'[x] = data[x]

\* RemoveI takes one node out of its list and leaves the others.
LEMMA RemoveKeeps ==
  ASSUME NEW ch, NEW ca, Lst(ch, ca), NEW l \in Lists, NEW p, L!RemoveI(l, p)
  PROVE  \E i : Removed(ch, l, i, p)
<1> DEFINE s == ch[l]
           nx == L!Unlink(next, prev[p], next[p])
           pv == L!Unlink(prev, next[p], prev[p])
<1>0. /\ Chained(s, next, prev, first[l], last[l]) /\ Distinct(s)
      /\ first \in [Lists -> L!Position] /\ last \in [Lists -> L!Position]
      /\ next \in [Nodes -> L!Position] /\ prev \in [Nodes -> L!Position]
      /\ ch \in [Lists -> Seq(Nodes)] /\ s \in Seq(Nodes) /\ Len(s) \in Nat
      /\ Whole(ch, ca, next, prev, first, last, count, cached, used, {}, spare)
  BY DEF Lst, ListsOK, Chained, Distinct, Whole
<1>1. In(s, p)
  BY InListIs DEF L!RemoveI
<1>2. PICK i \in 1 .. Len(s) : p = s[i]
  BY <1>1 DEF In
<1>3. i \in 1 .. Len(ch[l]) /\ p = ch[l][i] /\ p \in Nodes
  BY <1>0, <1>2
<1>4. /\ next[p] = Nth(s, i + 1) /\ prev[p] = Nth(s, i - 1)
      /\ next[p] \in L!Position /\ prev[p] \in L!Position
  BY <1>0, <1>2, <1>3 DEF Chained
<1>5. /\ nx \in [Nodes -> L!Position]
      /\ \A x \in Nodes : nx[x] = IF x = prev[p] THEN next[p] ELSE next[x]
      /\ pv \in [Nodes -> L!Position]
      /\ \A x \in Nodes : pv[x] = IF x = next[p] THEN prev[p] ELSE prev[x]
  <2> DEFINE a == prev[p]
             b == next[p]
  <2>1. a \in L!Position /\ b \in L!Position
    BY <1>4
  <2> HIDE DEF a, b
  <2>2. /\ L!Unlink(next, a, b) \in [Nodes -> L!Position]
        /\ \A x \in Nodes : L!Unlink(next, a, b)[x] = IF x = a THEN b ELSE next[x]
    BY <1>0, <2>1, ListsAssumption DEF L!Unlink, L!Position
  <2>3. /\ L!Unlink(prev, b, a) \in [Nodes -> L!Position]
        /\ \A x \in Nodes : L!Unlink(prev, b, a)[x] = IF x = b THEN a ELSE prev[x]
    BY <1>0, <2>1, ListsAssumption DEF L!Unlink, L!Position
  <2> QED BY <2>2, <2>3 DEF a, b
<1>6. /\ first' = IF prev[p] = NoNode THEN [first EXCEPT ![l] = next[p]] ELSE first
      /\ last' = IF next[p] = NoNode THEN [last EXCEPT ![l] = prev[p]] ELSE last
      /\ count' = [count EXCEPT ![l] = @ - 1] /\ L!Recycle(l, p, nx, pv)
  BY DEF L!RemoveI
<1> HIDE DEF nx, pv
<1>7. LedAround(s, i, next, prev, nx, pv)
  <2> SUFFICES ASSUME NEW j \in 1 .. Len(s), j # i
               PROVE  /\ nx[s[j]] = IF j = i - 1 THEN Nth(s, i + 1) ELSE next[s[j]]
                      /\ pv[s[j]] = IF j = i + 1 THEN Nth(s, i - 1) ELSE prev[s[j]]
    BY DEF LedAround
  <2>0. i + 1 \in Int /\ i - 1 \in Int /\ s[j] \in Nodes
    BY <1>0, <1>2
  <2> HIDE DEF s
  <2>1. s[j] = Nth(s, i + 1) <=> j = i + 1
    BY <1>0, <2>0, NthSame
  <2>2. s[j] = Nth(s, i - 1) <=> j = i - 1
    BY <1>0, <2>0, NthSame
  <2> QED BY <1>4, <1>5, <2>0, <2>1, <2>2
<1>8. \A x \in Nodes : ~In(ch[l], x) => nx[x] = next[x] /\ pv[x] = prev[x]
  <2> SUFFICES ASSUME NEW x \in Nodes, ~In(s, x)
               PROVE  nx[x] = next[x] /\ pv[x] = prev[x]
    OBVIOUS
  <2>1. \A k : k \in 1 .. Len(s) => x # s[k]
    BY DEF In
  <2> HIDE DEF s
  <2>2. \A k \in Int : x # Nth(s, k)
    BY <1>0, <2>1, NthIsNode, ListsAssumption
  <2> QED BY <1>2, <1>4, <1>5, <2>2
<1>9. /\ first' = [first EXCEPT ![l] = IF i = 1 THEN Nth(ch[l], i + 1) ELSE @]
      /\ last' = [last EXCEPT ![l] = IF i = Len(ch[l]) THEN Nth(ch[l], i - 1) ELSE @]
  <2>1. (i - 1 \in 1 .. Len(s) <=> i # 1) /\ (i + 1 \in 1 .. Len(s) <=> i # Len(s))
    BY <1>0, <1>2
  <2> HIDE DEF s
  <2>2. (prev[p] = NoNode <=> i = 1) /\ (next[p] = NoNode <=> i = Len(s))
    BY <1>0, <1>4, <2>1, NthIsNode
  <2> QED BY <1>0, <1>4, <1>6, <2>2 DEF s
<1> DEFINE ch2 == [ch EXCEPT ![l] = Del(ch[l], i)]
<1>10. UnlinkStep(ch, next, prev, first, last, count, l, i, ch2, nx, pv, first', last', count')
  BY <1>3, <1>5, <1>6, <1>7, <1>8, <1>9 DEF UnlinkStep
<1>20. \A m \in Lists, x \in Nodes : In(ch[m], x) /\ x # p => In(ch2[m], x)
  <2>1. \A x : In(Del(s, i), x) <=> In(s, x) /\ x # s[i]
    BY <1>0, <1>2, InDel
  <2> QED BY <1>0, <1>2, <2>1
<1> HIDE DEF ch2, s
<1>11. Whole(ch2, ca, nx, pv, first', last', count', cached, used, {p}, spare)
  BY <1>0, <1>3, <1>10, UnlinkKeeps
<1>12. data = [y \in Nodes |-> data[y]]
  BY DEF Lst
<1>13. /\ \E ca2 : Whole(ch2, ca2, next', prev', first', last', count', cached', used', {}, spare')
       /\ data' = [y \in Nodes |-> data'[y]]
       /\ \A m \in Lists, y \in Nodes : In(ch2[m], y) => data'[y] = data[y]
  BY <1>3, <1>6, <1>11, <1>12, RecycleKeeps
<1>14. PICK ca2 : Whole(ch2, ca2, next', prev', first', last', count', cached', used', {}, spare')
  BY <1>13
<1>15. Lst(ch2, ca2)'
  BY <1>13, <1>14 DEF Lst, Whole
<1>16. Lst([ch EXCEPT ![l] = Del(ch[l], i)], ca2)'
  BY <1>15 DEF ch2
<1> QED BY <1>3, <1>13, <1>16, <1>20 DEF Removed

\* What the pointers are after entries of list l have gone to list m: b is left
\* of l, c is now m.
MoveStep(ch, l, m, b, c) ==
  /\ next' \in [Nodes -> L!Position] /\ prev' \in [Nodes -> L!Position]
  /\ first' \in [Lists -> L!Position] /\ last' \in [Lists -> L!Position]
  /\ count' \in [Lists -> Int]
  /\ Chained(b, next', prev', first'[l], last'[l]) /\ count'[l] = Len(b)
  /\ Chained(c, next', prev', first'[m], last'[m]) /\ count'[m] = Len(c)
  /\ \A x \in Nodes : ~In(ch[l], x) /\ ~In(ch[m], x) => next'[x] = next[x] /\ prev'[x] = prev[x]
  /\ \A q \in Lists : q # l /\ q # m =>
        first'[q] = first[q] /\ last'[q] = last[q] /\ count'[q] = count[q]
  /\ UNCHANGED <<data, cached, used, spare>>

\* The entries of l and m are those of b and c, and each is in one of them.
Shared(ch, l, m, b, c) ==
  /\ \A x : In(ch[l], x) \/ In(ch[m], x) <=> In(b, x) \/ In(c, x)
  /\ \A x : ~(In(ch[l], x) /\ In(ch[m], x)) => ~(In(b, x) /\ In(c, x))

\* Part of one list goes to one end of another.
LEMMA MoveKeeps ==
  ASSUME NEW ch, NEW ca, Lst(ch, ca), NEW l \in Lists, NEW m \in Lists, l # m,
         NEW b, NEW c, MoveStep(ch, l, m, b, c), Shared(ch, l, m, b, c)
  PROVE  Lst([ch EXCEPT ![l] = b, ![m] = c], ca)'
<1> DEFINE ch2 == [ch EXCEPT ![l] = b, ![m] = c]
<1>0. ch \in [Lists -> Seq(Nodes)] /\ Apart(ch, ca, {}, spare) /\ CachesOK(ca, next, cached, used)
  BY DEF Lst, ListsOK
<1>1. b \in Seq(Nodes) /\ c \in Seq(Nodes)
  BY DEF MoveStep, Chained, Distinct
<1>2. /\ ch2 \in [Lists -> Seq(Nodes)] /\ ch2[l] = b /\ ch2[m] = c
      /\ \A q \in Lists : q # l /\ q # m => ch2[q] = ch[q]
  BY <1>0, <1>1
<1> HIDE DEF ch2
<1>3. \A q \in Lists, x \in Nodes : q # l /\ q # m /\ In(ch[q], x) =>
         next'[x] = next[x] /\ prev'[x] = prev[x]
  <2> TAKE q \in Lists, x \in Nodes
  <2>1. q # l /\ In(ch[q], x) => ~In(ch[l], x)
    BY <1>0 DEF Apart
  <2>2. q # m /\ In(ch[q], x) => ~In(ch[m], x)
    BY <1>0 DEF Apart
  <2> QED BY <2>1, <2>2 DEF MoveStep
<1>4. ASSUME NEW q \in Lists
      PROVE  Chained(ch2[q], next', prev', first'[q], last'[q]) /\ count'[q] = Len(ch2[q])
  <2>1. CASE q = l \/ q = m
    BY <1>2, <2>1 DEF MoveStep
  <2>2. CASE q # l /\ q # m
    <3>1. Chained(ch[q], next, prev, first[q], last[q]) /\ count[q] = Len(ch[q])
      BY DEF Lst, ListsOK
    <3>2. \A j \in 1 .. Len(ch[q]) : In(ch[q], ch[q][j]) /\ ch[q][j] \in Nodes
      BY <1>0 DEF In
    <3>3. \A j \in 1 .. Len(ch[q]) : next'[ch[q][j]] = next[ch[q][j]] /\ prev'[ch[q][j]] = prev[ch[q][j]]
      BY <1>3, <2>2, <3>2
    <3>4. Chained(ch[q], next', prev', first[q], last[q])
      BY <3>1, <3>3, SameChained
    <3>5. /\ ch2[q] = ch[q] /\ first'[q] = first[q] /\ last'[q] = last[q]
          /\ count'[q] = count[q]
      BY <1>2, <2>2 DEF MoveStep
    <3> QED BY <3>1, <3>4, <3>5
  <2> QED BY <2>1, <2>2
<1>5. ListsOK(ch2, next', prev', first', last', count')
  BY <1>2, <1>4 DEF ListsOK, MoveStep
<1>6. CachesOK(ca, next', cached', used')
  <2>1. \A q \in Lists, x \in Nodes : In(ca[q], x) => next'[x] = next[x]
    <3> TAKE q \in Lists, x \in Nodes
    <3>1. In(ca[q], x) => ~In(ch[l], x) /\ ~In(ch[m], x)
      BY <1>0 DEF Apart
    <3> QED BY <3>1 DEF MoveStep
  <2>2. CachesOK(ca, next', cached, used)
    BY <1>0, <2>1, FrameCaches
  <2> QED BY <2>2 DEF MoveStep
<1>7. Apart(ch2, ca, {}, spare')
  <2>1. ASSUME NEW x
        PROVE  /\ In(ch2[l], x) \/ In(ch2[m], x) <=> In(ch[l], x) \/ In(ch[m], x)
               /\ ~(In(ch[l], x) /\ In(ch[m], x)) => ~(In(ch2[l], x) /\ In(ch2[m], x))
    BY <1>2 DEF Shared
  <2>2. \A x \in Nodes, q \in Lists : q # l /\ q # m => (In(ch2[q], x) <=> In(ch[q], x))
    BY <1>2
  <2>3. \A k, q \in Lists, x \in Nodes :
          /\ In(ch2[k], x) /\ In(ch2[q], x) => k = q
          /\ In(ca[k], x) /\ In(ca[q], x) => k = q
          /\ ~(In(ch2[k], x) /\ In(ca[q], x))
    <3> TAKE k, q \in Lists, x \in Nodes
    <3>1. \A h, g \in Lists :
          /\ In(ch[h], x) /\ In(ch[g], x) => h = g
          /\ In(ca[h], x) /\ In(ca[g], x) => h = g
          /\ ~(In(ch[h], x) /\ In(ca[g], x))
      BY <1>0 DEF Apart
    <3> QED BY <2>1, <2>2, <3>1
  <2>4. \A x \in Nodes : (\A q \in Lists : ~In(ch2[q], x) /\ ~In(ca[q], x)) <=>
                         (\A q \in Lists : ~In(ch[q], x) /\ ~In(ca[q], x))
    <3> TAKE x \in Nodes
    <3> QED BY <2>1, <2>2
  <2>5. /\ spare' = spare /\ spare \subseteq Nodes
        /\ \A x \in Nodes : x \in spare <=> \A q \in Lists : ~In(ch[q], x) /\ ~In(ca[q], x)
    BY <1>0 DEF Apart, MoveStep
  <2>6. \A x \in Nodes : x \in spare <=> \A q \in Lists : ~In(ch2[q], x) /\ ~In(ca[q], x)
    BY <2>4, <2>5
  <2> QED BY <2>3, <2>5, <2>6 DEF Apart
<1>8. data' = [y \in Nodes |-> data'[y]]
  BY DEF Lst, MoveStep
<1>9. Lst(ch2, ca)'
  BY <1>5, <1>6, <1>7, <1>8 DEF Lst
<1> QED BY <1>9 DEF ch2

\* Two lists, one entry of the first.
Both(ch, ca, l, m, i, p) ==
  /\ Lst(ch, ca) /\ l \in Lists /\ m \in Lists /\ l # m
  /\ i \in 1 .. Len(ch[l]) /\ p = ch[l][i]

LEMMA BothAre ==
  ASSUME NEW ch, NEW ca, NEW l, NEW m, NEW i, NEW p, Both(ch, ca, l, m, i, p)
  PROVE  /\ Chained(ch[l], next, prev, first[l], last[l])
         /\ Chained(ch[m], next, prev, first[m], last[m])
         /\ Distinct(ch[l]) /\ Distinct(ch[m]) /\ ch[l] \in Seq(Nodes) /\ ch[m] \in Seq(Nodes)
         /\ Len(ch[l]) \in Nat /\ Len(ch[m]) \in Nat
         /\ next \in [Nodes -> L!Position] /\ prev \in [Nodes -> L!Position]
         /\ first \in [Lists -> L!Position] /\ last \in [Lists -> L!Position]
         /\ count \in [Lists -> Int] /\ count[l] = Len(ch[l]) /\ count[m] = Len(ch[m])
         /\ \A x : ~(In(ch[l], x) /\ In(ch[m], x))
         /\ p = Nth(ch[l], i) /\ p \in Nodes /\ i - 1 \in 0 .. Len(ch[l]) /\ i \in 0 .. Len(ch[l])
<1>1. /\ ListsOK(ch, next, prev, first, last, count) /\ Apart(ch, ca, {}, spare)
      /\ l \in Lists /\ m \in Lists /\ l # m /\ i \in 1 .. Len(ch[l]) /\ p = ch[l][i]
  BY DEF Both, Lst
<1>2. /\ Chained(ch[l], next, prev, first[l], last[l])
      /\ Chained(ch[m], next, prev, first[m], last[m])
      /\ ch[l] \in Seq(Nodes) /\ ch[m] \in Seq(Nodes)
      /\ next \in [Nodes -> L!Position] /\ prev \in [Nodes -> L!Position]
      /\ first \in [Lists -> L!Position] /\ last \in [Lists -> L!Position]
      /\ count \in [Lists -> Int] /\ count[l] = Len(ch[l]) /\ count[m] = Len(ch[m])
  BY <1>1 DEF ListsOK
<1>3. Distinct(ch[l]) /\ Distinct(ch[m])
  BY <1>2 DEF Chained
<1>4. \A x : ~(In(ch[l], x) /\ In(ch[m], x))
  <2> SUFFICES ASSUME NEW x, In(ch[l], x), In(ch[m], x) PROVE FALSE
    OBVIOUS
  <2>1. x \in Nodes
    BY <1>3, InIsNode
  <2> QED BY <1>1, <2>1 DEF Apart
<1>5. p = Nth(ch[l], i) /\ p \in Nodes
  BY <1>1, <1>2 DEF Nth
<1>6. Len(ch[l]) \in Nat /\ Len(ch[m]) \in Nat
  BY <1>2
<1>7. i - 1 \in 0 .. Len(ch[l]) /\ i \in 0 .. Len(ch[l])
  BY <1>1, <1>6
<1> QED BY <1>2, <1>3, <1>4, <1>5, <1>6, <1>7

\* The node at a place of one list is not the one at a place of the other.
LEMMA NthApart ==
  ASSUME NEW s \in Seq(Nodes), NEW t \in Seq(Nodes), \A x : ~(In(s, x) /\ In(t, x)),
         NEW i \in Int, NEW j \in Int
  PROVE  Nth(s, i) = Nth(t, j) => Nth(s, i) = NoNode
<1>1. \A k : k \in 1 .. Len(s) => In(s, s[k])
  BY DEF In
<1>2. \A k : k \in 1 .. Len(t) => In(t, t[k])
  BY DEF In
<1> QED BY <1>1, <1>2 DEF Nth

LEMMA NodeNth ==
  ASSUME NEW s \in Seq(Nodes), NEW t \in Seq(Nodes), \A x : ~(In(s, x) /\ In(t, x)),
         NEW i \in Int, NEW j \in 1 .. Len(t)
  PROVE  t[j] # Nth(s, i)
<1>1. t[j] = Nth(t, j) /\ t[j] \in Nodes /\ j \in Int
  BY DEF Nth
<1> QED BY <1>1, NthApart, ListsAssumption

LEMMA SharedJoin ==
  ASSUME NEW ch, NEW l, NEW m, NEW i \in 0 .. Len(ch[l]), Distinct(ch[l]), Distinct(ch[m]),
         \A x : ~(In(ch[l], x) /\ In(ch[m], x))
  PROVE  /\ Shared(ch, l, m, Past(ch[l], i), Join(ch[m], Upto(ch[l], i)))
         /\ Shared(ch, l, m, Upto(ch[l], i), Join(Past(ch[l], i), ch[m]))
<1> DEFINE s == ch[l]
           t == ch[m]
           a == Upto(s, i)
           b == Past(s, i)
<1>1. \A x : (In(s, x) <=> In(a, x) \/ In(b, x)) /\ ~(In(a, x) /\ In(b, x))
  BY InParts
<1>2. Distinct(a) /\ Distinct(b)
  <2>1. Distinct(s) /\ i \in 0 .. Len(s) /\ s \in Seq(Nodes)
    BY DEF Distinct
  <2>2. /\ a \in Seq(Nodes) /\ Len(a) = i /\ \A j \in 1 .. i : a[j] = s[j]
        /\ b \in Seq(Nodes) /\ Len(b) = Len(s) - i
        /\ \A j \in 1 .. Len(s) - i : b[j] = s[j + i]
    BY <2>1, UptoIs, PastIs
  <2> HIDE DEF a, b, s
  <2>3. \A j, k \in 1 .. Len(a) : a[j] = a[k] => j = k
    <3>1. \A j \in 1 .. Len(a) : j \in 1 .. Len(s)
      BY <2>1, <2>2
    <3> QED BY <2>1, <2>2, <3>1 DEF Distinct
  <2>4. ASSUME NEW j \in 1 .. Len(b), NEW k \in 1 .. Len(b), b[j] = b[k] PROVE j = k
    <3> DEFINE jj == j + i
               kk == k + i
    <3>1. jj \in 1 .. Len(s) /\ kk \in 1 .. Len(s) /\ (jj = kk => j = k)
      BY <2>1, <2>2
    <3>2. s[jj] = s[kk]
      BY <2>2, <2>4
    <3> HIDE DEF jj, kk
    <3> QED BY <2>1, <3>1, <3>2 DEF Distinct
  <2> QED BY <2>2, <2>3, <2>4 DEF Distinct
<1>3. /\ \A x : In(Join(t, a), x) <=> In(t, x) \/ In(a, x)
      /\ \A x : In(Join(b, t), x) <=> In(b, x) \/ In(t, x)
  <2>1. Distinct(t)
    OBVIOUS
  <2> HIDE DEF a, b, s, t
  <2> QED BY <1>2, <2>1, InJoin
<1>4. \A x : ~(In(s, x) /\ In(t, x))
  OBVIOUS
<1>5. Shared(ch, l, m, b, Join(t, a))
  <2> HIDE DEF a, b
  <2> QED BY <1>1, <1>3, <1>4 DEF Shared
<1>6. Shared(ch, l, m, a, Join(b, t))
  <2> HIDE DEF a, b
  <2> QED BY <1>1, <1>3, <1>4 DEF Shared
<1> QED BY <1>5, <1>6

LEMMA MoveTailKeeps ==
  ASSUME NEW ch, NEW ca, NEW l, NEW m, NEW i, NEW p, Both(ch, ca, l, m, i, p),
         L!MoveToTail(l, p, m)
  PROVE  /\ Lst([ch EXCEPT ![l] = Past(ch[l], i), ![m] = Join(ch[m], Upto(ch[l], i))], ca)'
         /\ data' = data
<1> DEFINE s == ch[l]
           t == ch[m]
           a == Upto(s, i)
           b == Past(s, i)
           rest == L!Unlink(next, last[m], first[l])[p]
           nx1 == [next EXCEPT ![p] = NoNode]
           pv1 == [x \in Nodes |-> IF x = rest THEN NoNode ELSE prev[x]]
<1>1. /\ Chained(s, next, prev, first[l], last[l]) /\ Chained(t, next, prev, first[m], last[m])
      /\ Distinct(s) /\ Distinct(t) /\ s \in Seq(Nodes) /\ t \in Seq(Nodes)
      /\ Len(s) \in Nat /\ Len(t) \in Nat /\ Len(s) \in Int /\ Len(t) \in Int
      /\ \A x : ~(In(s, x) /\ In(t, x))
      /\ p = Nth(s, i) /\ p \in Nodes /\ i \in 0 .. Len(s) /\ i \in Int /\ i + 1 \in Int
  <2>1. /\ Chained(s, next, prev, first[l], last[l]) /\ Chained(t, next, prev, first[m], last[m])
        /\ p = Nth(s, i) /\ p \in Nodes /\ i \in 0 .. Len(s)
    BY BothAre
  <2>2. /\ Distinct(s) /\ Distinct(t) /\ s \in Seq(Nodes) /\ t \in Seq(Nodes)
        /\ Len(s) \in Nat /\ Len(t) \in Nat
    BY BothAre
  <2>3. \A x : ~(In(s, x) /\ In(t, x))
    BY BothAre
  <2> QED BY <2>1, <2>2, <2>3
<1>2. /\ next \in [Nodes -> L!Position] /\ prev \in [Nodes -> L!Position]
      /\ first \in [Lists -> L!Position] /\ last \in [Lists -> L!Position]
      /\ count \in [Lists -> Int] /\ count[l] = Len(s) /\ count[m] = Len(t)
  BY DEF Both, Lst, ListsOK
<1>3. Lst(ch, ca) /\ l \in Lists /\ m \in Lists /\ l # m /\ i \in 1 .. Len(s) /\ p = s[i] /\ i # 0
  BY DEF Both
<1> HIDE DEF s, t
<1>4. /\ first[l] = Nth(s, 1) /\ last[l] = Nth(s, Len(s)) /\ first[m] = Nth(t, 1)
      /\ last[m] = Nth(t, Len(t)) /\ next[p] = Nth(s, i + 1)
  BY <1>1, <1>3 DEF Chained
<1>5. /\ first[l] \in L!Position /\ last[l] \in L!Position /\ last[m] \in L!Position
      /\ NoNode \in L!Position
  BY <1>2, <1>3 DEF L!Position
<1>6. /\ a \in Seq(Nodes) /\ Len(a) = i /\ \A j \in 1 .. i : a[j] = s[j]
      /\ b \in Seq(Nodes) /\ Len(b) = Len(s) - i
      /\ \A j \in 1 .. Len(s) - i : b[j] = s[j + i]
  BY <1>1, UptoIs, PastIs
<1>7. Len(L!Along(prev, p)) = i
  <2>1. L!Along(prev, Nth(s, i)) = Turn(a)
    BY <1>1, ChainedLeadsBack
  <2> HIDE DEF a
  <2>2. Len(Turn(a)) = i
    BY <1>6, TurnIs
  <2> QED BY <1>1, <2>1, <2>2
<1>8. \A j \in 1 .. Len(t) : t[j] # first[l] /\ t[j] # p /\ t[j] # Nth(s, i + 1) /\ t[j] \in Nodes
  <2> TAKE j \in 1 .. Len(t)
  <2>1. t[j] # Nth(s, 1) /\ t[j] # Nth(s, i) /\ t[j] # Nth(s, i + 1)
    BY <1>1, NodeNth
  <2> QED BY <1>1, <1>4, <2>1
<1>9. \A j \in 1 .. Len(s) : s[j] # last[m] /\ s[j] \in Nodes
  <2> TAKE j \in 1 .. Len(s)
  <2>1. s[j] # Nth(t, Len(t))
    BY <1>1, NodeNth
  <2> QED BY <1>1, <1>4, <2>1
<1>10. p # last[m]
  BY <1>3, <1>9
<1>11. /\ L!Unlink(next, last[m], first[l]) \in [Nodes -> L!Position]
       /\ \A x \in Nodes : L!Unlink(next, last[m], first[l])[x] = IF x = last[m] THEN first[l] ELSE next[x]
       /\ L!Unlink(prev, first[l], last[m]) \in [Nodes -> L!Position]
       /\ \A x \in Nodes : L!Unlink(prev, first[l], last[m])[x] = IF x = first[l] THEN last[m] ELSE prev[x]
  BY <1>2, <1>5, ListsAssumption DEF L!Unlink, L!Position
<1>12. rest = Nth(s, i + 1) /\ rest \in L!Position
  <2>1. rest = next[p]
    BY <1>1, <1>10, <1>11
  <2> QED BY <1>1, <1>4, <2>1, NthIsNode
<1> HIDE DEF rest
<1>13. /\ first' = [first EXCEPT ![m] = IF @ = NoNode THEN first[l] ELSE @, ![l] = rest]
       /\ last' = [last EXCEPT ![l] = IF rest = NoNode THEN NoNode ELSE @, ![m] = p]
       /\ prev' = L!Unlink(L!Unlink(prev, first[l], last[m]), rest, NoNode)
       /\ next' = [L!Unlink(next, last[m], first[l]) EXCEPT ![p] = NoNode]
       /\ count' = [count EXCEPT ![l] = @ - i, ![m] = @ + i]
       /\ UNCHANGED <<data, cached, used, spare>>
  BY <1>7 DEF L!MoveToTail, rest, L!cacheVars
<1>14. /\ next' \in [Nodes -> L!Position] /\ prev' \in [Nodes -> L!Position]
       /\ \A x \in Nodes : next'[x] = IF x = p THEN NoNode ELSE IF x = last[m] THEN first[l] ELSE next[x]
       /\ \A x \in Nodes : prev'[x] = IF x = rest THEN NoNode ELSE IF x = first[l] THEN last[m] ELSE prev[x]
  <2> DEFINE g == L!Unlink(prev, first[l], last[m])
             f == L!Unlink(next, last[m], first[l])
  <2>1. g \in [Nodes -> L!Position] /\ f \in [Nodes -> L!Position]
    BY <1>11
  <2> HIDE DEF f, g
  <2>2. /\ next' \in [Nodes -> L!Position]
        /\ \A x \in Nodes : next'[x] = IF x = p THEN NoNode ELSE f[x]
    BY <1>1, <1>5, <1>13, <2>1 DEF f
  <2>3. /\ L!Unlink(g, rest, NoNode) \in [Nodes -> L!Position]
        /\ \A x \in Nodes : L!Unlink(g, rest, NoNode)[x] = IF x = rest THEN NoNode ELSE g[x]
    BY <1>5, <1>12, <2>1, ListsAssumption DEF L!Unlink, L!Position
  <2>4. prev' = L!Unlink(g, rest, NoNode)
    BY <1>13 DEF g
  <2> QED BY <1>11, <2>2, <2>3, <2>4 DEF f, g
<1>15. /\ \A x \in Nodes : nx1[x] = IF x = p THEN NoNode ELSE next[x]
       /\ \A x \in Nodes : pv1[x] = IF x = rest THEN NoNode ELSE prev[x]
  BY <1>2
<1> HIDE DEF nx1, pv1
<1>16. CutAt(s, i, next, prev, nx1, pv1)
  <2> SUFFICES ASSUME NEW j \in 1 .. Len(s)
               PROVE  /\ nx1[s[j]] = IF j = i THEN NoNode ELSE next[s[j]]
                      /\ pv1[s[j]] = IF j = i + 1 THEN NoNode ELSE prev[s[j]]
    BY DEF CutAt
  <2>1. (s[j] = p <=> j = i) /\ (s[j] = rest <=> j = i + 1)
    BY <1>1, <1>12, NthSame
  <2> QED BY <1>9, <1>15, <2>1
<1>17. /\ Chained(a, nx1, pv1, first[l], p)
       /\ Chained(b, nx1, pv1, rest, IF i = Len(s) THEN NoNode ELSE last[l])
  <2>1. /\ Chained(a, nx1, pv1, IF i = 0 THEN NoNode ELSE first[l], Nth(s, i))
        /\ Chained(b, nx1, pv1, Nth(s, i + 1), IF i = Len(s) THEN NoNode ELSE last[l])
    BY <1>1, <1>16, CutChained
  <2> QED BY <1>1, <1>3, <1>12, <2>1
<1>18. Chained(t, nx1, pv1, first[m], last[m])
  <2>1. \A j \in 1 .. Len(t) : nx1[t[j]] = next[t[j]] /\ pv1[t[j]] = prev[t[j]]
    BY <1>8, <1>12, <1>15
  <2> QED BY <1>1, <2>1, SameChained
<1> HIDE DEF a, b
<1>19. Chained(b, next', prev', rest, IF i = Len(s) THEN NoNode ELSE last[l])
  <2>1. ASSUME NEW j \in 1 .. Len(b) PROVE next'[b[j]] = nx1[b[j]] /\ prev'[b[j]] = pv1[b[j]]
    <3> DEFINE k == j + i
    <3>1. b[j] = s[k] /\ k \in 1 .. Len(s) /\ k # 1
      BY <1>1, <1>3, <1>6
    <3> HIDE DEF k
    <3>2. s[k] # first[l]
      <4>1. s[k] = Nth(s, 1) <=> k = 1
        BY <1>1, <3>1, NthSame
      <4> QED BY <1>4, <3>1, <4>1
    <3>3. s[k] # last[m] /\ s[k] \in Nodes
      BY <1>9, <3>1
    <3> QED BY <1>14, <1>15, <3>1, <3>2, <3>3
  <2> QED BY <1>17, <2>1, SameChained
<1>20. LinkedUp(t, a, nx1, pv1, next', prev')
  <2>1. \A j \in 1 .. Len(t), k \in 1 .. Len(a) : t[j] # a[k]
    <3> TAKE j \in 1 .. Len(t), k \in 1 .. Len(a)
    <3>1. a[k] = s[k] /\ k \in 1 .. Len(s)
      BY <1>1, <1>6
    <3>2. In(s, s[k]) /\ In(t, t[j])
      BY <3>1 DEF In
    <3> QED BY <1>1, <3>1, <3>2
  <2>2. Nth(a, 1) = first[l]
    BY <1>17 DEF Chained
  <2>3. ASSUME NEW j \in 1 .. Len(t)
        PROVE  /\ next'[t[j]] = IF j = Len(t) THEN Nth(a, 1) ELSE nx1[t[j]]
               /\ prev'[t[j]] = pv1[t[j]]
    <3>1. t[j] = last[m] <=> j = Len(t)
      BY <1>1, <1>4, NthSame
    <3>2. t[j] # first[l] /\ t[j] # p /\ t[j] # rest /\ t[j] \in Nodes
      BY <1>8, <1>12
    <3> QED BY <1>14, <1>15, <2>2, <3>1, <3>2
  <2>4. ASSUME NEW j \in 1 .. Len(a)
        PROVE  /\ next'[a[j]] = nx1[a[j]]
               /\ prev'[a[j]] = IF j = 1 THEN Nth(t, Len(t)) ELSE pv1[a[j]]
    <3>1. a[j] = s[j] /\ j \in 1 .. Len(s) /\ j # i + 1
      BY <1>1, <1>6
    <3>2. (s[j] = first[l] <=> j = 1) /\ s[j] # rest
      BY <1>1, <1>4, <1>12, <3>1, NthSame
    <3>3. s[j] # last[m] /\ s[j] \in Nodes
      BY <1>9, <3>1
    <3> QED BY <1>4, <1>14, <1>15, <3>1, <3>2, <3>3
  <2> QED BY <2>1, <2>3, <2>4 DEF LinkedUp
<1> DEFINE c == Join(t, a)
<1>21. Chained(c, next', prev', IF Len(t) = 0 THEN first[l] ELSE first[m], p)
  <2>1. Chained(c, next', prev', IF Len(t) = 0 THEN first[l] ELSE first[m],
                IF Len(a) = 0 THEN last[m] ELSE p)
    BY <1>17, <1>18, <1>20, JoinChained
  <2> QED BY <1>3, <1>6, <2>1
<1>22. Len(c) = Len(t) + i
  BY <1>1, <1>6, JoinIs
<1> HIDE DEF c
<1>23. MoveStep(ch, l, m, b, c)
  <2>1. first'[l] = rest /\ first'[m] = IF Len(t) = 0 THEN first[l] ELSE first[m]
    <3>1. 1 \in 1 .. Len(t) <=> Len(t) # 0
      BY <1>1
    <3>2. first[m] = NoNode <=> Len(t) = 0
      BY <1>1, <1>4, <3>1, NthIsNode
    <3> QED BY <1>2, <1>3, <1>13, <3>2
  <2>2. last'[l] = (IF i = Len(s) THEN NoNode ELSE last[l]) /\ last'[m] = p
    <3>1. i + 1 \in 1 .. Len(s) <=> i # Len(s)
      BY <1>1, <1>3
    <3>2. rest = NoNode <=> i = Len(s)
      BY <1>1, <1>12, <3>1, NthIsNode
    <3> QED BY <1>2, <1>3, <1>13, <3>2
  <2>3. count'[l] = Len(b) /\ count'[m] = Len(c) /\ count' \in [Lists -> Int]
    BY <1>1, <1>2, <1>3, <1>6, <1>13, <1>22
  <2>4. first' \in [Lists -> L!Position] /\ last' \in [Lists -> L!Position]
    <3>1. p \in L!Position /\ first[m] \in L!Position
      BY <1>1, <1>2, <1>3 DEF L!Position
    <3> QED BY <1>2, <1>3, <1>5, <1>12, <1>13, <3>1
  <2>5. \A x \in Nodes : ~In(ch[l], x) /\ ~In(ch[m], x) => next'[x] = next[x] /\ prev'[x] = prev[x]
    <3> SUFFICES ASSUME NEW x \in Nodes, ~In(s, x), ~In(t, x)
                 PROVE  next'[x] = next[x] /\ prev'[x] = prev[x]
      BY DEF s, t
    <3>1. \A k \in Int : x # Nth(s, k) /\ x # Nth(t, k)
      BY ListsAssumption DEF In, Nth
    <3>2. x # p /\ x # rest /\ x # first[l] /\ x # last[m]
      BY <1>1, <1>4, <1>12, <3>1
    <3> QED BY <1>14, <3>2
  <2>6. \A q \in Lists : q # l /\ q # m =>
           first'[q] = first[q] /\ last'[q] = last[q] /\ count'[q] = count[q]
    BY <1>2, <1>13
  <2>7. Chained(b, next', prev', first'[l], last'[l]) /\ Chained(c, next', prev', first'[m], last'[m])
    BY <1>19, <1>21, <2>1, <2>2
  <2>8. UNCHANGED <<data, cached, used, spare>>
    BY <1>13
  <2> QED BY <1>14, <2>3, <2>4, <2>5, <2>6, <2>7, <2>8 DEF MoveStep
<1>24. Shared(ch, l, m, b, c)
  BY <1>1, SharedJoin DEF s, t, a, b, c
<1>25. Lst([ch EXCEPT ![l] = b, ![m] = c], ca)'
  BY <1>3, <1>23, <1>24, MoveKeeps
<1> QED BY <1>13, <1>25 DEF b, c, a, s, t

LEMMA MoveHeadKeeps ==
  ASSUME NEW ch, NEW ca, NEW l, NEW m, NEW i, NEW p, Both(ch, ca, l, m, i, p),
         L!MoveToHead(l, p, m), NEW k, k = i - 1
  PROVE  /\ Lst([ch EXCEPT ![l] = Upto(ch[l], k), ![m] = Join(Past(ch[l], k), ch[m])], ca)'
         /\ data' = data
<1> DEFINE s == ch[l]
           t == ch[m]
           a == Upto(s, k)
           b == Past(s, k)
           rest == L!Unlink(prev, first[m], last[l])[p]
           nx1 == [x \in Nodes |-> IF x = rest THEN NoNode ELSE next[x]]
           pv1 == [prev EXCEPT ![p] = NoNode]
<1>1. /\ Chained(s, next, prev, first[l], last[l]) /\ Chained(t, next, prev, first[m], last[m])
      /\ Distinct(s) /\ Distinct(t) /\ s \in Seq(Nodes) /\ t \in Seq(Nodes)
      /\ Len(s) \in Nat /\ Len(t) \in Nat /\ Len(s) \in Int /\ Len(t) \in Int
      /\ \A x : ~(In(s, x) /\ In(t, x))
      /\ p = Nth(s, k + 1) /\ p \in Nodes /\ k \in 0 .. Len(s) /\ k \in Int /\ k + 1 \in Int
      /\ k # Len(s)
  <2>1. /\ Chained(s, next, prev, first[l], last[l]) /\ Chained(t, next, prev, first[m], last[m])
        /\ p = Nth(s, i) /\ p \in Nodes
    BY BothAre
  <2>2. /\ Distinct(s) /\ Distinct(t) /\ s \in Seq(Nodes) /\ t \in Seq(Nodes)
        /\ Len(s) \in Nat /\ Len(t) \in Nat
    BY BothAre
  <2>3. \A x : ~(In(s, x) /\ In(t, x))
    BY BothAre
  <2>4. i \in 1 .. Len(s)
    BY DEF Both
  <2>5. k \in 0 .. Len(s) /\ k + 1 = i /\ k # Len(s)
    BY <2>2, <2>4
  <2> QED BY <2>1, <2>2, <2>3, <2>5
<1>2. /\ next \in [Nodes -> L!Position] /\ prev \in [Nodes -> L!Position]
      /\ first \in [Lists -> L!Position] /\ last \in [Lists -> L!Position]
      /\ count \in [Lists -> Int] /\ count[l] = Len(s) /\ count[m] = Len(t)
  BY DEF Both, Lst, ListsOK
<1>3. /\ Lst(ch, ca) /\ l \in Lists /\ m \in Lists /\ l # m /\ p = s[k + 1]
      /\ k + 1 \in 1 .. Len(s)
  BY DEF Both
<1> HIDE DEF s, t
<1>4. /\ first[l] = Nth(s, 1) /\ last[l] = Nth(s, Len(s)) /\ first[m] = Nth(t, 1)
      /\ last[m] = Nth(t, Len(t)) /\ prev[p] = Nth(s, k)
  <2> DEFINE j == k + 1
  <2>1. j \in 1 .. Len(s) /\ p = s[j] /\ j - 1 = k
    BY <1>1, <1>3
  <2> HIDE DEF j
  <2> QED BY <1>1, <2>1 DEF Chained
<1>5. /\ first[m] \in L!Position /\ last[l] \in L!Position /\ last[m] \in L!Position
      /\ NoNode \in L!Position /\ first[l] \in L!Position
  BY <1>2, <1>3 DEF L!Position
<1>6. /\ a \in Seq(Nodes) /\ Len(a) = k /\ \A j \in 1 .. k : a[j] = s[j]
      /\ b \in Seq(Nodes) /\ Len(b) = Len(s) - k
      /\ \A j \in 1 .. Len(s) - k : b[j] = s[j + k]
  <2>1. s \in Seq(Nodes) /\ k \in 0 .. Len(s)
    BY <1>1
  <2>2. a \in Seq(Nodes) /\ Len(a) = k /\ \A j \in 1 .. k : a[j] = s[j]
    BY <2>1, UptoIs
  <2>3. /\ b \in Seq(Nodes) /\ Len(b) = Len(s) - k
        /\ \A j \in 1 .. Len(s) - k : b[j] = s[j + k]
    BY <2>1, PastIs
  <2> QED BY <2>2, <2>3
<1>7. Len(L!Along(next, p)) = Len(s) - k
  <2>1. L!Along(next, Nth(s, k + 1)) = b
    BY <1>1, ChainedLeadsOn
  <2> HIDE DEF b
  <2> QED BY <1>1, <1>6, <2>1
<1>8. \A j \in 1 .. Len(t) : t[j] # last[l] /\ t[j] # p /\ t[j] # Nth(s, k) /\ t[j] \in Nodes
  <2> TAKE j \in 1 .. Len(t)
  <2>1. t[j] # Nth(s, Len(s)) /\ t[j] # Nth(s, k) /\ t[j] # Nth(s, k + 1)
    BY <1>1, NodeNth
  <2> QED BY <1>1, <1>4, <2>1
<1>9. \A j \in 1 .. Len(s) : s[j] # first[m] /\ s[j] \in Nodes
  <2> TAKE j \in 1 .. Len(s)
  <2>1. s[j] # Nth(t, 1)
    BY <1>1, NodeNth
  <2> QED BY <1>1, <1>4, <2>1
<1>10. p # first[m]
  BY <1>3, <1>9
<1>11. /\ L!Unlink(next, last[l], first[m]) \in [Nodes -> L!Position]
       /\ \A x \in Nodes : L!Unlink(next, last[l], first[m])[x] = IF x = last[l] THEN first[m] ELSE next[x]
       /\ L!Unlink(prev, first[m], last[l]) \in [Nodes -> L!Position]
       /\ \A x \in Nodes : L!Unlink(prev, first[m], last[l])[x] = IF x = first[m] THEN last[l] ELSE prev[x]
  BY <1>2, <1>5, ListsAssumption DEF L!Unlink, L!Position
<1>12. rest = Nth(s, k) /\ rest \in L!Position
  <2>1. rest = prev[p]
    BY <1>1, <1>10, <1>11
  <2> QED BY <1>1, <1>4, <2>1, NthIsNode
<1> HIDE DEF rest
<1>13. /\ last' = [last EXCEPT ![m] = IF @ = NoNode THEN last[l] ELSE @, ![l] = rest]
       /\ first' = [first EXCEPT ![l] = IF rest = NoNode THEN NoNode ELSE @, ![m] = p]
       /\ next' = L!Unlink(L!Unlink(next, last[l], first[m]), rest, NoNode)
       /\ prev' = [L!Unlink(prev, first[m], last[l]) EXCEPT ![p] = NoNode]
       /\ count' = [count EXCEPT ![l] = @ - (Len(s) - k), ![m] = @ + (Len(s) - k)]
       /\ UNCHANGED <<data, cached, used, spare>>
  BY <1>7 DEF L!MoveToHead, rest, L!cacheVars
<1>14. /\ next' \in [Nodes -> L!Position] /\ prev' \in [Nodes -> L!Position]
       /\ \A x \in Nodes : prev'[x] = IF x = p THEN NoNode ELSE IF x = first[m] THEN last[l] ELSE prev[x]
       /\ \A x \in Nodes : next'[x] = IF x = rest THEN NoNode ELSE IF x = last[l] THEN first[m] ELSE next[x]
  <2> DEFINE g == L!Unlink(next, last[l], first[m])
             f == L!Unlink(prev, first[m], last[l])
  <2>1. g \in [Nodes -> L!Position] /\ f \in [Nodes -> L!Position]
    BY <1>11
  <2> HIDE DEF f, g
  <2>2. /\ prev' \in [Nodes -> L!Position]
        /\ \A x \in Nodes : prev'[x] = IF x = p THEN NoNode ELSE f[x]
    BY <1>1, <1>5, <1>13, <2>1 DEF f
  <2>3. /\ L!Unlink(g, rest, NoNode) \in [Nodes -> L!Position]
        /\ \A x \in Nodes : L!Unlink(g, rest, NoNode)[x] = IF x = rest THEN NoNode ELSE g[x]
    BY <1>5, <1>12, <2>1, ListsAssumption DEF L!Unlink, L!Position
  <2>4. next' = L!Unlink(g, rest, NoNode)
    BY <1>13 DEF g
  <2> QED BY <1>11, <2>2, <2>3, <2>4 DEF f, g
<1>15. /\ \A x \in Nodes : pv1[x] = IF x = p THEN NoNode ELSE prev[x]
       /\ \A x \in Nodes : nx1[x] = IF x = rest THEN NoNode ELSE next[x]
  BY <1>2
<1> HIDE DEF nx1, pv1
<1>16. CutAt(s, k, next, prev, nx1, pv1)
  <2> SUFFICES ASSUME NEW j \in 1 .. Len(s)
               PROVE  /\ nx1[s[j]] = IF j = k THEN NoNode ELSE next[s[j]]
                      /\ pv1[s[j]] = IF j = k + 1 THEN NoNode ELSE prev[s[j]]
    BY DEF CutAt
  <2>1. (s[j] = p <=> j = k + 1) /\ (s[j] = rest <=> j = k)
    BY <1>1, <1>12, NthSame
  <2> QED BY <1>9, <1>15, <2>1
<1>17. /\ Chained(a, nx1, pv1, IF k = 0 THEN NoNode ELSE first[l], rest)
       /\ Chained(b, nx1, pv1, p, last[l])
  <2>1. /\ Chained(a, nx1, pv1, IF k = 0 THEN NoNode ELSE first[l], Nth(s, k))
        /\ Chained(b, nx1, pv1, Nth(s, k + 1), IF k = Len(s) THEN NoNode ELSE last[l])
    BY <1>1, <1>16, CutChained
  <2> QED BY <1>1, <1>12, <2>1
<1>18. Chained(t, nx1, pv1, first[m], last[m])
  <2>1. \A j \in 1 .. Len(t) : nx1[t[j]] = next[t[j]] /\ pv1[t[j]] = prev[t[j]]
    BY <1>8, <1>12, <1>15
  <2> QED BY <1>1, <2>1, SameChained
<1> HIDE DEF a, b
<1>19. Chained(a, next', prev', IF k = 0 THEN NoNode ELSE first[l], rest)
  <2>1. ASSUME NEW j \in 1 .. Len(a) PROVE next'[a[j]] = nx1[a[j]] /\ prev'[a[j]] = pv1[a[j]]
    <3>1. a[j] = s[j] /\ j \in 1 .. Len(s) /\ j # Len(s)
      BY <1>1, <1>6
    <3>2. s[j] # last[l]
      BY <1>1, <1>4, <3>1, NthSame
    <3>3. s[j] # first[m] /\ s[j] \in Nodes
      BY <1>9, <3>1
    <3> QED BY <1>14, <1>15, <3>1, <3>2, <3>3
  <2> QED BY <1>17, <2>1, SameChained
<1>20. LinkedUp(b, t, nx1, pv1, next', prev')
  <2>1. \A j \in 1 .. Len(b), h \in 1 .. Len(t) : b[j] # t[h]
    <3> TAKE j \in 1 .. Len(b), h \in 1 .. Len(t)
    <3>1. b[j] = s[j + k] /\ j + k \in 1 .. Len(s)
      BY <1>1, <1>6
    <3>2. In(s, s[j + k]) /\ In(t, t[h])
      BY <3>1 DEF In
    <3> QED BY <1>1, <3>1, <3>2
  <2>2. Nth(b, Len(b)) = last[l]
    BY <1>17 DEF Chained
  <2>3. ASSUME NEW j \in 1 .. Len(t)
        PROVE  /\ next'[t[j]] = nx1[t[j]]
               /\ prev'[t[j]] = IF j = 1 THEN Nth(b, Len(b)) ELSE pv1[t[j]]
    <3>1. t[j] = first[m] <=> j = 1
      BY <1>1, <1>4, NthSame
    <3>2. t[j] # last[l] /\ t[j] # p /\ t[j] # rest /\ t[j] \in Nodes
      BY <1>8, <1>12
    <3> QED BY <1>14, <1>15, <2>2, <3>1, <3>2
  <2>4. ASSUME NEW j \in 1 .. Len(b)
        PROVE  /\ next'[b[j]] = IF j = Len(b) THEN Nth(t, 1) ELSE nx1[b[j]]
               /\ prev'[b[j]] = pv1[b[j]]
    <3> DEFINE h == j + k
    <3>1. b[j] = s[h] /\ h \in 1 .. Len(s) /\ h # k /\ (h = Len(s) <=> j = Len(b))
      BY <1>1, <1>6
    <3> HIDE DEF h
    <3>2. (s[h] = last[l] <=> j = Len(b)) /\ s[h] # rest
      <4>1. (s[h] = Nth(s, Len(s)) <=> h = Len(s)) /\ (s[h] = Nth(s, k) <=> h = k)
        BY <1>1, <3>1, NthSame
      <4> QED BY <1>4, <1>12, <3>1, <4>1
    <3>3. s[h] # first[m] /\ s[h] \in Nodes
      BY <1>9, <3>1
    <3> QED BY <1>4, <1>14, <1>15, <3>1, <3>2, <3>3
  <2> QED BY <2>1, <2>3, <2>4 DEF LinkedUp
<1> DEFINE c == Join(b, t)
<1>21. Chained(c, next', prev', p, IF Len(t) = 0 THEN last[l] ELSE last[m])
  <2>1. Chained(c, next', prev', IF Len(b) = 0 THEN first[m] ELSE p,
                IF Len(t) = 0 THEN last[l] ELSE last[m])
    BY <1>17, <1>18, <1>20, JoinChained
  <2>2. Len(b) # 0
    BY <1>1, <1>6
  <2> QED BY <2>1, <2>2
<1>22. Len(c) = Len(s) - k + Len(t)
  <2>1. b \in Seq(Nodes) /\ t \in Seq(Nodes)
    BY <1>1, <1>6
  <2>2. Len(c) = Len(b) + Len(t)
    BY <2>1, JoinIs
  <2> QED BY <1>6, <2>2
<1> HIDE DEF c
<1>23. MoveStep(ch, l, m, a, c)
  <2>1. last'[l] = rest /\ last'[m] = IF Len(t) = 0 THEN last[l] ELSE last[m]
    <3>1. Len(t) \in 1 .. Len(t) <=> Len(t) # 0
      <4>1. Len(t) \in Nat
        BY <1>1
      <4> QED BY <4>1
    <3>2. last[m] = NoNode <=> Len(t) = 0
      BY <1>1, <1>4, <3>1, NthIsNode
    <3> QED BY <1>2, <1>3, <1>13, <3>2
  <2>2. first'[l] = (IF k = 0 THEN NoNode ELSE first[l]) /\ first'[m] = p
    <3>1. k \in 1 .. Len(s) <=> k # 0
      <4>1. k \in 0 .. Len(s) /\ Len(s) \in Nat
        BY <1>1
      <4> QED BY ONLY <4>1
    <3>2. rest = NoNode <=> k = 0
      BY <1>1, <1>12, <3>1, NthIsNode
    <3> QED BY <1>2, <1>3, <1>13, <3>2
  <2>3. count'[l] = Len(a) /\ count'[m] = Len(c) /\ count' \in [Lists -> Int]
    <3>1. Len(s) \in Int /\ Len(t) \in Int /\ k \in Int
      BY <1>1
    <3>2. /\ count'[l] = count[l] - (Len(s) - k) /\ count'[m] = count[m] + (Len(s) - k)
          /\ count' \in [Lists -> Int]
      BY <1>2, <1>3, <1>13, <3>1, SMTT(30)
    <3>3. count[l] = Len(s) /\ count[m] = Len(t) /\ Len(a) = k /\ Len(c) = Len(s) - k + Len(t)
      BY <1>2, <1>6, <1>22
    <3> QED BY <3>1, <3>2, <3>3
  <2>4. first' \in [Lists -> L!Position] /\ last' \in [Lists -> L!Position]
    <3>1. p \in L!Position
      BY <1>1 DEF L!Position
    <3> QED BY <1>2, <1>3, <1>5, <1>12, <1>13, <3>1
  <2>5. \A x \in Nodes : ~In(ch[l], x) /\ ~In(ch[m], x) => next'[x] = next[x] /\ prev'[x] = prev[x]
    <3> SUFFICES ASSUME NEW x \in Nodes, ~In(s, x), ~In(t, x)
                 PROVE  next'[x] = next[x] /\ prev'[x] = prev[x]
      BY DEF s, t
    <3>1. \A j \in Int : x # Nth(s, j) /\ x # Nth(t, j)
      BY ListsAssumption DEF In, Nth
    <3>2. x # p /\ x # rest /\ x # last[l] /\ x # first[m]
      BY <1>1, <1>4, <1>12, <3>1
    <3> QED BY <1>14, <3>2
  <2>6. \A q \in Lists : q # l /\ q # m =>
           first'[q] = first[q] /\ last'[q] = last[q] /\ count'[q] = count[q]
    BY <1>2, <1>13
  <2>7. Chained(a, next', prev', first'[l], last'[l]) /\ Chained(c, next', prev', first'[m], last'[m])
    BY <1>19, <1>21, <2>1, <2>2
  <2>8. UNCHANGED <<data, cached, used, spare>>
    BY <1>13
  <2> QED BY <1>14, <2>3, <2>4, <2>5, <2>6, <2>7, <2>8 DEF MoveStep
<1>24. Shared(ch, l, m, a, c)
  BY <1>1, SharedJoin DEF s, t, a, b, c
<1>25. Lst([ch EXCEPT ![l] = a, ![m] = c], ca)'
  BY <1>3, <1>23, <1>24, MoveKeeps
<1> QED BY <1>13, <1>25 DEF b, c, a, s, t

LEMMA EmptyChain ==
  ASSUME NEW nx, NEW pv
  PROVE  /\ Chained(<<>>, nx, pv, NoNode, NoNode) /\ <<>> \in Seq(Nodes) /\ Len(<<>>) = 0
         /\ Leads(<<>>, nx, NoNode) /\ \A x : ~In(<<>>, x)
BY DEF Chained, Distinct, Nth, In, Leads

\* The nodes of a list are deleted, and perhaps those of its cache.
DropStep(ch, ca, l, gone, ca2) ==
  /\ \A x : In(ch[l], x) => x \in gone
  /\ \A x \in gone : In(ch[l], x) \/ In(ca[l], x)
  /\ \A m \in Lists : \A x : In(ca2[m], x) <=> In(ca[m], x) /\ x \notin gone
  /\ CachesOK(ca2, next, cached', used')
  /\ spare' = spare \cup gone
  /\ prev' = L!Wipe(prev, gone) /\ next' = L!Wipe(next, gone) /\ data' = L!Wipe(data, gone)
  /\ first' = [first EXCEPT ![l] = NoNode] /\ last' = [last EXCEPT ![l] = NoNode]
  /\ count' = [count EXCEPT ![l] = 0]

LEMMA DropKeeps ==
  ASSUME NEW ch, NEW ca, Lst(ch, ca), NEW l \in Lists, NEW gone, NEW ca2,
         DropStep(ch, ca, l, gone, ca2)
  PROVE  /\ Lst([ch EXCEPT ![l] = <<>>], ca2)'
         /\ \A m \in Lists, x \in Nodes : m # l /\ In(ch[m], x) => data'[x] = data[x]
<1> DEFINE ch2 == [ch EXCEPT ![l] = <<>>]
<1>0. /\ ListsOK(ch, next, prev, first, last, count) /\ Apart(ch, ca, {}, spare)
      /\ ch \in [Lists -> Seq(Nodes)] /\ ca \in [Lists -> Seq(Nodes)]
      /\ next \in [Nodes -> L!Position] /\ prev \in [Nodes -> L!Position]
  BY DEF Lst, ListsOK, CachesOK
<1>1. gone \subseteq Nodes
  <2>1. \A x : In(ch[l], x) \/ In(ca[l], x) => x \in Nodes
    BY <1>0 DEF In
  <2> QED BY <2>1 DEF DropStep
<1>2. /\ next' \in [Nodes -> L!Position] /\ prev' \in [Nodes -> L!Position]
      /\ data' = [y \in Nodes |-> data'[y]]
      /\ \A x \in Nodes : x \notin gone => next'[x] = next[x] /\ prev'[x] = prev[x] /\ data'[x] = data[x]
  <2>1. prev' = L!Wipe(prev, gone) /\ next' = L!Wipe(next, gone) /\ data' = L!Wipe(data, gone)
    BY DEF DropStep
  <2>2. next' \in [Nodes -> L!Position] /\ prev' \in [Nodes -> L!Position]
    BY <1>0, <2>1 DEF L!Wipe, L!Position
  <2>3. data' = [y \in Nodes |-> data'[y]]
    BY <2>1 DEF L!Wipe
  <2>4. ASSUME NEW x \in Nodes, x \notin gone
        PROVE  next'[x] = next[x] /\ prev'[x] = prev[x] /\ data'[x] = data[x]
    BY <2>1, <2>4 DEF L!Wipe
  <2> QED BY <2>2, <2>3, <2>4
<1>3. \A m \in Lists, x \in Nodes : m # l /\ In(ch[m], x) => x \notin gone
  <2> TAKE m \in Lists, x \in Nodes
  <2>1. m # l /\ In(ch[m], x) => ~In(ch[l], x) /\ ~In(ca[l], x)
    BY <1>0 DEF Apart
  <2> QED BY <2>1 DEF DropStep
<1>4. ListsOK(ch2, next', prev', first', last', count')
  <2>1. OthersKept(ch, l, next, prev, next', prev')
    BY <1>2, <1>3 DEF OthersKept
  <2>2. Chained(<<>>, next', prev', NoNode, NoNode)
    BY EmptyChain
  <2>3. ListsOK(ch2, next', prev', [first EXCEPT ![l] = NoNode], [last EXCEPT ![l] = NoNode],
                [count EXCEPT ![l] = Len(<<>>)])
    BY <1>0, <2>1, <2>2, OneList
  <2>4. Len(<<>>) = 0
    BY EmptyChain
  <2> HIDE DEF ch2
  <2> QED BY <2>3, <2>4 DEF DropStep
<1>5. CachesOK(ca2, next', cached', used')
  <2>1. \A m \in Lists, x \in Nodes : In(ca2[m], x) => next'[x] = next[x]
    BY <1>2 DEF DropStep
  <2>2. CachesOK(ca2, next, cached', used')
    BY DEF DropStep
  <2> QED BY <2>1, <2>2, FrameCaches
<1>6. Apart(ch2, ca2, {}, spare')
  <2>1. \A m \in Lists : \A x : In(ch2[m], x) <=> In(ch[m], x) /\ m # l
    BY <1>0, EmptyChain
  <2>2. \A m \in Lists : \A x : In(ca2[m], x) <=> In(ca[m], x) /\ x \notin gone
    BY DEF DropStep
  <2> HIDE DEF ch2
  <2>3. \A k, m \in Lists, x \in Nodes :
          /\ In(ch2[k], x) /\ In(ch2[m], x) => k = m
          /\ In(ca2[k], x) /\ In(ca2[m], x) => k = m
          /\ ~(In(ch2[k], x) /\ In(ca2[m], x))
    <3> TAKE k, m \in Lists, x \in Nodes
    <3>1. /\ In(ch[k], x) /\ In(ch[m], x) => k = m
          /\ In(ca[k], x) /\ In(ca[m], x) => k = m
          /\ ~(In(ch[k], x) /\ In(ca[m], x))
      BY <1>0 DEF Apart
    <3> QED BY <2>1, <2>2, <3>1
  <2>4. ASSUME NEW x \in Nodes
        PROVE  x \in spare' <=> \A m \in Lists : ~In(ch2[m], x) /\ ~In(ca2[m], x)
    <3>1. x \in spare <=> \A m \in Lists : ~In(ch[m], x) /\ ~In(ca[m], x)
      BY <1>0 DEF Apart
    <3>2. x \in spare' <=> x \in spare \/ x \in gone
      BY DEF DropStep
    <3>3. In(ch[l], x) => x \in gone
      BY DEF DropStep
    <3>4. x \in gone => \A m \in Lists : ~In(ch2[m], x) /\ ~In(ca2[m], x)
      BY <1>3, <2>1, <2>2
    <3>5. x \in spare => \A m \in Lists : ~In(ch2[m], x) /\ ~In(ca2[m], x)
      BY <2>1, <2>2, <3>1
    <3>6. (\A m \in Lists : ~In(ch2[m], x) /\ ~In(ca2[m], x)) /\ x \notin gone =>
             \A m \in Lists : ~In(ch[m], x) /\ ~In(ca[m], x)
      BY <2>1, <2>2, <3>3
    <3> QED BY <3>1, <3>2, <3>4, <3>5, <3>6
  <2>5. spare' \subseteq Nodes
    BY <1>0, <1>1 DEF Apart, DropStep
  <2> QED BY <2>3, <2>4, <2>5 DEF Apart
<1> HIDE DEF ch2
<1>7. Lst(ch2, ca2)'
  BY <1>2, <1>4, <1>5, <1>6 DEF Lst
<1>8. \A m \in Lists, x \in Nodes : m # l /\ In(ch[m], x) => data'[x] = data[x]
  BY <1>2, <1>3
<1> QED BY <1>7, <1>8 DEF ch2

\* The entries of list l are gone, the other lists have theirs.
Emptied(ch, l) ==
  /\ \E ca2 : Lst([ch EXCEPT ![l] = <<>>], ca2)'
  /\ \A m \in Lists, x \in Nodes : m # l /\ In(ch[m], x) => data'[x] = data[x]

LEMMA RemoveAllKeeps ==
  ASSUME NEW ch, NEW ca, Lst(ch, ca), NEW l \in Lists, L!RemoveAll(l)
  PROVE  Emptied(ch, l)
<1> DEFINE gone == L!InList(l)
<1>1. \A x : x \in gone <=> In(ch[l], x)
  BY InListIs
<1>2. \A m \in Lists : \A x : ~(In(ch[l], x) /\ In(ca[m], x))
  <2> TAKE m \in Lists
  <2> TAKE x
  <2>1. In(ch[l], x) => x \in Nodes
    BY DEF In, Lst, ListsOK
  <2> QED BY <2>1 DEF Lst, Apart
<1> HIDE DEF gone
<1>3. DropStep(ch, ca, l, gone, ca)
  <2>1. CachesOK(ca, next, cached', used')
    BY DEF L!RemoveAll, Lst
  <2> QED BY <1>1, <1>2, <2>1 DEF DropStep, L!RemoveAll, gone
<1> QED BY <1>3, DropKeeps DEF Emptied

LEMMA DestroyKeeps ==
  ASSUME NEW ch, NEW ca, Lst(ch, ca), NEW l \in Lists, L!Destroy(l)
  PROVE  Emptied(ch, l)
<1> DEFINE gone == L!InList(l) \cup L!CacheNodes(l)
           ca2 == [ca EXCEPT ![l] = <<>>]
<1>0. CachesOK(ca, next, cached, used)
  BY DEF Lst
<1>1. \A x : x \in gone <=> In(ch[l], x) \/ In(ca[l], x)
  BY InListIs
<1>2. \A x : In(ch[l], x) \/ In(ca[l], x) => x \in Nodes
  BY DEF In, Lst, ListsOK, CachesOK
<1>3. \A m \in Lists : \A x : m # l /\ In(ca[m], x) => ~In(ch[l], x) /\ ~In(ca[l], x)
  BY <1>2 DEF Lst, Apart
<1>4. \A m \in Lists : ca2[m] = IF m = l THEN <<>> ELSE ca[m]
  BY <1>0 DEF CachesOK
<1>5. \A m \in Lists : \A x : In(ca2[m], x) <=> In(ca[m], x) /\ x \notin gone
  <2> HIDE DEF gone, ca2
  <2> QED BY <1>1, <1>3, <1>4, EmptyChain
<1>6. CachesOK(ca2, next, cached', used')
  <2>1. cached' = [cached EXCEPT ![l] = NoNode] /\ used' = [used EXCEPT ![l] = 0]
    BY DEF L!Destroy
  <2>2. /\ ca2 \in [Lists -> Seq(Nodes)] /\ cached' \in [Lists -> L!Position]
        /\ used' \in [Lists -> Int]
    BY <1>0, <2>1, EmptyChain DEF CachesOK, L!Position
  <2>3. ASSUME NEW m \in Lists
        PROVE  Leads(ca2[m], next, cached'[m]) /\ used'[m] = Len(ca2[m]) /\ used'[m] <= CacheSize
    <3>1. CASE m = l
      <4>1. ca2[m] = <<>> /\ cached'[m] = NoNode /\ used'[m] = 0
        BY <1>0, <1>4, <2>1, <3>1 DEF CachesOK
      <4>2. Leads(<<>>, next, NoNode) /\ Len(<<>>) = 0
        BY EmptyChain
      <4> HIDE DEF ca2
      <4> QED BY ONLY <4>1, <4>2, ListsAssumption
    <3>2. CASE m # l
      <4>1. ca2[m] = ca[m] /\ cached'[m] = cached[m] /\ used'[m] = used[m]
        BY <1>0, <1>4, <2>1, <3>2 DEF CachesOK
      <4> QED BY <1>0, <4>1 DEF CachesOK
    <3> QED BY <3>1, <3>2
  <2> QED BY <2>2, <2>3 DEF CachesOK
<1> HIDE DEF gone, ca2
<1>7. DropStep(ch, ca, l, gone, ca2)
  BY <1>1, <1>5, <1>6 DEF DropStep, L!Destroy, gone
<1> QED BY <1>7, DropKeeps DEF Emptied

\* Reverse turns a list.
LEMMA ReverseKeeps ==
  ASSUME NEW ch, NEW ca, Lst(ch, ca), NEW l \in Lists, L!Reverse(l)
  PROVE  Lst([ch EXCEPT ![l] = Turn(ch[l])], ca)' /\ data' = data
<1> DEFINE s == ch[l]
           ch2 == [ch EXCEPT ![l] = Turn(s)]
<1>0. /\ ListsOK(ch, next, prev, first, last, count) /\ Apart(ch, ca, {}, spare)
      /\ CachesOK(ca, next, cached, used)
      /\ ch \in [Lists -> Seq(Nodes)] /\ Chained(s, next, prev, first[l], last[l]) /\ Distinct(s)
      /\ next \in [Nodes -> L!Position] /\ prev \in [Nodes -> L!Position]
      /\ count \in [Lists -> Int] /\ count[l] = Len(s)
  BY DEF Lst, ListsOK, Chained
<1>1. \A x : x \in L!InList(l) <=> In(s, x)
  BY InListIs
<1>2. /\ next' = [n \in Nodes |-> IF n \in L!InList(l) THEN prev[n] ELSE next[n]]
      /\ prev' = [n \in Nodes |-> IF n \in L!InList(l) THEN next[n] ELSE prev[n]]
      /\ first' = [first EXCEPT ![l] = last[l]] /\ last' = [last EXCEPT ![l] = first[l]]
      /\ UNCHANGED <<data, count, cached, used, spare>>
  BY DEF L!Reverse, L!cacheVars
<1>3. /\ next' \in [Nodes -> L!Position] /\ prev' \in [Nodes -> L!Position]
      /\ \A x \in Nodes : In(s, x) => next'[x] = prev[x] /\ prev'[x] = next[x]
      /\ \A x \in Nodes : ~In(s, x) => next'[x] = next[x] /\ prev'[x] = prev[x]
  BY <1>0, <1>1, <1>2
<1>4. Chained(Turn(s), next', prev', last[l], first[l])
  <2>1. \A j \in 1 .. Len(s) : In(s, s[j]) /\ s[j] \in Nodes
    BY <1>0 DEF In
  <2>2. \A j \in 1 .. Len(s) : next'[s[j]] = prev[s[j]] /\ prev'[s[j]] = next[s[j]]
    BY <1>3, <2>1
  <2> HIDE DEF s
  <2> QED BY <1>0, <2>2, TurnChained
<1>5. OthersKept(ch, l, next, prev, next', prev')
  <2>1. \A m \in Lists, x \in Nodes : m # l /\ In(ch[m], x) => ~In(s, x)
    BY <1>0 DEF Apart
  <2> QED BY <1>3, <2>1 DEF OthersKept
<1>6. Len(Turn(s)) = Len(s) /\ Turn(s) \in Seq(Nodes) /\ \A x : In(Turn(s), x) <=> In(s, x)
  <2>1. Distinct(Turn(s)) /\ Len(Turn(s)) = Len(s)
    BY <1>0, TurnDistinct
  <2> QED BY <1>0, <2>1, InTurn DEF Distinct
<1>7. ListsOK(ch2, next', prev', first', last', count')
  <2> DEFINE t == Turn(s)
  <2> HIDE DEF t
  <2>1. ListsOK([ch EXCEPT ![l] = t], next', prev', [first EXCEPT ![l] = last[l]],
                [last EXCEPT ![l] = first[l]], [count EXCEPT ![l] = Len(t)])
    BY <1>0, <1>4, <1>5, OneList DEF t
  <2>2. [count EXCEPT ![l] = Len(t)] = count'
    BY <1>0, <1>2, <1>6 DEF t
  <2> QED BY <1>2, <2>1, <2>2 DEF t
<1>8. CachesOK(ca, next', cached', used')
  <2>1. \A m \in Lists, x \in Nodes : In(ca[m], x) => next'[x] = next[x]
    BY <1>0, <1>3 DEF Apart
  <2>2. CachesOK(ca, next', cached, used)
    BY <1>0, <2>1, FrameCaches
  <2> QED BY <1>2, <2>2
<1>9. Apart(ch2, ca, {}, spare')
  <2>1. \A m \in Lists : \A x : In(ch2[m], x) <=> In(ch[m], x)
    BY <1>0, <1>6
  <2> HIDE DEF ch2
  <2> QED BY <1>0, <1>2, <2>1 DEF Apart
<1>10. data' = [y \in Nodes |-> data'[y]]
  BY <1>2 DEF Lst
<1> HIDE DEF ch2
<1>11. Lst(ch2, ca)'
  BY <1>7, <1>8, <1>9, <1>10 DEF Lst
<1> QED BY <1>2, <1>11 DEF ch2

(***************************************************************************)
(* What a list contains                                                    *)
(***************************************************************************)

\* The entries that a chain s stands for: L!Contents.
Entries(s, d) == [j \in 1 .. Len(s) |-> [pos |-> s[j], obj |-> d[s[j]]]]

LEMMA ContentsAre ==
  ASSUME NEW ch, NEW ca, Lst(ch, ca), NEW l \in Lists
  PROVE  L!Contents(l) = Entries(ch[l], data)
<1>1. L!Along(next, first[l]) = ch[l]
  BY InListIs
<1>2. ch[l] \in Seq(Nodes)
  BY DEF Lst, ListsOK
<1>3. DOMAIN ch[l] = 1 .. Len(ch[l])
  BY <1>2
<1> QED BY <1>1, <1>3 DEF L!Contents, Entries

LEMMA CountDistinct ==
  ASSUME NEW s, Distinct(s)
  PROVE  Cardinality(L!Range(s)) = Len(s)
<1>1. s \in Seq(Nodes) /\ Len(s) \in Nat /\ DOMAIN s = 1 .. Len(s)
  BY DEF Distinct
<1>2. s \in Bijection(1 .. Len(s), L!Range(s))
  <2>1. L!Range(s) = {s[j] : j \in 1 .. Len(s)}
    BY <1>1 DEF L!Range
  <2>2. s \in [1 .. Len(s) -> L!Range(s)]
    BY <1>1, <2>1
  <2>3. \A t \in L!Range(s) : \E j \in 1 .. Len(s) : s[j] = t
    BY <2>1
  <2>4. \A a, b \in 1 .. Len(s) : s[a] = s[b] => a = b
    BY DEF Distinct
  <2> QED BY <2>2, <2>3, <2>4 DEF Bijection, Injection, Surjection, IsInjective
<1>3. IsFiniteSet(1 .. Len(s)) /\ Cardinality(1 .. Len(s)) = Len(s)
  BY <1>1, FS_Interval
<1>4. ExistsBijection(1 .. Len(s), L!Range(s))
  BY <1>2 DEF ExistsBijection
<1> QED BY <1>3, <1>4, FS_Bijection

\* What the run asks of the links follows from the chains.
LEMMA LstWellLinked ==
  ASSUME NEW ch, NEW ca, Lst(ch, ca)
  PROVE  L!WellLinked
<1>0. /\ ListsOK(ch, next, prev, first, last, count) /\ CachesOK(ca, next, cached, used)
      /\ Apart(ch, ca, {}, spare)
  BY DEF Lst
<1>1. \A l \in Lists : /\ L!Along(next, first[l]) = ch[l] /\ L!Along(next, cached[l]) = ca[l]
                       /\ \A x : x \in L!InList(l) <=> In(ch[l], x)
                       /\ \A x : x \in L!CacheNodes(l) <=> In(ca[l], x)
  BY InListIs
<1>2. ASSUME NEW l \in Lists
      PROVE  LET chain == L!Along(next, first[l])
             IN  /\ L!Along(prev, last[l]) = [i \in DOMAIN chain |-> chain[Len(chain) + 1 - i]]
                 /\ count[l] = Len(chain)
                 /\ used[l] = L!Cardinality(L!CacheNodes(l)) /\ used[l] <= CacheSize
  <2> DEFINE s == ch[l]
  <2>1. /\ Chained(s, next, prev, first[l], last[l]) /\ count[l] = Len(s) /\ s \in Seq(Nodes)
        /\ Leads(ca[l], next, cached[l]) /\ used[l] = Len(ca[l]) /\ used[l] <= CacheSize
    BY <1>0 DEF ListsOK, CachesOK
  <2>2. L!Along(next, first[l]) = s /\ L!CacheNodes(l) = L!Range(ca[l])
    BY <1>1 DEF L!CacheNodes
  <2> HIDE DEF s
  <2>3. L!Along(prev, last[l]) = Turn(s)
    <3>1. Chained(Turn(s), prev, next, last[l], first[l])
      BY <2>1, TurnChained
    <3> QED BY <3>1, ChainedLeads
  <2>4. Turn(s) = [i \in DOMAIN s |-> s[Len(s) + 1 - i]]
    BY <2>1 DEF Turn
  <2>5. used[l] = L!Cardinality(L!CacheNodes(l))
    <3>1. Distinct(ca[l])
      BY <2>1 DEF Leads
    <3>2. Cardinality(L!Range(ca[l])) = Len(ca[l])
      BY <3>1, CountDistinct
    <3> QED BY <2>1, <2>2, <3>2, SameOperators
  <2> QED BY <2>1, <2>2, <2>3, <2>4, <2>5
<1>3. \A l \in Lists : \A x : In(ch[l], x) \/ In(ca[l], x) => x \in Nodes
  BY <1>0 DEF In, ListsOK, CachesOK
<1>4. ASSUME NEW l \in Lists, NEW m \in Lists
      PROVE  /\ L!InList(l) \cap L!CacheNodes(m) = {}
             /\ l # m => /\ L!InList(l) \cap L!InList(m) = {}
                         /\ L!CacheNodes(l) \cap L!CacheNodes(m) = {}
  <2>1. \A x \in Nodes : /\ In(ch[l], x) /\ In(ch[m], x) => l = m
                         /\ In(ca[l], x) /\ In(ca[m], x) => l = m
                         /\ ~(In(ch[l], x) /\ In(ca[m], x))
    BY <1>0 DEF Apart
  <2>2. \A x : ~(x \in L!InList(l) /\ x \in L!CacheNodes(m))
    BY <1>1, <1>3, <2>1
  <2>3. l # m => \A x : ~(x \in L!InList(l) /\ x \in L!InList(m))
    BY <1>1, <1>3, <2>1
  <2>4. l # m => \A x : ~(x \in L!CacheNodes(l) /\ x \in L!CacheNodes(m))
    BY <1>1, <1>3, <2>1
  <2> QED BY <2>2, <2>3, <2>4
<1>5. spare = Nodes \ UNION {L!InList(l) \cup L!CacheNodes(l) : l \in Lists}
  <2>1. \A x : x \in UNION {L!InList(l) \cup L!CacheNodes(l) : l \in Lists} <=>
                 \E l \in Lists : In(ch[l], x) \/ In(ca[l], x)
    BY <1>1
  <2>2. \A x \in Nodes : x \in spare <=> \A l \in Lists : ~In(ch[l], x) /\ ~In(ca[l], x)
    BY <1>0 DEF Apart
  <2>3. spare \subseteq Nodes
    BY <1>0 DEF Apart
  <2> QED BY <2>1, <2>2, <2>3
<1> QED BY <1>2, <1>4, <1>5 DEF L!WellLinked

(***************************************************************************)
(* A list that is being copied into another, a node at a time              *)
(***************************************************************************)

\* The place asked for is behind the first i nodes of so.
Places(op, place, so, i) ==
  /\ i \in 0 .. Len(so)
  /\ op = "AddTail" => place = NoNode /\ i = Len(so)
  /\ op = "AddHead" => place = NoNode /\ i = 0
  /\ op = "AddAfter" => place = Nth(so, i)
  /\ op = "AddBefore" => place = Nth(so, i + 1)

\* The chain s is so with copies of k nodes of t behind place i.
Spliced(s, t, d, so, od, i, k, skip) ==
  /\ Distinct(so) /\ i \in 0 .. Len(so) /\ k \in 0 .. Len(t) /\ Len(s) = Len(so) + k
  /\ \A j \in 1 .. i : s[j] = so[j] /\ d[s[j]] = od[so[j]]
  /\ \A j \in i + 1 .. Len(so) : s[j + k] = so[j] /\ d[s[j + k]] = od[so[j]]
  /\ \A j \in 1 .. k : d[s[i + j]] = d[t[skip + j]]

\* One node more, the first that has not been copied or the last.
LEMMA SplicedOnwards ==
  ASSUME NEW s, NEW t, NEW d, NEW so, NEW od, NEW i, NEW k, Spliced(s, t, d, so, od, i, k, 0),
         s \in Seq(Nodes), t \in Seq(Nodes), k < Len(t), d = [y \in Nodes |-> d[y]],
         NEW n \in Nodes, ~In(s, n), ~In(t, n), NEW d2, d2 = [d EXCEPT ![n] = d[t[k + 1]]]
  PROVE  Spliced(Ins(s, i + k, n), t, d2, so, od, i, k + 1, 0)
<1> DEFINE h == i + k
           s2 == Ins(s, h, n)
           kk == k + 1
<1>1. /\ Distinct(so) /\ so \in Seq(Nodes) /\ Len(so) \in Nat /\ Len(s) \in Nat /\ Len(t) \in Nat
      /\ i \in 0 .. Len(so) /\ k \in 0 .. Len(t) /\ Len(s) = Len(so) + k
  BY DEF Spliced, Distinct
<1>2. /\ \A j \in 1 .. i : s[j] = so[j] /\ d[s[j]] = od[so[j]]
      /\ \A j \in i + 1 .. Len(so) : s[j + k] = so[j] /\ d[s[j + k]] = od[so[j]]
      /\ \A j \in 1 .. k : d[s[i + j]] = d[t[0 + j]]
  BY DEF Spliced
<1>3. h \in 0 .. Len(s) /\ kk \in 0 .. Len(t)
  BY <1>1
<1>4. /\ s2 \in Seq(Nodes) /\ Len(s2) = Len(s) + 1 /\ \A j \in 1 .. h : s2[j] = s[j]
      /\ s2[h + 1] = n /\ \A j \in h + 1 .. Len(s) : s2[j + 1] = s[j]
  <2>1. s \in Seq(Nodes) /\ h \in 0 .. Len(s) /\ n \in Nodes
    BY <1>3
  <2> HIDE DEF h
  <2>2. s2 \in Seq(Nodes) /\ Len(s2) = Len(s) + 1 /\ s2[h + 1] = n
    BY ONLY <2>1, InsLen
  <2>3. \A j \in 1 .. h : s2[j] = s[j]
    BY ONLY <2>1, InsLow
  <2>4. \A j \in h + 1 .. Len(s) : s2[j + 1] = s[j]
    BY ONLY <2>1, InsHigh
  <2> QED BY <2>2, <2>3, <2>4
<1>5. /\ \A j \in 1 .. Len(s) : s[j] \in Nodes /\ s[j] # n
      /\ \A j \in 1 .. Len(t) : t[j] \in Nodes /\ t[j] # n
  BY DEF In
<1>6. (\A y \in Nodes : y # n => d2[y] = d[y]) /\ d2[n] = d[t[k + 1]]
  OBVIOUS
<1> HIDE DEF s2
<1>7. ASSUME NEW j \in 1 .. i PROVE s2[j] = so[j] /\ d2[s2[j]] = od[so[j]]
  <2>1. j \in 1 .. h /\ j \in 1 .. Len(s)
    BY <1>1
  <2> QED BY <1>2, <1>4, <1>5, <1>6, <2>1
<1>8. ASSUME NEW j \in i + 1 .. Len(so) PROVE s2[j + kk] = so[j] /\ d2[s2[j + kk]] = od[so[j]]
  <2> DEFINE g == j + k
  <2>1. g \in h + 1 .. Len(s) /\ g \in 1 .. Len(s) /\ j + kk = g + 1
    BY <1>1
  <2>2. s[g] = so[j] /\ d[s[g]] = od[so[j]]
    BY <1>2
  <2> HIDE DEF g, h, kk
  <2>3. s2[g + 1] = s[g]
    BY <1>4, <2>1
  <2> QED BY <1>5, <1>6, <2>1, <2>2, <2>3
<1>9. ASSUME NEW j \in 1 .. kk PROVE d2[s2[i + j]] = d2[t[0 + j]]
  <2>1. j \in 1 .. Len(t) /\ 0 + j = j
    BY <1>1, <1>3
  <2>2. d2[t[j]] = d[t[j]]
    BY <1>5, <1>6, <2>1
  <2>3. CASE j = kk
    <3>1. i + j = h + 1 /\ j = k + 1
      BY <1>1, <2>3
    <3> HIDE DEF h, kk
    <3> QED BY <1>4, <1>6, <2>1, <2>2, <3>1
  <2>4. CASE j # kk
    <3> DEFINE g == i + j
    <3>1. g \in 1 .. h /\ g \in 1 .. Len(s) /\ j \in 1 .. k
      BY <1>1, <2>4
    <3>2. d[s[g]] = d[t[j]]
      BY <1>2, <2>1, <3>1
    <3> HIDE DEF h, kk, g
    <3>3. s2[g] = s[g] /\ d2[s[g]] = d[s[g]]
      BY <1>4, <1>5, <1>6, <3>1
    <3> QED BY <2>1, <2>2, <3>2, <3>3 DEF g
  <2> QED BY <2>3, <2>4
<1>10. Len(s2) = Len(so) + kk
  BY <1>1, <1>4
<1>11. Spliced(s2, t, d2, so, od, i, kk, 0)
  <2> HIDE DEF kk
  <2> QED BY <1>1, <1>3, <1>7, <1>8, <1>9, <1>10 DEF Spliced
<1> QED BY <1>11 DEF s2

\* The same from the last towards the first.
LEMMA SplicedBack ==
  ASSUME NEW s, NEW t, NEW d, NEW so, NEW od, NEW i, NEW k,
         Spliced(s, t, d, so, od, i, k, Len(t) - k),
         s \in Seq(Nodes), t \in Seq(Nodes), k < Len(t), d = [y \in Nodes |-> d[y]],
         NEW n \in Nodes, ~In(s, n), ~In(t, n), NEW d2, d2 = [d EXCEPT ![n] = d[t[Len(t) - k]]]
  PROVE  Spliced(Ins(s, i, n), t, d2, so, od, i, k + 1, Len(t) - (k + 1))
<1> DEFINE s2 == Ins(s, i, n)
           kk == k + 1
           skip == Len(t) - k
           skip2 == Len(t) - kk
<1>1. /\ Distinct(so) /\ so \in Seq(Nodes) /\ Len(so) \in Nat /\ Len(s) \in Nat /\ Len(t) \in Nat
      /\ i \in 0 .. Len(so) /\ k \in 0 .. Len(t) /\ Len(s) = Len(so) + k
  BY DEF Spliced, Distinct
<1>2. /\ \A j \in 1 .. i : s[j] = so[j] /\ d[s[j]] = od[so[j]]
      /\ \A j \in i + 1 .. Len(so) : s[j + k] = so[j] /\ d[s[j + k]] = od[so[j]]
      /\ \A j \in 1 .. k : d[s[i + j]] = d[t[skip + j]]
  BY DEF Spliced
<1>3. i \in 0 .. Len(s) /\ kk \in 0 .. Len(t) /\ skip \in 1 .. Len(t) /\ skip = skip2 + 1 /\ skip2 \in Nat
  BY <1>1, SMTT(30)
<1>4. /\ s2 \in Seq(Nodes) /\ Len(s2) = Len(s) + 1 /\ \A j \in 1 .. i : s2[j] = s[j]
      /\ s2[i + 1] = n /\ \A j \in i + 1 .. Len(s) : s2[j + 1] = s[j]
  <2>1. s \in Seq(Nodes) /\ i \in 0 .. Len(s) /\ n \in Nodes
    BY <1>3
  <2>2. s2 \in Seq(Nodes) /\ Len(s2) = Len(s) + 1 /\ s2[i + 1] = n
    BY ONLY <2>1, InsLen
  <2>3. \A j \in 1 .. i : s2[j] = s[j]
    BY ONLY <2>1, InsLow
  <2>4. \A j \in i + 1 .. Len(s) : s2[j + 1] = s[j]
    BY ONLY <2>1, InsHigh
  <2> QED BY <2>2, <2>3, <2>4
<1>5. /\ \A j \in 1 .. Len(s) : s[j] \in Nodes /\ s[j] # n
      /\ \A j \in 1 .. Len(t) : t[j] \in Nodes /\ t[j] # n
  BY DEF In
<1>6. (\A y \in Nodes : y # n => d2[y] = d[y]) /\ d2[n] = d[t[skip]]
  OBVIOUS
<1> HIDE DEF s2, skip, skip2
<1>7. ASSUME NEW j \in 1 .. i PROVE s2[j] = so[j] /\ d2[s2[j]] = od[so[j]]
  <2>1. j \in 1 .. Len(s)
    BY <1>1
  <2> QED BY <1>2, <1>4, <1>5, <1>6, <2>1, SMTT(30)
<1>8. ASSUME NEW j \in i + 1 .. Len(so) PROVE s2[j + kk] = so[j] /\ d2[s2[j + kk]] = od[so[j]]
  <2> DEFINE g == j + k
  <2>1. g \in i + 1 .. Len(s) /\ g \in 1 .. Len(s) /\ j + kk = g + 1
    BY <1>1
  <2>2. s[g] = so[j] /\ d[s[g]] = od[so[j]]
    BY <1>2
  <2> HIDE DEF g, kk
  <2>3. s2[g + 1] = s[g]
    BY <1>4, <2>1
  <2> QED BY <1>5, <1>6, <2>1, <2>2, <2>3
<1>9. ASSUME NEW j \in 1 .. kk PROVE d2[s2[i + j]] = d2[t[skip2 + j]]
  <2> DEFINE e == skip2 + j
  <2>1. e \in 1 .. Len(t)
    <3>1. kk \in 0 .. Len(t) /\ Len(t) \in Nat /\ j \in 1 .. kk
      BY <1>1, <1>3
    <3> HIDE DEF kk
    <3> QED BY ONLY <3>1 DEF skip2, e
  <2>2. d2[t[e]] = d[t[e]]
    <3> HIDE DEF e
    <3> QED BY <1>5, <1>6, <2>1
  <2>3. CASE j = 1
    <3>1. e = skip
      BY <1>3, <2>3
    <3> QED BY <1>4, <1>6, <2>2, <2>3, <3>1
  <2>4. CASE j # 1
    <3> DEFINE f == j - 1
               g == i + f
    <3>1. g \in i + 1 .. Len(s) /\ g \in 1 .. Len(s) /\ f \in 1 .. k /\ g + 1 = i + j /\ e = skip + f
      <4>1. /\ k \in Nat /\ skip2 \in Nat /\ skip = skip2 + 1 /\ i \in 0 .. Len(so) /\ Len(so) \in Nat
            /\ Len(s) = Len(so) + k /\ j \in 1 .. k + 1 /\ j # 1
        BY <1>1, <1>3, <2>4
      <4> QED BY ONLY <4>1 DEF f, g, e
    <3>2. d[s[g]] = d[t[e]]
      <4> HIDE DEF f, e
      <4> QED BY <1>2, <3>1
    <3> HIDE DEF kk, g, e
    <3>3. s2[g + 1] = s[g] /\ d2[s[g]] = d[s[g]]
      BY <1>4, <1>5, <1>6, <3>1
    <3> QED BY <2>2, <3>1, <3>2, <3>3 DEF e
  <2> QED BY <2>3, <2>4
<1>10. Len(s2) = Len(so) + kk
  BY <1>1, <1>4
<1>11. Spliced(s2, t, d2, so, od, i, kk, skip2)
  <2> HIDE DEF kk
  <2> QED BY <1>1, <1>3, <1>7, <1>8, <1>9, <1>10 DEF Spliced
<1> QED BY <1>11 DEF s2, skip2

Ops == {"AddTail", "AddHead", "AddAfter", "AddBefore"}

\* How far the copying c of t into s has come: so and od are what it has found.
Progress(s, t, d, c, so, od, i) ==
  LET k == c.added
  IN  /\ Places(c.op, c.place, so, i) /\ c.old = Entries(so, od)
      /\ Spliced(s, t, d, so, od, i, k, IF c.op \in L!Forward THEN 0 ELSE Len(t) - k)
      /\ c.at = IF c.op \in L!Forward THEN Nth(t, k + 1) ELSE Nth(t, Len(t) - k)
      /\ c.op = "AddAfter" => c.p = Nth(s, i + k)
      /\ c.op = "AddBefore" => c.p = Nth(s, i + 1)

Copies(ch, c, d) ==
  /\ c = [op |-> c.op, to |-> c.to, from |-> c.from, p |-> c.p, at |-> c.at,
          place |-> c.place, old |-> c.old, added |-> c.added]
  /\ c.op \in Ops /\ c.to \in Lists /\ c.from \in Lists /\ c.to # c.from
  /\ \E so, od, i : Progress(ch[c.to], ch[c.from], d, c, so, od, i)

ListInv ==
  \E ch, ca : Lst(ch, ca) /\ (copying = L!NotCopying \/ Copies(ch, copying, data))

LEMMA CopyListKeeps ==
  ASSUME NEW ch, NEW ca, Lst(ch, ca), NEW op \in Ops, NEW l \in Lists, NEW m \in Lists, NEW p,
         L!CopyList(op, l, m, p)
  PROVE  ListInv'
<1> DEFINE s == ch[l]
           t == ch[m]
<1>1. /\ l # m /\ p \in L!InList(l) \cup {NoNode}
      /\ op \in {"AddTail", "AddHead"} => p = NoNode
      /\ copying' = [op |-> op, to |-> l, from |-> m, p |-> p,
                     at |-> IF op \in L!Forward THEN first[m] ELSE last[m],
                     place |-> p, old |-> L!Contents(l), added |-> 0]
      /\ UNCHANGED <<prev, next, data, first, last, count, cached, used, spare>>
  BY DEF L!CopyList, L!chainVars, L!cacheVars
<1>2. Lst(ch, ca)'
  BY <1>1 DEF Lst
<1>3. /\ Distinct(s) /\ s \in Seq(Nodes) /\ Len(s) \in Nat /\ t \in Seq(Nodes) /\ Len(t) \in Nat
      /\ first[m] = Nth(t, 1) /\ last[m] = Nth(t, Len(t))
  BY DEF Lst, ListsOK, Chained, Distinct
<1>4. L!Contents(l) = Entries(s, data)
  BY ContentsAre
<1>5. p = NoNode \/ \E j \in 1 .. Len(s) : p = s[j]
  BY <1>1, InListIs DEF In
<1>6. \E i : Places(op, p, s, i)
  <2>1. CASE op = "AddTail"
    <3>1. Places(op, p, s, Len(s))
      BY <1>1, <1>3, <2>1 DEF Places
    <3> QED BY <3>1
  <2>2. CASE op = "AddHead"
    <3>1. Places(op, p, s, 0)
      BY <1>1, <1>3, <2>2 DEF Places
    <3> QED BY <3>1
  <2>3. CASE op = "AddAfter"
    <3>1. \E i \in 0 .. Len(s) : p = Nth(s, i)
      <4>1. CASE p = NoNode
        <5>1. 0 \in 0 .. Len(s) /\ Nth(s, 0) = NoNode
          BY <1>3 DEF Nth
        <5> QED BY <4>1, <5>1
      <4>2. CASE p # NoNode
        <5>1. PICK j \in 1 .. Len(s) : p = s[j]
          BY <1>5, <4>2
        <5>2. j \in 0 .. Len(s) /\ p = Nth(s, j)
          BY <1>3, <5>1 DEF Nth
        <5> QED BY <5>2
      <4> QED BY <4>1, <4>2
    <3> QED BY <2>3, <3>1 DEF Places
  <2>4. CASE op = "AddBefore"
    <3>1. \E i \in 0 .. Len(s) : p = Nth(s, i + 1)
      <4>1. CASE p = NoNode
        <5>1. Len(s) \in 0 .. Len(s) /\ Len(s) + 1 \notin 1 .. Len(s)
          BY <1>3
        <5>2. Nth(s, Len(s) + 1) = NoNode
          BY <5>1 DEF Nth
        <5> QED BY <4>1, <5>1, <5>2
      <4>2. CASE p # NoNode
        <5>1. PICK j \in 1 .. Len(s) : p = s[j]
          BY <1>5, <4>2
        <5> DEFINE i == j - 1
        <5>2. i \in 0 .. Len(s) /\ i + 1 = j
          BY <1>3
        <5> HIDE DEF i
        <5>3. p = Nth(s, i + 1)
          BY <5>1, <5>2 DEF Nth
        <5> QED BY <5>2, <5>3
      <4> QED BY <4>1, <4>2
    <3> QED BY <2>4, <3>1 DEF Places
  <2> QED BY <2>1, <2>2, <2>3, <2>4 DEF Ops
<1>7. PICK i : Places(op, p, s, i)
  BY <1>6
<1>8. \A skip : Spliced(s, t, data, s, data, i, 0, skip)
  <2>1. i \in 0 .. Len(s) /\ 0 \in 0 .. Len(t) /\ Len(s) = Len(s) + 0
    BY <1>3, <1>7 DEF Places
  <2>2. \A j \in i + 1 .. Len(s) : j + 0 = j
    BY <1>3, <2>1
  <2> HIDE DEF s, t
  <2> QED BY <1>3, <2>1, <2>2 DEF Spliced
<1>9. /\ copying'.op = op /\ copying'.to = l /\ copying'.from = m /\ copying'.p = p
      /\ copying'.at = (IF op \in L!Forward THEN first[m] ELSE last[m])
      /\ copying'.place = p /\ copying'.old = L!Contents(l) /\ copying'.added = 0
  BY <1>1
<1> HIDE DEF s, t
<1>10. Progress(s, t, data, copying', s, data, i)
  <2> DEFINE c == copying'
  <2>1. Places(c.op, c.place, s, i) /\ c.old = Entries(s, data)
    BY <1>4, <1>7, <1>9
  <2>2. Spliced(s, t, data, s, data, i, c.added, IF c.op \in L!Forward THEN 0 ELSE Len(t) - c.added)
    BY <1>8, <1>9
  <2>3. c.at = IF c.op \in L!Forward THEN Nth(t, c.added + 1) ELSE Nth(t, Len(t) - c.added)
    BY <1>3, <1>9
  <2>4. /\ c.op = "AddAfter" => c.p = Nth(s, i + c.added)
        /\ c.op = "AddBefore" => c.p = Nth(s, i + 1)
    <3>1. i + 0 = i
      BY <1>3, <1>7 DEF Places
    <3> QED BY <1>7, <1>9, <3>1 DEF Places
  <2> HIDE DEF c
  <2>5. Progress(s, t, data, c, s, data, i)
    BY <2>1, <2>2, <2>3, <2>4 DEF Progress
  <2> QED BY <2>5 DEF c
<1>11. data' = data
  BY <1>1
<1>12. \E so, od, h : Progress(ch[l], ch[m], data', copying', so, od, h)
  BY <1>10, <1>11 DEF s, t
<1>13. Copies(ch, copying', data')
  BY <1>1, <1>9, <1>12 DEF Copies
<1> QED BY <1>2, <1>13 DEF ListInv

\* What Copies says of the chains, k entries have been copied.
LEMMA CopyingHas ==
  ASSUME NEW s, NEW t, NEW d, NEW c, NEW so, NEW od, NEW i, Progress(s, t, d, c, so, od, i),
         s \in Seq(Nodes), t \in Seq(Nodes), NEW k, k = c.added
  PROVE  /\ i \in 0 .. Len(so) /\ k \in 0 .. Len(t) /\ Len(s) = Len(so) + k
         /\ i \in 0 .. Len(s) /\ i + k \in 0 .. Len(s) /\ Len(so) \in Nat /\ Len(t) \in Nat
         /\ c.op = "AddTail" => i + k = Len(s)
         /\ c.op = "AddHead" => i = 0
<1>1. /\ i \in 0 .. Len(so) /\ k \in 0 .. Len(t) /\ Len(s) = Len(so) + k /\ Distinct(so)
      /\ c.op = "AddTail" => i = Len(so)
      /\ c.op = "AddHead" => i = 0
  BY DEF Progress, Spliced, Places
<1>2. Len(so) \in Nat /\ Len(t) \in Nat
  BY <1>1 DEF Distinct
<1>3. i \in 0 .. Len(s) /\ i + k \in 0 .. Len(s)
  BY ONLY <1>1, <1>2
<1>4. c.op = "AddTail" => i + k = Len(s)
  BY <1>1, <1>2
<1> QED BY <1>1, <1>2, <1>3, <1>4

LEMMA FieldByField ==
  ASSUME NEW d, d = [f \in DOMAIN d |-> d[f]],
         DOMAIN d = {"op", "to", "from", "p", "at", "place", "old", "added"}
  PROVE  d = [op |-> d.op, to |-> d.to, from |-> d.from, p |-> d.p, at |-> d.at,
              place |-> d.place, old |-> d.old, added |-> d.added]
  BY SMTT(60)

LEMMA StillCopies ==
  ASSUME NEW ch, NEW ca, Lst(ch, ca)', Copies(ch, copying', data')
  PROVE  ListInv'
  BY DEF ListInv

\* The next element, forwards or backwards, joins those copied before it.
LEMMA CopyOneKeeps ==
  ASSUME NEW ch, NEW ca, Lst(ch, ca), copying # L!NotCopying, Copies(ch, copying, data),
         L!CopyOne
  PROVE  ListInv'
<1>0. PICK c, l, m, x, at2 : /\ c = copying /\ l = c.to /\ m = c.from /\ x = data[c.at]
                             /\ at2 = IF c.op \in L!Forward THEN next[c.at] ELSE prev[c.at]
  OBVIOUS
<1> DEFINE s == ch[l]
           t == ch[m]
           k == c.added
           forth == c.op \in L!Forward
<1>1. /\ c = [op |-> c.op, to |-> c.to, from |-> c.from, p |-> c.p, at |-> c.at,
              place |-> c.place, old |-> c.old, added |-> c.added]
      /\ c.op \in Ops /\ l \in Lists /\ m \in Lists /\ l # m
  BY <1>0 DEF Copies
<1>2. PICK so, od, i : Progress(s, t, data, c, so, od, i)
  BY <1>0 DEF Copies
<1>3. /\ Chained(t, next, prev, first[m], last[m]) /\ Distinct(s)
      /\ s \in Seq(Nodes) /\ t \in Seq(Nodes) /\ ch \in [Lists -> Seq(Nodes)]
      /\ data = [y \in Nodes |-> data[y]]
  BY <1>1 DEF Lst, ListsOK, Chained
<1>4. PICK n \in Nodes : /\ L!TakeNode(l, n) /\ L!LinkCopy(n)
                         /\ copying' = [c EXCEPT !.p = n, !.added = @ + 1,
                              !.at = IF c.op \in L!Forward THEN next[@] ELSE prev[@]]
  BY <1>0 DEF L!CopyOne
<1>5. c.at # NoNode
  BY <1>0 DEF L!CopyOne
<1>6. /\ i \in 0 .. Len(so) /\ k \in 0 .. Len(t) /\ Len(s) = Len(so) + k
      /\ i \in 0 .. Len(s) /\ i + k \in 0 .. Len(s) /\ Len(so) \in Nat /\ Len(t) \in Nat
      /\ c.op = "AddTail" => i + k = Len(s)
      /\ c.op = "AddHead" => i = 0
  BY <1>2, <1>3, CopyingHas
<1> DEFINE h == IF forth THEN i + k ELSE i
<1>7. h \in 0 .. Len(s)
  BY <1>6
<1>8. L!Forward = {"AddTail", "AddAfter"}
  BY DEF L!Forward
<1>9. Added(ch, l, h, n, x)
  <2>1. CASE c.op = "AddTail"
    <3>1. L!LinkTail(l, n, x)
      BY <1>0, <1>4, <2>1 DEF L!LinkCopy
    <3>2. h = Len(s)
      BY <1>6, <1>8, <2>1
    <3> HIDE DEF h
    <3> QED BY <1>1, <1>4, <3>1, <3>2, AddsTail
  <2>2. CASE c.op = "AddHead"
    <3>1. L!LinkHead(l, n, x)
      BY <1>0, <1>4, <2>2 DEF L!LinkCopy
    <3>2. h = 0
      BY <1>6, <1>8, <2>2
    <3> HIDE DEF h
    <3> QED BY <1>1, <1>4, <3>1, <3>2, AddsHead
  <2>3. CASE c.op = "AddAfter"
    <3> DEFINE p == c.p
    <3>1. L!LinkAfter(l, p, n, x)
      BY <1>0, <1>4, <2>3 DEF L!LinkCopy
    <3>2. p = Nth(s, h)
      BY <1>2, <1>8, <2>3 DEF Progress
    <3>3. h \in 0 .. Len(ch[l]) /\ p = Nth(ch[l], h)
      BY <1>7, <3>2
    <3> HIDE DEF h, p
    <3> QED BY <1>1, <1>4, <3>1, <3>3, AddsAfter
  <2>4. CASE c.op = "AddBefore"
    <3> DEFINE p == c.p
    <3>1. L!LinkBefore(l, p, n, x)
      BY <1>0, <1>4, <2>4 DEF L!LinkCopy
    <3>2. p = Nth(s, h + 1)
      BY <1>2, <1>8, <2>4 DEF Progress
    <3>3. h \in 0 .. Len(ch[l]) /\ p = Nth(ch[l], h + 1)
      BY <1>7, <3>2
    <3> HIDE DEF h, p
    <3> QED BY <1>1, <1>4, <3>1, <3>3, AddsBefore
  <2> QED BY <1>1, <2>1, <2>2, <2>3, <2>4 DEF Ops
<1> DEFINE s2 == Ins(s, h, n)
           ch2 == [ch EXCEPT ![l] = s2]
<1>10. /\ \A q \in Lists : ~In(ch[q], n)
       /\ \E ca2 : Lst(ch2, ca2)'
       /\ data' = [data EXCEPT ![n] = x]
  BY <1>9 DEF Added
<1>11. ch2[l] = s2 /\ ch2[m] = t
  BY <1>1, <1>3
<1>12. ~In(s, n) /\ ~In(t, n)
  BY <1>1, <1>10
<1> DEFINE c2 == [op |-> c.op, to |-> c.to, from |-> c.from, p |-> n, at |-> at2,
                  place |-> c.place, old |-> c.old, added |-> c.added + 1]
<1>13. copying' = c2
  <2> DEFINE d == [c EXCEPT !.p = n, !.added = c.added + 1, !.at = at2]
  <2>1. copying' = d
    BY <1>0, <1>4
  <2>2. DOMAIN c = {"op", "to", "from", "p", "at", "place", "old", "added"}
    BY <1>1
  <2>3. /\ DOMAIN d = {"op", "to", "from", "p", "at", "place", "old", "added"}
        /\ d = [f \in DOMAIN d |-> d[f]]
    BY <2>2
  <2>4. d.op = c.op /\ d.to = c.to /\ d.from = c.from /\ d.place = c.place /\ d.old = c.old
    BY <2>2
  <2>5. d.p = n /\ d.at = at2 /\ d.added = c.added + 1
    BY <2>2
  <2> HIDE DEF d
  <2>6. d = c2
    BY <2>3, <2>4, <2>5, FieldByField
  <2> QED BY <2>1, <2>6
<1>14. /\ c2.op = c.op /\ c2.to = l /\ c2.from = m /\ c2.p = n /\ c2.at = at2
       /\ c2.place = c.place /\ c2.old = c.old /\ c2.added = k + 1
  BY <1>0
<1>15. /\ Places(c.op, c.place, so, i) /\ c.old = Entries(so, od)
       /\ Spliced(s, t, data, so, od, i, k, IF forth THEN 0 ELSE Len(t) - k)
       /\ c.at = IF forth THEN Nth(t, k + 1) ELSE Nth(t, Len(t) - k)
  BY <1>2 DEF Progress
<1>16. \A j \in 1 .. Len(t) : next[t[j]] = Nth(t, j + 1) /\ prev[t[j]] = Nth(t, j - 1)
  BY <1>3 DEF Chained
<1> HIDE DEF c2, s2, ch2, s, t
<1>17. k < Len(t)
  <2>1. \A j : j \notin 1 .. Len(t) => Nth(t, j) = NoNode
    BY DEF Nth
  <2>2. k + 1 \in 1 .. Len(t) \/ Len(t) - k \in 1 .. Len(t)
    BY <1>5, <1>15, <2>1
  <2> HIDE DEF k
  <2> QED BY <1>6, <2>2
<1>18. /\ Spliced(s2, t, data', so, od, i, k + 1, IF forth THEN 0 ELSE Len(t) - (k + 1))
       /\ at2 = IF forth THEN Nth(t, (k + 1) + 1) ELSE Nth(t, Len(t) - (k + 1))
  <2>1. CASE forth
    <3> DEFINE kk == k + 1
    <3>1. kk \in 1 .. Len(t)
      <4> HIDE DEF k
      <4> QED BY <1>6, <1>17
    <3>2. c.at = t[k + 1]
      BY <1>15, <2>1, <3>1 DEF Nth
    <3>3. at2 = Nth(t, (k + 1) + 1)
      <4>1. at2 = next[t[kk]]
        BY <1>0, <2>1, <3>2
      <4>2. next[t[kk]] = Nth(t, kk + 1)
        <5> HIDE DEF kk
        <5> QED BY <1>16, <3>1
      <4> QED BY <4>1, <4>2
    <3>4. Spliced(s2, t, data', so, od, i, k + 1, 0)
      <4>1. Spliced(s, t, data, so, od, i, k, 0)
        BY <1>15, <2>1
      <4>2. data' = [data EXCEPT ![n] = data[t[k + 1]]]
        BY <1>0, <1>10, <3>2
      <4>3. s2 = Ins(s, i + k, n)
        BY <2>1 DEF s2
      <4> HIDE DEF k
      <4>4. Spliced(Ins(s, i + k, n), t, data', so, od, i, k + 1, 0)
        BY <1>3, <1>12, <1>17, <4>1, <4>2, SplicedOnwards
      <4> QED BY <4>3, <4>4
    <3> QED BY <2>1, <3>3, <3>4
  <2>2. CASE ~forth
    <3> DEFINE e == Len(t) - k
    <3>1. e \in 1 .. Len(t) /\ e - 1 = Len(t) - (k + 1)
      <4> HIDE DEF k
      <4> QED BY <1>6, <1>17
    <3>2. c.at = t[Len(t) - k]
      BY <1>15, <2>2, <3>1 DEF Nth
    <3>3. at2 = Nth(t, Len(t) - (k + 1))
      <4>1. at2 = prev[t[e]]
        BY <1>0, <2>2, <3>2
      <4>2. prev[t[e]] = Nth(t, e - 1)
        <5> HIDE DEF e
        <5> QED BY <1>16, <3>1
      <4> QED BY <3>1, <4>1, <4>2
    <3>4. Spliced(s2, t, data', so, od, i, k + 1, Len(t) - (k + 1))
      <4>1. Spliced(s, t, data, so, od, i, k, Len(t) - k)
        BY <1>15, <2>2
      <4>2. data' = [data EXCEPT ![n] = data[t[Len(t) - k]]]
        BY <1>0, <1>10, <3>2
      <4>3. s2 = Ins(s, i, n)
        BY <2>2 DEF s2
      <4> HIDE DEF k
      <4>4. Spliced(Ins(s, i, n), t, data', so, od, i, k + 1, Len(t) - (k + 1))
        BY <1>3, <1>12, <1>17, <4>1, <4>2, SplicedBack
      <4> QED BY <4>3, <4>4
    <3> QED BY <2>2, <3>3, <3>4
  <2> QED BY <2>1, <2>2
<1>19. n = Nth(s2, h + 1)
  <2>1. s \in Seq(Nodes) /\ h \in 0 .. Len(s) /\ n \in Nodes
    BY <1>3, <1>7
  <2> HIDE DEF h
  <2>2. Len(s2) = Len(s) + 1 /\ s2[h + 1] = n
    BY ONLY <2>1, InsLen DEF s2
  <2>3. h + 1 \in 1 .. Len(s2)
    BY ONLY <2>1, <2>2
  <2> QED BY <2>2, <2>3 DEF Nth
<1>20. Progress(s2, t, data', c2, so, od, i)
  <2>1. Places(c2.op, c2.place, so, i) /\ c2.old = Entries(so, od)
    BY <1>14, <1>15
  <2>2. Spliced(s2, t, data', so, od, i, c2.added, IF c2.op \in L!Forward THEN 0 ELSE Len(t) - c2.added)
    BY <1>14, <1>18
  <2>3. c2.at = IF c2.op \in L!Forward THEN Nth(t, c2.added + 1) ELSE Nth(t, Len(t) - c2.added)
    BY <1>14, <1>18
  <2>4. c2.op = "AddAfter" => c2.p = Nth(s2, i + c2.added)
    <3>1. (i + k) + 1 = i + (k + 1)
      <4> HIDE DEF k
      <4> QED BY <1>6
    <3> QED BY <1>8, <1>14, <1>19, <3>1
  <2>5. c2.op = "AddBefore" => c2.p = Nth(s2, i + 1)
    BY <1>8, <1>14, <1>19
  <2> QED BY <2>1, <2>2, <2>3, <2>4, <2>5 DEF Progress
<1>21. Copies(ch2, c2, data')
  <2>1. \E so2, od2, i2 : Progress(ch2[c2.to], ch2[c2.from], data', c2, so2, od2, i2)
    BY <1>11, <1>14, <1>20
  <2>2. c2.op \in Ops /\ c2.to \in Lists /\ c2.from \in Lists /\ c2.to # c2.from
    BY <1>1, <1>14
  <2>3. c2 = [op |-> c2.op, to |-> c2.to, from |-> c2.from, p |-> c2.p, at |-> c2.at,
              place |-> c2.place, old |-> c2.old, added |-> c2.added]
    BY DEF c2
  <2> QED BY <2>1, <2>2, <2>3 DEF Copies
<1>22. Copies(ch2, copying', data')
  BY <1>13, <1>21
<1>23. PICK ca2 : Lst(ch2, ca2)'
  BY <1>10
<1> QED BY <1>22, <1>23, StillCopies

(***************************************************************************)
(* The invariant holds at every step                                       *)
(***************************************************************************)

\* A node of a list, or NULL, is somewhere in its chain.
LEMMA PlaceOf ==
  ASSUME NEW ch, NEW ca, Lst(ch, ca), NEW l \in Lists, NEW p, p \in L!InList(l) \cup {NoNode}
  PROVE  /\ \E i \in 0 .. Len(ch[l]) : p = Nth(ch[l], i)
         /\ \E i \in 0 .. Len(ch[l]) : p = Nth(ch[l], i + 1)
<1> DEFINE s == ch[l]
<1>1. Chained(s, next, prev, first[l], last[l]) /\ s \in Seq(Nodes) /\ Len(s) \in Nat
  BY DEF Lst, ListsOK, Chained, Distinct
<1>2. p \in L!InList(l) => In(s, p)
  BY InListIs
<1> HIDE DEF s
<1>3. CASE p = NoNode
  <2>1. 0 \in 0 .. Len(s) /\ Len(s) \in 0 .. Len(s) /\ 0 \notin 1 .. Len(s) /\ Len(s) + 1 \notin 1 .. Len(s)
    BY <1>1
  <2>2. Nth(s, 0) = NoNode /\ Nth(s, Len(s) + 1) = NoNode
    BY <2>1 DEF Nth
  <2> QED BY <1>3, <2>1, <2>2 DEF s
<1>4. CASE p # NoNode
  <2>1. PICK j \in 1 .. Len(s) : p = s[j]
    BY <1>2, <1>4 DEF In
  <2> DEFINE i == j - 1
  <2>2. j \in 0 .. Len(s) /\ i \in 0 .. Len(s) /\ i + 1 = j
    BY <1>1
  <2> HIDE DEF i
  <2>3. p = Nth(s, j) /\ p = Nth(s, i + 1)
    BY <2>1, <2>2 DEF Nth
  <2> QED BY <2>2, <2>3 DEF s
<1> QED BY <1>3, <1>4

\* The four calls that add an element.
LEMMA AddTailIs ==
  ASSUME NEW ch, NEW ca, Lst(ch, ca), NEW l \in Lists, NEW x, L!AddTailI(l, x)
  PROVE  copying' = L!NotCopying /\ \E n : Added(ch, l, Len(ch[l]), n, x)
<1>1. PICK n \in Nodes : L!TakeNode(l, n) /\ L!LinkTail(l, n, x)
  BY DEF L!AddTailI
<1>2. Added(ch, l, Len(ch[l]), n, x)
  BY <1>1, AddsTail
<1> QED BY <1>2 DEF L!AddTailI

LEMMA AddHeadIs ==
  ASSUME NEW ch, NEW ca, Lst(ch, ca), NEW l \in Lists, NEW x, L!AddHeadI(l, x)
  PROVE  copying' = L!NotCopying /\ \E n : Added(ch, l, 0, n, x)
<1>1. PICK n \in Nodes : L!TakeNode(l, n) /\ L!LinkHead(l, n, x)
  BY DEF L!AddHeadI
<1>2. Added(ch, l, 0, n, x)
  BY <1>1, AddsHead
<1> QED BY <1>2 DEF L!AddHeadI

LEMMA AddAfterIs ==
  ASSUME NEW ch, NEW ca, Lst(ch, ca), NEW l \in Lists, NEW x,
         NEW p, p \in L!InList(l) \cup {NoNode}, L!AddAfterI(l, p, x)
  PROVE  /\ copying' = L!NotCopying
         /\ \E i, n : i \in 0 .. Len(ch[l]) /\ p = Nth(ch[l], i) /\ Added(ch, l, i, n, x)
<1>1. PICK n \in Nodes : L!TakeNode(l, n) /\ L!LinkAfter(l, p, n, x)
  BY DEF L!AddAfterI
<1>2. PICK i \in 0 .. Len(ch[l]) : p = Nth(ch[l], i)
  BY PlaceOf
<1>3. Added(ch, l, i, n, x)
  BY <1>1, <1>2, AddsAfter
<1> QED BY <1>2, <1>3 DEF L!AddAfterI

LEMMA AddBeforeIs ==
  ASSUME NEW ch, NEW ca, Lst(ch, ca), NEW l \in Lists, NEW x,
         NEW p, p \in L!InList(l) \cup {NoNode}, L!AddBeforeI(l, p, x)
  PROVE  /\ copying' = L!NotCopying
         /\ \E i, n : i \in 0 .. Len(ch[l]) /\ p = Nth(ch[l], i + 1) /\ Added(ch, l, i, n, x)
<1>1. PICK n \in Nodes : L!TakeNode(l, n) /\ L!LinkBefore(l, p, n, x)
  BY DEF L!AddBeforeI
<1>2. PICK i \in 0 .. Len(ch[l]) : p = Nth(ch[l], i + 1)
  BY PlaceOf
<1>3. Added(ch, l, i, n, x)
  BY <1>1, <1>2, AddsBefore
<1> QED BY <1>2, <1>3 DEF L!AddBeforeI

\* The two calls that move a part of a list.
LEMMA BothFound ==
  ASSUME NEW ch, NEW ca, Lst(ch, ca), NEW l \in Lists, NEW m \in Lists, l # m,
         NEW p, p \in L!InList(l)
  PROVE  \E i : Both(ch, ca, l, m, i, p)
<1>1. In(ch[l], p)
  BY InListIs
<1>2. PICK i \in 1 .. Len(ch[l]) : ch[l][i] = p
  BY <1>1 DEF In
<1> QED BY <1>2 DEF Both

LEMMA MoveToTailIs ==
  ASSUME NEW ch, NEW ca, Lst(ch, ca), NEW l \in Lists, NEW m \in Lists, NEW p, L!MoveToTail(l, p, m)
  PROVE  /\ copying' = L!NotCopying
         /\ \E i : /\ Both(ch, ca, l, m, i, p) /\ data' = data
                   /\ Lst([ch EXCEPT ![l] = Past(ch[l], i), ![m] = Join(ch[m], Upto(ch[l], i))], ca)'
<1>1. l # m /\ p \in L!InList(l) /\ copying' = L!NotCopying
  BY DEF L!MoveToTail
<1>2. PICK i : Both(ch, ca, l, m, i, p)
  BY <1>1, BothFound
<1>3. Lst([ch EXCEPT ![l] = Past(ch[l], i), ![m] = Join(ch[m], Upto(ch[l], i))], ca)'
  BY <1>2, MoveTailKeeps
<1>4. data' = data
  BY <1>2, MoveTailKeeps
<1> QED BY <1>1, <1>2, <1>3, <1>4

LEMMA MoveToHeadIs ==
  ASSUME NEW ch, NEW ca, Lst(ch, ca), NEW l \in Lists, NEW m \in Lists, NEW p, L!MoveToHead(l, p, m)
  PROVE  /\ copying' = L!NotCopying
         /\ \E i, k : /\ Both(ch, ca, l, m, i, p) /\ k = i - 1 /\ data' = data
                      /\ Lst([ch EXCEPT ![l] = Upto(ch[l], k), ![m] = Join(Past(ch[l], k), ch[m])], ca)'
<1>1. l # m /\ p \in L!InList(l) /\ copying' = L!NotCopying
  BY DEF L!MoveToHead
<1>2. PICK i : Both(ch, ca, l, m, i, p)
  BY <1>1, BothFound
<1>3. PICK k : k = i - 1
  OBVIOUS
<1>4. Lst([ch EXCEPT ![l] = Upto(ch[l], k), ![m] = Join(Past(ch[l], k), ch[m])], ca)'
  BY <1>2, <1>3, MoveHeadKeeps
<1>5. data' = data
  BY <1>2, <1>3, MoveHeadKeeps
<1> QED BY <1>1, <1>2, <1>3, <1>4, <1>5

LEMMA NoLongerCopies ==
  ASSUME NEW ch, \E ca : Lst(ch, ca)', copying' = L!NotCopying
  PROVE  ListInv'
BY DEF ListInv, L!NotCopying

LEMMA AddedKeeps ==
  ASSUME NEW ch, NEW l, NEW i, NEW n, NEW x, Added(ch, l, i, n, x), copying' = L!NotCopying
  PROVE  ListInv'
<1>1. \E ca2 : Lst([ch EXCEPT ![l] = Ins(ch[l], i, n)], ca2)'
  BY DEF Added
<1> QED BY <1>1, NoLongerCopies

LEMMA ListInit ==
  ASSUME L!Init
  PROVE  ListInv
<1> DEFINE ch == [l \in Lists |-> <<>>]
<1>1. ListsOK(ch, next, prev, first, last, count)
  <2>1. /\ \A l \in Lists : first[l] = NoNode /\ last[l] = NoNode /\ count[l] = 0
        /\ next \in [Nodes -> L!Position] /\ prev \in [Nodes -> L!Position]
        /\ first \in [Lists -> L!Position] /\ last \in [Lists -> L!Position]
        /\ count \in [Lists -> Int]
    BY DEF L!Init, L!Position
  <2>2. /\ Chained(<<>>, next, prev, NoNode, NoNode) /\ <<>> \in Seq(Nodes) /\ Len(<<>>) = 0
    BY EmptyChain
  <2>3. ch \in [Lists -> Seq(Nodes)] /\ \A l \in Lists : ch[l] = <<>>
    BY <2>2
  <2> HIDE DEF ch
  <2> QED BY <2>1, <2>2, <2>3 DEF ListsOK
<1>2. CachesOK(ch, next, cached, used)
  <2>1. /\ \A l \in Lists : cached[l] = NoNode /\ used[l] = 0
        /\ cached \in [Lists -> L!Position] /\ used \in [Lists -> Int]
    BY DEF L!Init, L!Position
  <2>2. Leads(<<>>, next, NoNode) /\ <<>> \in Seq(Nodes) /\ Len(<<>>) = 0
    BY EmptyChain
  <2>3. ch \in [Lists -> Seq(Nodes)] /\ \A l \in Lists : ch[l] = <<>>
    BY <2>2
  <2>4. 0 <= CacheSize
    BY ListsAssumption
  <2> HIDE DEF ch
  <2> QED BY <2>1, <2>2, <2>3, <2>4 DEF CachesOK
<1>3. Apart(ch, ch, {}, spare)
  <2>1. \A x : ~In(<<>>, x)
    BY EmptyChain
  <2>2. \A l \in Lists : ch[l] = <<>>
    OBVIOUS
  <2>3. spare = Nodes
    BY DEF L!Init
  <2> HIDE DEF ch
  <2> QED BY <2>1, <2>2, <2>3 DEF Apart
<1>4. data = [n \in Nodes |-> data[n]] /\ copying = L!NotCopying
  BY DEF L!Init
<1> HIDE DEF ch
<1> QED BY <1>1, <1>2, <1>3, <1>4 DEF ListInv, Lst

LEMMA ListFrame ==
  ASSUME ListInv, UNCHANGED listVars
  PROVE  ListInv'
<1>1. PICK ch, ca : Lst(ch, ca) /\ (copying = L!NotCopying \/ Copies(ch, copying, data))
  BY DEF ListInv
<1>2. Lst(ch, ca)'
  BY <1>1 DEF Lst, listVars
<1>3. copying' = copying /\ data' = data
  BY DEF listVars
<1>4. CASE copying = L!NotCopying
  BY <1>2, <1>3, <1>4, NoLongerCopies
<1>5. CASE Copies(ch, copying, data)
  BY <1>2, <1>3, <1>5, StillCopies
<1> QED BY <1>1, <1>4, <1>5

\* Every step of the lists keeps the invariant.
LEMMA ListStep ==
  ASSUME ListInv, L!Next
  PROVE  ListInv'
<1>1. PICK ch, ca : Lst(ch, ca) /\ (copying = L!NotCopying \/ Copies(ch, copying, data))
  BY DEF ListInv
<1>2. ASSUME NEW l \in Lists, NEW x \in Objects, L!AddTailI(l, x) PROVE ListInv'
  BY <1>1, <1>2, AddTailIs, AddedKeeps
<1>3. ASSUME NEW l \in Lists, NEW x \in Objects, L!AddHeadI(l, x) PROVE ListInv'
  BY <1>1, <1>3, AddHeadIs, AddedKeeps
<1>4. ASSUME NEW l \in Lists, NEW x \in Objects, NEW p, p \in L!InList(l) \cup {NoNode},
             L!AddAfterI(l, p, x)
      PROVE  ListInv'
  BY <1>1, <1>4, AddAfterIs, AddedKeeps
<1>5. ASSUME NEW l \in Lists, NEW x \in Objects, NEW p, p \in L!InList(l) \cup {NoNode},
             L!AddBeforeI(l, p, x)
      PROVE  ListInv'
  BY <1>1, <1>5, AddBeforeIs, AddedKeeps
<1>6. ASSUME NEW l \in Lists, NEW p \in Nodes, L!RemoveI(l, p) PROVE ListInv'
  <2>1. PICK i : Removed(ch, l, i, p)
    BY <1>1, <1>6, RemoveKeeps
  <2>2. \E ca2 : Lst([ch EXCEPT ![l] = Del(ch[l], i)], ca2)'
    BY <2>1 DEF Removed
  <2>3. copying' = L!NotCopying
    BY <1>6 DEF L!RemoveI
  <2> QED BY <2>2, <2>3, NoLongerCopies
<1>7. ASSUME NEW l \in Lists, L!RemoveAll(l) \/ L!Destroy(l) PROVE ListInv'
  <2>1. Emptied(ch, l)
    BY <1>1, <1>7, RemoveAllKeeps, DestroyKeeps
  <2>2. \E ca2 : Lst([ch EXCEPT ![l] = <<>>], ca2)'
    BY <2>1 DEF Emptied
  <2>3. copying' = L!NotCopying
    BY <1>7 DEF L!RemoveAll, L!Destroy
  <2> QED BY <2>2, <2>3, NoLongerCopies
<1>8. ASSUME NEW l \in Lists, L!Reverse(l) PROVE ListInv'
  <2>1. Lst([ch EXCEPT ![l] = Turn(ch[l])], ca)'
    BY <1>1, <1>8, ReverseKeeps
  <2>2. copying' = L!NotCopying
    BY <1>8 DEF L!Reverse
  <2> QED BY <2>1, <2>2, NoLongerCopies
<1>9. ASSUME NEW l \in Lists, NEW m \in Lists, NEW p \in Nodes, L!MoveToTail(l, p, m) PROVE ListInv'
  BY <1>1, <1>9, MoveToTailIs, NoLongerCopies
<1>10. ASSUME NEW l \in Lists, NEW m \in Lists, NEW p \in Nodes, L!MoveToHead(l, p, m) PROVE ListInv'
  BY <1>1, <1>10, MoveToHeadIs, NoLongerCopies
<1>11. ASSUME NEW op \in {"AddTail", "AddHead", "AddAfter", "AddBefore"}, NEW l \in Lists,
              NEW m \in Lists, NEW p \in L!Position, L!CopyList(op, l, m, p)
       PROVE  ListInv'
  <2>1. op \in Ops
    BY DEF Ops
  <2> QED BY <1>1, <1>11, <2>1, CopyListKeeps
<1>12. ASSUME L!CopyOne PROVE ListInv'
  <2>1. copying # L!NotCopying
    BY <1>12 DEF L!CopyOne
  <2> QED BY <1>1, <1>12, <2>1, CopyOneKeeps
<1>13. ASSUME L!CopyEnds PROVE ListInv'
  <2>1. copying' = L!NotCopying
    BY <1>13 DEF L!CopyEnds
  <2>2. Lst(ch, ca)'
    BY <1>1, <1>13 DEF L!CopyEnds, L!chainVars, L!cacheVars, Lst
  <2> QED BY <2>1, <2>2, NoLongerCopies
<1> QED BY <1>2, <1>3, <1>4, <1>5, <1>6, <1>7, <1>8, <1>9, <1>10, <1>11, <1>12, <1>13 DEF L!Next

(***************************************************************************)
(* The copies are in their place                                           *)
(***************************************************************************)

\* A part of a sequence, element by element.
Listed(s, n) == n \in Nat /\ s = [j \in 1 .. n |-> s[j]]

Piece(s, a, w) == [j \in 1 .. w |-> s[j + a - 1]]

LEMMA SubSeqAt ==
  ASSUME NEW n, NEW s, Listed(s, n),
         NEW a \in 1 .. n + 1, NEW b \in a - 1 .. n, NEW w, w = b - a + 1
  PROVE  SubSeq(s, a, b) = Piece(s, a, w)
<1>0. n \in Nat /\ s = [j \in 1 .. n |-> s[j]]
  BY DEF Listed
<1> DEFINE S == {s[j] : j \in 1 .. n}
<1>1. \A j \in 1 .. n : s[j] \in S
  OBVIOUS
<1>2. s \in [1 .. n -> S]
  <2> HIDE DEF S
  <2> QED BY <1>0, <1>1
<1> HIDE DEF S
<1>3. s \in Seq(S) /\ Len(s) = n
  BY <1>0, <1>2, MakesSeq
<1>4. a \in 1 .. Len(s) + 1 /\ b \in a - 1 .. Len(s)
  BY <1>0, <1>3
<1> DEFINE u == SubSeq(s, a, b)
<1>5. /\ u \in Seq(S) /\ Len(u) = b - a + 1
      /\ \A j \in 1 .. b - a + 1 : u[j] = s[j + a - 1]
  <2>1. u \in Seq(S) /\ Len(u) = b - a + 1
    BY <1>3, <1>4, SubSeqProperties
  <2>2. ASSUME NEW j \in 1 .. b - a + 1 PROVE u[j] = s[j + a - 1]
    <3>1. u[j] = s[a + j - 1]
      BY <1>3, <1>4, SubSeqProperties
    <3>2. a + j - 1 = j + a - 1
      OBVIOUS
    <3> QED BY <3>1, <3>2
  <2> QED BY <2>1, <2>2
<1>6. u = [j \in 1 .. Len(u) |-> u[j]]
  <2> HIDE DEF u
  <2> QED BY <1>5
<1> HIDE DEF u
<1>7. u = [j \in 1 .. b - a + 1 |-> s[j + a - 1]]
  BY <1>5, <1>6
<1> QED BY <1>7 DEF u, Piece

LEMMA EntriesAre ==
  ASSUME NEW s \in Seq(Nodes), NEW d
  PROVE  /\ Len(s) \in Nat /\ Len(Entries(s, d)) = Len(s) /\ DOMAIN Entries(s, d) = 1 .. Len(s)
         /\ Entries(s, d) = [j \in 1 .. Len(s) |-> Entries(s, d)[j]]
         /\ \A j \in 1 .. Len(s) : /\ Entries(s, d)[j] = [pos |-> s[j], obj |-> d[s[j]]]
                                  /\ Entries(s, d)[j].pos = s[j] /\ Entries(s, d)[j].obj = d[s[j]]
BY DEF Entries

LEMMA EntryIs ==
  ASSUME NEW s \in Seq(Nodes), NEW d, NEW j \in 1 .. Len(s)
  PROVE  /\ Entries(s, d)[j] = [pos |-> s[j], obj |-> d[s[j]]]
         /\ Entries(s, d)[j].pos = s[j] /\ Entries(s, d)[j].obj = d[s[j]]
BY DEF Entries

LEMMA EntriesListed ==
  ASSUME NEW s \in Seq(Nodes), NEW d
  PROVE  Listed(Entries(s, d), Len(s)) /\ Len(Entries(s, d)) = Len(s)
BY DEF Entries, Listed

LEMMA ObjsAre ==
  ASSUME NEW n, NEW e, Listed(e, n)
  PROVE  L!Objs(e) = [j \in 1 .. n |-> e[j].obj] /\ Listed(L!Objs(e), n)
BY DEF L!Objs, Listed

\* The position of an entry is where it is.
LEMMA EntryAt ==
  ASSUME NEW s, Distinct(s), NEW d, NEW i \in 1 .. Len(s)
  PROVE  (CHOOSE j \in DOMAIN Entries(s, d) : Entries(s, d)[j].pos = s[i]) = i
<1>1. s \in Seq(Nodes) /\ \A j \in 1 .. Len(s) : s[j] = s[i] => j = i
  BY DEF Distinct
<1>2. DOMAIN Entries(s, d) = 1 .. Len(s)
  BY <1>1, EntriesAre
<1>3. \A j \in 1 .. Len(s) : Entries(s, d)[j].pos = s[j]
  BY <1>1 DEF Entries
<1> DEFINE e == Entries(s, d)
           P(j) == j \in DOMAIN e /\ e[j].pos = s[i]
<1>4. i \in DOMAIN e /\ e[i].pos = s[i]
  BY <1>2, <1>3
<1>5. \A j \in DOMAIN e : e[j].pos = s[i] => j = i
  BY <1>1, <1>2, <1>3
<1> HIDE DEF e
<1>6. (CHOOSE j \in DOMAIN e : e[j].pos = s[i]) = i
  BY <1>4, <1>5
<1> QED BY <1>6 DEF e

\* The place that c records.
LEMMA InFrontIs ==
  ASSUME NEW c, c.op \in Ops, NEW so, NEW od, NEW i, Distinct(so), Places(c.op, c.place, so, i),
         c.old = Entries(so, od)
  PROVE  L!InFront(c) = i
<1>1. i \in 0 .. Len(so) /\ so \in Seq(Nodes) /\ Len(c.old) = Len(so) /\ Len(so) \in Nat
  BY EntriesAre DEF Places, Distinct
<1>2. CASE c.place = NoNode
  <2>1. \A j : Nth(so, j) = NoNode => j \notin 1 .. Len(so)
    BY <1>1, NthIsNode
  <2>2. c.op = "AddTail" => i = Len(so)
    BY DEF Places
  <2>3. c.op = "AddHead" => i = 0
    BY DEF Places
  <2>4. c.op = "AddAfter" => i = 0
    <3>1. c.op = "AddAfter" => Nth(so, i) = NoNode
      BY <1>2 DEF Places
    <3>2. c.op = "AddAfter" => i \notin 1 .. Len(so)
      BY <2>1, <3>1
    <3> QED BY <1>1, <3>2
  <2>5. c.op = "AddBefore" => i = Len(so)
    <3>1. c.op = "AddBefore" => Nth(so, i + 1) = NoNode
      BY <1>2 DEF Places
    <3>2. c.op = "AddBefore" => i + 1 \notin 1 .. Len(so)
      BY <2>1, <3>1
    <3> QED BY <1>1, <3>2
  <2> QED BY <1>1, <1>2, <2>2, <2>3, <2>4, <2>5 DEF L!InFront, Ops
<1>3. CASE c.place # NoNode
  <2>1. \A j : Nth(so, j) # NoNode => j \in 1 .. Len(so) /\ Nth(so, j) = so[j]
    BY <1>1, NthIsNode
  <2>2. c.op = "AddAfter" \/ c.op = "AddBefore"
    BY <1>3 DEF Places, Ops
  <2>3. CASE c.op = "AddAfter"
    <3>1. i \in 1 .. Len(so) /\ c.place = so[i]
      BY <1>3, <2>1, <2>3 DEF Places
    <3>2. (CHOOSE j \in DOMAIN c.old : c.old[j].pos = c.place) = i
      BY <3>1, EntryAt
    <3> QED BY <1>3, <2>3, <3>2 DEF L!InFront
  <2>4. CASE c.op = "AddBefore"
    <3> DEFINE h == i + 1
    <3>1. h \in 1 .. Len(so) /\ c.place = so[h]
      BY <1>3, <2>1, <2>4 DEF Places
    <3>2. (CHOOSE j \in DOMAIN c.old : c.old[j].pos = c.place) = h
      <4> HIDE DEF h
      <4> QED BY <3>1, EntryAt
    <3>3. L!InFront(c) = h - 1
      BY <1>3, <2>4, <3>2 DEF L!InFront
    <3> QED BY <1>1, <3>3
  <2> QED BY <2>2, <2>3, <2>4
<1> QED BY <1>2, <1>3

\* The entries eo are in e, with others between the first i and the rest.
Kept(e, eo, i, k) ==
  /\ SubSeq(e, 1, i) = SubSeq(eo, 1, i)
  /\ SubSeq(e, i + k + 1, Len(e)) = SubSeq(eo, i + 1, Len(eo))

Copied(e, et, i, k, skip) ==
  L!Objs(SubSeq(e, i + 1, i + k)) = SubSeq(L!Objs(et), skip + 1, skip + k)

\* What the list shows of a copying: the old entries in place, and between
\* them the part copied so far.
LEMMA SplicedShows ==
  ASSUME NEW s \in Seq(Nodes), NEW t \in Seq(Nodes), NEW d, NEW so, NEW od, NEW i, NEW k, NEW skip,
         Spliced(s, t, d, so, od, i, k, skip)
  PROVE  /\ Kept(Entries(s, d), Entries(so, od), i, k)
         /\ skip \in 0 .. Len(t) - k => Copied(Entries(s, d), Entries(t, d), i, k, skip)
<1> DEFINE e == Entries(s, d)
           eo == Entries(so, od)
           et == Entries(t, d)
<1>1. /\ i \in 0 .. Len(so) /\ k \in 0 .. Len(t) /\ Len(s) = Len(so) + k /\ so \in Seq(Nodes)
      /\ \A j \in 1 .. i : s[j] = so[j] /\ d[s[j]] = od[so[j]]
      /\ \A j \in i + 1 .. Len(so) : s[j + k] = so[j] /\ d[s[j + k]] = od[so[j]]
      /\ \A j \in 1 .. k : d[s[i + j]] = d[t[skip + j]]
  BY DEF Spliced, Distinct
<1>2. Len(s) \in Nat /\ Len(t) \in Nat /\ Len(so) \in Nat
  BY <1>1
<1>3. /\ Listed(e, Len(s)) /\ Len(e) = Len(s) /\ Listed(eo, Len(so)) /\ Len(eo) = Len(so)
      /\ Listed(et, Len(t))
  BY <1>1, EntriesListed
<1>4. \A j \in 1 .. Len(s) : e[j] = [pos |-> s[j], obj |-> d[s[j]]] /\ e[j].obj = d[s[j]]
  BY DEF Entries
<1>5. \A j \in 1 .. Len(so) : eo[j] = [pos |-> so[j], obj |-> od[so[j]]]
  BY <1>1 DEF Entries
<1>51. \A j \in 1 .. Len(t) : et[j].obj = d[t[j]]
  BY DEF Entries
<1> HIDE DEF e, eo, et
<1>6. SubSeq(e, 1, i) = SubSeq(eo, 1, i)
  <2>1. 1 \in 1 .. Len(s) + 1 /\ i \in 1 - 1 .. Len(s) /\ 1 \in 1 .. Len(so) + 1 /\ i \in 1 - 1 .. Len(so)
        /\ i = i - 1 + 1
    BY <1>1, <1>2
  <2>2. SubSeq(e, 1, i) = Piece(e, 1, i)
    BY <1>3, <2>1, SubSeqAt
  <2>3. SubSeq(eo, 1, i) = Piece(eo, 1, i)
    BY <1>3, <2>1, SubSeqAt
  <2>4. ASSUME NEW j \in 1 .. i PROVE e[j + 1 - 1] = eo[j + 1 - 1]
    <3>1. j \in 1 .. Len(s) /\ j \in 1 .. Len(so) /\ j + 1 - 1 = j
      BY <1>1, <1>2
    <3>2. s[j] = so[j] /\ d[s[j]] = od[so[j]]
      BY <1>1
    <3>3. e[j] = [pos |-> s[j], obj |-> d[s[j]]] /\ eo[j] = [pos |-> so[j], obj |-> od[so[j]]]
      BY <1>4, <1>5, <3>1
    <3> QED BY <3>1, <3>2, <3>3
  <2> QED BY <2>2, <2>3, <2>4 DEF Piece
<1>7. SubSeq(e, i + k + 1, Len(e)) = SubSeq(eo, i + 1, Len(eo))
  <2> DEFINE a == i + k + 1
             b == i + 1
             z == Len(so) - i
  <2>1. /\ a \in 1 .. Len(s) + 1 /\ Len(s) \in a - 1 .. Len(s) /\ z = Len(s) - a + 1
        /\ b \in 1 .. Len(so) + 1 /\ Len(so) \in b - 1 .. Len(so) /\ z = Len(so) - b + 1
    BY <1>1, <1>2
  <2>2. \A j \in 1 .. z : /\ j + a - 1 \in 1 .. Len(s) /\ j + b - 1 \in i + 1 .. Len(so)
                          /\ j + b - 1 \in 1 .. Len(so) /\ j + a - 1 = (j + b - 1) + k
    BY <1>1, <1>2
  <2> HIDE DEF a, b, z
  <2>3. SubSeq(e, a, Len(s)) = Piece(e, a, z)
    BY <1>3, <2>1, SubSeqAt
  <2>4. SubSeq(eo, b, Len(so)) = Piece(eo, b, z)
    BY <1>3, <2>1, SubSeqAt
  <2>5. ASSUME NEW j \in 1 .. z PROVE e[j + a - 1] = eo[j + b - 1]
    <3>1. PICK h : h = j + b - 1
      OBVIOUS
    <3>2. h + k \in 1 .. Len(s) /\ h \in i + 1 .. Len(so) /\ h \in 1 .. Len(so) /\ j + a - 1 = h + k
      BY <2>2, <3>1
    <3>3. s[h + k] = so[h] /\ d[s[h + k]] = od[so[h]]
      BY <1>1, <3>2
    <3>4. e[h + k] = [pos |-> s[h + k], obj |-> d[s[h + k]]]
      BY <1>4, <3>2
    <3>5. eo[h] = [pos |-> so[h], obj |-> od[so[h]]]
      BY <1>5, <3>2
    <3> QED BY <3>1, <3>2, <3>3, <3>4, <3>5
  <2>6. SubSeq(e, a, Len(s)) = SubSeq(eo, b, Len(so))
    BY <2>3, <2>4, <2>5 DEF Piece
  <2> QED BY <1>3, <2>6 DEF a, b
<1>8. ASSUME skip \in 0 .. Len(t) - k
      PROVE  L!Objs(SubSeq(e, i + 1, i + k)) = SubSeq(L!Objs(et), skip + 1, skip + k)
  <2> DEFINE a == i + 1
             b == skip + 1
             y == i + k
             z == skip + k
             u == Piece(e, a, k)
             w == L!Objs(et)
  <2>1. /\ a \in 1 .. Len(s) + 1 /\ y \in a - 1 .. Len(s) /\ k = y - a + 1
        /\ b \in 1 .. Len(t) + 1 /\ z \in b - 1 .. Len(t) /\ k = z - b + 1 /\ k \in Nat
    BY <1>1, <1>2, <1>8
  <2>2. \A j \in 1 .. k : /\ j + a - 1 \in 1 .. Len(s) /\ j + b - 1 \in 1 .. Len(t)
                          /\ j + a - 1 = i + j /\ j + b - 1 = skip + j
    BY <1>1, <1>2, <1>8
  <2> HIDE DEF a, b, y, z
  <2>3. SubSeq(e, a, y) = u
    BY <1>3, <2>1, SubSeqAt
  <2>4. w = [j \in 1 .. Len(t) |-> et[j].obj] /\ Listed(w, Len(t))
    BY <1>3, ObjsAre
  <2> HIDE DEF w
  <2>5. \A j \in 1 .. Len(t) : w[j] = et[j].obj
    BY <2>4
  <2>6. SubSeq(w, b, z) = Piece(w, b, k)
    BY <2>1, <2>4, SubSeqAt
  <2>7. Listed(u, k) /\ \A j \in 1 .. k : u[j] = e[j + a - 1]
    BY <2>1 DEF Piece, Listed
  <2> HIDE DEF u
  <2>8. L!Objs(u) = [j \in 1 .. k |-> u[j].obj]
    BY <2>7, ObjsAre
  <2>9. ASSUME NEW j \in 1 .. k PROVE u[j].obj = w[j + b - 1]
    <3>1. PICK f, g : f = j + a - 1 /\ g = j + b - 1
      OBVIOUS
    <3>2. f \in 1 .. Len(s) /\ g \in 1 .. Len(t) /\ f = i + j /\ g = skip + j
      BY <2>2, <3>1
    <3>3. u[j] = e[f] /\ w[g] = et[g].obj
      BY <2>5, <2>7, <3>1, <3>2
    <3>4. e[f].obj = d[s[f]] /\ et[g].obj = d[t[g]]
      BY <1>4, <1>51, <3>2
    <3>5. d[s[i + j]] = d[t[skip + j]]
      BY <1>1
    <3> QED BY <3>1, <3>2, <3>3, <3>4, <3>5
  <2>10. L!Objs(u) = SubSeq(w, b, z)
    BY <2>6, <2>8, <2>9 DEF Piece
  <2> QED BY <2>3, <2>10 DEF a, b, y, z, w
<1> QED BY <1>6, <1>7, <1>8 DEF e, eo, et, Kept, Copied

\* What the run checks of a copying.
LEMMA ShowsInPlace ==
  ASSUME NEW ch, NEW ca, Lst(ch, ca), Copies(ch, copying, data)
  PROVE  L!CopiesInPlace
<1>1. PICK c : c = copying
  OBVIOUS
<1>2. PICK s, t : s = ch[c.to] /\ t = ch[c.from]
  OBVIOUS
<1>3. c.op \in Ops /\ c.to \in Lists /\ c.from \in Lists
  BY <1>1 DEF Copies
<1>4. PICK so, od, i : Progress(s, t, data, c, so, od, i)
  BY <1>1, <1>2 DEF Copies
<1>5. s \in Seq(Nodes) /\ t \in Seq(Nodes) /\ Len(t) \in Nat
  BY <1>2, <1>3 DEF Lst, ListsOK
<1>6. L!Contents(c.to) = Entries(s, data) /\ L!Contents(c.from) = Entries(t, data)
  BY <1>2, <1>3, ContentsAre
<1>7. PICK k, skip : k = c.added /\ skip = IF c.op \in L!Forward THEN 0 ELSE Len(t) - k
  OBVIOUS
<1>8. /\ Places(c.op, c.place, so, i) /\ c.old = Entries(so, od)
      /\ Spliced(s, t, data, so, od, i, k, skip)
  BY <1>4, <1>7 DEF Progress
<1>9. k \in 0 .. Len(t) /\ Distinct(so)
  BY <1>8 DEF Spliced
<1>10. L!InFront(c) = i
  BY <1>3, <1>8, <1>9, InFrontIs
<1>11. skip \in 0 .. Len(t) - k
  BY <1>5, <1>7, <1>9
<1>12. Kept(Entries(s, data), c.old, i, k) /\ Copied(Entries(s, data), Entries(t, data), i, k, skip)
  BY <1>5, <1>8, <1>11, SplicedShows
<1> DEFINE src == L!Objs(Entries(t, data))
           part == IF c.op \in L!Forward THEN SubSeq(src, 1, k)
                   ELSE SubSeq(src, Len(src) - k + 1, Len(src))
<1>13. Len(src) = Len(t)
  <2>1. L!Objs(Entries(t, data)) = [j \in 1 .. Len(t) |-> Entries(t, data)[j].obj]
    BY <1>5, EntriesListed, ObjsAre
  <2> QED BY <1>5, <2>1
<1>14. SubSeq(src, skip + 1, skip + k) = part
  <2> HIDE DEF src
  <2>1. CASE c.op \in L!Forward
    BY <1>7, <1>9, <2>1
  <2>2. CASE c.op \notin L!Forward
    <3>1. skip + 1 = Len(src) - k + 1 /\ skip + k = Len(src)
      BY <1>5, <1>7, <1>9, <1>13, <2>2
    <3> QED BY <2>2, <3>1
  <2> QED BY <2>1, <2>2
<1>15. L!Objs(SubSeq(L!Contents(c.to), i + 1, i + c.added)) =
         (IF c.op \in L!Forward THEN SubSeq(L!Objs(L!Contents(c.from)), 1, c.added)
          ELSE SubSeq(L!Objs(L!Contents(c.from)), Len(L!Objs(L!Contents(c.from))) - c.added + 1,
                      Len(L!Objs(L!Contents(c.from)))))
  BY <1>6, <1>7, <1>12, <1>14 DEF Copied
<1>16. /\ SubSeq(L!Contents(c.to), 1, i) = SubSeq(c.old, 1, i)
       /\ SubSeq(L!Contents(c.to), i + c.added + 1, Len(L!Contents(c.to))) =
            SubSeq(c.old, i + 1, Len(c.old))
  BY <1>6, <1>7, <1>12 DEF Kept
<1>17. L!InFront(copying) = i
  BY <1>1, <1>10
<1>18. /\ SubSeq(L!Contents(copying.to), 1, i) = SubSeq(copying.old, 1, i)
       /\ L!Objs(SubSeq(L!Contents(copying.to), i + 1, i + copying.added)) =
            (IF copying.op \in L!Forward
             THEN SubSeq(L!Objs(L!Contents(copying.from)), 1, copying.added)
             ELSE SubSeq(L!Objs(L!Contents(copying.from)),
                         Len(L!Objs(L!Contents(copying.from))) - copying.added + 1,
                         Len(L!Objs(L!Contents(copying.from)))))
       /\ SubSeq(L!Contents(copying.to), i + copying.added + 1, Len(L!Contents(copying.to))) =
            SubSeq(copying.old, i + 1, Len(copying.old))
  BY <1>1, <1>15, <1>16
<1> QED BY ONLY <1>17, <1>18 DEF L!CopiesInPlace

LEMMA ListInvSafe ==
  ASSUME ListInv
  PROVE  L!ListSafety
<1>1. PICK ch, ca : Lst(ch, ca) /\ (copying = L!NotCopying \/ Copies(ch, copying, data))
  BY DEF ListInv
<1>2. L!WellLinked
  BY <1>1, LstWellLinked
<1>3. L!CopiesInPlace
  <2>1. CASE copying = L!NotCopying
    BY <2>1 DEF L!CopiesInPlace
  <2>2. CASE Copies(ch, copying, data)
    BY <1>1, <2>2, ShowsInPlace
  <2> QED BY <1>1, <2>1, <2>2
<1> QED BY <1>2, <1>3 DEF L!ListSafety

(***************************************************************************)
(* Every call does what PlainList says of it                               *)
(***************************************************************************)

\* The contents of all lists.
Held(ch, d) == [q \in Lists |-> Entries(ch[q], d)]

LEMMA HeldIs ==
  ASSUME NEW ch, NEW ca, Lst(ch, ca)
  PROVE  [q \in Lists |-> L!Contents(q)] = Held(ch, data)
<1>1. \A q \in Lists : L!Contents(q) = Entries(ch[q], data)
  BY ContentsAre
<1> QED BY <1>1 DEF Held

LEMMA HeldThen ==
  ASSUME NEW ch, NEW ca
  PROVE  (Lst(ch, ca) => [q \in Lists |-> L!Contents(q)] = Held(ch, data))'
<1>1. Lst(ch, ca) => [q \in Lists |-> L!Contents(q)] = Held(ch, data)
  BY HeldIs
<1> QED BY <1>1, PTL

LEMMA HeldNext ==
  ASSUME NEW ch, \E ca : Lst(ch, ca)'
  PROVE  [q \in Lists |-> L!Contents(q)]' = Held(ch, data')
<1>1. PICK ca : Lst(ch, ca)'
  OBVIOUS
<1> QED BY <1>1, HeldThen

\* A node is taken for a new entry.
LEMMA Inserting ==
  ASSUME NEW c, c = [q \in Lists |-> L!Contents(q)],
         NEW c2, c2 = [q \in Lists |-> L!Contents(q)]',
         NEW l \in Lists, NEW i, NEW n \in Nodes \ L!Plain!InUse, NEW x,
         c2 = [c EXCEPT ![l] = SubSeq(@, 1, i) \o <<[pos |-> n, obj |-> x]>> \o SubSeq(@, i + 1, Len(@))]
  PROVE  L!Plain!Inserts(l, i, x)
BY DEF L!Plain!Inserts

LEMMA InUseIs ==
  ASSUME NEW ch, NEW ca, Lst(ch, ca), NEW n \in L!Plain!InUse
  PROVE  \E m \in Lists : In(ch[m], n)
<1>1. PICK m \in Lists : n \in L!Plain!PositionsOf(m)
  BY DEF L!Plain!InUse
<1>2. PICK e \in L!Plain!Range([q \in Lists |-> L!Contents(q)][m]) : n = e.pos
  BY <1>1 DEF L!Plain!PositionsOf
<1>3. e \in L!Plain!Range(Entries(ch[m], data))
  BY <1>2, ContentsAre
<1>4. ch[m] \in Seq(Nodes)
  BY DEF Lst, ListsOK
<1>5. PICK j \in 1 .. Len(ch[m]) : e = Entries(ch[m], data)[j]
  BY <1>3, <1>4, EntriesAre DEF L!Plain!Range
<1>6. e.pos = ch[m][j]
  BY <1>4, <1>5, EntryIs
<1> QED BY <1>2, <1>6 DEF In

\* The ways PlainList takes a sequence apart and puts it together.
LEMMA UptoAs ==
  ASSUME NEW s, NEW n, Listed(s, n), NEW i \in 0 .. n
  PROVE  SubSeq(s, 1, i) = Upto(s, i)
<1>1. n \in Nat /\ 1 \in 1 .. n + 1 /\ i \in 1 - 1 .. n /\ i = i - 1 + 1
  BY DEF Listed
<1>2. SubSeq(s, 1, i) = Piece(s, 1, i)
  BY <1>1, SubSeqAt
<1>3. \A j \in 1 .. i : j + 1 - 1 = j
  OBVIOUS
<1> QED BY <1>2, <1>3 DEF Piece, Upto

LEMMA PastAs ==
  ASSUME NEW s, NEW n, Listed(s, n), NEW i \in 0 .. n
  PROVE  SubSeq(s, i + 1, n) = Past(s, i)
<1> DEFINE a == i + 1
           w == n - i
<1>1. n \in Nat /\ a \in 1 .. n + 1 /\ n \in a - 1 .. n /\ w = n - a + 1 /\ Len(s) = n
  BY DEF Listed
<1>2. \A j \in 1 .. w : j + a - 1 = j + i
  BY <1>1
<1> HIDE DEF a, w
<1>3. SubSeq(s, a, n) = Piece(s, a, w)
  BY <1>1, SubSeqAt
<1>4. Past(s, i) = [j \in 1 .. w |-> s[j + i]]
  BY <1>1 DEF Past, w
<1>5. SubSeq(s, a, n) = Past(s, i)
  BY <1>2, <1>3, <1>4 DEF Piece
<1> QED BY <1>5 DEF a

LEMMA ListedIs ==
  ASSUME NEW s, NEW n, Listed(s, n)
  PROVE  n \in Nat /\ Len(s) = n /\ \E S : s \in Seq(S)
<1>1. n \in Nat /\ s = [j \in 1 .. n |-> s[j]]
  BY DEF Listed
<1> DEFINE S == {s[j] : j \in 1 .. n}
<1>2. \A j \in 1 .. n : s[j] \in S
  OBVIOUS
<1> HIDE DEF S
<1>3. s \in [1 .. n -> S]
  BY <1>1, <1>2
<1>4. s \in Seq(S) /\ Len(s) = n
  BY <1>1, <1>3, MakesSeq
<1> QED BY <1>1, <1>4

LEMMA JoinAs ==
  ASSUME NEW s, NEW n, Listed(s, n), NEW t, NEW m, Listed(t, m)
  PROVE  s \o t = Join(s, t) /\ Listed(Join(s, t), n + m)
<1>1. n \in Nat /\ Len(s) = n /\ m \in Nat /\ Len(t) = m
  BY ListedIs
<1>2. PICK S : s \in Seq(S)
  BY ListedIs
<1>3. PICK T : t \in Seq(T)
  BY ListedIs
<1>4. s \in Seq(S \cup T) /\ t \in Seq(S \cup T)
  BY <1>2, <1>3
<1>5. /\ s \o t \in Seq(S \cup T) /\ Len(s \o t) = n + m
      /\ \A j \in 1 .. n + m : (s \o t)[j] = IF j <= n THEN s[j] ELSE t[j - n]
  BY <1>1, <1>4, ConcatProperties
<1> DEFINE u == s \o t
<1>6. u = [j \in 1 .. n + m |-> u[j]]
  <2>1. u \in Seq(S \cup T) /\ Len(u) = n + m
    BY <1>5
  <2> HIDE DEF u
  <2> QED BY <2>1
<1> HIDE DEF u
<1>7. u = [j \in 1 .. n + m |-> IF j <= n THEN s[j] ELSE t[j - n]]
  BY <1>5, <1>6 DEF u
<1> QED BY <1>1, <1>7 DEF u, Join, Listed

LEMMA PartsListed ==
  ASSUME NEW s, NEW n, Listed(s, n), NEW i \in 0 .. n
  PROVE  Listed(Upto(s, i), i) /\ Listed(Past(s, i), n - i)
BY ListedIs DEF Listed, Upto, Past

LEMMA DelAs ==
  ASSUME NEW s, NEW n, Listed(s, n), NEW i \in 1 .. n
  PROVE  SubSeq(s, 1, i - 1) \o SubSeq(s, i + 1, n) = Del(s, i)
<1> DEFINE k == i - 1
<1>1. n \in Nat /\ Len(s) = n /\ k \in 0 .. n /\ i \in 0 .. n /\ n - i \in Nat /\ k + (n - i) = n - 1
  BY ListedIs
<1> DEFINE a == Upto(s, k)
           b == Past(s, i)
<1>2. SubSeq(s, 1, k) = a /\ Listed(a, k)
  <2> HIDE DEF k
  <2> QED BY <1>1, UptoAs, PartsListed
<1>3. SubSeq(s, i + 1, n) = b /\ Listed(b, n - i)
  BY <1>1, PastAs, PartsListed
<1>4. /\ \A j \in 1 .. k : a[j] = s[j]
      /\ \A j \in 1 .. n - i : b[j] = s[j + i]
  BY <1>1 DEF Upto, Past
<1> HIDE DEF a, b
<1>5. Len(a) = k /\ Len(b) = n - i
  <2> HIDE DEF k
  <2> QED BY <1>2, <1>3, ListedIs
<1>6. a \o b = Join(a, b)
  <2> HIDE DEF k
  <2> QED BY <1>2, <1>3, JoinAs
<1>7. ASSUME NEW j \in 1 .. n - 1
      PROVE  (IF j <= k THEN a[j] ELSE b[j - k]) = IF j < i THEN s[j] ELSE s[j + 1]
  <2>1. CASE j <= k
    BY <1>1, <1>4, <2>1
  <2>2. CASE ~(j <= k)
    <3>1. j - k \in 1 .. n - i /\ (j - k) + i = j + 1 /\ ~(j < i)
      BY <1>1, <2>2
    <3>2. b[j - k] = s[(j - k) + i]
      <4> HIDE DEF k
      <4> QED BY <1>4, <3>1
    <3> QED BY <2>2, <3>1, <3>2
  <2> QED BY <2>1, <2>2
<1>8. Join(a, b) = [j \in 1 .. n - 1 |-> IF j <= k THEN a[j] ELSE b[j - k]]
  <2> HIDE DEF k
  <2> QED BY <1>1, <1>5 DEF Join
<1>9. Join(a, b) = Del(s, i)
  BY <1>1, <1>7, <1>8 DEF Del
<1> QED BY <1>2, <1>3, <1>6, <1>9

LEMMA InsAs ==
  ASSUME NEW s, NEW n, Listed(s, n), NEW i \in 0 .. n, NEW y
  PROVE  SubSeq(s, 1, i) \o <<y>> \o SubSeq(s, i + 1, n) = Ins(s, i, y)
<1>1. n \in Nat /\ Len(s) = n /\ n - i \in Nat
  BY ListedIs
<1> DEFINE a == Upto(s, i)
           b == Past(s, i)
           c == Join(a, <<y>>)
           h == i + 1
<1>2. SubSeq(s, 1, i) = a /\ Listed(a, i) /\ SubSeq(s, h, n) = b /\ Listed(b, n - i)
  BY UptoAs, PastAs, PartsListed
<1>3. Listed(<<y>>, 1)
  BY DEF Listed
<1>4. /\ \A j \in 1 .. i : a[j] = s[j]
      /\ \A j \in 1 .. n - i : b[j] = s[j + i]
  BY <1>1 DEF Upto, Past
<1> HIDE DEF a, b, h
<1>5. a \o <<y>> = c /\ Listed(c, h)
  <2>1. Listed(c, i + 1)
    BY <1>2, <1>3, JoinAs
  <2> QED BY <1>2, <1>3, <2>1, JoinAs DEF h
<1>6. Len(a) = i /\ Len(b) = n - i
  BY <1>2, ListedIs
<1>7. \A j \in 1 .. h : c[j] = IF j <= i THEN s[j] ELSE y
  BY <1>4, <1>6 DEF Join, h
<1> HIDE DEF c
<1>8. Len(c) = h /\ c \o b = Join(c, b)
  BY <1>2, <1>5, ListedIs, JoinAs
<1>9. ASSUME NEW j \in 1 .. n + 1
      PROVE  (IF j <= h THEN c[j] ELSE b[j - h]) =
             IF j <= i THEN s[j] ELSE IF j = i + 1 THEN y ELSE s[j - 1]
  <2>1. CASE j <= h
    <3>1. j \in 1 .. h
      BY <2>1 DEF h
    <3>2. c[j] = IF j <= i THEN s[j] ELSE y
      BY <1>7, <3>1
    <3>3. j <= i \/ j = i + 1
      BY <2>1 DEF h
    <3> QED BY <2>1, <3>2, <3>3
  <2>2. CASE ~(j <= h)
    <3>1. j - h \in 1 .. n - i /\ (j - h) + i = j - 1 /\ ~(j <= i) /\ j # i + 1
      BY <1>1, <2>2 DEF h
    <3>2. b[j - h] = s[(j - h) + i]
      BY <1>4, <3>1
    <3> QED BY <2>2, <3>1, <3>2
  <2> QED BY <2>1, <2>2
<1>10. h + (n - i) = n + 1
  BY <1>1 DEF h
<1>11. Join(c, b) = [j \in 1 .. n + 1 |-> IF j <= h THEN c[j] ELSE b[j - h]]
  BY <1>6, <1>8, <1>10 DEF Join
<1>12. Join(c, b) = Ins(s, i, y)
  BY <1>1, <1>9, <1>11 DEF Ins
<1> QED BY <1>2, <1>5, <1>8, <1>12 DEF h

\* The entries of a chain that changes.
LEMMA EntriesSame ==
  ASSUME NEW s \in Seq(Nodes), NEW d, NEW d2, \A y \in Nodes : In(s, y) => d2[y] = d[y]
  PROVE  Entries(s, d2) = Entries(s, d)
<1>1. \A j \in 1 .. Len(s) : d2[s[j]] = d[s[j]]
  BY DEF In
<1> QED BY <1>1 DEF Entries

LEMMA SameEntries ==
  ASSUME NEW a, NEW b, NEW n, Listed(a, n), Listed(b, n), \A j \in 1 .. n : a[j] = b[j]
  PROVE  a = b
BY DEF Listed

LEMMA InsListed ==
  ASSUME NEW e, NEW n, Listed(e, n), NEW i \in 0 .. n, NEW y
  PROVE  Listed(Ins(e, i, y), n + 1)
BY ListedIs DEF Listed, Ins

LEMMA DelListed ==
  ASSUME NEW e, NEW n, Listed(e, n), NEW i \in 1 .. n
  PROVE  Listed(Del(e, i), n - 1)
<1>1. n \in Nat /\ n - 1 \in Nat /\ Len(e) = n
  BY ListedIs
<1> QED BY <1>1 DEF Listed, Del

LEMMA EntriesIns ==
  ASSUME NEW s, Distinct(s), NEW d, NEW n \in Nodes, NEW x, NEW i \in 0 .. Len(s),
         ~In(s, n), NEW d2, d2[n] = x, \A y \in Nodes : y # n => d2[y] = d[y]
  PROVE  Entries(Ins(s, i, n), d2) = Ins(Entries(s, d), i, [pos |-> n, obj |-> x])
<1> DEFINE e == Entries(s, d)
           s2 == Ins(s, i, n)
           y == [pos |-> n, obj |-> x]
           a == Entries(s2, d2)
           b == Ins(e, i, y)
           z == Len(s) + 1
<1>1. s \in Seq(Nodes) /\ Len(s) \in Nat /\ Len(e) = Len(s) /\ Listed(e, Len(s))
  BY EntriesListed DEF Distinct
<1>2. s2 \in Seq(Nodes) /\ Len(s2) = Len(s) + 1
  BY <1>1, InsLen
<1>3. Listed(a, z)
  <2> HIDE DEF s2
  <2>1. Listed(Entries(s2, d2), Len(s2))
    BY <1>2, EntriesListed
  <2> QED BY <1>2, <2>1
<1>4. Listed(b, z)
  <2> HIDE DEF e, y
  <2> QED BY <1>1, InsListed
<1>5. \A j \in 1 .. Len(s) : s[j] \in Nodes /\ s[j] # n /\ d2[s[j]] = d[s[j]]
  BY <1>1 DEF In
<1>6. \A j \in 1 .. Len(s) : e[j] = [pos |-> s[j], obj |-> d[s[j]]]
  BY DEF Entries
<1>7. \A j \in 1 .. z : a[j] = [pos |-> s2[j], obj |-> d2[s2[j]]]
  <2> HIDE DEF s2
  <2> QED BY <1>2 DEF Entries
<1>8. \A j \in 1 .. z : s2[j] = IF j <= i THEN s[j] ELSE IF j = i + 1 THEN n ELSE s[j - 1]
  BY DEF Ins
<1> HIDE DEF e
<1>9. \A j \in 1 .. z : b[j] = IF j <= i THEN e[j] ELSE IF j = i + 1 THEN y ELSE e[j - 1]
  BY <1>1 DEF Ins
<1> HIDE DEF a, b, s2
<1>10. ASSUME NEW j \in 1 .. z PROVE a[j] = b[j]
  <2>1. CASE j <= i
    <3>1. j \in 1 .. Len(s)
      BY <1>1, <2>1
    <3>2. s2[j] = s[j] /\ b[j] = e[j] /\ d2[s[j]] = d[s[j]]
      BY <1>5, <1>8, <1>9, <2>1, <3>1
    <3>3. e[j] = [pos |-> s[j], obj |-> d[s[j]]]
      BY <1>6, <3>1
    <3>4. a[j] = [pos |-> s2[j], obj |-> d2[s2[j]]]
      BY <1>7
    <3> QED BY ONLY <3>2, <3>3, <3>4
  <2>2. CASE j = i + 1
    <3>1. s2[j] = n /\ b[j] = y
      BY <1>1, <1>8, <1>9, <2>2
    <3> QED BY <1>7, <3>1
  <2>3. CASE j > i + 1
    <3>1. PICK h : h = j - 1
      OBVIOUS
    <3>2. h \in 1 .. Len(s) /\ ~(j <= i) /\ j # i + 1
      BY <1>1, <2>3, <3>1
    <3>3. s2[j] = s[h] /\ b[j] = e[h]
      BY <1>8, <1>9, <3>1, <3>2
    <3>4. d2[s[h]] = d[s[h]]
      BY <1>5, <3>2
    <3>5. e[h] = [pos |-> s[h], obj |-> d[s[h]]]
      BY <1>6, <3>2
    <3>6. a[j] = [pos |-> s2[j], obj |-> d2[s2[j]]]
      BY <1>7
    <3> QED BY ONLY <3>3, <3>4, <3>5, <3>6
  <2> QED BY <1>1, <2>1, <2>2, <2>3
<1> HIDE DEF z
<1>11. a = b
  BY <1>3, <1>4, <1>10, SameEntries
<1> QED BY <1>11 DEF a, b, e, s2

LEMMA EntriesDel ==
  ASSUME NEW s, Distinct(s), NEW d, NEW i \in 1 .. Len(s), NEW d2,
         \A y \in Nodes : In(s, y) /\ y # s[i] => d2[y] = d[y]
  PROVE  Entries(Del(s, i), d2) = Del(Entries(s, d), i)
<1> DEFINE e == Entries(s, d)
           s2 == Del(s, i)
           a == Entries(s2, d2)
           b == Del(e, i)
           z == Len(s) - 1
<1>1. s \in Seq(Nodes) /\ Len(s) \in Nat /\ Len(e) = Len(s) /\ Listed(e, Len(s))
  BY EntriesListed DEF Distinct
<1>2. s2 \in Seq(Nodes) /\ Len(s2) = Len(s) - 1
  BY <1>1, DelIs
<1>3. Listed(a, z)
  <2> HIDE DEF s2
  <2>1. Listed(Entries(s2, d2), Len(s2))
    BY <1>2, EntriesListed
  <2> QED BY <1>2, <2>1
<1>4. Listed(b, z)
  <2> HIDE DEF e
  <2> QED BY <1>1, DelListed
<1>5. \A j \in 1 .. Len(s) : j # i => d2[s[j]] = d[s[j]]
  BY <1>1 DEF In, Distinct
<1>6. \A j \in 1 .. Len(s) : e[j] = [pos |-> s[j], obj |-> d[s[j]]]
  BY DEF Entries
<1>7. \A j \in 1 .. z : a[j] = [pos |-> s2[j], obj |-> d2[s2[j]]]
  <2> HIDE DEF s2
  <2> QED BY <1>2 DEF Entries
<1>8. \A j \in 1 .. z : s2[j] = IF j < i THEN s[j] ELSE s[j + 1]
  BY DEF Del
<1> HIDE DEF e
<1>9. \A j \in 1 .. z : b[j] = IF j < i THEN e[j] ELSE e[j + 1]
  BY <1>1 DEF Del
<1> HIDE DEF a, b, s2
<1>10. ASSUME NEW j \in 1 .. z PROVE a[j] = b[j]
  <2>1. PICK h : h = IF j < i THEN j ELSE j + 1
    OBVIOUS
  <2>2. h \in 1 .. Len(s) /\ h # i
    BY <1>1, <2>1
  <2>3. s2[j] = s[h] /\ b[j] = e[h]
    BY <1>8, <1>9, <2>1
  <2>4. d2[s[h]] = d[s[h]]
    BY <1>5, <2>2
  <2>5. e[h] = [pos |-> s[h], obj |-> d[s[h]]]
    BY <1>6, <2>2
  <2>6. a[j] = [pos |-> s2[j], obj |-> d2[s2[j]]]
    BY <1>7
  <2> QED BY ONLY <2>3, <2>4, <2>5, <2>6
<1> HIDE DEF z
<1>11. a = b
  BY <1>3, <1>4, <1>10, SameEntries
<1> QED BY <1>11 DEF a, b, e, s2

LEMMA EntriesParts ==
  ASSUME NEW s \in Seq(Nodes), NEW d, NEW i \in 0 .. Len(s)
  PROVE  /\ Entries(Upto(s, i), d) = Upto(Entries(s, d), i)
         /\ Entries(Past(s, i), d) = Past(Entries(s, d), i)
<1>1. Len(s) \in Nat /\ Len(Upto(s, i)) = i /\ Len(Past(s, i)) = Len(s) - i /\ Len(Entries(s, d)) = Len(s)
  BY UptoIs, PastIs, EntriesListed
<1>2. \A j \in 1 .. i : j \in 1 .. Len(s) /\ Upto(s, i)[j] = s[j]
  BY <1>1 DEF Upto
<1>3. \A j \in 1 .. Len(s) - i : j + i \in 1 .. Len(s) /\ Past(s, i)[j] = s[j + i]
  BY <1>1 DEF Past
<1>4. \A j \in 1 .. Len(s) : Entries(s, d)[j] = [pos |-> s[j], obj |-> d[s[j]]]
  BY DEF Entries
<1>5. Entries(Upto(s, i), d) = Upto(Entries(s, d), i)
  <2> DEFINE u == Upto(s, i)
             e == Entries(s, d)
  <2>1. Entries(u, d) = [j \in 1 .. i |-> [pos |-> u[j], obj |-> d[u[j]]]]
    BY <1>1 DEF Entries
  <2>2. Upto(e, i) = [j \in 1 .. i |-> e[j]]
    BY DEF Upto
  <2> HIDE DEF u, e
  <2>3. \A j \in 1 .. i : e[j] = [pos |-> u[j], obj |-> d[u[j]]]
    BY <1>2, <1>4 DEF u, e
  <2>4. Entries(u, d) = Upto(e, i)
    BY <2>1, <2>2, <2>3
  <2> QED BY <2>4 DEF u, e
<1>6. Entries(Past(s, i), d) = Past(Entries(s, d), i)
  <2> DEFINE u == Past(s, i)
             e == Entries(s, d)
             z == Len(s) - i
  <2>1. Entries(u, d) = [j \in 1 .. z |-> [pos |-> u[j], obj |-> d[u[j]]]]
    BY <1>1 DEF Entries
  <2>2. Past(e, i) = [j \in 1 .. z |-> e[j + i]]
    BY <1>1 DEF Past
  <2> HIDE DEF u, e
  <2>3. \A j \in 1 .. z : e[j + i] = [pos |-> u[j], obj |-> d[u[j]]]
    BY <1>3, <1>4 DEF u, e
  <2>4. Entries(u, d) = Past(e, i)
    BY <2>1, <2>2, <2>3
  <2> QED BY <2>4 DEF u, e
<1> QED BY <1>5, <1>6

LEMMA EntriesJoin ==
  ASSUME NEW s \in Seq(Nodes), NEW t \in Seq(Nodes), NEW d
  PROVE  Entries(Join(s, t), d) = Join(Entries(s, d), Entries(t, d))
<1> DEFINE e == Entries(s, d)
           g == Entries(t, d)
           u == Join(s, t)
           z == Len(s) + Len(t)
<1>1. Len(s) \in Nat /\ Len(t) \in Nat /\ Len(u) = z /\ Len(e) = Len(s) /\ Len(g) = Len(t)
  <2>1. Len(s) \in Nat /\ Len(t) \in Nat /\ Len(e) = Len(s) /\ Len(g) = Len(t)
    BY EntriesListed
  <2>2. Len(u) = z
    BY JoinIs
  <2> QED BY <2>1, <2>2
<1>2. Entries(u, d) = [j \in 1 .. z |-> [pos |-> u[j], obj |-> d[u[j]]]]
  BY <1>1 DEF Entries
<1>3. \A j \in 1 .. z : u[j] = IF j <= Len(s) THEN s[j] ELSE t[j - Len(s)]
  BY DEF Join
<1>4. /\ \A j \in 1 .. Len(s) : e[j] = [pos |-> s[j], obj |-> d[s[j]]]
      /\ \A j \in 1 .. Len(t) : g[j] = [pos |-> t[j], obj |-> d[t[j]]]
  BY DEF Entries
<1> HIDE DEF e, g
<1>5. Join(e, g) = [j \in 1 .. z |-> IF j <= Len(s) THEN e[j] ELSE g[j - Len(s)]]
  BY <1>1 DEF Join
<1> HIDE DEF u
<1>6. ASSUME NEW j \in 1 .. z
      PROVE  (IF j <= Len(s) THEN e[j] ELSE g[j - Len(s)]) = [pos |-> u[j], obj |-> d[u[j]]]
  <2>1. CASE j <= Len(s)
    <3>1. j \in 1 .. Len(s)
      BY <1>1, <2>1
    <3> QED BY <1>3, <1>4, <2>1, <3>1
  <2>2. CASE ~(j <= Len(s))
    <3>1. PICK h : h = j - Len(s)
      OBVIOUS
    <3>2. h \in 1 .. Len(t)
      BY <1>1, <2>2, <3>1
    <3> QED BY <1>3, <1>4, <2>2, <3>1, <3>2
  <2> QED BY <2>1, <2>2
<1> HIDE DEF z
<1>7. Entries(u, d) = Join(e, g)
  BY <1>2, <1>5, <1>6
<1> QED BY <1>7 DEF u, e, g

LEMMA EntriesTurn ==
  ASSUME NEW s \in Seq(Nodes), NEW d
  PROVE  Entries(Turn(s), d) = Turn(Entries(s, d))
<1> DEFINE e == Entries(s, d)
           u == Turn(s)
<1>1. Len(s) \in Nat /\ Len(u) = Len(s) /\ Len(e) = Len(s)
  BY TurnIs, EntriesListed
<1>2. Entries(u, d) = [j \in 1 .. Len(s) |-> [pos |-> u[j], obj |-> d[u[j]]]]
  BY <1>1 DEF Entries
<1>3. \A j \in 1 .. Len(s) : u[j] = s[Len(s) + 1 - j] /\ Len(s) + 1 - j \in 1 .. Len(s)
  BY <1>1 DEF Turn
<1>4. \A j \in 1 .. Len(s) : e[j] = [pos |-> s[j], obj |-> d[s[j]]]
  BY DEF Entries
<1> HIDE DEF e
<1>5. Turn(e) = [j \in 1 .. Len(s) |-> e[Len(s) + 1 - j]]
  BY <1>1 DEF Turn
<1> HIDE DEF u
<1>6. \A j \in 1 .. Len(s) : e[Len(s) + 1 - j] = [pos |-> u[j], obj |-> d[u[j]]]
  BY <1>3, <1>4
<1>7. Entries(u, d) = Turn(e)
  BY <1>2, <1>5, <1>6
<1> QED BY <1>7 DEF u, e

LEMMA ChainIs ==
  ASSUME NEW ch, NEW ca, Lst(ch, ca), NEW l \in Lists
  PROVE  ch \in [Lists -> Seq(Nodes)] /\ ch[l] \in Seq(Nodes) /\ Distinct(ch[l]) /\ Len(ch[l]) \in Nat
BY DEF Lst, ListsOK, Chained

LEMMA ContentsListed ==
  ASSUME NEW ch, NEW ca, Lst(ch, ca), NEW l \in Lists
  PROVE  /\ [q \in Lists |-> L!Contents(q)][l] = Entries(ch[l], data)
         /\ Listed(Entries(ch[l], data), Len(ch[l])) /\ Len(Entries(ch[l], data)) = Len(ch[l])
<1>1. [q \in Lists |-> L!Contents(q)][l] = Entries(ch[l], data)
  BY ContentsAre
<1>2. Listed(Entries(ch[l], data), Len(ch[l])) /\ Len(Entries(ch[l], data)) = Len(ch[l])
  BY ChainIs, EntriesListed
<1> QED BY <1>1, <1>2

\* The position of an entry, in PlainList.
LEMMA IndexIs ==
  ASSUME NEW ch, NEW ca, Lst(ch, ca), NEW l \in Lists, NEW i \in 1 .. Len(ch[l])
  PROVE  L!Plain!IndexOf(l, ch[l][i]) = i
<1> DEFINE e == [q \in Lists |-> L!Contents(q)][l]
           s == ch[l]
<1>1. s \in Seq(Nodes) /\ \A j \in 1 .. Len(s) : s[j] = s[i] => j = i
  BY ChainIs DEF Distinct
<1>2. e = Entries(s, data)
  BY ContentsListed
<1> HIDE DEF e
<1>3. DOMAIN e = 1 .. Len(s)
  BY <1>1, <1>2, EntriesAre
<1>4. \A j \in 1 .. Len(s) : e[j].pos = s[j]
  BY <1>1, <1>2 DEF Entries
<1>5. i \in DOMAIN e /\ e[i].pos = s[i]
  BY <1>3, <1>4
<1>6. \A j \in DOMAIN e : e[j].pos = s[i] => j = i
  BY <1>1, <1>3, <1>4
<1>7. (CHOOSE j \in DOMAIN e : e[j].pos = s[i]) = i
  BY <1>5, <1>6
<1> QED BY <1>7 DEF e, L!Plain!IndexOf

\* List l now holds e, the others what they held.
Put(f, l, e) == [f EXCEPT ![l] = e]

Elsewhere(ch, l, d, d2) == \A m \in Lists, x \in Nodes : m # l /\ In(ch[m], x) => d2[x] = d[x]

\* One list changes, the entries of the others stay.
LEMMA OneHeld ==
  ASSUME NEW ch \in [Lists -> Seq(Nodes)], NEW l \in Lists, NEW t, NEW d, NEW d2,
         Elsewhere(ch, l, d, d2), NEW ch2, ch2 = Put(ch, l, t)
  PROVE  Held(ch2, d2) = Put(Held(ch, d), l, Entries(t, d2))
<1>1. ASSUME NEW m \in Lists, m # l PROVE Entries(ch[m], d2) = Entries(ch[m], d)
  <2>1. ch[m] \in Seq(Nodes) /\ \A x \in Nodes : In(ch[m], x) => d2[x] = d[x]
    BY <1>1 DEF Elsewhere
  <2> QED BY <2>1, EntriesSame
<1>2. \A m \in Lists : Entries([ch EXCEPT ![l] = t][m], d2) =
                         IF m = l THEN Entries(t, d2) ELSE Entries(ch[m], d)
  <2> TAKE m \in Lists
  <2>1. CASE m = l
    BY <2>1
  <2>2. CASE m # l
    <3>1. [ch EXCEPT ![l] = t][m] = ch[m]
      BY <2>2
    <3> QED BY <1>1, <2>2, <3>1
  <2> QED BY <2>1, <2>2
<1>3. Held(ch, d) = [q \in Lists |-> Entries(ch[q], d)]
  BY DEF Held
<1>4. Held(ch2, d2) = [q \in Lists |-> Entries([ch EXCEPT ![l] = t][q], d2)]
  BY DEF Held, Put
<1> QED BY <1>2, <1>3, <1>4 DEF Put

\* Adding an element inserts its entry.
LEMMA AddedPromise ==
  ASSUME NEW ch, NEW ca, Lst(ch, ca), NEW l \in Lists, NEW i, NEW n, NEW x, Added(ch, l, i, n, x)
  PROVE  L!Plain!Inserts(l, i, x)
<1> DEFINE s == ch[l]
           e == Entries(s, data)
           ch2 == [ch EXCEPT ![l] = Ins(s, i, n)]
           c == [q \in Lists |-> L!Contents(q)]
           y == [pos |-> n, obj |-> x]
<1>1. /\ n \in Nodes /\ i \in 0 .. Len(s) /\ (\A m \in Lists : ~In(ch[m], n))
      /\ data' = [data EXCEPT ![n] = x] /\ data = [q \in Nodes |-> data[q]]
  BY DEF Added, Lst
<1>2. \E ca2 : Lst(ch2, ca2)'
  BY DEF Added
<1>3. c' = Held(ch2, data')
  <2> HIDE DEF ch2
  <2> QED BY <1>2, HeldNext
<1>4. ch \in [Lists -> Seq(Nodes)] /\ s \in Seq(Nodes) /\ Distinct(s)
  BY ChainIs
<1>5. data'[n] = x /\ \A q \in Nodes : q # n => data'[q] = data[q]
  BY <1>1
<1>6. Held(ch2, data') = [Held(ch, data) EXCEPT ![l] = Entries(Ins(s, i, n), data')]
  <2>1. \A m \in Lists, q \in Nodes : m # l /\ In(ch[m], q) => data'[q] = data[q]
    BY <1>1, <1>5
  <2>2. PICK t, d2, c2 : t = Ins(s, i, n) /\ d2 = data' /\ c2 = Put(ch, l, t)
    OBVIOUS
  <2>3. Elsewhere(ch, l, data, d2)
    BY <2>1, <2>2 DEF Elsewhere
  <2>4. Held(c2, d2) = Put(Held(ch, data), l, Entries(t, d2))
    BY ONLY <1>4, <2>2, <2>3, l \in Lists, OneHeld
  <2> QED BY <2>2, <2>4 DEF Put
<1>7. Entries(Ins(s, i, n), data') = Ins(e, i, y)
  <2>1. ~In(s, n)
    BY <1>1
  <2> QED BY <1>1, <1>4, <1>5, <2>1, EntriesIns
<1>8. Listed(e, Len(s)) /\ Len(e) = Len(s) /\ c = Held(ch, data) /\ c[l] = e
  BY ContentsListed, HeldIs
<1>9. SubSeq(e, 1, i) \o <<y>> \o SubSeq(e, i + 1, Len(e)) = Ins(e, i, y)
  <2> HIDE DEF e, y, s
  <2>1. SubSeq(e, 1, i) \o <<y>> \o SubSeq(e, i + 1, Len(s)) = Ins(e, i, y)
    <3>1. i \in 0 .. Len(s) /\ Listed(e, Len(s))
      BY <1>1, <1>8
    <3> QED BY ONLY <3>1, InsAs
  <2> QED BY <1>8, <2>1
<1>10. n \notin L!Plain!InUse
  BY <1>1, InUseIs
<1>11. c' = [c EXCEPT ![l] = SubSeq(@, 1, i) \o <<y>> \o SubSeq(@, i + 1, Len(@))]
  <2>1. c' = [c EXCEPT ![l] = Ins(e, i, y)]
    BY <1>3, <1>6, <1>7, <1>8
  <2> HIDE DEF c, e, y
  <2> QED BY <1>8, <1>9, <2>1
<1>12. PICK z, z2 : z = c /\ z2 = c'
  OBVIOUS
<1>13. z2 = [z EXCEPT ![l] = SubSeq(@, 1, i) \o <<[pos |-> n, obj |-> x]>> \o SubSeq(@, i + 1, Len(@))]
  <2> HIDE DEF c
  <2> QED BY <1>11, <1>12
<1> QED BY <1>1, <1>10, <1>12, <1>13, Inserting

\* The contents of all lists before and after.
Now(c)  == c = [q \in Lists |-> L!Contents(q)]
Then(c) == c = [q \in Lists |-> L!Contents(q)]'

LEMMA NowIs ==
  ASSUME NEW ch, NEW ca, Lst(ch, ca), NEW l \in Lists, NEW c, Now(c)
  PROVE  /\ c = Held(ch, data) /\ c[l] = Entries(ch[l], data)
         /\ Listed(c[l], Len(ch[l])) /\ Len(c[l]) = Len(ch[l])
<1>1. c = Held(ch, data)
  BY HeldIs DEF Now
<1>2. c[l] = Entries(ch[l], data)
  BY <1>1 DEF Held
<1> QED BY <1>1, <1>2, ContentsListed

LEMMA ThenIs ==
  ASSUME NEW ch2, \E ca2 : Lst(ch2, ca2)', NEW c2, Then(c2)
  PROVE  c2 = Held(ch2, data')
BY HeldNext DEF Then

\* One list changes.
LEMMA OneHeldChanges ==
  ASSUME NEW ch, NEW ca, Lst(ch, ca), NEW l \in Lists, NEW t, \E ca2 : Lst(Put(ch, l, t), ca2)',
         NEW d2, d2 = data', Elsewhere(ch, l, data, d2),
         NEW c, Now(c), NEW c2, Then(c2)
  PROVE  c2 = Put(c, l, Entries(t, d2))
<1>1. PICK ch2 : ch2 = Put(ch, l, t)
  OBVIOUS
<1>2. \E ca2 : Lst(ch2, ca2)'
  BY <1>1
<1>3. c2 = Held(ch2, d2)
  BY <1>2, ThenIs
<1>4. ch \in [Lists -> Seq(Nodes)]
  BY ChainIs
<1>5. Held(ch2, d2) = Put(Held(ch, data), l, Entries(t, d2))
  BY <1>1, <1>4, OneHeld
<1>6. c = Held(ch, data)
  BY NowIs
<1> QED BY <1>3, <1>5, <1>6

LEMMA SameElsewhere ==
  ASSUME NEW ch, NEW l, NEW d
  PROVE  Elsewhere(ch, l, d, d)
BY DEF Elsewhere

LEMMA RemovePromise ==
  ASSUME NEW ch, NEW ca, Lst(ch, ca), NEW l \in Lists, NEW i, NEW p, Removed(ch, l, i, p)
  PROVE  L!Plain!Remove(l, p)
<1>1. PICK c, c2, d2 : Now(c) /\ Then(c2) /\ d2 = data'
  BY DEF Now, Then
<1> DEFINE s == ch[l]
           t == Del(s, i)
           e == c[l]
<1>2. i \in 1 .. Len(s) /\ p = s[i]
  BY DEF Removed
<1>3. Distinct(s) /\ Len(s) \in Nat
  BY ChainIs
<1>4. \E ca2 : Lst(Put(ch, l, t), ca2)'
  BY DEF Removed, Put
<1>5. \A m \in Lists, x \in Nodes : In(ch[m], x) /\ x # p => d2[x] = data[x]
  BY <1>1 DEF Removed
<1>6. Elsewhere(ch, l, data, d2)
  <2>1. ASSUME NEW m \in Lists, NEW x \in Nodes, m # l, In(ch[m], x) PROVE x # p
    <3>1. In(s, p)
      BY <1>2 DEF In
    <3>2. \A y \in Nodes : In(ch[l], y) /\ In(ch[m], y) => l = m
      BY DEF Lst, Apart
    <3> QED BY <2>1, <3>1, <3>2
  <2> QED BY <1>5, <2>1 DEF Elsewhere
<1>7. c2 = Put(c, l, Entries(t, d2))
  <2> HIDE DEF t
  <2> QED BY <1>1, <1>4, <1>6, OneHeldChanges
<1>8. Entries(t, d2) = Del(Entries(s, data), i)
  <2>1. \A y \in Nodes : In(s, y) /\ y # s[i] => d2[y] = data[y]
    BY <1>2, <1>5
  <2> QED BY <1>2, <1>3, <2>1, EntriesDel
<1>9. e = Entries(s, data) /\ Listed(e, Len(s)) /\ Len(e) = Len(s)
  BY <1>1, NowIs
<1>10. SubSeq(e, 1, i - 1) \o SubSeq(e, i + 1, Len(e)) = Del(e, i)
  <2> HIDE DEF e, s
  <2>1. SubSeq(e, 1, i - 1) \o SubSeq(e, i + 1, Len(s)) = Del(e, i)
    BY ONLY <1>2, <1>9, DelAs
  <2> QED BY <1>9, <2>1
<1>11. L!Plain!IndexOf(l, p) = i
  BY <1>2, IndexIs
<1>12. c2 = [c EXCEPT ![l] = SubSeq(@, 1, i - 1) \o SubSeq(@, i + 1, Len(@))]
  BY <1>7, <1>8, <1>9, <1>10 DEF Put
<1> QED BY <1>1, <1>11, <1>12 DEF L!Plain!Remove, Now, Then

LEMMA EmptyPromise ==
  ASSUME NEW ch, NEW ca, Lst(ch, ca), NEW l \in Lists, Emptied(ch, l)
  PROVE  L!Plain!RemoveAll(l)
<1>1. PICK c, c2, d2 : Now(c) /\ Then(c2) /\ d2 = data'
  BY DEF Now, Then
<1>2. \E ca2 : Lst(Put(ch, l, <<>>), ca2)'
  BY DEF Emptied, Put
<1>3. Elsewhere(ch, l, data, d2)
  BY <1>1 DEF Emptied, Elsewhere
<1>4. c2 = Put(c, l, Entries(<<>>, d2))
  BY <1>1, <1>2, <1>3, OneHeldChanges
<1>5. Entries(<<>>, d2) = <<>>
  BY DEF Entries
<1>6. c2 = [c EXCEPT ![l] = <<>>]
  BY <1>4, <1>5 DEF Put
<1> QED BY <1>1, <1>6 DEF L!Plain!RemoveAll, Now, Then

LEMMA ReversePromise ==
  ASSUME NEW ch, NEW ca, Lst(ch, ca), NEW l \in Lists, L!Reverse(l)
  PROVE  L!Plain!Reverse(l)
<1>1. PICK c, c2, d2 : Now(c) /\ Then(c2) /\ d2 = data'
  BY DEF Now, Then
<1> DEFINE s == ch[l]
           t == Turn(s)
           e == c[l]
<1>2. Lst([ch EXCEPT ![l] = t], ca)'
  BY ReverseKeeps
<1>3. data' = data
  BY ReverseKeeps
<1>4. \E ca2 : Lst(Put(ch, l, t), ca2)'
  BY <1>2 DEF Put
<1>5. Elsewhere(ch, l, data, d2)
  BY <1>1, <1>3, SameElsewhere
<1>6. c2 = Put(c, l, Entries(t, d2))
  <2> HIDE DEF t
  <2> QED BY <1>1, <1>4, <1>5, OneHeldChanges
<1>7. s \in Seq(Nodes)
  BY ChainIs
<1>8. Entries(t, d2) = Turn(Entries(s, data))
  BY <1>1, <1>3, <1>7, EntriesTurn
<1>9. e = Entries(s, data) /\ Listed(e, Len(s)) /\ Len(e) = Len(s)
  BY <1>1, NowIs
<1>10. Turn(e) = [j \in DOMAIN e |-> e[Len(e) + 1 - j]]
  <2> HIDE DEF e
  <2>1. DOMAIN e = 1 .. Len(e)
    BY <1>9 DEF Listed
  <2> QED BY <2>1 DEF Turn
<1>11. c2 = [c EXCEPT ![l] = [j \in DOMAIN @ |-> @[Len(@) + 1 - j]]]
  BY <1>6, <1>8, <1>9, <1>10 DEF Put
<1> QED BY <1>1, <1>11 DEF L!Plain!Reverse, Now, Then

\* Two lists change.
LEMMA TwoLists ==
  ASSUME NEW ch, NEW ca, Lst(ch, ca), NEW l \in Lists, NEW m \in Lists, l # m, NEW t, NEW u,
         \E ca2 : Lst(Put(Put(ch, l, t), m, u), ca2)', data' = data,
         NEW c, Now(c), NEW c2, Then(c2)
  PROVE  c2 = Put(Put(c, l, Entries(t, data)), m, Entries(u, data))
<1>1. PICK d, ch2, ch3 : d = data /\ ch2 = Put(ch, l, t) /\ ch3 = Put(ch2, m, u)
  OBVIOUS
<1>2. c2 = Held(ch3, d)
  <2>1. \E ca2 : Lst(ch3, ca2)'
    BY <1>1
  <2> QED BY <1>1, <2>1, ThenIs
<1>3. c = Held(ch, d) /\ ch \in [Lists -> Seq(Nodes)]
  BY <1>1, ChainIs, NowIs
<1>4. ASSUME NEW q \in Lists
      PROVE  Entries(ch3[q], d) = IF q = m THEN Entries(u, d)
                                  ELSE IF q = l THEN Entries(t, d) ELSE Entries(ch[q], d)
  <2>1. ch3[q] = IF q = m THEN u ELSE IF q = l THEN t ELSE ch[q]
    BY <1>1, <1>3 DEF Put
  <2> QED BY <2>1
<1>5. Held(ch3, d) = [q \in Lists |-> Entries(ch3[q], d)] /\ Held(ch, d) = [q \in Lists |-> Entries(ch[q], d)]
  BY DEF Held
<1>6. c2 = Put(Put(c, l, Entries(t, d)), m, Entries(u, d))
  <2>1. c = [q \in Lists |-> c[q]] /\ \A q \in Lists : c[q] = Entries(ch[q], d)
    BY ONLY <1>3, <1>5
  <2>2. c2 = [q \in Lists |-> Entries(ch3[q], d)]
    BY ONLY <1>2, <1>5
  <2>3. c2 = [q \in Lists |-> IF q = m THEN Entries(u, d)
                             ELSE IF q = l THEN Entries(t, d) ELSE c[q]]
    BY ONLY <1>4, <2>1, <2>2
  <2> QED BY ONLY <2>1, <2>3 DEF Put
<1> QED BY <1>1, <1>6

LEMMA MoveTailPromise ==
  ASSUME NEW ch, NEW ca, Lst(ch, ca), NEW l \in Lists, NEW m \in Lists, NEW p, L!MoveToTail(l, p, m)
  PROVE  L!Plain!MoveToTail(l, p, m)
<1>1. PICK i : /\ Both(ch, ca, l, m, i, p) /\ data' = data
               /\ Lst([ch EXCEPT ![l] = Past(ch[l], i), ![m] = Join(ch[m], Upto(ch[l], i))], ca)'
  BY MoveToTailIs
<1>2. PICK c, c2, d : Now(c) /\ Then(c2) /\ d = data
  BY DEF Now, Then
<1> DEFINE s == ch[l]
           t == Past(s, i)
           u == Join(ch[m], Upto(s, i))
           e == c[l]
           g == c[m]
<1>3. l # m /\ i \in 1 .. Len(s) /\ p = s[i]
  BY <1>1 DEF Both
<1>4. ch \in [Lists -> Seq(Nodes)] /\ s \in Seq(Nodes) /\ ch[m] \in Seq(Nodes) /\ Len(s) \in Nat /\ i \in 0 .. Len(s)
  BY <1>3, ChainIs
<1>5. \E ca2 : Lst(Put(Put(ch, l, t), m, u), ca2)'
  BY <1>1, <1>4 DEF Put
<1>6. c2 = Put(Put(c, l, Entries(t, data)), m, Entries(u, data))
  <2> HIDE DEF t, u
  <2> QED BY <1>1, <1>2, <1>3, <1>5, TwoLists
<1>7. /\ e = Entries(s, data) /\ Listed(e, Len(s)) /\ Len(e) = Len(s)
      /\ g = Entries(ch[m], data) /\ Listed(g, Len(ch[m])) /\ c = Held(ch, data)
  BY <1>2, NowIs
<1>8. Entries(t, data) = SubSeq(e, i + 1, Len(e))
  <2>1. Entries(t, data) = Past(e, i)
    BY <1>4, <1>7, EntriesParts
  <2> HIDE DEF e, s
  <2>2. SubSeq(e, i + 1, Len(s)) = Past(e, i)
    BY <1>4, <1>7, PastAs
  <2> QED BY <1>7, <2>1, <2>2 DEF s
<1>9. Entries(u, data) = g \o SubSeq(e, 1, i)
  <2> DEFINE v == Upto(s, i)
  <2>1. v \in Seq(Nodes) /\ Entries(v, data) = Upto(e, i)
    BY <1>4, <1>7, UptoIs, EntriesParts
  <2>2. Entries(u, data) = Join(g, Upto(e, i))
    <3> HIDE DEF v
    <3>1. Entries(Join(ch[m], v), data) = Join(Entries(ch[m], data), Entries(v, data))
      BY <1>4, <2>1, EntriesJoin
    <3> QED BY <1>7, <2>1, <3>1 DEF v
  <2> HIDE DEF e, g, s
  <2>3. SubSeq(e, 1, i) = Upto(e, i) /\ Listed(Upto(e, i), i)
    BY <1>4, <1>7, UptoAs, PartsListed
  <2>4. g \o Upto(e, i) = Join(g, Upto(e, i))
    BY <1>7, <2>3, JoinAs
  <2> QED BY <2>2, <2>3, <2>4 DEF s
<1>10. L!Plain!IndexOf(l, p) = i
  BY <1>3, IndexIs
<1>11. c2 = [c EXCEPT ![l] = SubSeq(@, i + 1, Len(@)), ![m] = @ \o SubSeq(c[l], 1, i)]
  <2> HIDE DEF t, u
  <2> QED BY <1>3, <1>6, <1>8, <1>9 DEF Put
<1> QED BY <1>2, <1>10, <1>11 DEF L!Plain!MoveToTail, Now, Then

LEMMA MoveHeadPromise ==
  ASSUME NEW ch, NEW ca, Lst(ch, ca), NEW l \in Lists, NEW m \in Lists, NEW p, L!MoveToHead(l, p, m)
  PROVE  L!Plain!MoveToHead(l, p, m)
<1>1. PICK i, k : /\ Both(ch, ca, l, m, i, p) /\ k = i - 1 /\ data' = data
                  /\ Lst([ch EXCEPT ![l] = Upto(ch[l], k), ![m] = Join(Past(ch[l], k), ch[m])], ca)'
  BY MoveToHeadIs
<1>2. PICK c, c2, d : Now(c) /\ Then(c2) /\ d = data
  BY DEF Now, Then
<1> DEFINE s == ch[l]
           t == Upto(s, k)
           u == Join(Past(s, k), ch[m])
           e == c[l]
           g == c[m]
<1>3. l # m /\ i \in 1 .. Len(s) /\ p = s[i]
  BY <1>1 DEF Both
<1>4. ch \in [Lists -> Seq(Nodes)] /\ s \in Seq(Nodes) /\ ch[m] \in Seq(Nodes) /\ Len(s) \in Nat
  BY <1>3, ChainIs
<1>41. k \in 0 .. Len(s) /\ i = k + 1
  BY <1>1, <1>3, <1>4
<1>5. \E ca2 : Lst(Put(Put(ch, l, t), m, u), ca2)'
  BY <1>1, <1>4 DEF Put
<1>6. c2 = Put(Put(c, l, Entries(t, data)), m, Entries(u, data))
  <2> HIDE DEF t, u
  <2> QED BY <1>1, <1>2, <1>3, <1>5, TwoLists
<1>7. /\ e = Entries(s, data) /\ Listed(e, Len(s)) /\ Len(e) = Len(s)
      /\ g = Entries(ch[m], data) /\ Listed(g, Len(ch[m])) /\ c = Held(ch, data)
  BY <1>2, NowIs
<1>8. Entries(t, data) = SubSeq(e, 1, i - 1)
  <2>1. Entries(t, data) = Upto(e, k)
    BY <1>4, <1>41, <1>7, EntriesParts
  <2> HIDE DEF e, s
  <2>2. SubSeq(e, 1, k) = Upto(e, k)
    BY <1>41, <1>7, UptoAs
  <2> QED BY <1>1, <2>1, <2>2 DEF s
<1>9. Entries(u, data) = SubSeq(e, i, Len(e)) \o g
  <2> DEFINE v == Past(s, k)
  <2>1. v \in Seq(Nodes) /\ Entries(v, data) = Past(e, k)
    BY <1>4, <1>41, <1>7, PastIs, EntriesParts
  <2>2. Entries(u, data) = Join(Past(e, k), g)
    <3> HIDE DEF v
    <3>1. Entries(Join(v, ch[m]), data) = Join(Entries(v, data), Entries(ch[m], data))
      BY <1>4, <2>1, EntriesJoin
    <3> QED BY <1>7, <2>1, <3>1 DEF v
  <2> HIDE DEF e, g, s
  <2>3. SubSeq(e, k + 1, Len(s)) = Past(e, k) /\ Listed(Past(e, k), Len(s) - k)
    BY <1>41, <1>7, PastAs, PartsListed
  <2>4. Past(e, k) \o g = Join(Past(e, k), g)
    BY <1>7, <2>3, JoinAs
  <2> QED BY <1>41, <1>7, <2>2, <2>3, <2>4 DEF s
<1>10. L!Plain!IndexOf(l, p) = i
  BY <1>3, IndexIs
<1>11. c2 = [c EXCEPT ![l] = SubSeq(@, 1, i - 1), ![m] = SubSeq(c[l], i, Len(c[l])) \o @]
  <2> HIDE DEF t, u
  <2> QED BY <1>3, <1>6, <1>8, <1>9 DEF Put
<1> QED BY <1>2, <1>10, <1>11 DEF L!Plain!MoveToHead, Now, Then

LEMMA AddTailPromise ==
  ASSUME NEW ch, NEW ca, Lst(ch, ca), NEW l \in Lists, NEW x, L!AddTailI(l, x)
  PROVE  L!Plain!AddTail(l, x)
<1>1. PICK n : Added(ch, l, Len(ch[l]), n, x)
  BY AddTailIs
<1>2. L!Plain!Inserts(l, Len(ch[l]), x)
  BY <1>1, AddedPromise
<1>3. Len([q \in Lists |-> L!Contents(q)][l]) = Len(ch[l])
  BY ContentsListed
<1> QED BY <1>2, <1>3 DEF L!Plain!AddTail

LEMMA AddHeadPromise ==
  ASSUME NEW ch, NEW ca, Lst(ch, ca), NEW l \in Lists, NEW x, L!AddHeadI(l, x)
  PROVE  L!Plain!AddHead(l, x)
<1>1. PICK n : Added(ch, l, 0, n, x)
  BY AddHeadIs
<1> QED BY <1>1, AddedPromise DEF L!Plain!AddHead

LEMMA AddAfterPromise ==
  ASSUME NEW ch, NEW ca, Lst(ch, ca), NEW l \in Lists, NEW x,
         NEW p, p \in L!InList(l) \cup {NoNode}, L!AddAfterI(l, p, x)
  PROVE  L!Plain!AddAfter(l, p, x)
<1>1. PICK i, n : i \in 0 .. Len(ch[l]) /\ p = Nth(ch[l], i) /\ Added(ch, l, i, n, x)
  BY AddAfterIs
<1>2. L!Plain!Inserts(l, i, x)
  BY <1>1, AddedPromise
<1>3. ch[l] \in Seq(Nodes) /\ Len(ch[l]) \in Nat
  BY ChainIs
<1>4. CASE p = NoNode
  <2>1. i \notin 1 .. Len(ch[l])
    BY <1>1, <1>3, <1>4, NthIsNode
  <2>2. i = 0
    BY <1>1, <1>3, <2>1
  <2> QED BY <1>2, <1>4, <2>2 DEF L!Plain!AddAfter, L!Plain!AddHead
<1>5. CASE p # NoNode
  <2>1. i \in 1 .. Len(ch[l]) /\ p = ch[l][i]
    BY <1>1, <1>3, <1>5, NthIsNode
  <2>2. L!Plain!IndexOf(l, p) = i
    BY <2>1, IndexIs
  <2> QED BY <1>2, <1>5, <2>2 DEF L!Plain!AddAfter
<1> QED BY <1>4, <1>5

LEMMA AddBeforePromise ==
  ASSUME NEW ch, NEW ca, Lst(ch, ca), NEW l \in Lists, NEW x,
         NEW p, p \in L!InList(l) \cup {NoNode}, L!AddBeforeI(l, p, x)
  PROVE  L!Plain!AddBefore(l, p, x)
<1>1. PICK i, n : i \in 0 .. Len(ch[l]) /\ p = Nth(ch[l], i + 1) /\ Added(ch, l, i, n, x)
  BY AddBeforeIs
<1>2. L!Plain!Inserts(l, i, x)
  BY <1>1, AddedPromise
<1>3. ch[l] \in Seq(Nodes) /\ Len(ch[l]) \in Nat
  BY ChainIs
<1>4. CASE p = NoNode
  <2>1. i + 1 \notin 1 .. Len(ch[l])
    BY <1>1, <1>3, <1>4, NthIsNode
  <2>2. i = Len(ch[l])
    BY <1>1, <1>3, <2>1
  <2>3. Len([q \in Lists |-> L!Contents(q)][l]) = Len(ch[l])
    BY ContentsListed
  <2> QED BY <1>2, <1>4, <2>2, <2>3 DEF L!Plain!AddBefore, L!Plain!AddTail
<1>5. CASE p # NoNode
  <2>1. PICK k : k = i + 1
    OBVIOUS
  <2>2. k \in 1 .. Len(ch[l]) /\ p = ch[l][k] /\ i = k - 1
    BY <1>1, <1>3, <1>5, <2>1, NthIsNode
  <2>3. L!Plain!IndexOf(l, p) = k
    BY <2>2, IndexIs
  <2> QED BY <1>2, <1>5, <2>2, <2>3 DEF L!Plain!AddBefore
<1> QED BY <1>4, <1>5

LEMMA PromisesKept ==
  ASSUME ListInv
  PROVE  L!CallKeepsPromise
<1>1. PICK ch, ca : Lst(ch, ca)
  BY DEF ListInv
<1>2. ASSUME NEW l \in Lists, NEW x \in Objects
      PROVE  /\ L!AddTailI(l, x) => L!Plain!AddTail(l, x)
             /\ L!AddHeadI(l, x) => L!Plain!AddHead(l, x)
  BY <1>1, AddTailPromise, AddHeadPromise
<1>3. ASSUME NEW l \in Lists, NEW x \in Objects, NEW p \in L!InList(l) \cup {NoNode}
      PROVE  /\ L!AddAfterI(l, p, x) => L!Plain!AddAfter(l, p, x)
             /\ L!AddBeforeI(l, p, x) => L!Plain!AddBefore(l, p, x)
  BY <1>1, AddAfterPromise, AddBeforePromise
<1>4. ASSUME NEW l \in Lists, L!RemoveAll(l) \/ L!Destroy(l) PROVE L!Plain!RemoveAll(l)
  <2>1. Emptied(ch, l)
    BY <1>1, <1>4, RemoveAllKeeps, DestroyKeeps
  <2> QED BY <1>1, <2>1, EmptyPromise
<1>5. ASSUME NEW l \in Lists, L!Reverse(l) PROVE L!Plain!Reverse(l)
  BY <1>1, <1>5, ReversePromise
<1>6. ASSUME NEW l \in Lists, NEW p \in Nodes, L!RemoveI(l, p) PROVE L!Plain!Remove(l, p)
  <2>1. PICK i : Removed(ch, l, i, p)
    BY <1>1, <1>6, RemoveKeeps
  <2> QED BY <1>1, <2>1, RemovePromise
<1>7. ASSUME NEW l \in Lists, NEW m \in Lists, NEW p \in Nodes
      PROVE  /\ L!MoveToTail(l, p, m) => L!Plain!MoveToTail(l, p, m)
             /\ L!MoveToHead(l, p, m) => L!Plain!MoveToHead(l, p, m)
  BY <1>1, MoveTailPromise, MoveHeadPromise
<1> QED BY <1>2, <1>3, <1>4, <1>5, <1>6, <1>7 DEF L!CallKeepsPromise
\* Every list is one chain both ways, at every step.
LEMMA ListInvHolds == ListsSpec => []ListInv
<1>1. ListInv /\ [L!Next]_listVars => ListInv'
  BY ListStep, ListFrame
<1> QED BY ListInit, <1>1, PTL DEF ListsSpec

\* The lists are well linked, the caches too, no node is lost or in two
\* places, and what a copying has added is in its place: the invariant that
\* the run checks, for any lists, nodes and room in the caches.
THEOREM ListsAreSafe == ListsSpec => []ListSafety
<1>1. ListInv => ListSafety
  BY ListInvSafe DEF ListSafety
<1> QED BY ListInvHolds, <1>1, PTL

\* Every call does what PlainList says of it, to the list it is made on and to
\* no other: the action property that the run checks.
THEOREM ListsDoWhatTheySay == ListsSpec => DoesWhatItSays
<1>1. ListInv => [which = "lists" => L!CallKeepsPromise]_<<which, listVars>>
  BY PromisesKept
<1> QED BY ListInvHolds, <1>1, PTL DEF DoesWhatItSays
=============================================================================
