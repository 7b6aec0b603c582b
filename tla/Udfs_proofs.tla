----------------------------- MODULE Udfs_proofs -----------------------------
(***************************************************************************)
(* Proofs about the loadable functions: my_median (Median) over groups of  *)
(* any size and any numbers, hello_world (HelloUdf) over any names.        *)
(***************************************************************************)
EXTENDS Median, HelloUdf, FiniteSetTheorems, SequenceTheorems, TLAPS

(***************************************************************************)
(* Rearrangements of a sequence.                                           *)
(***************************************************************************)

\* A bijection on 1 .. n, in the form the provers use.
LEMMA BijectionOn ==
  ASSUME NEW S, NEW p
  PROVE  p \in Bijection(S, S) <=>
           /\ p \in [S -> S]
           /\ \A i, j \in S : p[i] = p[j] => i = j
           /\ \A j \in S : \E i \in S : p[i] = j
BY DEF Bijection, Injection, Surjection, IsInjective

LEMMA ReorderedSeq ==
  ASSUME NEW S, NEW v \in Seq(S), NEW w, Reorders(v, w)
  PROVE  /\ w \in Seq(S)
         /\ DOMAIN w = DOMAIN v /\ DOMAIN v = 1 .. Len(v)
         /\ Len(w) = Len(v)
<1>1. PICK p \in Bijection(DOMAIN v, DOMAIN v) : w = [i \in DOMAIN v |-> v[p[i]]]
  BY DEF Reorders
<1>2. DOMAIN v = 1 .. Len(v) /\ Len(v) \in Nat /\ \A i \in 1 .. Len(v) : v[i] \in S
  OBVIOUS
<1>3. p \in [DOMAIN v -> DOMAIN v]
  BY BijectionOn
<1>4. w \in [1 .. Len(v) -> S]
  BY <1>1, <1>2, <1>3
<1>5. w \in Seq(S)
  BY <1>2, <1>4, SeqDef
<1>6. QED
  BY <1>2, <1>4, <1>5

LEMMA LongerBijection ==
  ASSUME NEW n \in Nat, NEW p \in Bijection(1 .. n, 1 .. n)
  PROVE  [i \in 1 .. n + 1 |-> IF i = n + 1 THEN n + 1 ELSE p[i]]
           \in Bijection(1 .. n + 1, 1 .. n + 1)
<1> DEFINE q == [i \in 1 .. n + 1 |-> IF i = n + 1 THEN n + 1 ELSE p[i]]
<1>1. /\ p \in [1 .. n -> 1 .. n]
      /\ \A i, j \in 1 .. n : p[i] = p[j] => i = j
      /\ \A j \in 1 .. n : \E i \in 1 .. n : p[i] = j
  BY BijectionOn
<1>2. \A i \in 1 .. n : i \in 1 .. n + 1 /\ i # n + 1 /\ p[i] \in 1 .. n /\ p[i] # n + 1
  BY <1>1
<1>3. \A i \in 1 .. n + 1 : i # n + 1 => i \in 1 .. n
  OBVIOUS
<1>4. n + 1 \in 1 .. n + 1
  OBVIOUS
<1>5. \A i \in 1 .. n + 1 : q[i] = IF i = n + 1 THEN n + 1 ELSE p[i]
  OBVIOUS
<1>6. q \in [1 .. n + 1 -> 1 .. n + 1]
  <2>1. \A i \in 1 .. n + 1 : (IF i = n + 1 THEN n + 1 ELSE p[i]) \in 1 .. n + 1
    BY <1>2, <1>3, <1>4
  <2>2. QED
    BY <2>1
<1> HIDE DEF q
<1>7. \A i, j \in 1 .. n + 1 : q[i] = q[j] => i = j
  BY <1>1, <1>2, <1>3, <1>5
<1>8. ASSUME NEW j \in 1 .. n + 1
      PROVE  \E i \in 1 .. n + 1 : q[i] = j
  <2>1. CASE j = n + 1
    BY <2>1, <1>4, <1>5
  <2>2. CASE j # n + 1
    <3>1. PICK i \in 1 .. n : p[i] = j
      BY <2>2, <1>1, <1>3
    <3>2. QED
      BY <3>1, <1>2, <1>5
  <2>3. QED
    BY <2>1, <2>2
<1>9. q \in Bijection(1 .. n + 1, 1 .. n + 1)
  BY <1>6, <1>7, <1>8, BijectionOn
<1>10. QED
  BY <1>9 DEF q

\* A row pushed to both the vector and the group keeps one an order of the other.
LEMMA ReorderedAppend ==
  ASSUME NEW S, NEW v \in Seq(S), NEW w \in Seq(S), Reorders(v, w), NEW x \in S
  PROVE  Reorders(Append(v, x), Append(w, x))
<1>1. PICK p \in Bijection(DOMAIN v, DOMAIN v) : w = [i \in DOMAIN v |-> v[p[i]]]
  BY DEF Reorders
<1>2. PICK n \in Nat : n = Len(v) /\ DOMAIN v = 1 .. n
  OBVIOUS
<1>3. Len(w) = n
  BY <1>2, ReorderedSeq
<1>4. p \in Bijection(1 .. n, 1 .. n) /\ w = [i \in 1 .. n |-> v[p[i]]]
  BY <1>1, <1>2
<1>5. p \in [1 .. n -> 1 .. n]
  BY <1>4, BijectionOn
<1> DEFINE q == [i \in 1 .. n + 1 |-> IF i = n + 1 THEN n + 1 ELSE p[i]]
<1>6. q \in Bijection(1 .. n + 1, 1 .. n + 1)
  BY <1>4, LongerBijection
<1>7. DOMAIN Append(v, x) = 1 .. n + 1
  BY <1>2
<1>8. Append(w, x) = [i \in 1 .. n + 1 |-> IF i = n + 1 THEN x ELSE w[i]]
  <2>1. /\ Append(w, x) \in Seq(S) /\ Len(Append(w, x)) = n + 1
        /\ Append(w, x)[n + 1] = x /\ \A i \in 1 .. n : Append(w, x)[i] = w[i]
    BY <1>3, AppendProperties
  <2>2. Append(w, x) \in [1 .. n + 1 -> S]
    BY <2>1, LenProperties
  <2>3. \A i \in 1 .. n + 1 : Append(w, x)[i] = IF i = n + 1 THEN x ELSE w[i]
    BY <2>1
  <2>4. QED
    BY <2>2, <2>3
<1>9. ASSUME NEW i \in 1 .. n + 1
      PROVE  (IF i = n + 1 THEN x ELSE w[i]) = Append(v, x)[q[i]]
  <2>1. CASE i = n + 1
    BY <2>1, <1>2
  <2>2. CASE i # n + 1
    <3>1. i \in 1 .. n /\ p[i] \in 1 .. n /\ q[i] = p[i]
      BY <2>2, <1>5
    <3>2. Append(v, x)[p[i]] = v[p[i]]
      BY <3>1, <1>2
    <3>3. QED
      BY <2>2, <3>1, <3>2, <1>4
  <2>3. QED
    BY <2>1, <2>2
<1>10. Append(w, x) = [i \in 1 .. n + 1 |-> Append(v, x)[q[i]]]
  BY <1>8, <1>9
<1> HIDE DEF q
<1>11. QED
  BY <1>6, <1>7, <1>10, Zenon DEF Reorders

\* Two orders after one another are one.
LEMMA ReorderedAgain ==
  ASSUME NEW S, NEW u \in Seq(S), NEW v, NEW w, Reorders(u, v), Reorders(v, w)
  PROVE  Reorders(u, w)
<1> DEFINE D == DOMAIN u
<1>1. PICK p \in Bijection(D, D) : v = [i \in D |-> u[p[i]]]
  BY DEF Reorders
<1>2. DOMAIN v = D
  BY <1>1
<1>3. PICK r \in Bijection(D, D) : w = [i \in D |-> v[r[i]]]
  BY <1>2 DEF Reorders
<1>4. /\ p \in [D -> D] /\ \A i, j \in D : p[i] = p[j] => i = j
      /\ \A j \in D : \E i \in D : p[i] = j
      /\ r \in [D -> D] /\ \A i, j \in D : r[i] = r[j] => i = j
      /\ \A j \in D : \E i \in D : r[i] = j
  BY BijectionOn
<1> DEFINE q == [i \in D |-> p[r[i]]]
<1> HIDE DEF D
<1>5. q \in Bijection(D, D)
  <2>1. q \in [D -> D]
    BY <1>4
  <2>2. \A i, j \in D : q[i] = q[j] => i = j
    BY <1>4
  <2>3. ASSUME NEW j \in D
        PROVE  \E i \in D : q[i] = j
    <3>1. PICK m \in D : p[m] = j
      BY <1>4
    <3>2. PICK i \in D : r[i] = m
      BY <1>4
    <3>3. QED
      BY <3>1, <3>2
  <2>4. QED
    BY <2>1, <2>2, <2>3, BijectionOn
<1>6. w = [i \in D |-> u[q[i]]]
  BY <1>1, <1>3, <1>4
<1>7. QED
  BY <1>5, <1>6 DEF Reorders, D

LEMMA SortingFacts ==
  ASSUME NEW v, NEW w \in Sortings(v)
  PROVE  Reorders(v, w) /\ IsSorted(w)
BY DEF Sortings, Reorders

(***************************************************************************)
(* Counting the numbers of a sequence, and the k-th smallest.              *)
(***************************************************************************)

\* How many numbers of s are in A.
Count(s, A) == Cardinality({i \in DOMAIN s : s[i] \in A})

\* The order does not matter to a count.
LEMMA SameCount ==
  ASSUME NEW g \in Seq(Nat), NEW w, Reorders(g, w), NEW A
  PROVE  Count(w, A) = Count(g, A)
<1> DEFINE D == DOMAIN g
           W == {i \in D : w[i] \in A}
           G == {i \in D : g[i] \in A}
<1>1. PICK p \in Bijection(D, D) : w = [i \in D |-> g[p[i]]]
  BY DEF Reorders
<1>2. /\ p \in [D -> D] /\ \A i, j \in D : p[i] = p[j] => i = j
      /\ \A j \in D : \E i \in D : p[i] = j
  BY BijectionOn
<1>3. IsFiniteSet(D)
  BY FS_Interval, LenProperties
<1>4. DOMAIN w = D /\ \A i \in D : w[i] = g[p[i]]
  BY <1>1
<1> HIDE DEF D
<1> DEFINE f == [i \in W |-> p[i]]
<1>5. f \in Bijection(W, G)
  <2>1. f \in [W -> G]
    BY <1>2, <1>4
  <2>2. \A i, j \in W : f[i] = f[j] => i = j
    BY <1>2
  <2>3. \A j \in G : \E i \in W : f[i] = j
    BY <1>2, <1>4
  <2>4. QED
    BY <2>1, <2>2, <2>3 DEF Bijection, Injection, Surjection, IsInjective
<1>6. IsFiniteSet(W)
  BY <1>3, FS_Subset
<1>7. Cardinality(G) = Cardinality(W)
  <2>1. ExistsBijection(W, G)
    BY <1>5 DEF ExistsBijection
  <2>2. QED
    BY <1>6, <2>1, FS_Bijection
<1>8. QED
  BY <1>4, <1>7 DEF D, Count

LEMMA SameKth ==
  ASSUME NEW g \in Seq(Nat), NEW w, Reorders(g, w), NEW k, NEW v \in Nat
  PROVE  IsKthSmallest(g, k, v) <=> IsKthSmallest(w, k, v)
<1>1. w \in Seq(Nat)
  BY ReorderedSeq
<1> DEFINE L == {n \in Nat : n < v}
           M == {n \in Nat : n <= v}
<1>2. ASSUME NEW s \in Seq(Nat)
      PROVE  Below(s, v) = Count(s, L) /\ UpTo(s, v) = Count(s, M)
  <2>1. \A i \in DOMAIN s : s[i] \in Nat
    BY ElementOfSeq, LenProperties
  <2>2. /\ {i \in DOMAIN s : s[i] < v} = {i \in DOMAIN s : s[i] \in L}
        /\ {i \in DOMAIN s : s[i] <= v} = {i \in DOMAIN s : s[i] \in M}
    BY <2>1
  <2>3. QED
    BY <2>2 DEF Below, UpTo, Count
<1> HIDE DEF L, M
<1>3. Below(g, v) = Below(w, v)
  BY <1>1, <1>2, SameCount
<1>4. UpTo(g, v) = UpTo(w, v)
  BY <1>1, <1>2, SameCount
<1>5. QED
  BY <1>3, <1>4 DEF IsKthSmallest

\* A sorted vector has the k-th smallest number at its k-th place.
LEMMA KthOfSorted ==
  ASSUME NEW w \in Seq(Nat), IsSorted(w), NEW k \in 1 .. Len(w)
  PROVE  IsKthSmallest(w, k, w[k])
<1> DEFINE n == Len(w)
<1>1. n \in Nat /\ DOMAIN w = 1 .. n /\ \A i \in 1 .. n : w[i] \in Nat
  BY LenProperties, ElementOfSeq
<1>2. \A i, j \in 1 .. n : i <= j => w[i] <= w[j]
  BY <1>1 DEF IsSorted
<1>3. k \in Nat /\ k - 1 \in Nat /\ k <= n
  BY <1>1
<1> HIDE DEF n
<1>4. Below(w, w[k]) <= k - 1
  <2>1. {i \in 1 .. n : w[i] < w[k]} \subseteq 1 .. k - 1
    <3> SUFFICES ASSUME NEW i \in 1 .. n, w[i] < w[k]
                 PROVE  i < k
      BY <1>1, <1>3
    <3>1. ~ (w[k] <= w[i]) /\ k \in 1 .. n
      BY <1>1, <1>3
    <3>2. ~ (k <= i)
      BY <1>2, <3>1
    <3>3. QED
      BY <3>2, <1>1, <1>3
  <2>2. IsFiniteSet(1 .. k - 1) /\ Cardinality(1 .. k - 1) = k - 1
    BY <1>3, FS_Interval
  <2>3. QED
    BY <1>1, <2>1, <2>2, FS_Subset DEF Below
<1>5. Below(w, w[k]) \in Nat /\ UpTo(w, w[k]) \in Nat
  <2>1. IsFiniteSet(1 .. n)
    BY <1>1, FS_Interval
  <2>2. QED
    BY <1>1, <2>1, FS_Subset, FS_CardinalityType DEF Below, UpTo
<1>6. k <= UpTo(w, w[k])
  <2>1. 1 .. k \subseteq {i \in 1 .. n : w[i] <= w[k]}
    BY <1>1, <1>2, <1>3
  <2>2. IsFiniteSet({i \in 1 .. n : w[i] <= w[k]})
    <3>1. IsFiniteSet(1 .. n)
      BY <1>1, FS_Interval
    <3>2. QED
      BY <3>1, FS_Subset
  <2>3. Cardinality(1 .. k) = k
    BY <1>3, FS_Interval
  <2>4. QED
    BY <1>1, <2>1, <2>2, <2>3, FS_Subset DEF UpTo
<1>7. QED
  BY <1>3, <1>4, <1>5, <1>6 DEF IsKthSmallest

\* There is one k-th smallest number.
LEMMA KthIsOne ==
  ASSUME NEW g \in Seq(Nat), NEW k \in Nat, NEW u \in Nat, NEW v \in Nat,
         IsKthSmallest(g, k, u), IsKthSmallest(g, k, v)
  PROVE  u = v
<1>1. IsFiniteSet(DOMAIN g) /\ \A i \in DOMAIN g : g[i] \in Nat
  <2>1. PICK n \in Nat : n = Len(g) /\ DOMAIN g = 1 .. n
    BY LenProperties
  <2>2. IsFiniteSet(1 .. n)
    BY FS_Interval
  <2>3. QED
    BY <2>1, <2>2, ElementOfSeq
<1>2. ASSUME NEW x \in Nat
      PROVE  Below(g, x) \in Nat /\ UpTo(g, x) \in Nat
  BY <1>1, FS_Subset, FS_CardinalityType DEF Below, UpTo
<1>3. ASSUME NEW x \in Nat, NEW y \in Nat, x < y
      PROVE  UpTo(g, x) <= Below(g, y)
  <2>1. {i \in DOMAIN g : g[i] <= x} \subseteq {i \in DOMAIN g : g[i] < y}
    BY <1>1, <1>3
  <2>2. IsFiniteSet({i \in DOMAIN g : g[i] < y})
    BY <1>1, FS_Subset
  <2>3. QED
    BY <2>1, <2>2, FS_Subset DEF Below, UpTo
<1>4. ~ (u < v)
  BY <1>2, <1>3 DEF IsKthSmallest
<1>5. ~ (v < u)
  BY <1>2, <1>3 DEF IsKthSmallest
<1>6. QED
  BY <1>4, <1>5

LEMMA KthSmallestIs ==
  ASSUME NEW g \in Seq(Nat), NEW w, Reorders(g, w), IsSorted(w), NEW k \in 1 .. Len(w)
  PROVE  KthSmallest(g, k) = w[k] /\ w[k] \in Nat
<1>1. w \in Seq(Nat) /\ DOMAIN w = DOMAIN g /\ k \in Nat
  BY ReorderedSeq, LenProperties
<1>2. w[k] \in Nat
  BY <1>1, ElementOfSeq
<1>3. IsKthSmallest(g, k, w[k])
  BY <1>1, <1>2, KthOfSorted, SameKth
<1>4. w[k] \in Range(g)
  <2>1. PICK p \in Bijection(DOMAIN g, DOMAIN g) : w = [i \in DOMAIN g |-> g[p[i]]]
    BY DEF Reorders
  <2>2. k \in DOMAIN g
    BY <1>1, LenProperties
  <2>3. p[k] \in DOMAIN g
    BY <2>2, BijectionOn
  <2>4. QED
    BY <2>1, <2>2, <2>3 DEF Range
<1>5. Range(g) \subseteq Nat
  BY ElementOfSeq, LenProperties DEF Range
<1>6. \A v \in Range(g) : IsKthSmallest(g, k, v) => v = w[k]
  BY <1>1, <1>2, <1>3, <1>5, KthIsOne
<1>7. QED
  BY <1>2, <1>3, <1>4, <1>6 DEF KthSmallest

\* The middle of the sorted vector, by my_median's indexes, is the median of the
\* group by its definition, for odd and even numbers of rows.
LEMMA MiddleIsMedian ==
  ASSUME NEW g \in Seq(Nat), g # << >>, NEW w, Reorders(g, w), IsSorted(w)
  PROVE  Middle(w) = TwiceMedian(g) /\ Middle(w) \in Nat
<1>1. PICK n \in Nat : n = Len(g) /\ n > 0
  BY LenProperties, EmptySeq
<1>2. Len(w) = n /\ w \in Seq(Nat)
  BY <1>1, ReorderedSeq
<1>3. (n + 1) \div 2 \in 1 .. n /\ n \div 2 + 1 \in 1 .. n + 1
  BY <1>1
<1>4. CASE n % 2 = 0
  <2>1. n \div 2 - 1 + 1 = (n + 1) \div 2 /\ n \div 2 + 1 \in 1 .. n
    BY <1>1, <1>4
  <2>2. QED
    BY <1>1, <1>2, <1>3, <1>4, <2>1, KthSmallestIs DEF Middle, TwiceMedian
<1>5. CASE n % 2 # 0
  <2>1. n \div 2 + 1 = (n + 1) \div 2
    BY <1>1, <1>5
  <2>2. PICK m \in 1 .. n : m = n \div 2 + 1 /\ m = (n + 1) \div 2
    BY <1>3, <2>1
  <2>3. Middle(w) = 2 * w[m]
    BY <1>2, <1>5, <2>2 DEF Middle
  <2>4. TwiceMedian(g) = w[m] + w[m] /\ w[m] \in Nat
    BY <1>1, <1>2, <2>2, KthSmallestIs DEF TwiceMedian
  <2>5. QED
    BY <2>3, <2>4
<1>6. QED
  BY <1>4, <1>5

(***************************************************************************)
(* my_median: every step keeps the inductive invariant.                    *)
(***************************************************************************)

LEMMA NothingReordered == Reorders(<< >>, << >>)
<1> DEFINE e == << >>
<1>1. DOMAIN e = {}
  OBVIOUS
<1>2. e \in Bijection({}, {})
  <2>1. e \in [{} -> {}]
    OBVIOUS
  <2>2. QED
    BY <2>1, BijectionOn
<1>3. << >> = [i \in {} |-> << >>[e[i]]]
  OBVIOUS
<1>4. QED
  BY <1>1, <1>2, <1>3 DEF Reorders

LEMMA NumbersAreNat ==
  ASSUME NEW g \in Seq(Values)
  PROVE  g \in Seq(Nat)
<1>1. PICK n \in Nat : n = Len(g) /\ DOMAIN g = 1 .. n
  BY LenProperties
<1>2. g \in [1 .. n -> Nat]
  BY <1>1, ValuesAssumption, LenProperties, ElementOfSeq
<1>3. QED
  BY <1>2, SeqDef

LEMMA MedianInit == Init => IInv
<1> SUFFICES ASSUME Init
             PROVE  IInv
  OBVIOUS
<1>1. values \in Seq(Nat) /\ group \in Seq(Values) /\ rows \in 0 .. MaxRows
  BY BoundsAssumption, EmptySeq DEF Init
<1>2. TypeOK
  BY <1>1 DEF Init, TypeOK, Phases, Types
<1>3. PhaseInv /\ VectorIsGroup /\ MedianOfGroup
  BY DEF Init, PhaseInv, VectorIsGroup, MedianOfGroup
<1>4. QED
  BY <1>2, <1>3 DEF IInv

LEMMA ReadsNat ==
  ASSUME NEW v \in Values
  PROVE  /\ ReadDouble(v) \subseteq Nat
         /\ readAs = "REAL" => ReadDouble(v) = {v}
BY ValuesAssumption DEF ReadDouble

\* A row: the vector before it is what the server has left in it, or empty.
LEMMA PushKeeps ==
  ASSUME IInv, NEW before \in Seq(Nat), Push(before),
         phase \in {"cleared", "rows"},
         ReadsNumbers => Reorders(group, before)
  PROVE  IInv'
<1> USE DEF Push, NullRow
<1>1. TypeOK /\ PhaseInv
  BY DEF IInv
<1>2. CASE NullRow(before)
  <2>1. TypeOK'
    BY <1>1, <1>2, BoundsAssumption DEF TypeOK, Phases
  <2>2. PhaseInv' /\ MedianOfGroup'
    BY <1>1 DEF PhaseInv, ReadsNumbers, MedianOfGroup
  <2>3. VectorIsGroup'
    BY <1>2 DEF VectorIsGroup, ReadsNumbers
  <2>4. QED
    BY <2>1, <2>2, <2>3 DEF IInv
<1>3. ASSUME NEW v \in Values, NEW d \in ReadDouble(v),
             values' = Append(before, d), group' = Append(group, v)
      PROVE  IInv'
  <2>1. d \in Nat /\ v \in Nat /\ group \in Seq(Values) /\ group \in Seq(Nat)
    BY <1>1, ReadsNat, NumbersAreNat, ValuesAssumption DEF TypeOK
  <2>2. values' \in Seq(Nat) /\ group' \in Seq(Values)
    BY <1>3, <2>1, AppendProperties
  <2>3. TypeOK'
    BY <1>1, <2>2, BoundsAssumption DEF TypeOK, Phases
  <2>4. PhaseInv' /\ MedianOfGroup'
    BY <1>1 DEF PhaseInv, ReadsNumbers, MedianOfGroup
  <2>5. ASSUME ReadsNumbers
        PROVE  Reorders(group', values')
    <3>1. d = v
      BY <1>1, <2>5, ReadsNat DEF PhaseInv
    <3>2. QED
      BY <1>3, <2>1, <2>5, <3>1, ReorderedAppend
  <2>6. VectorIsGroup'
    BY <2>5 DEF VectorIsGroup, ReadsNumbers
  <2>7. QED
    BY <2>3, <2>4, <2>6 DEF IInv
<1>4. QED
  BY <1>2, <1>3

\* The sorted vector has the median of the group in its middle.
LEMMA ResultKeeps == IInv /\ Result => IInv'
<1> SUFFICES ASSUME IInv, Result
             PROVE  IInv'
  OBVIOUS
<1>1. TypeOK /\ PhaseInv /\ VectorIsGroup /\ values \in Seq(Nat)
  BY DEF IInv, TypeOK
<1>2. Reorders(values, values') /\ IsSorted(values')
  BY SortingFacts DEF Result
<1>3. values' \in Seq(Nat)
  BY <1>1, <1>2, ReorderedSeq
<1>4. result' \in Nat \cup {NULL}
  BY <1>1, <1>2, MiddleIsMedian DEF Result
<1>5. TypeOK'
  BY <1>1, <1>3, <1>4 DEF Result, TypeOK, Phases
<1>6. PhaseInv'
  BY <1>1 DEF Result, PhaseInv, ReadsNumbers
<1>7. ASSUME ReadsNumbers
      PROVE  Reorders(group, values') /\ IsMedian'
  <2>1. Reorders(group, values) /\ group \in Seq(Nat)
    BY <1>1, <1>7, NumbersAreNat DEF VectorIsGroup, TypeOK, Result
  <2>2. Reorders(group, values')
    BY <1>2, <2>1, ReorderedAgain
  <2>3. values = << >> <=> group = << >>
    BY <1>1, <2>1, ReorderedSeq, EmptySeq
  <2>4. group # << >> => Middle(values') = TwiceMedian(group)
    BY <1>2, <2>1, <2>2, MiddleIsMedian
  <2>5. QED
    BY <2>2, <2>3, <2>4 DEF Result, IsMedian
<1>8. VectorIsGroup' /\ MedianOfGroup'
  BY <1>7 DEF Result, VectorIsGroup, ReadsNumbers, MedianOfGroup, IsMedian
<1>9. QED
  BY <1>5, <1>6, <1>8 DEF IInv

LEMMA MedianStep == IInv /\ [Next]_vars => IInv'
<1> SUFFICES ASSUME IInv, [Next]_vars
             PROVE  IInv'
  OBVIOUS
<1>1. TypeOK /\ PhaseInv /\ VectorIsGroup /\ MedianOfGroup
  BY DEF IInv
<1>2. CASE UNCHANGED vars
  BY <1>2 DEF vars, IInv, TypeOK, PhaseInv, VectorIsGroup, MedianOfGroup, ReadsNumbers, IsMedian
<1>3. CASE InitRejects \/ NewContextFails
  BY <1>2, <1>3 DEF InitRejects, NewContextFails
<1>4. CASE InitCall
  <2>1. TypeOK'
    BY <1>1, <1>4, EmptySeq DEF InitCall, TypeOK, Phases, Types
  <2>2. PhaseInv'
    BY <1>1, <1>4 DEF InitCall, PhaseInv, ReadsNumbers, TypeOK, Platforms
  <2>3. VectorIsGroup' /\ MedianOfGroup'
    BY <1>4 DEF InitCall, VectorIsGroup, MedianOfGroup
  <2>4. QED
    BY <2>1, <2>2, <2>3 DEF IInv
<1>11. CASE NewVector
  <2>1. TypeOK' /\ PhaseInv'
    BY <1>1, <1>11 DEF NewVector, TypeOK, Phases, PhaseInv, ReadsNumbers
  <2>2. VectorIsGroup' /\ MedianOfGroup'
    BY <1>11 DEF NewVector, VectorIsGroup, MedianOfGroup
  <2>3. QED
    BY <2>1, <2>2 DEF IInv
<1>12. CASE NewVectorFails
  <2>1. TypeOK' /\ PhaseInv'
    BY <1>1, <1>12 DEF NewVectorFails, TypeOK, Phases, PhaseInv
  <2>2. VectorIsGroup' /\ MedianOfGroup'
    BY <1>12 DEF NewVectorFails, VectorIsGroup, MedianOfGroup
  <2>3. QED
    BY <2>1, <2>2 DEF IInv
<1>5. CASE Clear
  <2>1. TypeOK'
    BY <1>1, <1>5, BoundsAssumption DEF Clear, TypeOK, Phases
  <2>2. PhaseInv' /\ MedianOfGroup'
    BY <1>1, <1>5 DEF Clear, PhaseInv, ReadsNumbers, MedianOfGroup
  <2>3. VectorIsGroup'
    BY <1>5, NothingReordered DEF Clear, VectorIsGroup
  <2>4. QED
    BY <2>1, <2>2, <2>3 DEF IInv
<1>6. CASE Reset
  <2>1. group = << >> /\ << >> \in Seq(Nat)
    BY <1>1, <1>6 DEF Reset, VectorIsGroup
  <2>2. QED
    BY <1>6, <2>1, NothingReordered, PushKeeps DEF Reset
<1>7. CASE Add
  BY <1>1, <1>7, PushKeeps DEF Add, TypeOK, VectorIsGroup
<1>8. CASE Result
  BY <1>8, ResultKeeps
<1>9. CASE Deinit
  <2>1. TypeOK'
    BY <1>1, <1>9, BoundsAssumption DEF Deinit, TypeOK, Phases
  <2>2. PhaseInv' /\ VectorIsGroup' /\ MedianOfGroup'
    BY <1>9 DEF Deinit, PhaseInv, VectorIsGroup, MedianOfGroup
  <2>3. QED
    BY <2>1, <2>2 DEF IInv
<1>10. QED
  BY <1>2, <1>3, <1>4, <1>5, <1>6, <1>7, <1>8, <1>9, <1>11, <1>12 DEF Next

LEMMA MedianInvariant == Spec => []IInv
BY MedianInit, MedianStep, PTL DEF Spec

(***************************************************************************)
(* What my_median promises.                                                *)
(***************************************************************************)

\* The vector and the group are numbers, the result is a number or NULL, and the
\* phases are those of the server's calls, for any numbers and any size of group
\* (my_median.cpp:73-106).
THEOREM MedianTypeCorrect == Spec => []TypeOK
<1>1. IInv => TypeOK
  BY DEF IInv
<1>2. QED
  BY <1>1, MedianInvariant, PTL

\* my_median returns the median of its group: the mean of the two numbers in
\* the middle of the vector std::sort leaves is the mean of the numbers that have
\* half of the group on either side, for a group of any size, in any order, with
\* the group before cleared or reset and NULLs left out.
THEOREM MedianIsOfGroup == Spec => []MedianOfGroup
<1>1. IInv => MedianOfGroup
  BY DEF IInv
<1>2. QED
  BY <1>1, MedianInvariant, PTL

\* What my_median_init allocates is freed by my_median_deinit or by the init that
\* fails, and is there in every call between.
THEOREM MemoryBalanced == Spec => []HeapBalanced
<1>1. IInv => HeapBalanced
  BY DEF IInv, PhaseInv, HeapBalanced
<1>2. QED
  BY <1>1, MedianInvariant, PTL

(***************************************************************************)
(* hello_world and helloworld: every step keeps the inductive invariant.   *)
(***************************************************************************)

LEMMA HelloUdfInit == HelloInit => HelloIInv
BY DEF HelloInit, HelloIInv, BufferInv, BufferFreedOnce, AnswerInv, NoHeap

\* Freeing the buffer initid->ptr points to leaves nothing allocated.
LEMMA NothingLeft == BufferInv => DOMAIN Free = {}
BY DEF BufferInv, BufferFreedOnce, Free

LEMMA WelcomeKeeps ==
  ASSUME HelloIInv, Welcome
  PROVE  HelloIInv'
<1>1. DOMAIN Free = {}
  BY NothingLeft DEF HelloIInv
<1>2. PICK n \in Names : n = given'
  BY DEF Welcome
<1>3. PICK a \in Addresses :
        ptr' = a /\ heap' = [b \in DOMAIN Free \cup {a} |-> IF b = a THEN BufLen(n) ELSE Free[b]]
  BY <1>2 DEF Welcome, FreeAndMalloc, Malloc
<1>4. DOMAIN heap' = {ptr'} /\ heap'[ptr'] = BufLen(n) /\ ptr' \in Addresses /\ ptr' # NoPtr
  BY <1>1, <1>3, HelloAssumption
<1>5. BufferInv'
  BY <1>4 DEF BufferInv, BufferFreedOnce, Welcome, Returns
<1>6. AnswerInv'
  <2>1. answer' = [at |-> ptr', length |-> 8 + n.upto + 25, name |-> n]
    BY <1>2 DEF Welcome, Returns
  <2>2. 8 + n.upto + 25 = n.upto + 33
    BY HelloAssumption
  <2>3. QED
    BY <1>2, <1>4, <2>1, <2>2 DEF AnswerInv, BufLen
<1>7. QED
  BY <1>5, <1>6 DEF HelloIInv

LEMMA HelloUdfStep == HelloIInv /\ [HelloNext]_helloVars => HelloIInv'
<1> SUFFICES ASSUME HelloIInv, [HelloNext]_helloVars
             PROVE  HelloIInv'
  OBVIOUS
<1>1. BufferInv /\ AnswerInv
  BY DEF HelloIInv
<1>2. CASE UNCHANGED helloVars
  BY <1>2 DEF helloVars, HelloIInv, BufferInv, BufferFreedOnce, AnswerInv, OverrunsResult
<1>3. CASE RejectArgs
  BY <1>2, <1>3 DEF RejectArgs
<1>4. CASE AcceptCall
  BY <1>1, <1>4 DEF AcceptCall, HelloIInv, BufferInv, BufferFreedOnce, AnswerInv
<1>5. CASE Greet
  <2>1. BufferInv'
    BY <1>1, <1>5 DEF Greet, Returns, BufferInv, BufferFreedOnce
  <2>2. AnswerInv'
    BY <1>5, HelloAssumption DEF Greet, Returns, AnswerInv
  <2>3. QED
    BY <2>1, <2>2 DEF HelloIInv
<1>6. CASE HelloName
  <2>1. BufferInv'
    BY <1>1, <1>6 DEF HelloName, Returns, BufferInv, BufferFreedOnce
  <2>2. AnswerInv'
    <3>1. CASE given' = NoName
      BY <1>6, <3>1, HelloAssumption DEF HelloName, Returns, AnswerInv
    <3>2. CASE given' \in Names
      <4>1. answer' = [at |-> "result", length |-> 14 + given'.upto, name |-> given']
        BY <1>6, <3>2, HelloAssumption DEF HelloName, Returns
      <4>2. given'.upto \in Nat
        BY <3>2, HelloAssumption
      <4>3. 14 + given'.upto < ResultLen \/ OverrunsResult'
        BY <1>6, <3>2, <4>2, HelloAssumption DEF HelloName, Returns, OverrunsResult
      <4>4. QED
        BY <4>1, <4>3 DEF AnswerInv
    <3>3. QED
      BY <1>6, <3>1, <3>2 DEF HelloName
  <2>3. QED
    BY <2>1, <2>2 DEF HelloIInv
<1>7. CASE WelcomeNull
  BY <1>1, <1>7 DEF WelcomeNull, Returns, HelloIInv, BufferInv, BufferFreedOnce, AnswerInv
<1>8. CASE Welcome
  BY <1>8, WelcomeKeeps
<1>9. CASE WelcomeFails
  BY <1>1, <1>9, NothingLeft
     DEF WelcomeFails, FreeAndFail, Returns, HelloIInv, BufferInv, BufferFreedOnce, AnswerInv
<1>10. CASE HelloDeinit
  BY <1>1, <1>10, NothingLeft
     DEF HelloDeinit, HelloIInv, BufferInv, BufferFreedOnce, AnswerInv
<1>11. QED
  BY <1>2, <1>3, <1>4, <1>5, <1>6, <1>7, <1>8, <1>9, <1>10 DEF HelloNext

LEMMA HelloInvariant == HelloSpec => []HelloIInv
BY HelloUdfInit, HelloUdfStep, PTL DEF HelloSpec

(***************************************************************************)
(* What hello_world and helloworld promise.                                *)
(***************************************************************************)

\* helloworld(name) frees each buffer it allocates once, at the next row with a
\* name or in deinit, past NULL rows and a malloc that fails.
THEOREM BuffersFreedOnce == HelloSpec => []BufferFreedOnce
<1>1. HelloIInv => BufferFreedOnce
  BY DEF HelloIInv, BufferInv
<1>2. QED
  BY <1>1, HelloInvariant, PTL

\* What the server reads is the answer of the row, in memory that is still
\* allocated and long enough: on the Mac for names of any length, with or without
\* NUL bytes; on Linux for those the result buffer has room for.
THEOREM AnswersAreWhole == HelloSpec => []AnswerIsWhole
<1>1. ASSUME HelloIInv
      PROVE  AnswerIsWhole
  <2>1. SUFFICES ASSUME stage = "row", ~ OverrunsResult
                 PROVE  /\ answer.at \in Addresses =>
                             answer.at \in DOMAIN heap /\ answer.length < heap[answer.at]
                        /\ answer.at = "result" => answer.length < ResultLen
                        /\ given \in Names /\ answer.at # NoPtr => answer.name = given
    BY DEF AnswerIsWhole
  <2>2. CASE answer.at = NoPtr
    BY <2>2, HelloAssumption
  <2>3. CASE /\ answer.at = "result" /\ answer.length < ResultLen
             /\ given \in Names => answer.name = given
    BY <2>3, HelloAssumption
  <2>4. CASE /\ answer.at = ptr /\ given \in Names /\ answer.at # NoPtr
             /\ answer.name = given /\ heap[ptr] = BufLen(given)
             /\ answer.length = given.upto + 33
    <3>1. ptr \in Addresses /\ ptr \in DOMAIN heap
      BY <1>1, <2>4 DEF HelloIInv, BufferInv, BufferFreedOnce
    <3>2. given.upto + 33 < BufLen(given)
      <4>1. given.length \in Nat /\ given.upto \in Nat /\ given.upto <= given.length
        BY <2>4, HelloAssumption
      <4>2. QED
        BY <4>1 DEF BufLen
    <3>3. QED
      BY <2>4, <3>1, <3>2, HelloAssumption
  <2>5. QED
    BY <1>1, <2>1, <2>2, <2>3, <2>4 DEF HelloIInv, AnswerInv
<1>2. QED
  BY <1>1, HelloInvariant, PTL
=============================================================================
