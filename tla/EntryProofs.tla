----------------------------- MODULE EntryProofs -----------------------------
(* Proofs about the components that carry, name and mask what is logged (stack   *)
(* entries, branching contexts, pooled states, pooled pipeline entries, the      *)
(* field dictionary and the field stores, the maskers), for every number of      *)
(* writers, builders, names, slots, rules, writes and reconfigurations.  Each    *)
(* section gives the component's inductive invariant X and the lemmas XStart,    *)
(* XKeeps and XMeans, or names like these; ProcessingProofs joins them.          *)
EXTENDS Pipeline, SlotPool, StackEntry, Contexts, FieldDict, FieldStore, SensitiveRegistry, Masker, Redaction,
        FiniteSetTheorems, FunctionTheorems, SequenceTheorems, WellFoundedInduction, TLAPS


-----------------------------------------------------------------------------
(* Least elements, induction over the numbers and over finite sets, and sums. *)

LessOn == {ss \in Nat \X Nat : ss[1] < ss[2]}

LEMMA LessWF == IsWellFoundedOn(LessOn, Nat)
  BY NatLessThanWellFounded DEF OpToRel, LessOn

LEMMA Smallest ==
  ASSUME NEW T \in SUBSET Nat, T # {}
  PROVE \E x \in T : \A y \in T : x <= y
<1>1. PICK x \in T : \A y \in T : ~ (<<y, x>> \in LessOn)
  BY LessWF, WFMin
<1>2. ASSUME NEW m \in Nat, NEW n \in Nat, m < n PROVE <<m, n>> \in LessOn
  <2>1. <<m, n>> \in Nat \X Nat /\ <<m, n>>[1] = m /\ <<m, n>>[2] = n
    OBVIOUS
  <2>2. PICK q \in Nat \X Nat : q = <<m, n>> /\ q[1] = m /\ q[2] = n
    BY <2>1
  <2>3. q \in LessOn
    BY <2>2, <1>2 DEF LessOn
  <2> QED
    BY <2>2, <2>3
<1>3. ASSUME NEW y \in T PROVE x <= y
  <2>1. x \in Nat /\ y \in Nat
    OBVIOUS
  <2>2. ~ (y < x)
    BY <2>1, <1>1, <1>2
  <2> QED
    BY <2>1, <2>2
<1> QED
  BY <1>3

LEMMA Ind ==
  ASSUME NEW S \in SUBSET Nat, 0 \in S, \A n \in Nat : n \in S => n + 1 \in S
  PROVE S = Nat
<1> SUFFICES ASSUME Nat \ S # {} PROVE FALSE
  OBVIOUS
<1>1. PICK x \in Nat \ S : \A y \in Nat \ S : x <= y
  <2> DEFINE T == Nat \ S
  <2>1. T \in SUBSET Nat /\ T # {}
    OBVIOUS
  <2> HIDE DEF T
  <2> QED
    BY <2>1, Smallest DEF T
<1>2. x # 0 /\ x - 1 \in Nat
  OBVIOUS
<1>3. x - 1 \in S
  BY <1>1, <1>2
<1> QED
  BY <1>2, <1>3

-----------------------------------------------------------------------------
Picked(s) == CHOOSE x \in s : TRUE
SumStep(f, g, s) == IF s = {} THEN 0 ELSE g[Picked(s)] + f[s \ {Picked(s)}]
Sums(g, S) == CHOOSE f : f = [s \in SUBSET S |-> SumStep(f, g, s)]

\* The sums of the subsets of at most n elements.
Upto(S, n) == {s \in SUBSET S : Cardinality(s) <= n}
SumsUpto(f, g, S, n) == f = [s \in Upto(S, n) |-> SumStep(f, g, s)]

LEMMA OneLess ==
  ASSUME NEW S, IsFiniteSet(S), NEW s \in SUBSET S, s # {}
  PROVE  /\ Picked(s) \in s /\ Picked(s) \in S /\ s \ {Picked(s)} \in SUBSET S
         /\ Cardinality(s) \in Nat /\ Cardinality(s \ {Picked(s)}) \in Nat
         /\ Cardinality(s \ {Picked(s)}) = Cardinality(s) - 1
  <1>1. Picked(s) \in s
    BY DEF Picked
  <1>2. IsFiniteSet(s)
    BY FS_Subset
  <1> QED BY <1>1, <1>2, FS_RemoveElement, FS_CardinalityType

\* A property of sets that adding the element picked keeps is one of all subsets.
LEMMA SubsetInd ==
  ASSUME NEW S, IsFiniteSet(S), NEW Q, {} \in Q,
         \A s \in SUBSET S : s # {} /\ s \ {Picked(s)} \in Q => s \in Q
  PROVE  SUBSET S \subseteq Q
  <1>. DEFINE N == {n \in Nat : \A s \in SUBSET S : Cardinality(s) = n => s \in Q}
  <1>1. 0 \in N
    <2>1. \A s \in SUBSET S : Cardinality(s) = 0 => s = {}
      BY FS_EmptySet, FS_Subset
    <2> QED BY <2>1
  <1>2. ASSUME NEW n \in Nat, n \in N PROVE n + 1 \in N
    <2>1. ASSUME NEW s \in SUBSET S, Cardinality(s) = n + 1 PROVE s \in Q
      <3>1. s # {}
        BY <2>1, FS_EmptySet
      <3>2. s \ {Picked(s)} \in SUBSET S /\ Cardinality(s \ {Picked(s)}) = n
        BY <2>1, <3>1, OneLess
      <3>3. s \ {Picked(s)} \in Q
        BY <1>2, <3>2
      <3> QED BY <3>1, <3>3
    <2> QED BY <2>1
  <1>. HIDE DEF N
  <1>3. N \in SUBSET Nat
    BY DEF N
  <1>4. N = Nat
    BY <1>1, <1>2, <1>3, Ind
  <1>5. \A s \in SUBSET S : Cardinality(s) \in Nat
    BY FS_Subset, FS_CardinalityType
  <1> QED BY <1>4, <1>5 DEF N

LEMMA SumsExist ==
  ASSUME NEW S, IsFiniteSet(S), NEW g
  PROVE  Sums(g, S) = [s \in SUBSET S |-> SumStep(Sums(g, S), g, s)]
  <1>. DEFINE N == {n \in Nat : \E f : SumsUpto(f, g, S, n)}
  <1>0. \A s \in SUBSET S : IsFiniteSet(s) /\ Cardinality(s) \in Nat
    BY FS_Subset, FS_CardinalityType
  <1>1. 0 \in N
    <2>1. Upto(S, 0) = {{}}
      BY <1>0, FS_EmptySet DEF Upto
    <2>2. SumsUpto([s \in {{}} |-> 0], g, S, 0)
      BY <2>1 DEF SumStep, SumsUpto
    <2> QED BY <2>2
  <1>2. ASSUME NEW n \in Nat, n \in N PROVE n + 1 \in N
    <2>1. PICK f : SumsUpto(f, g, S, n)
      BY <1>2
    <2>. DEFINE h == [s \in Upto(S, n + 1) |-> SumStep(f, g, s)]
    <2>2. ASSUME NEW s \in Upto(S, n) PROVE h[s] = f[s]
      <3>1. s \in Upto(S, n + 1)
        BY <1>0 DEF Upto
      <3> QED BY <2>1, <3>1 DEF SumsUpto
    <2>3. ASSUME NEW s \in Upto(S, n + 1) PROVE SumStep(h, g, s) = SumStep(f, g, s)
      <3>1. CASE s = {}
        BY <3>1 DEF SumStep
      <3>2. CASE s # {}
        <4>1. s \ {Picked(s)} \in Upto(S, n)
          BY <3>2, OneLess DEF Upto
        <4>. HIDE DEF h
        <4> QED BY <2>2, <3>2, <4>1 DEF SumStep
      <3> QED BY <3>1, <3>2
    <2>4. SumsUpto(h, g, S, n + 1)
      BY <2>3 DEF SumsUpto
    <2> QED BY <2>4
  <1>3. N = Nat
    <2>1. N \in SUBSET Nat
      OBVIOUS
    <2>. HIDE DEF N
    <2> QED BY <1>1, <1>2, <2>1, Ind
  <1>4. Cardinality(S) \in Nat /\ Upto(S, Cardinality(S)) = SUBSET S
    <2>1. \A s \in SUBSET S : Cardinality(s) <= Cardinality(S)
      BY FS_Subset
    <2> QED BY <1>0, <2>1 DEF Upto
  <1>5. PICK f : SumsUpto(f, g, S, Cardinality(S))
    BY <1>3, <1>4
  <1>6. f = [s \in SUBSET S |-> SumStep(f, g, s)]
    BY <1>4, <1>5 DEF SumsUpto
  <1> QED BY <1>6 DEF Sums

\* The sum of g over S.
Total(g, S) == Sums(g, S)[S]

LEMMA TotalIs ==
  ASSUME NEW g, NEW S
  PROVE  MapThenSumSet(LAMBDA x : g[x], S) = Total(g, S)
  BY DEF MapThenSumSet, MapThenFoldSet, Sums, SumStep, Picked, Total

LEMMA SumsSteps ==
  ASSUME NEW S, IsFiniteSet(S), NEW g
  PROVE  /\ Total(g, S) = Sums(g, S)[S]
         /\ Sums(g, S)[{}] = 0
         /\ \A s \in SUBSET S : s # {} => Sums(g, S)[s] = g[Picked(s)] + Sums(g, S)[s \ {Picked(s)}]
  <1>1. Sums(g, S) = [s \in SUBSET S |-> SumStep(Sums(g, S), g, s)]
    BY SumsExist
  <1>2. \A s \in SUBSET S : Sums(g, S)[s] = SumStep(Sums(g, S), g, s)
    BY <1>1
  <1>3. {} \in SUBSET S
    OBVIOUS
  <1>4. Total(g, S) = Sums(g, S)[S]
    BY DEF Total
  <1> QED BY <1>2, <1>3, <1>4 DEF SumStep

LEMMA TotalWithin ==
  ASSUME NEW S, IsFiniteSet(S), NEW g, NEW lo \in Int, NEW hi \in Int,
         \A x \in S : g[x] \in Int /\ lo <= g[x] /\ g[x] <= hi
  PROVE  Total(g, S) \in Int /\ lo * Cardinality(S) <= Total(g, S) /\ Total(g, S) <= hi * Cardinality(S)
  <1>. DEFINE F == Sums(g, S)
              Q == {s \in SUBSET S : F[s] \in Int /\ lo * Cardinality(s) <= F[s] /\ F[s] <= hi * Cardinality(s)}
  <1>0. \A s \in SUBSET S : s # {} => F[s] = g[Picked(s)] + F[s \ {Picked(s)}]
    BY SumsSteps
  <1>1. {} \in Q
    BY SumsSteps, FS_EmptySet
  <1>2. ASSUME NEW s \in SUBSET S, s # {}, s \ {Picked(s)} \in Q PROVE s \in Q
    <2>. DEFINE c == Cardinality(s \ {Picked(s)})
                f == F[s \ {Picked(s)}]
                x == g[Picked(s)]
    <2>1. Cardinality(s) = c + 1 /\ c \in Nat /\ Picked(s) \in S
      BY <1>2, OneLess
    <2>2. F[s] = x + f
      BY <1>0, <1>2
    <2>3. f \in Int /\ lo * c <= f /\ f <= hi * c
      BY <1>2
    <2>4. x \in Int /\ lo <= x /\ x <= hi
      BY <2>1
    <2>. HIDE DEF c, f, x, F
    <2>5. lo * (c + 1) = lo * c + lo /\ hi * (c + 1) = hi * c + hi /\ lo * c \in Int /\ hi * c \in Int
      BY <2>1
    <2>6. x + f \in Int /\ lo * c + lo <= x + f /\ x + f <= hi * c + hi
      BY <2>3, <2>4, <2>5
    <2> QED BY <2>1, <2>2, <2>5, <2>6
  <1>3. SUBSET S \subseteq Q
    <2>. HIDE DEF Q
    <2> QED BY <1>1, <1>2, SubsetInd
  <1>4. S \in Q
    BY <1>3
  <1> QED BY <1>4, SumsSteps

LEMMA TotalRaised ==
  ASSUME NEW S, IsFiniteSet(S), NEW g, NEW h, NEW y \in S, NEW d \in Int,
         \A x \in S : g[x] \in Int, h[y] = g[y] + d, \A x \in S \ {y} : h[x] = g[x]
  PROVE  Total(g, S) \in Int /\ Total(h, S) = Total(g, S) + d
  <1>. DEFINE F == Sums(g, S)
              H == Sums(h, S)
              Q == {s \in SUBSET S : F[s] \in Int /\ H[s] = F[s] + (IF y \in s THEN d ELSE 0)}
  <1>1. {} \in Q
    BY SumsSteps
  <1>2. ASSUME NEW s \in SUBSET S, s # {}, s \ {Picked(s)} \in Q PROVE s \in Q
    <2>. DEFINE p == Picked(s)
                r == s \ {Picked(s)}
    <2>1. p \in s /\ p \in S
      BY <1>2, OneLess
    <2>2. F[s] = g[p] + F[r] /\ H[s] = h[p] + H[r]
      BY <1>2, SumsSteps
    <2>3. F[r] \in Int /\ H[r] = F[r] + (IF y \in r THEN d ELSE 0)
      BY <1>2
    <2>4. g[p] \in Int /\ h[p] = g[p] + (IF p = y THEN d ELSE 0)
      BY <2>1
    <2>5. y \in r <=> y \in s /\ p # y
      OBVIOUS
    <2>. HIDE DEF p, r, F, H
    <2>6. F[s] \in Int
      BY <2>2, <2>3, <2>4
    <2>7. H[s] = F[s] + (IF y \in s THEN d ELSE 0)
      <3>1. CASE p = y
        BY <3>1, <2>1, <2>2, <2>3, <2>4, <2>5
      <3>2. CASE p # y
        BY <3>2, <2>1, <2>2, <2>3, <2>4, <2>5
      <3> QED BY <3>1, <3>2
    <2> QED BY <2>6, <2>7
  <1>3. SUBSET S \subseteq Q
    <2>. HIDE DEF Q
    <2> QED BY <1>1, <1>2, SubsetInd
  <1>4. S \in Q
    BY <1>3
  <1> QED BY <1>4, SumsSteps

LEMMA TotalIsInt ==
  ASSUME NEW S, IsFiniteSet(S), NEW g, \A x \in S : g[x] \in Int
  PROVE  Total(g, S) \in Int
  <1>. DEFINE F == Sums(g, S)
              Q == {s \in SUBSET S : F[s] \in Int}
  <1>0. F[{}] = 0 /\ \A s \in SUBSET S : s # {} => F[s] = g[Picked(s)] + F[s \ {Picked(s)}]
    BY SumsSteps
  <1>1. {} \in Q
    BY <1>0
  <1>2. ASSUME NEW s \in SUBSET S, s # {}, s \ {Picked(s)} \in Q PROVE s \in Q
    <2>1. g[Picked(s)] \in Int
      BY <1>2, OneLess
    <2> QED BY <1>0, <1>2, <2>1
  <1>3. SUBSET S \subseteq Q
    <2>. HIDE DEF Q
    <2> QED BY <1>1, <1>2, SubsetInd
  <1>4. S \in Q
    BY <1>3
  <1> QED BY <1>4, SumsSteps

LEMMA TotalOfZeros ==
  ASSUME NEW S, IsFiniteSet(S), NEW g, \A x \in S : g[x] = 0
  PROVE  Total(g, S) = 0
  <1>1. \A x \in S : g[x] \in Int /\ 0 <= g[x] /\ g[x] <= 0
    OBVIOUS
  <1>2. Total(g, S) \in Int /\ 0 * Cardinality(S) <= Total(g, S) /\ Total(g, S) <= 0 * Cardinality(S)
    BY <1>1, TotalWithin
  <1>3. Cardinality(S) \in Nat
    BY FS_CardinalityType
  <1> QED BY <1>2, <1>3

-----------------------------------------------------------------------------
(* FoldLeft over a sequence.                                                  *)

\* The greatest of some of the first numbers, by which FoldLeft goes back.
LEMMA Largest ==
  ASSUME NEW n \in Nat, NEW s \in SUBSET (1 .. n), s # {}
  PROVE  Max(s) \in s /\ \A y \in s : y <= Max(s)
  <1>. DEFINE T == {n - x : x \in s}
  <1>1. T \in SUBSET Nat /\ T # {}
    <2>1. \A x \in s : x \in 1 .. n
      OBVIOUS
    <2>2. \A x \in s : n - x \in Nat
      BY <2>1
    <2> QED BY <2>2
  <1>2. PICK z \in T : \A y \in T : z <= y
    <2>. HIDE DEF T
    <2> QED BY <1>1, Smallest
  <1>3. PICK x \in s : z = n - x
    BY <1>2
  <1>4. ASSUME NEW y \in s PROVE x >= y
    <2>1. n - y \in T /\ z <= n - y
      BY <1>2
    <2> QED BY <2>1, <1>3
  <1>5. \E w \in s : \A y \in s : w >= y
    BY <1>4
  <1>6. Max(s) \in s /\ \A y \in s : Max(s) >= y
    BY <1>5 DEF Max
  <1> QED BY <1>6

LEMMA BelowLargest ==
  ASSUME NEW k \in Nat, NEW s \in SUBSET (1 .. k + 1), s # {}
  PROVE  s \ {Max(s)} \in SUBSET (1 .. k) /\ Max(s) \in 1 .. k + 1
  <1>1. Max(s) \in s /\ \A y \in s : y <= Max(s)
    <2>1. k + 1 \in Nat
      OBVIOUS
    <2> QED BY <2>1, Largest
  <1>2. Max(s) \in 1 .. k + 1 /\ \A y \in s : y \in 1 .. k + 1
    BY <1>1
  <1>. DEFINE x == Max(s)
  <1>. HIDE DEF x
  <1>3. x \in 1 .. k + 1 /\ \A y \in s : y \in 1 .. k + 1 /\ y <= x
    BY <1>1, <1>2 DEF x
  <1>4. \A y \in s \ {x} : y \in 1 .. k
    BY <1>3
  <1> QED BY <1>3, <1>4 DEF x

LEMMA LargestOfAll == ASSUME NEW k \in Nat \ {0} PROVE Max(1 .. k) = k /\ (1 .. k) \ {Max(1 .. k)} = 1 .. k - 1
  <1>1. Max(1 .. k) \in 1 .. k /\ \A y \in 1 .. k : y <= Max(1 .. k)
    <2>1. 1 .. k \in SUBSET (1 .. k) /\ 1 .. k # {} /\ k \in Nat
      OBVIOUS
    <2> QED BY <2>1, Largest
  <1>2. Max(1 .. k) = k
    BY <1>1
  <1> QED BY <1>2

\* What going back by the greatest keeps holds of all subsets.
LEMMA TopInd ==
  ASSUME NEW n \in Nat, NEW Q, {} \in Q,
         \A s \in SUBSET (1 .. n) : s # {} /\ s \ {Max(s)} \in Q => s \in Q
  PROVE  SUBSET (1 .. n) \subseteq Q
  <1>. DEFINE N == {k \in Nat : \A s \in SUBSET (1 .. n) : s \subseteq 1 .. k => s \in Q}
  <1>1. 0 \in N
    <2>1. \A s \in SUBSET (1 .. n) : s \subseteq 1 .. 0 => s = {}
      OBVIOUS
    <2> QED BY <2>1
  <1>2. ASSUME NEW k \in Nat, k \in N PROVE k + 1 \in N
    <2>1. ASSUME NEW s \in SUBSET (1 .. n), s \subseteq 1 .. k + 1 PROVE s \in Q
      <3>1. CASE s # {}
        <4>1. s \ {Max(s)} \subseteq 1 .. k
          BY <2>1, <3>1, BelowLargest
        <4>2. s \ {Max(s)} \in Q
          BY <1>2, <4>1
        <4> QED BY <3>1, <4>2
      <3> QED BY <3>1
    <2> QED BY <2>1
  <1>3. N = Nat
    <2>1. N \in SUBSET Nat
      OBVIOUS
    <2>. HIDE DEF N
    <2> QED BY <1>1, <1>2, <2>1, Ind
  <1> QED BY <1>3

\* What FoldLeft defines by recursion exists, for an operation given as a function.
FoldStep(f, G, b, s) == IF s = {} THEN b ELSE G[<<f[s \ {Max(s)}], Max(s)>>]
FoldUpto(f, D, G, b, k) ==
    f \in [SUBSET (1 .. k) -> D] /\ \A s \in SUBSET (1 .. k) : f[s] = FoldStep(f, G, b, s)

LEMMA FoldExists ==
  ASSUME NEW n \in Nat, NEW D, NEW b \in D, NEW G \in [D \X (1 .. n) -> D]
  PROVE  \E f : FoldUpto(f, D, G, b, n)
  <1>. DEFINE N == {k \in Nat : k <= n => \E f : FoldUpto(f, D, G, b, k)}
  <1>1. 0 \in N
    <2>1. SUBSET (1 .. 0) = {{}}
      OBVIOUS
    <2>2. FoldUpto([s \in {{}} |-> b], D, G, b, 0)
      BY <2>1 DEF FoldUpto, FoldStep
    <2> QED BY <2>2
  <1>2. ASSUME NEW k \in Nat, k \in N PROVE k + 1 \in N
    <2>. SUFFICES ASSUME k + 1 <= n PROVE \E f : FoldUpto(f, D, G, b, k + 1)
      OBVIOUS
    <2>1. PICK f : FoldUpto(f, D, G, b, k)
      BY <1>2
    <2>2. /\ f \in [SUBSET (1 .. k) -> D]
          /\ \A s \in SUBSET (1 .. k) : f[s] = FoldStep(f, G, b, s)
      BY <2>1 DEF FoldUpto
    <2>. DEFINE h == [s \in SUBSET (1 .. k + 1) |-> FoldStep(f, G, b, s)]
    <2>3. ASSUME NEW s \in SUBSET (1 .. k + 1)
          PROVE  FoldStep(f, G, b, s) \in D
      <3>1. CASE s # {}
        <4>1. s \ {Max(s)} \in SUBSET (1 .. k) /\ Max(s) \in 1 .. n
          <5>1. s \ {Max(s)} \in SUBSET (1 .. k) /\ Max(s) \in 1 .. k + 1
            BY <3>1, BelowLargest
          <5> QED BY <5>1
        <4>2. f[s \ {Max(s)}] \in D
          BY <2>2, <4>1
        <4>3. <<f[s \ {Max(s)}], Max(s)>> \in D \X (1 .. n)
          BY <4>1, <4>2
        <4> QED BY <3>1, <4>3 DEF FoldStep
      <3> QED BY <3>1 DEF FoldStep
    <2>4. \A s \in SUBSET (1 .. k) : s \in SUBSET (1 .. k + 1)
      OBVIOUS
    <2>5. h \in [SUBSET (1 .. k + 1) -> D] /\ \A s \in SUBSET (1 .. k + 1) : h[s] = FoldStep(f, G, b, s)
      BY <2>3
    <2>. HIDE DEF h
    <2>6. \A s \in SUBSET (1 .. k) : h[s] = f[s]
      BY <2>2, <2>4, <2>5
    <2>7. ASSUME NEW s \in SUBSET (1 .. k + 1) PROVE FoldStep(h, G, b, s) = FoldStep(f, G, b, s)
      <3>1. CASE s # {}
        <4>1. s \ {Max(s)} \in SUBSET (1 .. k)
          BY <3>1, BelowLargest
        <4> QED BY <3>1, <4>1, <2>6 DEF FoldStep
      <3> QED BY <3>1 DEF FoldStep
    <2>8. FoldUpto(h, D, G, b, k + 1)
      BY <2>5, <2>7 DEF FoldUpto
    <2> QED BY <2>8
  <1>3. N = Nat
    <2>1. N \in SUBSET Nat
      OBVIOUS
    <2>. HIDE DEF N
    <2> QED BY <1>1, <1>2, <2>1, Ind
  <1> QED BY <1>3

\* The values it goes through, one per subset it reaches.
FoldIs(f, D, G, b, n) ==
    /\ f \in [SUBSET (1 .. n) -> D] /\ f[{}] = b
    /\ \A t \in SUBSET (1 .. n) : t # {} =>
          Max(t) \in 1 .. n /\ f[t \ {Max(t)}] \in D /\ f[t] = G[<<f[t \ {Max(t)}], Max(t)>>]
LEMMA FoldValues ==
  ASSUME NEW n \in Nat, NEW D, NEW b \in D, NEW G, NEW f, FoldUpto(f, D, G, b, n)
  PROVE  FoldIs(f, D, G, b, n)
  <1>1. f \in [SUBSET (1 .. n) -> D] /\ \A t \in SUBSET (1 .. n) : f[t] = FoldStep(f, G, b, t)
    BY DEF FoldUpto
  <1>2. f[{}] = b
    BY <1>1 DEF FoldStep
  <1>3. ASSUME NEW t \in SUBSET (1 .. n), t # {}
        PROVE  Max(t) \in 1 .. n /\ f[t \ {Max(t)}] \in D /\ f[t] = G[<<f[t \ {Max(t)}], Max(t)>>]
    <2>1. Max(t) \in 1 .. n
      BY <1>3, Largest
    <2>2. f[t \ {Max(t)}] \in D
      BY <1>1
    <2> QED BY <2>1, <2>2, <1>1, <1>3 DEF FoldStep
  <1> QED BY <1>1, <1>2, <1>3 DEF FoldIs

\* The subsets it reaches from all n: the first k, for every k.
LEMMA FirstOnes ==
  ASSUME NEW n \in Nat
  PROVE  /\ 1 .. 0 = {} /\ {} \in SUBSET (1 .. n) /\ 0 \in 0 .. n /\ n \in 0 .. n
         /\ \A k \in 1 .. n : /\ k \in 0 .. n /\ k - 1 \in 0 .. n /\ 1 .. k \in SUBSET (1 .. n) /\ 1 .. k # {}
                              /\ Max(1 .. k) = k /\ (1 .. k) \ {Max(1 .. k)} = 1 .. k - 1
  <1>1. 1 .. 0 = {} /\ {} \in SUBSET (1 .. n) /\ 0 \in 0 .. n /\ n \in 0 .. n
    OBVIOUS
  <1>2. ASSUME NEW k \in 1 .. n
        PROVE  /\ k \in 0 .. n /\ k - 1 \in 0 .. n /\ 1 .. k \in SUBSET (1 .. n) /\ 1 .. k # {}
               /\ Max(1 .. k) = k /\ (1 .. k) \ {Max(1 .. k)} = 1 .. k - 1
    <2>1. k \in Nat \ {0} /\ 1 \in 1 .. k /\ \A x \in 1 .. k : x \in 1 .. n
      OBVIOUS
    <2>2. k \in 0 .. n /\ k - 1 \in 0 .. n
      OBVIOUS
    <2> QED BY <2>1, <2>2, LargestOfAll
  <1> QED BY <1>1, <1>2

-----------------------------------------------------------------------------
(* The field dictionary (fielddict/).                                         *)

KeyMap == UNION {[S -> Nat] : S \in SUBSET Keys}
DictSet == {d \in [keys : KeyMap, values : Seq(Keys \union {Blank}), masks : KeyMap] :
               \A k \in DOMAIN d.keys : d.keys[k] < Len(d.values)}

\* Every key is where its id says, except the names in N and where an id in I was assigned.
BackTo(d, N, I) == \A k \in DOMAIN d.keys : k \notin N /\ d.keys[k] \notin I => d.values[d.keys[k] + 1] = k
\* The bits of the keys are those of their ids.
BitsOf(d) == /\ \A k \in DOMAIN d.masks : k \in DOMAIN d.keys /\ d.masks[k] = d.keys[k]
             /\ \A k \in DOMAIN d.keys : d.keys[k] < MaskWidth => k \in DOMAIN d.masks
\* The keys of d have their ids in e, but for those in N.
KeepsIds(d, e, N) == DOMAIN d.keys \subseteq DOMAIN e.keys /\ \A k \in DOMAIN d.keys \ N : e.keys[k] = d.keys[k]

PutIs(f, k, v) ==
    /\ Put(f, k, v) \in KeyMap /\ DOMAIN Put(f, k, v) = DOMAIN f \union {k} /\ Put(f, k, v)[k] = v
    /\ \A x \in DOMAIN f : x # k => Put(f, k, v)[x] = f[x]

LEMMA PutIn == ASSUME NEW f \in KeyMap, NEW k \in Keys, NEW v \in Nat PROVE PutIs(f, k, v)
  <1>. DEFINE S == DOMAIN f \union {k}
  <1>1. DOMAIN f \subseteq Keys /\ \A x \in DOMAIN f : f[x] \in Nat
    BY DEF KeyMap
  <1>2. Put(f, k, v) \in [S -> Nat] /\ S \in SUBSET Keys
    BY <1>1 DEF Put
  <1> QED BY <1>2 DEF KeyMap, Put, PutIs

LEMMA DictParts ==
  ASSUME NEW d \in DictSet
  PROVE  /\ d.keys \in KeyMap /\ d.masks \in KeyMap /\ d.values \in Seq(Keys \union {Blank}) /\ Len(d.values) \in Nat
         /\ DOMAIN d.keys \subseteq Keys /\ \A k \in DOMAIN d.keys : d.keys[k] \in Nat /\ d.keys[k] < Len(d.values)
  <1>1. /\ d.keys \in KeyMap /\ d.masks \in KeyMap /\ d.values \in Seq(Keys \union {Blank})
        /\ \A k \in DOMAIN d.keys : d.keys[k] < Len(d.values)
    BY DEF DictSet
  <1>2. DOMAIN d.keys \subseteq Keys /\ \A k \in DOMAIN d.keys : d.keys[k] \in Nat
    BY <1>1 DEF KeyMap
  <1> QED BY <1>1, <1>2

LEMMA AssignIn ==
  ASSUME NEW d \in DictSet, NEW k \in Keys, k \notin DOMAIN d.keys
  PROVE  LET e == Assign(d, k)
         IN  /\ e \in DictSet /\ KeepsIds(d, e, {}) /\ k \in DOMAIN e.keys
             /\ \A N, I : BackTo(d, N, I) => BackTo(e, N, I)
             /\ BitsOf(d) => BitsOf(e)
  <1>. DEFINE id == Len(d.values)
              ks == Put(d.keys, k, id)
              vs == Append(d.values, k)
              ms == IF id < MaskWidth THEN Put(d.masks, k, id) ELSE d.masks
              e == [keys |-> ks, values |-> vs, masks |-> ms]
  <1>1. Assign(d, k) = e
    BY DEF Assign
  <1>2. /\ d.keys \in KeyMap /\ d.masks \in KeyMap /\ d.values \in Seq(Keys \union {Blank}) /\ id \in Nat
        /\ DOMAIN d.keys \subseteq Keys /\ \A x \in DOMAIN d.keys : d.keys[x] \in Nat /\ d.keys[x] < id
    BY DictParts
  <1>3. /\ ks \in KeyMap /\ DOMAIN ks = DOMAIN d.keys \union {k} /\ ks[k] = id
        /\ \A x \in DOMAIN d.keys : ks[x] = d.keys[x]
    <2>1. d.keys \in KeyMap /\ id \in Nat
      BY <1>2
    <2>. HIDE DEF id
    <2>2. PutIs(d.keys, k, id)
      BY <2>1, PutIn
    <2>3. \A x \in DOMAIN d.keys : x # k
      OBVIOUS
    <2> QED BY <2>1, <2>2, <2>3 DEF PutIs
  <1>4. /\ vs \in Seq(Keys \union {Blank}) /\ Len(vs) = id + 1 /\ vs[id + 1] = k
        /\ \A i \in 1 .. id : vs[i] = d.values[i]
    <2>1. k \in Keys \union {Blank}
      OBVIOUS
    <2> QED BY <1>2, <2>1, AppendProperties
  <1>5. ms \in KeyMap
    BY <1>2, PutIn DEF PutIs
  <1>6. id < MaskWidth => /\ DOMAIN ms = DOMAIN d.masks \union {k} /\ ms[k] = id
                          /\ \A x \in DOMAIN d.masks : x # k => ms[x] = d.masks[x]
    <2>1. d.masks \in KeyMap /\ id \in Nat
      BY <1>2
    <2>. SUFFICES ASSUME id < MaskWidth
                  PROVE  /\ DOMAIN ms = DOMAIN d.masks \union {k} /\ ms[k] = id
                         /\ \A x \in DOMAIN d.masks : x # k => ms[x] = d.masks[x]
      OBVIOUS
    <2>2. ms = Put(d.masks, k, id)
      OBVIOUS
    <2>. HIDE DEF id, ms
    <2>3. PutIs(d.masks, k, id)
      BY <2>1, PutIn
    <2> QED BY <2>2, <2>3 DEF PutIs
  <1>7. ~(id < MaskWidth) => ms = d.masks
    OBVIOUS
  <1>. HIDE DEF id, ks, vs, ms
  <1>8. e.keys = ks /\ e.values = vs /\ e.masks = ms
    OBVIOUS
  <1>9. e \in DictSet
    <2>1. e \in [keys : KeyMap, values : Seq(Keys \union {Blank}), masks : KeyMap]
      BY <1>3, <1>4, <1>5
    <2>2. \A x \in DOMAIN e.keys : e.keys[x] < Len(e.values)
      BY <1>2, <1>3, <1>4, <1>8
    <2> QED BY <2>1, <2>2 DEF DictSet
  <1>10. KeepsIds(d, e, {}) /\ k \in DOMAIN e.keys
    BY <1>3, <1>8 DEF KeepsIds
  <1>11. ASSUME NEW N, NEW I, BackTo(d, N, I) PROVE BackTo(e, N, I)
    <2>. SUFFICES ASSUME NEW x \in DOMAIN ks, x \notin N, ks[x] \notin I PROVE vs[ks[x] + 1] = x
      BY <1>8 DEF BackTo
    <2>1. CASE x = k
      BY <2>1, <1>3, <1>4
    <2>2. CASE x # k
      <3>1. x \in DOMAIN d.keys /\ ks[x] = d.keys[x]
        BY <2>2, <1>3
      <3>2. d.values[d.keys[x] + 1] = x
        BY <1>11, <3>1 DEF BackTo
      <3>3. d.keys[x] + 1 \in 1 .. id
        BY <1>2, <3>1
      <3> QED BY <3>1, <3>2, <3>3, <1>4
    <2> QED BY <2>1, <2>2
  <1>12. ASSUME BitsOf(d) PROVE BitsOf(e)
    <2>1. \A x \in DOMAIN d.masks : x \in DOMAIN d.keys /\ d.masks[x] = d.keys[x]
      BY <1>12 DEF BitsOf
    <2>2. \A x \in DOMAIN d.keys : d.keys[x] < MaskWidth => x \in DOMAIN d.masks
      BY <1>12 DEF BitsOf
    <2>3. ASSUME NEW x \in DOMAIN ms PROVE x \in DOMAIN ks /\ ms[x] = ks[x]
      BY <2>1, <1>3, <1>6, <1>7
    <2>4. ASSUME NEW x \in DOMAIN ks, ks[x] < MaskWidth PROVE x \in DOMAIN ms
      BY <2>2, <2>4, <1>3, <1>6, <1>7
    <2> QED BY <2>3, <2>4, <1>8 DEF BitsOf
  <1>. HIDE DEF e
  <1> QED BY <1>1, <1>9, <1>10, <1>11, <1>12

LEMMA RegisteredIn ==
  ASSUME NEW d \in DictSet, NEW k \in Keys
  PROVE  LET e == Registered(d, k)
         IN  /\ e \in DictSet /\ KeepsIds(d, e, {}) /\ k \in DOMAIN e.keys
             /\ \A N, I : BackTo(d, N, I) => BackTo(e, N, I)
             /\ BitsOf(d) => BitsOf(e)
  <1>1. CASE k \in DOMAIN d.keys
    BY <1>1 DEF Registered, Known, KeepsIds
  <1>2. CASE k \notin DOMAIN d.keys
    BY <1>2, AssignIn DEF Registered, Known
  <1> QED BY <1>1, <1>2

\* Names registered one after the other.
LEMMA RegisteredRuns ==
  ASSUME NEW d \in DictSet, NEW s \in Seq(Keys)
  PROVE  \E g : /\ g[0] = d /\ RegisteredAll(d, s) = g[Len(s)]
                /\ \A k \in 1 .. Len(s) : g[k] = Registered(g[k - 1], s[k])
  <1>. DEFINE n == Len(s)
              G == [p \in DictSet \X (1 .. n) |-> Registered(p[1], s[p[2]])]
  <1>0. n \in Nat /\ DOMAIN s = 1 .. n /\ \A i \in 1 .. n : s[i] \in Keys
    OBVIOUS
  <1>1. \A e \in DictSet, i \in 1 .. n : Registered(e, s[i]) \in DictSet
    BY <1>0, RegisteredIn
  <1>2. G \in [DictSet \X (1 .. n) -> DictSet] /\ \A e \in DictSet, i \in 1 .. n : G[<<e, i>>] = Registered(e, s[i])
    BY <1>1
  <1>. HIDE DEF n, G
  <1>3. PICK f : FoldUpto(f, DictSet, G, d, n)
    BY <1>0, <1>2, FoldExists
  <1>4. f = [t \in SUBSET (1 .. n) |-> IF t = {} THEN d ELSE Registered(f[t \ {Max(t)}], s[Max(t)])]
    <2>1. f \in [SUBSET (1 .. n) -> DictSet] /\ \A t \in SUBSET (1 .. n) : f[t] = FoldStep(f, G, d, t)
      BY <1>3 DEF FoldUpto
    <2>2. ASSUME NEW t \in SUBSET (1 .. n), t # {}
          PROVE  f[t] = Registered(f[t \ {Max(t)}], s[Max(t)])
      <3>1. Max(t) \in 1 .. n
        BY <1>0, <2>2, Largest
      <3>2. f[t \ {Max(t)}] \in DictSet
        BY <2>1
      <3> QED BY <2>1, <2>2, <3>1, <3>2, <1>2 DEF FoldStep
    <2>3. f[{}] = d
      BY <2>1 DEF FoldStep
    <2> QED BY <2>1, <2>2, <2>3
  <1>. DEFINE iter == CHOOSE h : h = [t \in SUBSET (1 .. n) |-> IF t = {} THEN d ELSE Registered(h[t \ {Max(t)}], s[Max(t)])]
  <1>5. iter = [t \in SUBSET (1 .. n) |-> IF t = {} THEN d ELSE Registered(iter[t \ {Max(t)}], s[Max(t)])]
    BY <1>4
  <1>6. RegisteredAll(d, s) = iter[1 .. n]
    BY <1>0 DEF RegisteredAll, FoldLeft, MapThenFoldSet
  <1>. HIDE DEF iter
  <1>. DEFINE g == [k \in 0 .. n |-> iter[1 .. k]]
  <1>7. g[0] = d
    <2>1. 1 .. 0 = {} /\ {} \in SUBSET (1 .. n) /\ 0 \in 0 .. n
      BY <1>0
    <2>2. iter[{}] = d
      BY <1>5, <2>1
    <2> QED BY <2>1, <2>2
  <1>8. g[n] = RegisteredAll(d, s)
    BY <1>0, <1>6
  <1>9. ASSUME NEW k \in 1 .. n PROVE g[k] = Registered(g[k - 1], s[k])
    <2>1. Max(1 .. k) = k /\ (1 .. k) \ {Max(1 .. k)} = 1 .. k - 1
      <3>1. k \in Nat \ {0}
        BY <1>0
      <3> QED BY <3>1, LargestOfAll
    <2>2. 1 .. k \in SUBSET (1 .. n) /\ 1 .. k # {}
      <3>1. n \in Nat
        BY <1>0
      <3>2. 1 \in 1 .. k /\ \A x \in 1 .. k : x \in 1 .. n
        BY <3>1
      <3> QED BY <3>2
    <2>3. iter[1 .. k] = Registered(iter[1 .. k - 1], s[k])
      BY <1>5, <2>1, <2>2
    <2> QED BY <2>3, <1>0
  <1> QED BY <1>7, <1>8, <1>9 DEF n

\* What every registration keeps.
After(d, e) == /\ e \in DictSet /\ KeepsIds(d, e, {})
               /\ \A N, I : BackTo(d, N, I) => BackTo(e, N, I)
               /\ BitsOf(d) => BitsOf(e)

LEMMA AfterAfter ==
  ASSUME NEW d, NEW e, NEW f, After(d, e), After(e, f)
  PROVE  After(d, f)
  <1>1. KeepsIds(d, f, {})
    BY DEF After, KeepsIds
  <1>2. \A N, I : BackTo(d, N, I) => BackTo(f, N, I)
    BY DEF After
  <1>3. f \in DictSet /\ (BitsOf(d) => BitsOf(f))
    BY DEF After
  <1> QED BY <1>1, <1>2, <1>3 DEF After

LEMMA RegisteredAllIn ==
  ASSUME NEW d \in DictSet, NEW s \in Seq(Keys)
  PROVE  After(d, RegisteredAll(d, s)) /\ \A i \in 1 .. Len(s) : s[i] \in DOMAIN RegisteredAll(d, s).keys
  <1>. DEFINE n == Len(s)
  <1>0. n \in Nat /\ \A i \in 1 .. n : s[i] \in Keys
    OBVIOUS
  <1>1. PICK g : /\ g[0] = d /\ RegisteredAll(d, s) = g[n]
                 /\ \A k \in 1 .. n : g[k] = Registered(g[k - 1], s[k])
    BY RegisteredRuns
  <1>. HIDE DEF n
  <1>. DEFINE OK(k) == After(d, g[k]) /\ \A i \in 1 .. k : s[i] \in DOMAIN g[k].keys
              N == {k \in Nat : k <= n => OK(k)}
  <1>2. 0 \in N
    <2>1. After(d, d)
      BY DEF After, KeepsIds
    <2>2. OK(0)
      BY <1>1, <2>1
    <2>. HIDE DEF OK
    <2> QED BY <2>2
  <1>3. ASSUME NEW k \in Nat, k \in N PROVE k + 1 \in N
    <2>. SUFFICES ASSUME k + 1 <= n PROVE OK(k + 1)
      OBVIOUS
    <2>1. k + 1 \in 1 .. n /\ (k + 1) - 1 = k /\ k <= n
      BY <1>0
    <2>2. g[k + 1] = Registered(g[k], s[k + 1])
      BY <1>1, <2>1
    <2>3. OK(k)
      BY <1>3, <2>1
    <2>4. g[k] \in DictSet /\ s[k + 1] \in Keys
      BY <2>3, <1>0, <2>1 DEF After
    <2>5. After(g[k], g[k + 1]) /\ s[k + 1] \in DOMAIN g[k + 1].keys
      BY <2>2, <2>4, RegisteredIn DEF After
    <2>6. After(d, g[k + 1])
      BY <2>3, <2>5, AfterAfter
    <2>7. DOMAIN g[k].keys \subseteq DOMAIN g[k + 1].keys
      BY <2>5 DEF After, KeepsIds
    <2>8. \A i \in 1 .. k + 1 : i \in 1 .. k \/ i = k + 1
      OBVIOUS
    <2>9. \A i \in 1 .. k + 1 : s[i] \in DOMAIN g[k + 1].keys
      BY <2>3, <2>5, <2>7, <2>8
    <2> QED BY <2>6, <2>9
  <1>4. N = Nat
    <2>1. N \in SUBSET Nat
      OBVIOUS
    <2>. HIDE DEF N
    <2> QED BY <1>2, <1>3, <2>1, Ind
  <1>5. OK(n)
    <2>. HIDE DEF OK
    <2> QED BY <1>0, <1>4
  <1> QED BY <1>1, <1>5 DEF n

LEMMA AssignAsIn ==
  ASSUME NEW d \in DictSet, NEW k \in Keys, NEW id \in Nat
  PROVE  LET e == AssignAs(d, k, id)
         IN  /\ e \in DictSet /\ k \in DOMAIN e.keys /\ DOMAIN d.keys \subseteq DOMAIN e.keys
             /\ \A x \in DOMAIN d.keys : x # k => e.keys[x] = d.keys[x]
             /\ \A N, I : k \in N /\ id \in I /\ BackTo(d, N, I) => BackTo(e, N, I)
  <1>. DEFINE n == IF Len(d.values) > id THEN Len(d.values) ELSE id + 1
              ks == Put(d.keys, k, id)
              vs == [i \in 1 .. n |-> IF i = id + 1 THEN k
                                      ELSE IF i <= Len(d.values) THEN d.values[i] ELSE Blank]
              ms == IF id < MaskWidth THEN Put(d.masks, k, id) ELSE d.masks
              e == [keys |-> ks, values |-> vs, masks |-> ms]
  <1>1. AssignAs(d, k, id) = e
    BY DEF AssignAs
  <1>2. /\ d.keys \in KeyMap /\ d.masks \in KeyMap /\ d.values \in Seq(Keys \union {Blank}) /\ Len(d.values) \in Nat
        /\ DOMAIN d.keys \subseteq Keys /\ \A x \in DOMAIN d.keys : d.keys[x] \in Nat /\ d.keys[x] < Len(d.values)
    BY DictParts
  <1>3. /\ ks \in KeyMap /\ DOMAIN ks = DOMAIN d.keys \union {k} /\ ks[k] = id
        /\ \A x \in DOMAIN d.keys : x # k => ks[x] = d.keys[x]
    BY ZenonT(60), <1>2, PutIn DEF PutIs
  <1>4. n \in Nat /\ id < n /\ Len(d.values) <= n
    BY <1>2
  <1>5. vs \in Seq(Keys \union {Blank}) /\ Len(vs) = n
        /\ \A i \in 1 .. Len(d.values) : i # id + 1 => vs[i] = d.values[i]
    <2>1. \A i \in 1 .. Len(d.values) : d.values[i] \in Keys \union {Blank}
      BY <1>2
    <2>2. vs \in [1 .. n -> Keys \union {Blank}]
      <3>1. \A i \in 1 .. n : i <= Len(d.values) => i \in 1 .. Len(d.values)
        BY <1>2, <1>4
      <3> QED BY <2>1, <3>1
    <2>3. vs \in Seq(Keys \union {Blank}) /\ Len(vs) = n
      <3>. HIDE DEF n, vs
      <3> QED BY <2>2, <1>4
    <2>4. \A i \in 1 .. Len(d.values) : i \in 1 .. n /\ i <= Len(d.values)
      BY <1>2, <1>4
    <2>5. \A i \in 1 .. Len(d.values) : i # id + 1 => vs[i] = d.values[i]
      BY <2>4
    <2> QED BY <2>3, <2>5
  <1>6. vs[id + 1] = k
    <2>1. id + 1 \in 1 .. n
      BY <1>4
    <2> QED BY <2>1
  <1>7. ms \in KeyMap
    BY <1>2, PutIn DEF PutIs
  <1>. HIDE DEF n, ks, vs, ms
  <1>8. e.keys = ks /\ e.values = vs /\ e.masks = ms
    OBVIOUS
  <1>9. e \in DictSet
    <2>1. e \in [keys : KeyMap, values : Seq(Keys \union {Blank}), masks : KeyMap]
      BY <1>3, <1>5, <1>7
    <2>2. \A x \in DOMAIN e.keys : e.keys[x] < Len(e.values)
      BY <1>2, <1>3, <1>4, <1>5, <1>8
    <2> QED BY <2>1, <2>2 DEF DictSet
  <1>10. ASSUME NEW N, NEW I, k \in N, id \in I, BackTo(d, N, I) PROVE BackTo(e, N, I)
    <2>. SUFFICES ASSUME NEW x \in DOMAIN ks, x \notin N, ks[x] \notin I PROVE vs[ks[x] + 1] = x
      BY <1>8 DEF BackTo
    <2>1. x \in DOMAIN d.keys /\ ks[x] = d.keys[x] /\ ks[x] # id
      BY <1>3, <1>10
    <2>2. d.values[d.keys[x] + 1] = x
      BY <1>10, <2>1 DEF BackTo
    <2>3. d.keys[x] + 1 \in 1 .. Len(d.values) /\ d.keys[x] + 1 # id + 1
      BY <1>2, <2>1
    <2> QED BY <2>1, <2>2, <2>3, <1>5
  <1>11. DOMAIN e.keys = DOMAIN d.keys \union {k} /\ \A x \in DOMAIN d.keys : x # k => e.keys[x] = d.keys[x]
    BY <1>3, <1>8
  <1>. HIDE DEF e
  <1> QED BY <1>1, <1>9, <1>10, <1>11

\* A function on the first numbers is a sequence.
LEMMA OrderOf ==
  ASSUME NEW S \in SUBSET Keys, NEW s \in SetToSeqs(S)
  PROVE  s \in Seq(S) /\ s \in Seq(Keys) /\ Len(s) = Cardinality(S) /\ (S = {} => Len(s) = 0)
  <1>1. IsFiniteSet(S)
    BY KeysAssumption, FS_Subset
  <1>2. Cardinality(S) \in Nat /\ (S = {} => Cardinality(S) = 0)
    BY <1>1, FS_CardinalityType, FS_EmptySet
  <1>3. s \in [1 .. Cardinality(S) -> S]
    BY DEF SetToSeqs
  <1>. DEFINE c == Cardinality(S)
  <1>. HIDE DEF c
  <1>4. s \in Seq(S) /\ Len(s) = c
    BY <1>2, <1>3 DEF c
  <1>5. s \in Seq(Keys)
    BY <1>4
  <1> QED BY <1>2, <1>4, <1>5 DEF c

\* Names that are given their ids one after the other.
Renumbered(m, d, s) == FoldLeft(LAMBDA e, k : AssignAs(e, k, m[k]), d, s)
LEMMA RenumberedRuns ==
  ASSUME NEW d \in DictSet, NEW m \in CustomMaps, NEW s \in Seq(DOMAIN m)
  PROVE  \E g : /\ g[0] = d /\ Renumbered(m, d, s) = g[Len(s)]
                /\ \A k \in 1 .. Len(s) : g[k] = AssignAs(g[k - 1], s[k], m[s[k]])
  <1>. DEFINE n == Len(s)
              G == [p \in DictSet \X (1 .. n) |-> AssignAs(p[1], s[p[2]], m[s[p[2]]])]
  <1>0. n \in Nat /\ DOMAIN s = 1 .. n /\ \A i \in 1 .. n : s[i] \in Keys /\ m[s[i]] \in Nat
    <2>1. DOMAIN m \subseteq Keys /\ \A k \in DOMAIN m : m[k] \in Nat
      BY CustomMapsAssumption
    <2>2. n \in Nat /\ DOMAIN s = 1 .. n /\ \A i \in 1 .. n : s[i] \in DOMAIN m
      OBVIOUS
    <2> QED BY <2>1, <2>2
  <1>1. \A e \in DictSet, i \in 1 .. n : AssignAs(e, s[i], m[s[i]]) \in DictSet
    BY <1>0, AssignAsIn
  <1>2. /\ G \in [DictSet \X (1 .. n) -> DictSet]
        /\ \A e \in DictSet, i \in 1 .. n : G[<<e, i>>] = AssignAs(e, s[i], m[s[i]])
    BY <1>1
  <1>. HIDE DEF n, G
  <1>3. PICK f : FoldUpto(f, DictSet, G, d, n)
    BY <1>0, <1>2, FoldExists
  <1>4. f = [t \in SUBSET (1 .. n) |-> IF t = {} THEN d ELSE AssignAs(f[t \ {Max(t)}], s[Max(t)], m[s[Max(t)]])]
    <2>1. f \in [SUBSET (1 .. n) -> DictSet] /\ \A t \in SUBSET (1 .. n) : f[t] = FoldStep(f, G, d, t)
      BY <1>3 DEF FoldUpto
    <2>2. ASSUME NEW t \in SUBSET (1 .. n), t # {}
          PROVE  f[t] = AssignAs(f[t \ {Max(t)}], s[Max(t)], m[s[Max(t)]])
      <3>1. Max(t) \in 1 .. n
        BY <1>0, <2>2, Largest
      <3>2. f[t \ {Max(t)}] \in DictSet
        BY <2>1
      <3> QED BY <2>1, <2>2, <3>1, <3>2, <1>2 DEF FoldStep
    <2>3. f[{}] = d
      BY <2>1 DEF FoldStep
    <2> QED BY <2>1, <2>2, <2>3
  <1>. DEFINE iter == CHOOSE h : h = [t \in SUBSET (1 .. n) |->
                         IF t = {} THEN d ELSE AssignAs(h[t \ {Max(t)}], s[Max(t)], m[s[Max(t)]])]
  <1>5. iter = [t \in SUBSET (1 .. n) |->
                  IF t = {} THEN d ELSE AssignAs(iter[t \ {Max(t)}], s[Max(t)], m[s[Max(t)]])]
    BY <1>4
  <1>6. Renumbered(m, d, s) = iter[1 .. n]
    BY <1>0 DEF Renumbered, FoldLeft, MapThenFoldSet
  <1>. HIDE DEF iter
  <1>. DEFINE g == [k \in 0 .. n |-> iter[1 .. k]]
  <1>7. g[0] = d
    <2>1. 1 .. 0 = {} /\ {} \in SUBSET (1 .. n) /\ 0 \in 0 .. n
      BY <1>0
    <2>2. iter[{}] = d
      BY <1>5, <2>1
    <2> QED BY <2>1, <2>2
  <1>8. g[n] = Renumbered(m, d, s)
    BY <1>0, <1>6
  <1>9. ASSUME NEW k \in 1 .. n PROVE g[k] = AssignAs(g[k - 1], s[k], m[s[k]])
    <2>1. Max(1 .. k) = k /\ (1 .. k) \ {Max(1 .. k)} = 1 .. k - 1
      <3>1. k \in Nat \ {0}
        BY <1>0
      <3> QED BY <3>1, LargestOfAll
    <2>2. 1 .. k \in SUBSET (1 .. n) /\ 1 .. k # {}
      <3>1. n \in Nat
        BY <1>0
      <3>2. 1 \in 1 .. k /\ \A x \in 1 .. k : x \in 1 .. n
        BY <3>1
      <3> QED BY <3>2
    <2>3. iter[1 .. k] = AssignAs(iter[1 .. k - 1], s[k], m[s[k]])
      BY <1>5, <2>1, <2>2
    <2> QED BY <2>3, <1>0
  <1> QED BY <1>7, <1>8, <1>9 DEF n

\* The names in s are renumbered, the others keep their ids.
LEMMA RenumberedIn ==
  ASSUME NEW d \in DictSet, NEW m \in CustomMaps, NEW s \in Seq(DOMAIN m), NEW N, NEW I,
         DOMAIN m \subseteq N, \A k \in DOMAIN m : m[k] \in I
  PROVE  LET e == Renumbered(m, d, s)
         IN  e \in DictSet /\ KeepsIds(d, e, N) /\ (BackTo(d, N, I) => BackTo(e, N, I))
  <1>. DEFINE n == Len(s)
  <1>0. n \in Nat /\ \A i \in 1 .. n : s[i] \in Keys /\ s[i] \in DOMAIN m /\ m[s[i]] \in Nat
    <2>1. DOMAIN m \subseteq Keys /\ \A k \in DOMAIN m : m[k] \in Nat
      BY CustomMapsAssumption
    <2>2. n \in Nat /\ \A i \in 1 .. n : s[i] \in DOMAIN m
      OBVIOUS
    <2> QED BY <2>1, <2>2
  <1>1. PICK g : /\ g[0] = d /\ Renumbered(m, d, s) = g[n]
                 /\ \A k \in 1 .. n : g[k] = AssignAs(g[k - 1], s[k], m[s[k]])
    BY RenumberedRuns
  <1>. HIDE DEF n
  <1>. DEFINE OK(e) == e \in DictSet /\ KeepsIds(d, e, N) /\ (BackTo(d, N, I) => BackTo(e, N, I))
              M == {k \in Nat : k <= n => OK(g[k])}
  <1>2. 0 \in M
    <2>1. OK(g[0])
      BY <1>1 DEF KeepsIds
    <2>. HIDE DEF OK
    <2> QED BY <2>1
  <1>3. ASSUME NEW k \in Nat, k \in M PROVE k + 1 \in M
    <2>. SUFFICES ASSUME k + 1 <= n PROVE OK(g[k + 1])
      OBVIOUS
    <2>1. k + 1 \in 1 .. n /\ (k + 1) - 1 = k /\ k <= n
      BY <1>0
    <2>. DEFINE a == g[k]
                e == g[k + 1]
                x == s[k + 1]
    <2>2. e = AssignAs(a, x, m[x])
      BY <1>1, <2>1
    <2>3. OK(a)
      BY <1>3, <2>1
    <2>4. a \in DictSet /\ x \in Keys /\ m[x] \in Nat /\ x \in N /\ m[x] \in I
      BY <2>3, <1>0, <2>1
    <2>. HIDE DEF a, e, x
    <2>5. /\ e \in DictSet /\ DOMAIN a.keys \subseteq DOMAIN e.keys
          /\ \A y \in DOMAIN a.keys : y # x => e.keys[y] = a.keys[y]
          /\ BackTo(a, N, I) => BackTo(e, N, I)
      BY <2>2, <2>4, AssignAsIn
    <2>6. KeepsIds(d, e, N)
      BY <2>3, <2>4, <2>5 DEF KeepsIds
    <2>7. OK(e)
      BY <2>3, <2>5, <2>6
    <2> QED BY <2>7 DEF e
  <1>4. M = Nat
    <2>1. M \in SUBSET Nat
      OBVIOUS
    <2>. HIDE DEF M
    <2> QED BY <1>2, <1>3, <2>1, Ind
  <1>5. OK(g[n])
    <2>. HIDE DEF OK
    <2> QED BY <1>0, <1>4
  <1> QED BY <1>1, <1>5 DEF n

\* No name registered, no change.
LEMMA NoneRenumbered == ASSUME NEW d \in DictSet, NEW m \in CustomMaps, NEW s \in Seq(DOMAIN m), Len(s) = 0
                        PROVE  Renumbered(m, d, s) = d
  <1>1. PICK g : /\ g[0] = d /\ Renumbered(m, d, s) = g[Len(s)]
                 /\ \A k \in 1 .. Len(s) : g[k] = AssignAs(g[k - 1], s[k], m[s[k]])
    BY RenumberedRuns
  <1> QED BY <1>1

\* What registrations alone make of an empty dictionary.
Fresh == {d \in DictSet : BackTo(d, {}, {}) /\ BitsOf(d)}
LEMMA FreshAfter == ASSUME NEW d \in Fresh, NEW e, After(d, e) PROVE e \in Fresh
  <1>1. d \in DictSet /\ BackTo(d, {}, {}) /\ BitsOf(d)
    BY DEF Fresh
  <1>2. e \in DictSet /\ BitsOf(e) /\ BackTo(e, {}, {})
    BY <1>1 DEF After
  <1> QED BY <1>2 DEF Fresh

LEMMA EmptyFresh == EmptyDict \in Fresh
  <1>1. <<>> \in KeyMap
    <2>1. <<>> \in [{} -> Nat]
      OBVIOUS
    <2> QED BY <2>1 DEF KeyMap
  <1>2. EmptyDict \in DictSet
    BY <1>1 DEF DictSet, EmptyDict
  <1>3. BackTo(EmptyDict, {}, {}) /\ BitsOf(EmptyDict)
    BY DEF BackTo, BitsOf, EmptyDict
  <1> QED BY <1>2, <1>3 DEF Fresh

LEMMA StandardFresh == StandardDicts \subseteq Fresh
  <1>. DEFINE D == SUBSET Fresh
              n == Len(Categories)
              step(ds, cat) == {RegisteredAll(d, s) : d \in ds, s \in SetToSeqs(cat)}
              G == [p \in D \X (1 .. n) |-> step(p[1], Categories[p[2]])]
              b == {EmptyDict}
  <1>0. n \in Nat /\ DOMAIN Categories = 1 .. n /\ \A i \in 1 .. n : Categories[i] \in SUBSET Keys
    BY KeysAssumption
  <1>1. ASSUME NEW ds \in D, NEW i \in 1 .. n PROVE step(ds, Categories[i]) \in D
    <2>1. ASSUME NEW d \in ds, NEW s \in SetToSeqs(Categories[i]) PROVE RegisteredAll(d, s) \in Fresh
      <3>1. d \in Fresh /\ d \in DictSet
        BY DEF Fresh
      <3>2. s \in Seq(Keys)
        BY <1>0, OrderOf
      <3>3. After(d, RegisteredAll(d, s))
        BY <3>1, <3>2, RegisteredAllIn
      <3> QED BY <3>1, <3>3, FreshAfter
    <2> QED BY <2>1
  <1>2. b \in D
    BY EmptyFresh
  <1>3. /\ G \in [D \X (1 .. n) -> D]
        /\ \A e \in D, i \in 1 .. n : G[<<e, i>>] = step(e, Categories[i])
    <2>. HIDE DEF step, D, n
    <2> QED BY <1>1
  <1>. HIDE DEF n, G, D, step, b
  <1>4. PICK f : FoldUpto(f, D, G, b, n)
    BY <1>0, <1>2, <1>3, FoldExists
  <1>5. f = [t \in SUBSET (1 .. n) |-> IF t = {} THEN b ELSE step(f[t \ {Max(t)}], Categories[Max(t)])]
    <2>1. f \in [SUBSET (1 .. n) -> D] /\ \A t \in SUBSET (1 .. n) : f[t] = FoldStep(f, G, b, t)
      BY <1>4 DEF FoldUpto
    <2>2. ASSUME NEW t \in SUBSET (1 .. n), t # {}
          PROVE  f[t] = step(f[t \ {Max(t)}], Categories[Max(t)])
      <3>1. Max(t) \in 1 .. n
        BY <1>0, <2>2, Largest
      <3>2. f[t \ {Max(t)}] \in D
        BY <2>1
      <3> QED BY <2>1, <2>2, <3>1, <3>2, <1>3 DEF FoldStep
    <2>3. f[{}] = b
      BY <2>1 DEF FoldStep
    <2> QED BY <2>1, <2>2, <2>3
  <1>. DEFINE Rec(h) == h = [t \in SUBSET (1 .. n) |-> IF t = {} THEN b ELSE step(h[t \ {Max(t)}], Categories[Max(t)])]
              iter == CHOOSE h : Rec(h)
  <1>6. Rec(iter)
    BY <1>5
  <1>7. StandardDicts = iter[1 .. n]
    <2>1. StandardDicts = (CHOOSE h : h = [t \in SUBSET (1 .. n) |-> IF t = {} THEN b ELSE step(h[t \ {Max(t)}], Categories[Max(t)])])[1 .. n]
      BY <1>0 DEF StandardDicts, FoldLeft, MapThenFoldSet, step, b, n
    <2> QED BY <2>1
  <1>. HIDE DEF iter
  <1>8. SUBSET (1 .. n) \subseteq {t \in SUBSET (1 .. n) : iter[t] \in D}
    <2>. DEFINE Q == {t \in SUBSET (1 .. n) : iter[t] \in D}
    <2>1. {} \in Q
      BY <1>2, <1>6
    <2>2. ASSUME NEW t \in SUBSET (1 .. n), t # {}, t \ {Max(t)} \in Q PROVE t \in Q
      <3>1. Max(t) \in 1 .. n
        BY <1>0, <2>2, Largest
      <3>2. iter[t] = step(iter[t \ {Max(t)}], Categories[Max(t)])
        BY <1>6, <2>2
      <3>3. iter[t \ {Max(t)}] \in D
        BY <2>2
      <3> QED BY <1>1, <3>1, <3>2, <3>3
    <2>. HIDE DEF Q
    <2>3. SUBSET (1 .. n) \subseteq Q
      BY <1>0, <2>1, <2>2, TopInd
    <2> QED BY <2>3 DEF Q
  <1>9. iter[1 .. n] \in D
    BY <1>8
  <1> QED BY <1>7, <1>9 DEF D

-----------------------------------------------------------------------------
SensInv == /\ sens = [byName |-> sens.byName, byID |-> sens.byID, fieldIDs |-> sens.fieldIDs]
           /\ SensitiveBothWays
GivenInv == \A p \in given : p[1] \in DOMAIN dict.keys /\ (p[1] \notin forced.names => dict.keys[p[1]] = p[2])
ForcedInv == /\ forced = [names |-> forced.names, ids |-> forced.ids]
             /\ forced.names = {} => forced.ids = {} /\ BitsOf(dict)
DictInv == /\ dict \in DictSet
           /\ dc \in [DCallers -> Keys \union {NoKey}]
           /\ GivenInv /\ ForcedInv /\ SensInv
           /\ BackTo(dict, forced.names, forced.ids)

LEMMA DictStarts == ASSUME DictInit PROVE DictInv
  <1>1. dict \in Fresh
    BY EmptyFresh, StandardFresh DEF DictInit
  <1>2. dict \in DictSet /\ BackTo(dict, {}, {}) /\ BitsOf(dict)
    BY <1>1 DEF Fresh
  <1>3. forced.names = {} /\ forced.ids = {} /\ forced = [names |-> forced.names, ids |-> forced.ids] /\ given = {}
    BY DEF DictInit
  <1>4. dc \in [DCallers -> Keys \union {NoKey}]
    BY DEF DictInit
  <1>5. SensInv
    BY DEF DictInit, SensInv, SensitiveBothWays
  <1> QED BY <1>2, <1>3, <1>4, <1>5 DEF DictInv, GivenInv, ForcedInv

\* The dictionary says of its ids what it should.
LEMMA DictMeans == ASSUME DictInv PROVE DictTypeOK /\ IdsAreStable /\ BitmaskFaithful /\ SensitiveBothWays
  <1>1. /\ dict.keys \in KeyMap /\ dict.masks \in KeyMap /\ dict.values \in Seq(Keys \union {Blank}) /\ Len(dict.values) \in Nat
        /\ DOMAIN dict.keys \subseteq Keys /\ \A k \in DOMAIN dict.keys : dict.keys[k] \in Nat /\ dict.keys[k] < Len(dict.values)
    BY DictParts DEF DictInv
  <1>2. DictTypeOK
    <2>1. \A k \in DOMAIN dict.keys : dict.keys[k] \in 0 .. Len(dict.values) - 1
      BY <1>1
    <2>2. ToSet(dict.values) \subseteq Keys \union {Blank}
      BY <1>1 DEF ToSet
    <2> QED BY <1>1, <2>1, <2>2 DEF DictTypeOK, DictInv
  <1>3. IdsAreStable
    <2>1. \A p \in given : p[1] \in DOMAIN dict.keys /\ (p[1] \notin forced.names => dict.keys[p[1]] = p[2])
      BY DEF DictInv, GivenInv
    <2>2. \A k \in DOMAIN dict.keys : k \notin forced.names /\ dict.keys[k] \notin forced.ids => dict.values[dict.keys[k] + 1] = k
      BY DEF DictInv, BackTo
    <2> QED BY <1>1, <2>1, <2>2 DEF IdsAreStable, GetField
  <1>4. BitmaskFaithful
    <2>. SUFFICES ASSUME forced.names = {}, NEW ks \in SUBSET Keys, NEW k \in DOMAIN dict.keys, dict.keys[k] < MaskWidth
                  PROVE  IsFieldInBitmask(dict.keys[k], CreateFieldBitmask(ks)) <=> k \in ks
      BY DEF BitmaskFaithful
    <2>1. forced.ids = {} /\ BitsOf(dict)
      BY DEF DictInv, ForcedInv
    <2>2. \A x \in DOMAIN dict.keys : dict.values[dict.keys[x] + 1] = x
      BY <2>1 DEF DictInv, BackTo
    <2>3. k \in DOMAIN dict.masks /\ dict.masks[k] = dict.keys[k]
      BY <2>1 DEF BitsOf
    <2>4. ASSUME NEW j \in DOMAIN dict.masks, dict.masks[j] = dict.keys[k] PROVE j = k
      <3>1. j \in DOMAIN dict.keys /\ dict.keys[j] = dict.keys[k]
        BY <2>1, <2>4 DEF BitsOf
      <3> QED BY <3>1, <2>2
    <2>5. dict.keys[k] \in CreateFieldBitmask(ks) <=> k \in ks
      BY <2>3, <2>4 DEF CreateFieldBitmask
    <2> QED BY <2>5 DEF IsFieldInBitmask
  <1> QED BY <1>2, <1>3, <1>4 DEF DictInv, SensInv

\* A step that only registers.
LEMMA Registers ==
  ASSUME DictInv, After(dict, dict'), UNCHANGED <<forced, sens>>, dc' \in [DCallers -> Keys \union {NoKey}],
         \A p \in given' : p \in given \/ (p[1] \in DOMAIN dict'.keys /\ dict'.keys[p[1]] = p[2])
  PROVE  DictInv'
  <1>1. dict' \in DictSet /\ DOMAIN dict.keys \subseteq DOMAIN dict'.keys /\ \A k \in DOMAIN dict.keys : dict'.keys[k] = dict.keys[k]
    BY DEF After, KeepsIds
  <1>2. BackTo(dict', forced.names, forced.ids) /\ (BitsOf(dict) => BitsOf(dict'))
    BY DEF After, DictInv
  <1>3. forced' = forced /\ sens' = sens
    OBVIOUS
  <1>4. BackTo(dict, forced.names, forced.ids)'
    BY <1>2, <1>3 DEF BackTo
  <1>5. ForcedInv'
    <2>1. BitsOf(dict)' = BitsOf(dict')
      BY DEF BitsOf
    <2> QED BY <1>2, <1>3, <2>1 DEF ForcedInv, DictInv
  <1>6. GivenInv'
    BY <1>1, <1>3 DEF GivenInv, DictInv
  <1>7. SensInv'
    BY <1>3 DEF DictInv, SensInv, SensitiveBothWays, IsSensitiveField, IsSensitiveFieldByID
  <1> QED BY <1>1, <1>4, <1>5, <1>6, <1>7 DEF DictInv

LEMMA AfterItself == ASSUME NEW d \in DictSet PROVE After(d, d)
  BY DEF After, KeepsIds

LEMMA RegisteredAfter ==
  ASSUME NEW d \in DictSet, NEW k \in Keys
  PROVE  After(d, Registered(d, k)) /\ k \in DOMAIN Registered(d, k).keys
  BY RegisteredIn DEF After

\* What a step does to the table of the sensitive fields leaves the rest alone.
LEMMA SensAlone ==
  ASSUME DictInv, UNCHANGED <<dict, dc, given, forced>>, SensInv'
  PROVE  DictInv'
  <1>1. dict' = dict /\ dc' = dc /\ given' = given /\ forced' = forced
    OBVIOUS
  <1>2. BackTo(dict, forced.names, forced.ids)'
    BY <1>1 DEF BackTo, DictInv
  <1>3. ForcedInv' /\ GivenInv'
    BY <1>1 DEF ForcedInv, GivenInv, DictInv, BitsOf
  <1> QED BY <1>1, <1>2, <1>3 DEF DictInv

LEMMA BulkKeeps == ASSUME DictInv, NEW t \in DCallers, NEW s \in Seq(Keys), RegisterBulk(t, s) PROVE DictInv'
  <1>1. dict' = RegisteredAll(dict, s) /\ given' = given \union {<<k, dict'.keys[k]>> : k \in ToSet(s)} /\ UNCHANGED <<dc, forced, sens>>
    BY DEF RegisterBulk
  <1>2. dict \in DictSet /\ dc' \in [DCallers -> Keys \union {NoKey}]
    BY <1>1 DEF DictInv
  <1>3. After(dict, dict') /\ \A i \in 1 .. Len(s) : s[i] \in DOMAIN dict'.keys
    BY <1>1, <1>2, RegisteredAllIn
  <1>4. ToSet(s) \subseteq DOMAIN dict'.keys
    <2>1. DOMAIN s = 1 .. Len(s)
      OBVIOUS
    <2> QED BY <1>3, <2>1 DEF ToSet
  <1>5. \A p \in given' : p \in given \/ (p[1] \in DOMAIN dict'.keys /\ dict'.keys[p[1]] = p[2])
    BY <1>1, <1>4
  <1> QED BY <1>1, <1>2, <1>3, <1>5, Registers

LEMMA FromConfigKeeps ==
  ASSUME DictInv, NEW t \in DCallers, NEW k \in Keys, NEW l \in Keys, RegisterFromConfig(t, <<k>>, <<l>>)
  PROVE  DictInv'
  <1>1. dict' = RegisteredAll(dict, <<k>> \o <<l>>) /\ UNCHANGED <<dc, given, forced, sens>>
    BY DEF RegisterFromConfig
  <1>2. dict \in DictSet /\ dc' \in [DCallers -> Keys \union {NoKey}]
    BY <1>1 DEF DictInv
  <1>3. <<k>> \o <<l>> \in Seq(Keys)
    OBVIOUS
  <1>4. After(dict, dict')
    BY <1>1, <1>2, <1>3, RegisteredAllIn
  <1>5. given' = given
    BY <1>1
  <1> QED BY <1>1, <1>2, <1>4, <1>5, Registers

LEMMA LookupKeeps == ASSUME DictInv, NEW t \in DCallers, NEW k \in Keys, LookupField(t, k) PROVE DictInv'
  <1>1. /\ dict' = dict /\ UNCHANGED <<forced, sens>>
        /\ \/ Known(dict, k) /\ given' = given \union {<<k, dict.keys[k]>>} /\ dc' = dc
           \/ given' = given /\ dc' = [dc EXCEPT ![t] = k]
    BY DEF LookupField
  <1>2. dict \in DictSet /\ dc' \in [DCallers -> Keys \union {NoKey}]
    BY <1>1 DEF DictInv
  <1>3. After(dict, dict')
    BY <1>1, <1>2, AfterItself
  <1>4. \A p \in given' : p \in given \/ (p[1] \in DOMAIN dict'.keys /\ dict'.keys[p[1]] = p[2])
    BY <1>1 DEF Known
  <1> QED BY <1>1, <1>2, <1>3, <1>4, Registers

\* The second step of a lookup takes what the dictionary now has.
LEMMA NewFieldKeeps == ASSUME DictInv, NEW t \in DCallers, RegisterNewField(t) PROVE DictInv'
  <1>1. /\ dc[t] # NoKey /\ dict' = Registered(dict, dc[t]) /\ given' = given \union {<<dc[t], dict'.keys[dc[t]]>>}
        /\ dc' = [dc EXCEPT ![t] = NoKey] /\ UNCHANGED <<forced, sens>>
    BY DEF RegisterNewField
  <1>2. dict \in DictSet /\ dc \in [DCallers -> Keys \union {NoKey}]
    BY DEF DictInv
  <1>3. dc[t] \in Keys /\ dc' \in [DCallers -> Keys \union {NoKey}]
    BY <1>1, <1>2
  <1>4. After(dict, dict') /\ dc[t] \in DOMAIN dict'.keys
    BY <1>1, <1>2, <1>3, RegisteredAfter
  <1>5. \A p \in given' : p \in given \/ (p[1] \in DOMAIN dict'.keys /\ dict'.keys[p[1]] = p[2])
    BY <1>1, <1>4
  <1> QED BY <1>1, <1>3, <1>4, <1>5, Registers

LEMMA CustomKeeps ==
  ASSUME DictInv, NEW t \in DCallers, NEW m \in CustomMaps, RegisterCustomFieldsWithIDs(t, m) PROVE DictInv'
  <1>. DEFINE N == forced.names \union DOMAIN m
              I == forced.ids \union {m[k] : k \in DOMAIN m}
  <1>0. PICK s \in SetToSeqs(DOMAIN m) : dict' = Renumbered(m, dict, s)
    BY DEF RegisterCustomFieldsWithIDs, Renumbered
  <1>1. forced' = [names |-> N, ids |-> I] /\ dc' = dc /\ given' = given /\ sens' = sens
    BY DEF RegisterCustomFieldsWithIDs
  <1>2. DOMAIN m \subseteq Keys
    BY CustomMapsAssumption
  <1>3. s \in Seq(DOMAIN m) /\ (DOMAIN m = {} => Len(s) = 0)
    BY <1>2, OrderOf
  <1>4. dict \in DictSet /\ BackTo(dict, forced.names, forced.ids)
    BY DEF DictInv
  <1>5. BackTo(dict, N, I)
    BY <1>4 DEF BackTo
  <1>6. DOMAIN m \subseteq N /\ \A k \in DOMAIN m : m[k] \in I
    OBVIOUS
  <1>7. forced'.names = N /\ forced'.ids = I
    BY <1>1
  <1>8. N = {} => I = {} /\ DOMAIN m = {} /\ forced.names = {}
    BY DEF DictInv, ForcedInv
  <1>. HIDE DEF N, I
  <1>9. dict' \in DictSet /\ KeepsIds(dict, dict', N) /\ BackTo(dict', N, I)
    BY <1>0, <1>3, <1>4, <1>5, <1>6, RenumberedIn
  <1>10. BackTo(dict, forced.names, forced.ids)'
    BY <1>7, <1>9 DEF BackTo
  <1>11. GivenInv'
    <2>1. \A p \in given : p[1] \in DOMAIN dict.keys /\ (p[1] \notin forced.names => dict.keys[p[1]] = p[2])
      BY DEF DictInv, GivenInv
    <2>2. forced.names \subseteq N
      BY DEF N
    <2> QED BY <1>1, <1>7, <1>9, <2>1, <2>2 DEF GivenInv, KeepsIds
  <1>12. ForcedInv'
    <2>1. ASSUME N = {} PROVE BitsOf(dict')
      <3>1. dict' = dict
        BY <1>0, <1>3, <1>4, <1>8, <2>1, NoneRenumbered
      <3>2. BitsOf(dict)
        BY <1>8, <2>1 DEF DictInv, ForcedInv
      <3> QED BY <3>1, <3>2
    <2>2. BitsOf(dict)' = BitsOf(dict')
      BY DEF BitsOf
    <2> QED BY <1>1, <1>7, <1>8, <2>1, <2>2 DEF ForcedInv
  <1>13. SensInv'
    BY <1>1 DEF DictInv, SensInv, SensitiveBothWays, IsSensitiveField, IsSensitiveFieldByID
  <1>14. dc' \in [DCallers -> Keys \union {NoKey}]
    BY <1>1 DEF DictInv
  <1> QED BY <1>9, <1>10, <1>11, <1>12, <1>13, <1>14 DEF DictInv

PutsAt(f, k, v) == /\ DOMAIN Put(f, k, v) = DOMAIN f \union {k} /\ Put(f, k, v)[k] = v
                   /\ \A x \in DOMAIN f : x # k => Put(f, k, v)[x] = f[x]
LEMMA PutKnows == ASSUME NEW f, NEW k, NEW v PROVE PutsAt(f, k, v)
  BY DEF Put, PutsAt

LEMMA SensitiveKeeps ==
  ASSUME DictInv, NEW t \in DCallers, NEW k \in Keys, NEW m \in Masks, RegisterSensitiveField(t, k, m) PROVE DictInv'
  <1>1. sens' = [sens EXCEPT !.byName = Put(@, k, m)] /\ UNCHANGED <<dict, dc, given, forced>>
    BY DEF RegisterSensitiveField
  <1>2. /\ sens = [byName |-> sens.byName, byID |-> sens.byID, fieldIDs |-> sens.fieldIDs]
        /\ \A x \in DOMAIN sens.fieldIDs : x \in DOMAIN sens.byName /\ sens.fieldIDs[x] \in DOMAIN sens.byID
    BY DEF DictInv, SensInv, SensitiveBothWays, IsSensitiveField, IsSensitiveFieldByID
  <1>3. sens' = [byName |-> Put(sens.byName, k, m), byID |-> sens.byID, fieldIDs |-> sens.fieldIDs]
    BY <1>1, <1>2
  <1>4. sens'.byName = Put(sens.byName, k, m) /\ sens'.byID = sens.byID /\ sens'.fieldIDs = sens.fieldIDs
        /\ sens' = [byName |-> sens'.byName, byID |-> sens'.byID, fieldIDs |-> sens'.fieldIDs]
    BY <1>3
  <1>5. DOMAIN sens'.byName = DOMAIN sens.byName \union {k}
    <2>1. PutsAt(sens.byName, k, m)
      BY PutKnows
    <2> QED BY <2>1, <1>4 DEF PutsAt
  <1>6. \A x \in DOMAIN sens'.fieldIDs : x \in DOMAIN sens'.byName /\ sens'.fieldIDs[x] \in DOMAIN sens'.byID
    BY <1>2, <1>4, <1>5
  <1>7. SensInv'
    BY <1>4, <1>6 DEF SensInv, SensitiveBothWays, IsSensitiveField, IsSensitiveFieldByID
  <1> QED BY <1>1, <1>7, SensAlone

LEMMA SensitiveIDKeeps ==
  ASSUME DictInv, NEW t \in DCallers, NEW k \in Keys, NEW id, NEW m \in Masks, RegisterWithFieldID(t, k, id, m) PROVE DictInv'
  <1>1. /\ sens' = [byName |-> Put(sens.byName, k, m), byID |-> Put(sens.byID, id, m), fieldIDs |-> Put(sens.fieldIDs, k, id)]
        /\ UNCHANGED <<dict, dc, given, forced>>
    BY DEF RegisterWithFieldID
  <1>2. \A x \in DOMAIN sens.fieldIDs : x \in DOMAIN sens.byName /\ sens.fieldIDs[x] \in DOMAIN sens.byID
    BY DEF DictInv, SensInv, SensitiveBothWays, IsSensitiveField, IsSensitiveFieldByID
  <1>3. /\ sens'.byName = Put(sens.byName, k, m) /\ sens'.byID = Put(sens.byID, id, m) /\ sens'.fieldIDs = Put(sens.fieldIDs, k, id)
        /\ sens' = [byName |-> sens'.byName, byID |-> sens'.byID, fieldIDs |-> sens'.fieldIDs]
    BY <1>1
  <1>4. \A x \in DOMAIN sens'.fieldIDs : x \in DOMAIN sens'.byName /\ sens'.fieldIDs[x] \in DOMAIN sens'.byID
    <2>1. DOMAIN sens'.byName = DOMAIN sens.byName \union {k} /\ DOMAIN sens'.byID = DOMAIN sens.byID \union {id}
      <3>1. PutsAt(sens.byName, k, m) /\ PutsAt(sens.byID, id, m)
        BY PutKnows
      <3> QED BY <3>1, <1>3 DEF PutsAt
    <2>2. /\ DOMAIN sens'.fieldIDs = DOMAIN sens.fieldIDs \union {k} /\ sens'.fieldIDs[k] = id
          /\ \A x \in DOMAIN sens.fieldIDs : x # k => sens'.fieldIDs[x] = sens.fieldIDs[x]
      <3>1. PutsAt(sens.fieldIDs, k, id)
        BY PutKnows
      <3> QED BY <3>1, <1>3 DEF PutsAt
    <2> QED BY <1>2, <2>1, <2>2
  <1>5. SensInv'
    BY <1>3, <1>4 DEF SensInv, SensitiveBothWays, IsSensitiveField, IsSensitiveFieldByID
  <1> QED BY <1>1, <1>5, SensAlone

\* Every call keeps the invariant.
LEMMA DictKeeps == ASSUME DictInv, DictNext PROVE DictInv'
  <1>. PICK t \in DCallers :
         \/ RegisterNewField(t)
         \/ \E k \in Keys : LookupField(t, k) \/ RegisterBulk(t, <<k>>)
         \/ \E k, l \in Keys : RegisterBulk(t, <<k, l>>) \/ RegisterFromConfig(t, <<k>>, <<l>>)
         \/ \E m \in CustomMaps : RegisterCustomFieldsWithIDs(t, m)
         \/ \E k \in Keys, m \in Masks :
               \/ RegisterSensitiveField(t, k, m)
               \/ \E p \in given : p[1] = k /\ (RegisterWithFieldID(t, k, p[2], m) \/ SensitiveFromConfig(t, k, p[2], m))
    BY DEF DictNext
  <1>1. CASE RegisterNewField(t)
    BY <1>1, NewFieldKeeps
  <1>2. ASSUME NEW k \in Keys, LookupField(t, k) \/ RegisterBulk(t, <<k>>) PROVE DictInv'
    <2>1. <<k>> \in Seq(Keys)
      OBVIOUS
    <2> QED BY <1>2, <2>1, LookupKeeps, BulkKeeps
  <1>3. ASSUME NEW k \in Keys, NEW l \in Keys, RegisterBulk(t, <<k, l>>) \/ RegisterFromConfig(t, <<k>>, <<l>>) PROVE DictInv'
    <2>1. <<k, l>> \in Seq(Keys)
      OBVIOUS
    <2> QED BY <1>3, <2>1, BulkKeeps, FromConfigKeeps
  <1>4. ASSUME NEW m \in CustomMaps, RegisterCustomFieldsWithIDs(t, m) PROVE DictInv'
    BY <1>4, CustomKeeps
  <1>5. ASSUME NEW k \in Keys, NEW m \in Masks,
               \/ RegisterSensitiveField(t, k, m)
               \/ \E p \in given : p[1] = k /\ (RegisterWithFieldID(t, k, p[2], m) \/ SensitiveFromConfig(t, k, p[2], m))
        PROVE  DictInv'
    <2>1. CASE RegisterSensitiveField(t, k, m)
      BY <2>1, SensitiveKeeps
    <2>2. ASSUME NEW p \in given, RegisterWithFieldID(t, k, p[2], m) \/ SensitiveFromConfig(t, k, p[2], m) PROVE DictInv'
      <3>1. RegisterWithFieldID(t, k, p[2], m) \/ RegisterSensitiveField(t, k, m)
        BY <2>2 DEF SensitiveFromConfig
      <3> QED BY <3>1, SensitiveKeeps, SensitiveIDKeeps
    <2> QED BY <1>5, <2>1, <2>2
  <1> QED BY <1>1, <1>2, <1>3, <1>4, <1>5

LEMMA DictUnchanged == ASSUME DictInv, UNCHANGED dictVars PROVE DictInv'
  <1>1. dict' = dict /\ dc' = dc /\ given' = given /\ forced' = forced /\ sens' = sens
    BY DEF dictVars
  <1>2. SensInv'
    BY <1>1 DEF DictInv, SensInv, SensitiveBothWays, IsSensitiveField, IsSensitiveFieldByID
  <1> QED BY <1>1, <1>2, SensAlone

-----------------------------------------------------------------------------
(* The field stores (indexed_field_store.go).                                 *)

StoreSlots == 0 .. ChunkSize - 1
Cell == [key : SetKeys \union {""}, value : SetValues \union {""}]
SettingState == [at : {"idle", "fast", "bit", "grow", "chunk", "slow"}, key : SetKeys \union {""}, id : Nat,
                 value : SetValues \union {""}, array : Nat]

\* A name has one id, and who is in Set has the id of its name.
Naming == /\ idOf \in Seq(SetKeys)
          /\ \A i, j \in DOMAIN idOf : idOf[i] = idOf[j] => i = j
          /\ setting \in [Setters -> SettingState]
          /\ \A t \in Setters : setting[t].at # "idle" /\ setting[t].key # "" =>
                setting[t].id < Len(idOf) /\ idOf[setting[t].id + 1] = setting[t].key
          /\ \A t \in Setters : setting[t].at \in {"fast", "bit"} => setting[t].key # ""
Shaped == chunks \in Seq([StoreSlots -> Cell]) /\ masks \in Seq(SUBSET StoreSlots) /\ Len(chunks) = Len(masks)
\* Who writes has its chunk, and who is on the fast path is alone.
Placed == /\ array \in Nat
          /\ \A t \in Setters : setting[t].at \in {"fast", "bit", "slow"} => ChunkOf(setting[t].id) \in 1 .. Len(chunks)
Alone == \A t, u \in Setters : setting[t].at \in {"fast", "bit"} /\ u # t => setting[u].at = "idle"
\* Between the write of a slot and its bit, the slot holds what was written.
BitPending ==
    \A t \in Setters : setting[t].at = "bit" =>
       /\ setting[t].array = array
       /\ chunks[ChunkOf(setting[t].id)][SlotOf(setting[t].id)] = [key |-> NameOf(t), value |-> setting[t].value]
\* A slot whose bit is set holds the last value of the name whose id it is,
CellsHold ==
    \A c \in 1 .. Len(masks), s \in StoreSlots : s \in masks[c] =>
       \E i \in DOMAIN idOf : /\ ChunkOf(i - 1) = c /\ SlotOf(i - 1) = s /\ idOf[i] \in DOMAIN last
                              /\ chunks[c][s] = [key |-> idOf[i], value |-> last[idOf[i]]]
\* and every name set since Reset has its bit.
NamesHeld ==
    \A k \in DOMAIN last :
       \E i \in DOMAIN idOf : idOf[i] = k /\ ChunkOf(i - 1) \in 1 .. Len(masks) /\ SlotOf(i - 1) \in masks[ChunkOf(i - 1)]
StoreOK == Naming /\ Shaped /\ Placed /\ Alone /\ BitPending /\ CellsHold /\ NamesHeld

BasicOK == /\ basic = [keys |-> basic.keys, values |-> basic.values, bits |-> basic.bits]
           /\ basic.keys \in Seq(SetKeys) /\ basic.values \in Seq(SetValues) /\ Len(basic.values) = Len(basic.keys)
           /\ basic.bits = 1 .. Len(basic.keys)
           /\ \A i, j \in 1 .. Len(basic.keys) : basic.keys[i] = basic.keys[j] => i = j
           /\ DOMAIN basicLast = {basic.keys[i] : i \in 1 .. Len(basic.keys)}
           /\ \A i \in 1 .. Len(basic.keys) : basic.values[i] = basicLast[basic.keys[i]]
StoreInv == exposed \in BOOLEAN /\ (~exposed => StoreOK) /\ BasicOK

-----------------------------------------------------------------------------
LEMMA ChunkSlot ==
  ASSUME NEW id \in Nat
  PROVE  ChunkOf(id) \in Nat \ {0} /\ SlotOf(id) \in StoreSlots /\ id = ChunkSize * (ChunkOf(id) - 1) + SlotOf(id)
  <1>1. ChunkSize \in Nat \ {0}
    BY FieldStoreAssumption
  <1>. DEFINE q == id \div ChunkSize
              r == id % ChunkSize
  <1>2. id = ChunkSize * q + r /\ r \in 0 .. ChunkSize - 1 /\ q \in Nat
    BY <1>1
  <1>3. ChunkOf(id) = q + 1 /\ SlotOf(id) = r
    BY DEF ChunkOf, SlotOf
  <1>. HIDE DEF q, r
  <1> QED BY <1>2, <1>3 DEF StoreSlots

LEMMA OnePlace ==
  ASSUME NEW a \in Nat, NEW b \in Nat, ChunkOf(a) = ChunkOf(b), SlotOf(a) = SlotOf(b)
  PROVE  a = b
  BY ChunkSlot

Put1Is(f, k, v) == /\ DOMAIN Put1(f, k, v) = DOMAIN f \union {k} /\ Put1(f, k, v)[k] = v
                   /\ \A x \in DOMAIN f : x # k => Put1(f, k, v)[x] = f[x]
LEMMA Put1Knows == ASSUME NEW f, NEW k, NEW v PROVE Put1Is(f, k, v)
  BY DEF Put1, Put1Is

\* A write of one slot.
SlotWritten(cs, ds, c, s, cell) ==
    /\ ds \in Seq([StoreSlots -> Cell]) /\ Len(ds) = Len(cs)
    /\ ds[c][s] = cell
    /\ \A d \in 1 .. Len(cs), x \in StoreSlots : d # c \/ x # s => ds[d][x] = cs[d][x]
LEMMA WriteCell ==
  ASSUME NEW cs \in Seq([StoreSlots -> Cell]), NEW c \in 1 .. Len(cs), NEW s \in StoreSlots, NEW cell \in Cell
  PROVE  SlotWritten(cs, [cs EXCEPT ![c][s] = cell], c, s, cell)
  <1>. DEFINE f == [cs[c] EXCEPT ![s] = cell]
              ds == [cs EXCEPT ![c] = f]
  <1>1. cs[c] \in [StoreSlots -> Cell]
    OBVIOUS
  <1>2. f \in [StoreSlots -> Cell] /\ f[s] = cell /\ \A x \in StoreSlots : x # s => f[x] = cs[c][x]
    BY <1>1
  <1>3. ds = [cs EXCEPT ![c][s] = cell]
    OBVIOUS
  <1>. HIDE DEF f
  <1>4. ds \in Seq([StoreSlots -> Cell]) /\ Len(ds) = Len(cs) /\ \A j \in 1 .. Len(cs) : ds[j] = IF j = c THEN f ELSE cs[j]
    BY <1>2, ExceptSeq
  <1>. HIDE DEF ds
  <1>5. SlotWritten(cs, ds, c, s, cell)
    BY <1>2, <1>4 DEF SlotWritten
  <1> QED BY <1>3, <1>5

\* A bit that is set.
BitSet(ms, ns, c, s) ==
    /\ ns \in Seq(SUBSET StoreSlots) /\ Len(ns) = Len(ms)
    /\ \A d \in 1 .. Len(ms), x \in StoreSlots : x \in ns[d] <=> x \in ms[d] \/ (d = c /\ x = s)
LEMMA SetBit ==
  ASSUME NEW ms \in Seq(SUBSET StoreSlots), NEW c \in 1 .. Len(ms), NEW s \in StoreSlots
  PROVE  BitSet(ms, [ms EXCEPT ![c] = @ \union {s}], c, s)
  <1>. DEFINE S == ms[c] \union {s}
              ns == [ms EXCEPT ![c] = S]
  <1>1. S \in SUBSET StoreSlots
    OBVIOUS
  <1>2. ns = [ms EXCEPT ![c] = @ \union {s}]
    OBVIOUS
  <1>3. ns \in Seq(SUBSET StoreSlots) /\ Len(ns) = Len(ms) /\ \A j \in 1 .. Len(ms) : ns[j] = IF j = c THEN S ELSE ms[j]
    <2>. HIDE DEF S
    <2> QED BY <1>1, ExceptSeq
  <1>. HIDE DEF ns
  <1>4. BitSet(ms, ns, c, s)
    BY <1>3 DEF BitSet
  <1> QED BY <1>2, <1>4

\* Places of a sequence, and indices one below them.
LEMMA SeqPlaces ==
  ASSUME NEW S, NEW q \in Seq(S)
  PROVE  /\ DOMAIN q = 1 .. Len(q) /\ Len(q) \in Nat
         /\ \A i \in DOMAIN q : q[i] \in S /\ i \in Nat /\ i - 1 \in Nat
         /\ \A n \in Nat : n < Len(q) => n + 1 \in DOMAIN q
  <1>1. DOMAIN q = 1 .. Len(q) /\ Len(q) \in Nat
    OBVIOUS
  <1>2. \A i \in 1 .. Len(q) : q[i] \in S /\ i \in Nat /\ i - 1 \in Nat
    OBVIOUS
  <1>3. \A n \in Nat : n < Len(q) => n + 1 \in 1 .. Len(q)
    OBVIOUS
  <1> QED BY <1>1, <1>2, <1>3
LEMMA LessLess == \A a, b, c \in Nat : a < b /\ b <= c => a < c
  OBVIOUS
LEMMA SameBelow == \A a, b \in Nat : a - 1 = b - 1 => a = b
  OBVIOUS
LEMMA UpAndDown == \A n \in Nat : (n + 1) - 1 = n
  OBVIOUS

LEMMA NamedBy ==
  ASSUME StoreOK, NEW t \in Setters, setting[t].at # "idle", NameOf(t) # ""
  PROVE  LET id == setting[t].id
         IN  /\ id \in Nat /\ id + 1 \in DOMAIN idOf /\ idOf[id + 1] = NameOf(t) /\ NameOf(t) \in SetKeys
             /\ [key |-> NameOf(t), value |-> setting[t].value] \in Cell
  <1>. DEFINE id == setting[t].id
  <1>1. setting[t] \in SettingState /\ idOf \in Seq(SetKeys)
    BY DEF StoreOK, Naming
  <1>2. id \in Nat /\ setting[t].value \in SetValues \union {""}
    BY <1>1 DEF SettingState
  <1>3. id < Len(idOf) /\ idOf[id + 1] = NameOf(t)
    <2>1. CASE setting[t].key # ""
      BY <2>1 DEF NameOf, StoreOK, Naming
    <2>2. CASE setting[t].key = ""
      BY <2>2 DEF NameOf
    <2> QED BY <2>1, <2>2
  <1>. HIDE DEF id
  <1>4. id + 1 \in DOMAIN idOf
    <2>1. id \in Nat /\ id < Len(idOf)
      BY <1>2, <1>3
    <2> QED BY <1>1, <2>1, SeqPlaces
  <1>5. NameOf(t) \in SetKeys
    <2>1. \A i \in DOMAIN idOf : idOf[i] \in SetKeys
      BY <1>1, SeqPlaces
    <2> QED BY <1>3, <1>4, <2>1
  <1> QED BY <1>2, <1>3, <1>4, <1>5 DEF Cell, id

\* What is written under a name's id is found under it.
LEMMA WriteHolds ==
  ASSUME StoreOK, NEW t \in Setters, setting[t].at # "idle", NameOf(t) # "", ChunkOf(setting[t].id) \in 1 .. Len(chunks),
         SlotWritten(chunks, chunks', ChunkOf(setting[t].id), SlotOf(setting[t].id), [key |-> NameOf(t), value |-> setting[t].value]),
         BitSet(masks, masks', ChunkOf(setting[t].id), SlotOf(setting[t].id)),
         last' = Put1(last, NameOf(t), setting[t].value), idOf' = idOf
  PROVE  Shaped' /\ CellsHold' /\ NamesHeld'
  <1>. DEFINE id == setting[t].id
              k == NameOf(t)
              v == setting[t].value
              c == ChunkOf(id)
              s == SlotOf(id)
              lst == last'
              cs == chunks'
              ms == masks'
  <1>1. id \in Nat /\ id + 1 \in DOMAIN idOf /\ idOf[id + 1] = k
    BY NamedBy
  <1>2. /\ cs \in Seq([StoreSlots -> Cell]) /\ Len(cs) = Len(chunks) /\ cs[c][s] = [key |-> k, value |-> v]
        /\ \A d \in 1 .. Len(chunks), x \in StoreSlots : d # c \/ x # s => cs[d][x] = chunks[d][x]
    BY DEF SlotWritten
  <1>3. /\ ms \in Seq(SUBSET StoreSlots) /\ Len(ms) = Len(masks)
        /\ \A d \in 1 .. Len(masks), x \in StoreSlots : x \in ms[d] <=> x \in masks[d] \/ (d = c /\ x = s)
    BY DEF BitSet
  <1>4. Len(chunks) = Len(masks) /\ c \in 1 .. Len(masks) /\ s \in StoreSlots
    BY <1>1, ChunkSlot DEF StoreOK, Shaped
  <1>5. DOMAIN lst = DOMAIN last \union {k} /\ lst[k] = v /\ \A x \in DOMAIN last : x # k => lst[x] = last[x]
    <2>1. Put1Is(last, k, v)
      BY Put1Knows
    <2> QED BY <2>1 DEF Put1Is
  <1>6. /\ \A d \in 1 .. Len(masks), x \in StoreSlots : x \in masks[d] =>
               \E i \in DOMAIN idOf : /\ ChunkOf(i - 1) = d /\ SlotOf(i - 1) = x /\ idOf[i] \in DOMAIN last
                                      /\ chunks[d][x] = [key |-> idOf[i], value |-> last[idOf[i]]]
        /\ \A y \in DOMAIN last :
               \E i \in DOMAIN idOf : idOf[i] = y /\ ChunkOf(i - 1) \in 1 .. Len(masks) /\ SlotOf(i - 1) \in masks[ChunkOf(i - 1)]
        /\ \A i, j \in DOMAIN idOf : idOf[i] = idOf[j] => i = j
        /\ idOf \in Seq(SetKeys)
    BY DEF StoreOK, CellsHold, NamesHeld, Naming
  <1>. HIDE DEF id, k, v, c, s, lst, cs, ms
  <1>7. (id + 1) - 1 = id
    BY <1>1, UpAndDown
  <1>8. ASSUME NEW d \in 1 .. Len(ms), NEW x \in StoreSlots, x \in ms[d]
        PROVE  \E i \in DOMAIN idOf : /\ ChunkOf(i - 1) = d /\ SlotOf(i - 1) = x /\ idOf[i] \in DOMAIN lst
                                      /\ cs[d][x] = [key |-> idOf[i], value |-> lst[idOf[i]]]
    <2>1. CASE d = c /\ x = s
      <3>1. ChunkOf((id + 1) - 1) = d /\ SlotOf((id + 1) - 1) = x
        BY <2>1, <1>7 DEF c, s
      <3>2. idOf[id + 1] \in DOMAIN lst /\ cs[d][x] = [key |-> idOf[id + 1], value |-> lst[idOf[id + 1]]]
        BY <2>1, <1>1, <1>2, <1>5
      <3> QED BY <1>1, <3>1, <3>2
    <2>2. CASE ~(d = c /\ x = s)
      <3>1. d \in 1 .. Len(masks) /\ x \in masks[d]
        BY <1>3, <1>8, <2>2
      <3>2. PICK i \in DOMAIN idOf : /\ ChunkOf(i - 1) = d /\ SlotOf(i - 1) = x /\ idOf[i] \in DOMAIN last
                                     /\ chunks[d][x] = [key |-> idOf[i], value |-> last[idOf[i]]]
        BY <3>1, <1>6
      <3>3. i # id + 1
        <4>. SUFFICES ASSUME i = id + 1 PROVE FALSE
          OBVIOUS
        <4>1. i - 1 = id
          BY <1>7
        <4> QED BY <3>2, <4>1, <2>2 DEF c, s
      <3>4. idOf[i] # k
        BY <3>3, <1>1, <1>6
      <3>5. cs[d][x] = chunks[d][x]
        BY <1>2, <1>4, <2>2, <3>1
      <3> QED BY <3>2, <3>4, <3>5, <1>5
    <2> QED BY <2>1, <2>2
  <1>9. ASSUME NEW y \in DOMAIN lst
        PROVE  \E i \in DOMAIN idOf : idOf[i] = y /\ ChunkOf(i - 1) \in 1 .. Len(ms) /\ SlotOf(i - 1) \in ms[ChunkOf(i - 1)]
    <2>1. CASE y = k
      <3>1. ChunkOf((id + 1) - 1) = c /\ SlotOf((id + 1) - 1) = s
        BY <1>7 DEF c, s
      <3>2. s \in ms[c] /\ c \in 1 .. Len(ms)
        BY <1>3, <1>4
      <3> QED BY <1>1, <2>1, <3>1, <3>2
    <2>2. CASE y # k
      <3>1. PICK i \in DOMAIN idOf : idOf[i] = y /\ ChunkOf(i - 1) \in 1 .. Len(masks) /\ SlotOf(i - 1) \in masks[ChunkOf(i - 1)]
        BY <2>2, <1>5, <1>6
      <3>2. i - 1 \in Nat
        <4>1. idOf \in Seq(SetKeys)
          BY <1>6
        <4> QED BY <4>1, SeqPlaces
      <3>3. SlotOf(i - 1) \in StoreSlots
        BY <3>2, ChunkSlot
      <3> QED BY <3>1, <3>3, <1>3
    <2> QED BY <2>1, <2>2
  <1>10. Shaped'
    BY <1>2, <1>3, <1>4 DEF Shaped, cs, ms
  <1>11. CellsHold'
    BY <1>8 DEF CellsHold, cs, ms, lst
  <1>12. NamesHeld'
    BY <1>9 DEF NamesHeld, ms, lst
  <1> QED BY <1>10, <1>11, <1>12

\* Who returns leaves the others as they were.
LEMMA ReturnKeeps ==
  ASSUME StoreOK, NEW t \in Setters, setting[t].at # "idle", setting' = [setting EXCEPT ![t] = NotSetting],
         idOf' = idOf, array' = array, Len(chunks') = Len(chunks)
  PROVE  Naming' /\ Placed' /\ Alone' /\ BitPending'
  <1>1. NotSetting \in SettingState /\ NotSetting.at = "idle"
    BY DEF NotSetting, SettingState
  <1>2. setting' \in [Setters -> SettingState] /\ setting'[t].at = "idle" /\ \A u \in Setters : u # t => setting'[u] = setting[u]
    BY <1>1 DEF StoreOK, Naming
  <1>3. Naming'
    BY <1>2 DEF StoreOK, Naming
  <1>4. Placed'
    BY <1>2 DEF StoreOK, Placed
  <1>5. Alone'
    BY <1>2 DEF StoreOK, Alone
  <1>6. \A u \in Setters : setting'[u].at # "bit"
    BY <1>2 DEF StoreOK, Alone
  <1> QED BY <1>3, <1>4, <1>5, <1>6 DEF BitPending

LEMMA FastWriteKeeps == ASSUME StoreOK, NEW t \in Setters, FastWrite(t) PROVE StoreOK'
  <1>. DEFINE id == setting[t].id
              c == ChunkOf(id)
              s == SlotOf(id)
              cell == [key |-> NameOf(t), value |-> setting[t].value]
  <1>1. setting[t].at = "fast" /\ chunks' = [chunks EXCEPT ![c][s] = cell] /\ UNCHANGED <<idOf, masks, array>>
    BY DEF FastWrite, WriteSlot
  <1>2. setting[t] \in SettingState /\ c \in 1 .. Len(chunks) /\ setting[t].key # ""
    BY <1>1 DEF StoreOK, Naming, Placed
  <1>3. id \in Nat /\ s \in StoreSlots
    BY <1>2, ChunkSlot DEF SettingState
  <1>4. NameOf(t) # ""
    BY <1>2 DEF NameOf
  <1>5. cell \in Cell
    BY <1>1, <1>4, NamedBy
  <1>6. Shaped
    BY DEF StoreOK
  <1>7. SlotWritten(chunks, chunks', c, s, cell)
    <2>. HIDE DEF c, s, cell
    <2> QED BY <1>1, <1>2, <1>3, <1>5, <1>6, WriteCell DEF Shaped
  <1>8. Len(chunks') = Len(chunks)
    BY <1>7 DEF SlotWritten
  <1>9. CASE s \in masks[c]
    <2>1. SetReturns(t)
      BY <1>9 DEF FastWrite
    <2>2. BitSet(masks, masks', c, s)
      <3>. HIDE DEF c, s
      <3> QED BY <1>1, <1>6, <1>9 DEF BitSet, Shaped
    <2>3. last' = Put1(last, NameOf(t), setting[t].value) /\ setting' = [setting EXCEPT ![t] = NotSetting]
      BY <2>1 DEF SetReturns
    <2>4. Shaped' /\ CellsHold' /\ NamesHeld'
      BY <1>1, <1>2, <1>4, <1>7, <2>2, <2>3, WriteHolds
    <2>5. Naming' /\ Placed' /\ Alone' /\ BitPending'
      BY <1>1, <1>8, <2>3, ReturnKeeps
    <2> QED BY <2>4, <2>5 DEF StoreOK
  <1>10. CASE s \notin masks[c]
    <2>1. setting' = [setting EXCEPT ![t].at = "bit", ![t].array = array] /\ last' = last
      BY <1>10 DEF FastWrite
    <2>2. /\ setting' \in [Setters -> SettingState] /\ \A u \in Setters : u # t => setting'[u] = setting[u]
          /\ setting'[t].at = "bit" /\ setting'[t].array = array /\ setting'[t].id = id
          /\ setting'[t].key = setting[t].key /\ setting'[t].value = setting[t].value
      BY ZenonT(60), <2>1 DEF StoreOK, Naming, Placed, SettingState
    <2>3. Naming'
      BY <1>1, <1>2, <2>2 DEF StoreOK, Naming
    <2>4. Placed'
      BY <1>1, <1>2, <1>8, <2>2 DEF StoreOK, Placed
    <2>5. \A u \in Setters : u # t => setting[u].at = "idle"
      BY <1>1 DEF StoreOK, Alone
    <2>6. Alone'
      BY <2>2, <2>5 DEF Alone
    <2>7. Shaped'
      BY <1>1, <1>6, <1>7 DEF Shaped, SlotWritten
    <2>8. NameOf(t)' = NameOf(t)
      BY <1>1, <2>2 DEF NameOf
    <2>9. BitPending'
      <3>1. chunks'[c][s] = cell
        BY <1>7 DEF SlotWritten
      <3>2. \A u \in Setters : setting'[u].at = "bit" => u = t
        BY <2>2, <2>5
      <3> QED BY <1>1, <2>2, <2>8, <3>1, <3>2 DEF BitPending
    <2>10. CellsHold'
      <3>1. \A d \in 1 .. Len(chunks), x \in StoreSlots : d # c \/ x # s => chunks'[d][x] = chunks[d][x]
        BY <1>7 DEF SlotWritten
      <3>2. \A d \in 1 .. Len(masks), x \in StoreSlots : x \in masks[d] => chunks'[d][x] = chunks[d][x]
        BY <1>6, <1>10, <3>1 DEF Shaped
      <3> QED BY <1>1, <2>1, <3>2 DEF StoreOK, CellsHold
    <2>11. NamesHeld'
      BY <1>1, <2>1 DEF StoreOK, NamesHeld
    <2> QED BY <2>3, <2>4, <2>6, <2>7, <2>9, <2>10, <2>11 DEF StoreOK
  <1> QED BY <1>9, <1>10

LEMMA FastBitKeeps == ASSUME StoreOK, NEW t \in Setters, FastBit(t) PROVE StoreOK'
  <1>. DEFINE id == setting[t].id
              c == ChunkOf(id)
              s == SlotOf(id)
              cell == [key |-> NameOf(t), value |-> setting[t].value]
  <1>1. /\ setting[t].at = "bit" /\ SetReturns(t) /\ UNCHANGED <<idOf, chunks, array>>
        /\ masks' = IF setting[t].array = array THEN [masks EXCEPT ![c] = @ \union {s}] ELSE masks
    BY DEF FastBit
  <1>2. setting[t] \in SettingState /\ c \in 1 .. Len(chunks) /\ setting[t].key # "" /\ setting[t].array = array /\ chunks[c][s] = cell
    BY <1>1 DEF StoreOK, Naming, Placed, BitPending
  <1>3. id \in Nat /\ s \in StoreSlots
    BY <1>2, ChunkSlot DEF SettingState
  <1>4. NameOf(t) # ""
    BY <1>2 DEF NameOf
  <1>5. Shaped
    BY DEF StoreOK
  <1>6. SlotWritten(chunks, chunks', c, s, cell)
    <2>. HIDE DEF c, s, cell
    <2> QED BY <1>1, <1>2, <1>5 DEF SlotWritten, Shaped
  <1>7. BitSet(masks, masks', c, s)
    <2>1. masks' = [masks EXCEPT ![c] = @ \union {s}]
      BY <1>1, <1>2
    <2>. HIDE DEF c, s
    <2> QED BY <2>1, <1>2, <1>3, <1>5, SetBit DEF Shaped
  <1>8. last' = Put1(last, NameOf(t), setting[t].value) /\ setting' = [setting EXCEPT ![t] = NotSetting]
    BY <1>1 DEF SetReturns
  <1>9. Shaped' /\ CellsHold' /\ NamesHeld'
    BY <1>1, <1>2, <1>4, <1>6, <1>7, <1>8, WriteHolds
  <1>10. Naming' /\ Placed' /\ Alone' /\ BitPending'
    BY <1>1, <1>8, ReturnKeeps
  <1> QED BY <1>9, <1>10 DEF StoreOK

\* The write under the mutex.
LEMMA SlowWriteKeeps == ASSUME StoreOK, NEW t \in Setters, SlowWrite(t) PROVE StoreOK'
  <1>. DEFINE id == setting[t].id
              c == ChunkOf(id)
              s == SlotOf(id)
              cell == [key |-> NameOf(t), value |-> setting[t].value]
  <1>1. setting[t].at = "slow" /\ UNCHANGED <<idOf, array>>
    BY DEF SlowWrite
  <1>2. setting[t] \in SettingState /\ c \in 1 .. Len(chunks)
    BY <1>1 DEF StoreOK, Naming, Placed
  <1>3. id \in Nat /\ s \in StoreSlots
    BY <1>2, ChunkSlot DEF SettingState
  <1>4. Shaped
    BY DEF StoreOK
  <1>5. CASE NameOf(t) = ""
    <2>1. setting' = [setting EXCEPT ![t] = NotSetting] /\ UNCHANGED <<chunks, masks, last>>
      BY <1>5 DEF SlowWrite
    <2>2. Naming' /\ Placed' /\ Alone' /\ BitPending'
      BY <1>1, <2>1, ReturnKeeps
    <2>3. Shaped' /\ CellsHold' /\ NamesHeld'
      BY <1>1, <2>1 DEF StoreOK, Shaped, CellsHold, NamesHeld
    <2> QED BY <2>2, <2>3 DEF StoreOK
  <1>6. CASE NameOf(t) # ""
    <2>1. /\ chunks' = [chunks EXCEPT ![c][s] = cell] /\ SetReturns(t)
          /\ masks' = [masks EXCEPT ![c] = @ \union {s}]
      BY <1>6 DEF SlowWrite, WriteSlot
    <2>2. cell \in Cell
      BY <1>1, <1>6, NamedBy
    <2>3. SlotWritten(chunks, chunks', c, s, cell)
      <3>. HIDE DEF c, s, cell
      <3> QED BY <2>1, <1>2, <1>3, <2>2, <1>4, WriteCell DEF Shaped
    <2>4. BitSet(masks, masks', c, s)
      <3>. HIDE DEF c, s
      <3> QED BY <2>1, <1>2, <1>3, <1>4, SetBit DEF Shaped
    <2>5. last' = Put1(last, NameOf(t), setting[t].value) /\ setting' = [setting EXCEPT ![t] = NotSetting]
      BY <2>1 DEF SetReturns
    <2>6. Shaped' /\ CellsHold' /\ NamesHeld'
      BY <1>1, <1>2, <1>6, <2>3, <2>4, <2>5, WriteHolds
    <2>7. Len(chunks') = Len(chunks)
      BY <2>3 DEF SlotWritten
    <2>8. Naming' /\ Placed' /\ Alone' /\ BitPending'
      BY <1>1, <2>5, <2>7, ReturnKeeps
    <2> QED BY <2>6, <2>8 DEF StoreOK
  <1> QED BY <1>5, <1>6

\* A goroutine on the way to its chunk, while the rest of the store stays.
LEMMA SettingMoves ==
  ASSUME StoreOK, NEW t \in Setters, NEW a \in {"grow", "chunk", "slow"}, setting[t].at \in {"grow", "chunk"},
         setting' = [setting EXCEPT ![t].at = a], idOf' = idOf,
         a = "slow" => ChunkOf(setting[t].id) \in 1 .. Len(chunks), Len(chunks') \in Nat, Len(chunks) <= Len(chunks')
  PROVE  Naming' /\ Alone' /\ (array' \in Nat => Placed') /\ (\A u \in Setters : setting'[u].at # "bit") /\ setting' \in [Setters -> SettingState]
  <1>0. setting \in [Setters -> SettingState] /\ chunks \in Seq([StoreSlots -> Cell])
    BY DEF StoreOK, Naming, Shaped
  <1>1. setting'[t].at = a /\ setting'[t].key = setting[t].key /\ setting'[t].id = setting[t].id
        /\ setting' \in [Setters -> SettingState] /\ \A u \in Setters : u # t => setting'[u] = setting[u]
    BY <1>0 DEF SettingState
  <1>2. \A u \in Setters : setting[u].at \notin {"fast", "bit"}
    BY DEF StoreOK, Alone
  <1>3. Naming'
    BY <1>1 DEF StoreOK, Naming
  <1>4. Alone'
    BY <1>1, <1>2 DEF Alone
  <1>5. \A i \in 1 .. Len(chunks) : i \in 1 .. Len(chunks')
    <2>1. Len(chunks) \in Nat
      BY <1>0, SeqPlaces
    <2> QED BY <2>1, SMT
  <1>6. array' \in Nat => Placed'
    BY <1>1, <1>5 DEF StoreOK, Placed
  <1> QED BY <1>1, <1>2, <1>3, <1>4, <1>6

LEMMA GrowCheckKeeps == ASSUME StoreOK, NEW t \in Setters, GrowCheck(t) PROVE StoreOK'
  <1>. DEFINE id == setting[t].id
              a == IF Len(chunks) < ChunkOf(id) THEN "chunk" ELSE "slow"
  <1>1. /\ setting[t].at = "grow" /\ setting' = [setting EXCEPT ![t].at = a]
        /\ UNCHANGED <<idOf, chunks, masks, array, last>>
    BY DEF GrowCheck
  <1>2. setting[t] \in SettingState /\ Len(chunks) \in Nat
    BY SeqPlaces DEF StoreOK, Naming, Shaped
  <1>3. id \in Nat
    BY <1>2 DEF SettingState
  <1>4. a = "slow" => ChunkOf(id) \in 1 .. Len(chunks)
    <2>1. ChunkOf(id) \in Nat \ {0}
      BY <1>3, ChunkSlot
    <2>. DEFINE c == ChunkOf(id)
                n == Len(chunks)
    <2>2. c \in Nat \ {0} /\ n \in Nat
      BY <2>1, <1>2
    <2>. HIDE DEF c, n
    <2>3. ~(n < c) => c \in 1 .. n
      BY <2>2
    <2> QED BY <2>3 DEF c, n
  <1>5. a \in {"grow", "chunk", "slow"}
    OBVIOUS
  <1>. HIDE DEF a
  <1>6. Len(chunks') \in Nat /\ Len(chunks) <= Len(chunks') /\ array' \in Nat
    BY <1>1, <1>2 DEF StoreOK, Placed
  <1>7. Naming' /\ Alone' /\ Placed' /\ (\A u \in Setters : setting'[u].at # "bit")
    BY <1>1, <1>4, <1>5, <1>6, SettingMoves
  <1>8. Shaped' /\ CellsHold' /\ NamesHeld'
    BY <1>1 DEF StoreOK, Shaped, CellsHold, NamesHeld
  <1> QED BY <1>7, <1>8 DEF StoreOK, BitPending

\* A new chunk has no bit set.
LEMMA GrowChunkKeeps == ASSUME StoreOK, NEW t \in Setters, GrowChunk(t) PROVE StoreOK'
  <1>. DEFINE new == [s \in 0 .. ChunkSize - 1 |-> Empty]
  <1>1. /\ setting[t].at = "chunk" /\ setting' = [setting EXCEPT ![t].at = "grow"]
        /\ chunks' = Append(chunks, new) /\ masks' = Append(masks, {}) /\ array' \in {array, array + 1}
        /\ UNCHANGED <<idOf, last>>
    BY DEF GrowChunk
  <1>2. chunks \in Seq([StoreSlots -> Cell]) /\ masks \in Seq(SUBSET StoreSlots) /\ Len(chunks) = Len(masks) /\ array \in Nat
    BY DEF StoreOK, Shaped, Placed
  <1>3. Len(chunks) \in Nat /\ Len(masks) \in Nat
    BY <1>2, SeqPlaces
  <1>4. new \in [StoreSlots -> Cell]
    BY DEF StoreSlots, Cell, Empty
  <1>5. {} \in SUBSET StoreSlots
    OBVIOUS
  <1>. HIDE DEF new
  <1>6. chunks' \in Seq([StoreSlots -> Cell]) /\ Len(chunks') = Len(chunks) + 1 /\ \A i \in 1 .. Len(chunks) : chunks'[i] = chunks[i]
    BY <1>1, <1>2, <1>4, AppendProperties
  <1>7. /\ masks' \in Seq(SUBSET StoreSlots) /\ Len(masks') = Len(masks) + 1 /\ masks'[Len(masks) + 1] = {}
        /\ \A i \in 1 .. Len(masks) : masks'[i] = masks[i]
    BY <1>1, <1>2, <1>5, AppendProperties
  <1>8. Len(chunks') \in Nat /\ Len(chunks) <= Len(chunks') /\ array' \in Nat
    BY <1>1, <1>2, <1>3, <1>6
  <1>9. Naming' /\ Alone' /\ Placed' /\ (\A u \in Setters : setting'[u].at # "bit")
    BY <1>1, <1>8, SettingMoves
  <1>10. Shaped'
    BY <1>2, <1>6, <1>7 DEF Shaped
  <1>11. \A i \in 1 .. Len(masks') : i \in 1 .. Len(masks) \/ masks'[i] = {}
    BY <1>3, <1>7
  <1>12. CellsHold'
    <2>. SUFFICES ASSUME NEW c \in 1 .. Len(masks'), NEW s \in StoreSlots, s \in masks'[c]
                  PROVE  \E i \in DOMAIN idOf : /\ ChunkOf(i - 1) = c /\ SlotOf(i - 1) = s /\ idOf[i] \in DOMAIN last
                                                /\ chunks'[c][s] = [key |-> idOf[i], value |-> last[idOf[i]]]
      BY <1>1 DEF CellsHold
    <2>1. c \in 1 .. Len(masks) /\ masks'[c] = masks[c] /\ chunks'[c] = chunks[c]
      BY <1>2, <1>6, <1>7, <1>11
    <2> QED BY <2>1 DEF StoreOK, CellsHold
  <1>13. NamesHeld'
    <2>1. \A i \in 1 .. Len(masks) : i \in 1 .. Len(masks') /\ masks'[i] = masks[i]
      BY <1>3, <1>7
    <2> QED BY <1>1, <2>1 DEF StoreOK, NamesHeld
  <1> QED BY <1>9, <1>10, <1>12, <1>13 DEF StoreOK, BitPending

-----------------------------------------------------------------------------
\* A call that overlaps none that uses the fast path.
LEMMA NoOverlap ==
  ASSUME NEW t \in Setters, StoreCall(t), ~exposed', exposed \in BOOLEAN
  PROVE  /\ ~exposed /\ setting[t].at = "idle" /\ (fastPath => \A u \in Setters : setting[u].at = "idle")
         /\ \A u \in Setters : setting[u].at \notin {"fast", "bit"}
  BY DEF StoreCall

\* getOrCreateFieldID keeps the ids there are.
LEMMA KnownAsIs ==
  ASSUME Naming, NEW k \in SetKeys
  PROVE  LET ks == KnownAs(k)
             id == IdIn(ks, k)
         IN  /\ ks \in Seq(SetKeys) /\ Len(idOf) <= Len(ks) /\ \A i \in DOMAIN idOf : i \in DOMAIN ks /\ ks[i] = idOf[i]
             /\ \A i, j \in DOMAIN ks : ks[i] = ks[j] => i = j
             /\ id \in Nat /\ id < Len(ks) /\ ks[id + 1] = k
  <1>. DEFINE ks == KnownAs(k)
              id == IdIn(ks, k)
  <1>1. idOf \in Seq(SetKeys) /\ \A i, j \in DOMAIN idOf : idOf[i] = idOf[j] => i = j
    BY DEF Naming
  <1>2. DOMAIN idOf = 1 .. Len(idOf) /\ Len(idOf) \in Nat
    BY <1>1, SeqPlaces
  <1>3. /\ ks \in Seq(SetKeys) /\ Len(idOf) <= Len(ks) /\ \A i \in DOMAIN idOf : i \in DOMAIN ks /\ ks[i] = idOf[i]
        /\ \A i, j \in DOMAIN ks : ks[i] = ks[j] => i = j
        /\ \E i \in DOMAIN ks : ks[i] = k
    <2>1. CASE \E i \in DOMAIN idOf : idOf[i] = k
      <3>1. ks = idOf
        BY <2>1 DEF KnownAs
      <3> QED BY <1>1, <1>2, <2>1, <3>1
    <2>2. CASE ~\E i \in DOMAIN idOf : idOf[i] = k
      <3>1. ks = Append(idOf, k)
        BY <2>2 DEF KnownAs
      <3>. HIDE DEF ks
      <3>2. ks \in Seq(SetKeys) /\ Len(ks) = Len(idOf) + 1 /\ ks[Len(idOf) + 1] = k /\ \A i \in 1 .. Len(idOf) : ks[i] = idOf[i]
        BY <1>1, <3>1, AppendProperties
      <3>3. DOMAIN ks = 1 .. Len(idOf) + 1
        BY <3>2, SeqPlaces
      <3>4. \A i \in DOMAIN ks : i \in DOMAIN idOf \/ i = Len(idOf) + 1
        BY <1>2, <3>3
      <3>5. \A i \in DOMAIN idOf : i \in DOMAIN ks
        BY <1>2, <3>3
      <3>6. Len(idOf) + 1 \in DOMAIN ks /\ Len(idOf) <= Len(ks)
        BY <1>2, <3>2, <3>3
      <3>7. \A i, j \in DOMAIN ks : ks[i] = ks[j] => i = j
        BY <1>1, <1>2, <2>2, <3>2, <3>4
      <3> QED BY <1>2, <3>2, <3>5, <3>6, <3>7
    <2> QED BY <2>1, <2>2
  <1>. HIDE DEF ks
  <1>. DEFINE i == CHOOSE j \in DOMAIN ks : ks[j] = k
  <1>4. i \in DOMAIN ks /\ ks[i] = k
    BY <1>3
  <1>5. id = i - 1
    BY DEF IdIn
  <1>. HIDE DEF i, id
  <1>6. DOMAIN ks = 1 .. Len(ks) /\ Len(ks) \in Nat
    BY <1>3, SeqPlaces
  <1>7. id \in Nat /\ id < Len(ks) /\ id + 1 = i
    BY <1>4, <1>5, <1>6
  <1> QED BY <1>3, <1>4, <1>7 DEF ks, id

\* Who begins, on its way to a chunk or on the fast path.
LEMMA BeginKeeps ==
  ASSUME StoreOK, NEW t \in Setters, setting[t].at = "idle", \A u \in Setters : setting[u].at \notin {"fast", "bit"},
         NEW st \in SettingState, setting' = [setting EXCEPT ![t] = st], st.at \in {"fast", "grow"},
         UNCHANGED <<chunks, masks, array, last>>,
         idOf' \in Seq(SetKeys), \A i \in DOMAIN idOf : i \in DOMAIN idOf' /\ idOf'[i] = idOf[i], Len(idOf) <= Len(idOf'),
         \A i, j \in DOMAIN idOf' : idOf'[i] = idOf'[j] => i = j,
         st.key # "" => st.id < Len(idOf') /\ idOf'[st.id + 1] = st.key,
         st.at = "fast" => st.key # "" /\ ChunkOf(st.id) \in 1 .. Len(chunks) /\ \A u \in Setters : setting[u].at = "idle"
  PROVE  StoreOK'
  <1>1. setting' \in [Setters -> SettingState] /\ setting'[t] = st /\ \A u \in Setters : u # t => setting'[u] = setting[u]
    BY DEF StoreOK, Naming
  <1>2. idOf \in Seq(SetKeys) /\ DOMAIN idOf = 1 .. Len(idOf) /\ Len(idOf) \in Nat /\ Len(idOf') \in Nat
    BY SeqPlaces DEF StoreOK, Naming
  <1>3. ASSUME NEW u \in Setters, setting'[u].at # "idle", setting'[u].key # ""
        PROVE  setting'[u].id < Len(idOf') /\ idOf'[setting'[u].id + 1] = setting'[u].key
    <2>1. CASE u = t
      BY <1>1, <1>3, <2>1
    <2>2. CASE u # t
      <3>. DEFINE id == setting[u].id
      <3>1. setting'[u] = setting[u] /\ setting[u] \in SettingState
        BY <1>1, <2>2 DEF StoreOK, Naming
      <3>2. id \in Nat
        BY <3>1 DEF SettingState
      <3>3. id < Len(idOf) /\ idOf[id + 1] = setting[u].key
        BY <1>3, <3>1 DEF StoreOK, Naming
      <3>. HIDE DEF id
      <3>4. id + 1 \in DOMAIN idOf
        BY <1>2, <3>2, <3>3, SeqPlaces
      <3>5. id < Len(idOf')
        BY <1>2, <3>2, <3>3, LessLess
      <3>6. idOf'[id + 1] = setting[u].key
        BY <3>3, <3>4
      <3> QED BY <3>1, <3>5, <3>6 DEF id
    <2> QED BY <2>1, <2>2
  <1>4. Naming'
    <2>1. \A u \in Setters : setting'[u].at \in {"fast", "bit"} => setting'[u].key # ""
      BY <1>1
    <2> QED BY <1>1, <1>3, <2>1 DEF Naming
  <1>5. Placed'
    BY <1>1 DEF StoreOK, Placed
  <1>6. Alone'
    BY <1>1 DEF Alone
  <1>7. BitPending'
    BY <1>1 DEF BitPending
  <1>8. Shaped'
    BY DEF StoreOK, Shaped
  <1>9. CellsHold'
    <2>1. \A i \in DOMAIN idOf : i \in DOMAIN idOf' /\ idOf'[i] = idOf[i]
      OBVIOUS
    <2>2. masks' = masks /\ chunks' = chunks /\ last' = last
      OBVIOUS
    <2>3. ASSUME NEW c \in 1 .. Len(masks'), NEW s \in StoreSlots, s \in masks'[c]
          PROVE  \E i \in DOMAIN idOf' : /\ ChunkOf(i - 1) = c /\ SlotOf(i - 1) = s /\ idOf'[i] \in DOMAIN last'
                                         /\ chunks'[c][s] = [key |-> idOf'[i], value |-> last'[idOf'[i]]]
      <3>1. c \in 1 .. Len(masks) /\ s \in masks[c]
        BY <2>2, <2>3
      <3>2. PICK i \in DOMAIN idOf : /\ ChunkOf(i - 1) = c /\ SlotOf(i - 1) = s /\ idOf[i] \in DOMAIN last
                                     /\ chunks[c][s] = [key |-> idOf[i], value |-> last[idOf[i]]]
        BY <3>1 DEF StoreOK, CellsHold
      <3> QED BY <2>1, <2>2, <3>2
    <2> QED BY <2>3 DEF CellsHold
  <1>10. NamesHeld'
    <2>1. \A i \in DOMAIN idOf : i \in DOMAIN idOf' /\ idOf'[i] = idOf[i]
      OBVIOUS
    <2>2. masks' = masks /\ last' = last
      OBVIOUS
    <2>. SUFFICES ASSUME NEW k \in DOMAIN last
                  PROVE  \E i \in DOMAIN idOf' : /\ idOf'[i] = k /\ ChunkOf(i - 1) \in 1 .. Len(masks)
                                                /\ SlotOf(i - 1) \in masks[ChunkOf(i - 1)]
      BY <2>2 DEF NamesHeld
    <2>3. PICK i \in DOMAIN idOf : /\ idOf[i] = k /\ ChunkOf(i - 1) \in 1 .. Len(masks)
                                   /\ SlotOf(i - 1) \in masks[ChunkOf(i - 1)]
      BY DEF StoreOK, NamesHeld
    <2> QED BY <2>1, <2>3
  <1> QED BY <1>4, <1>5, <1>6, <1>7, <1>8, <1>9, <1>10 DEF StoreOK

LEMMA SetBeginsKeeps ==
  ASSUME StoreInv, NEW t \in Setters, NEW k \in SetKeys, NEW v \in SetValues, SetBegins(t, k, v), ~exposed'
  PROVE  StoreOK'
  <1>. DEFINE ks == KnownAs(k)
              id == IdIn(ks, k)
              st == [at |-> IF fastPath /\ ChunkOf(id) <= Len(chunks) THEN "fast" ELSE "grow",
                     key |-> k, id |-> id, value |-> v, array |-> 0]
  <1>1. StoreCall(t) /\ exposed \in BOOLEAN
    BY DEF SetBegins, StoreInv
  <1>2. ~exposed /\ setting[t].at = "idle" /\ (fastPath => \A u \in Setters : setting[u].at = "idle")
        /\ \A u \in Setters : setting[u].at \notin {"fast", "bit"}
    BY <1>1, NoOverlap
  <1>3. StoreOK /\ Naming /\ Shaped
    BY <1>2 DEF StoreInv, StoreOK
  <1>4. /\ ks \in Seq(SetKeys) /\ Len(idOf) <= Len(ks) /\ \A i \in DOMAIN idOf : i \in DOMAIN ks /\ ks[i] = idOf[i]
        /\ \A i, j \in DOMAIN ks : ks[i] = ks[j] => i = j
        /\ id \in Nat /\ id < Len(ks) /\ ks[id + 1] = k
    BY <1>3, KnownAsIs
  <1>5. idOf' = ks /\ setting' = [setting EXCEPT ![t] = st] /\ UNCHANGED <<chunks, masks, array, last>>
    BY DEF SetBegins
  <1>6. Len(chunks) \in Nat
    BY <1>3, SeqPlaces DEF Shaped
  <1>7. fastPath /\ ChunkOf(id) <= Len(chunks) => ChunkOf(id) \in 1 .. Len(chunks)
    <2>. DEFINE c == ChunkOf(id)
                n == Len(chunks)
    <2>1. c \in Nat \ {0} /\ n \in Nat
      BY <1>4, <1>6, ChunkSlot
    <2>. HIDE DEF c, n
    <2>2. c <= n => c \in 1 .. n
      BY <2>1
    <2> QED BY <2>2 DEF c, n
  <1>. HIDE DEF ks, id
  <1>8. st \in SettingState /\ st.at \in {"fast", "grow"} /\ st.key = k /\ st.id = id
        /\ (st.at = "fast" => fastPath /\ ChunkOf(id) <= Len(chunks))
    BY <1>4 DEF SettingState
  <1>9. k # ""
    BY FieldStoreAssumption
  <1>. HIDE DEF st
  <1>10. st.key # "" => st.id < Len(idOf') /\ idOf'[st.id + 1] = st.key
    BY <1>4, <1>5, <1>8
  <1>11. st.at = "fast" => st.key # "" /\ ChunkOf(st.id) \in 1 .. Len(chunks) /\ \A u \in Setters : setting[u].at = "idle"
    BY <1>2, <1>7, <1>8, <1>9
  <1>12. /\ idOf' \in Seq(SetKeys) /\ \A i \in DOMAIN idOf : i \in DOMAIN idOf' /\ idOf'[i] = idOf[i]
         /\ Len(idOf) <= Len(idOf') /\ \A i, j \in DOMAIN idOf' : idOf'[i] = idOf'[j] => i = j
    BY <1>4, <1>5
  <1> QED BY <1>2, <1>3, <1>5, <1>8, <1>10, <1>11, <1>12, BeginKeeps

LEMMA SetByIDKeeps ==
  ASSUME StoreInv, NEW t \in Setters, NEW id \in Nat, NEW v \in SetValues, SetByID(t, id, v), ~exposed'
  PROVE  StoreOK'
  <1>. DEFINE st == [at |-> "grow", key |-> "", id |-> id, value |-> v, array |-> 0]
  <1>1. StoreCall(t) /\ exposed \in BOOLEAN
    BY DEF SetByID, StoreInv
  <1>2. ~exposed /\ setting[t].at = "idle" /\ \A u \in Setters : setting[u].at \notin {"fast", "bit"}
    BY <1>1, NoOverlap
  <1>3. StoreOK /\ Naming
    BY <1>2 DEF StoreInv, StoreOK
  <1>4. idOf' = idOf /\ setting' = [setting EXCEPT ![t] = st] /\ UNCHANGED <<chunks, masks, array, last>>
    BY DEF SetByID
  <1>5. st \in SettingState /\ st.at \in {"fast", "grow"} /\ st.key = "" /\ st.at # "fast"
    BY DEF SettingState
  <1>. HIDE DEF st
  <1>6. Len(idOf) \in Nat
    BY <1>3, SeqPlaces DEF Naming
  <1>7. Len(idOf) <= Len(idOf')
    BY <1>4, <1>6
  <1>8. /\ idOf' \in Seq(SetKeys) /\ \A i \in DOMAIN idOf : i \in DOMAIN idOf' /\ idOf'[i] = idOf[i]
        /\ \A i, j \in DOMAIN idOf' : idOf'[i] = idOf'[j] => i = j
    BY <1>3, <1>4 DEF Naming
  <1> QED BY <1>2, <1>3, <1>4, <1>5, <1>7, <1>8, BeginKeeps

\* Nothing but the cells, the bits and what was set last changes, and no one is between slot and bit.
LEMMA BulkStoreKeeps ==
  ASSUME StoreOK, \A u \in Setters : setting[u].at \notin {"fast", "bit"}, UNCHANGED <<idOf, array, setting>>,
         Shaped', Len(chunks') = Len(chunks), CellsHold', NamesHeld'
  PROVE  StoreOK'
  <1>1. idOf' = idOf /\ array' = array /\ setting' = setting
    OBVIOUS
  <1>2. Naming' /\ Placed' /\ Alone' /\ BitPending'
    BY <1>1 DEF StoreOK, Naming, Placed, Alone, BitPending
  <1> QED BY <1>2 DEF StoreOK

LEMMA TransformKeeps ==
  ASSUME StoreInv, NEW t \in Setters, NEW v \in SetValues, TransformValues(t, v), ~exposed'
  PROVE  StoreOK'
  <1>1. StoreCall(t) /\ exposed \in BOOLEAN
    BY DEF TransformValues, StoreInv
  <1>2. ~exposed /\ \A u \in Setters : setting[u].at \notin {"fast", "bit"}
    BY <1>1, NoOverlap
  <1>3. StoreOK /\ Naming
    BY <1>2 DEF StoreInv, StoreOK
  <1>4. /\ chunks' = [c \in DOMAIN chunks |-> [s \in 0 .. ChunkSize - 1 |->
                        IF s \in masks[c] THEN [key |-> chunks[c][s].key, value |-> v] ELSE chunks[c][s]]]
        /\ last' = [k \in DOMAIN last |-> v] /\ masks' = masks /\ UNCHANGED <<idOf, array, setting>>
    BY DEF TransformValues
  <1>5. /\ chunks \in Seq([StoreSlots -> Cell]) /\ masks \in Seq(SUBSET StoreSlots) /\ Len(chunks) = Len(masks)
        /\ DOMAIN chunks = 1 .. Len(chunks) /\ Len(chunks) \in Nat
    BY <1>3, SeqPlaces DEF StoreOK, Shaped
  <1>6. \A c \in 1 .. Len(chunks), s \in StoreSlots : chunks[c][s] \in Cell
    BY <1>5
  <1>7. /\ \A c \in 1 .. Len(chunks), s \in StoreSlots : chunks'[c][s] \in Cell
        /\ \A c \in 1 .. Len(chunks), s \in StoreSlots : s \in masks[c] => chunks'[c][s] = [key |-> chunks[c][s].key, value |-> v]
    <2>1. \A c \in 1 .. Len(chunks), s \in StoreSlots :
             chunks'[c][s] = IF s \in masks[c] THEN [key |-> chunks[c][s].key, value |-> v] ELSE chunks[c][s]
      BY <1>4, <1>5 DEF StoreSlots
    <2>3. \A r \in Cell : [key |-> r.key, value |-> v] \in Cell
      BY DEF Cell
    <2>4. ASSUME NEW c \in 1 .. Len(chunks), NEW s \in StoreSlots, s \in masks[c]
          PROVE  chunks'[c][s] = [key |-> chunks[c][s].key, value |-> v] /\ chunks'[c][s] \in Cell
      <3>1. chunks'[c][s] = [key |-> chunks[c][s].key, value |-> v]
        BY <2>1, <2>4
      <3>2. chunks[c][s] \in Cell
        BY <1>6
      <3>3. [key |-> chunks[c][s].key, value |-> v] \in Cell
        BY <2>3, <3>2
      <3> QED BY <3>1, <3>3
    <2>5. ASSUME NEW c \in 1 .. Len(chunks), NEW s \in StoreSlots, s \notin masks[c] PROVE chunks'[c][s] \in Cell
      BY <1>6, <2>1, <2>5
    <2> QED BY <2>4, <2>5
  <1>8. chunks' \in Seq([StoreSlots -> Cell]) /\ Len(chunks') = Len(chunks)
    <2>1. \A c \in 1 .. Len(chunks) : chunks'[c] \in [StoreSlots -> Cell]
      <3>1. \A c \in 1 .. Len(chunks) : chunks'[c] = [s \in StoreSlots |-> chunks'[c][s]]
        BY <1>4, <1>5 DEF StoreSlots
      <3> QED BY <1>7, <3>1
    <2>2. chunks' \in [1 .. Len(chunks) -> [StoreSlots -> Cell]]
      <3>1. chunks' = [c \in 1 .. Len(chunks) |-> chunks'[c]]
        BY <1>4, <1>5
      <3> QED BY <2>1, <3>1
    <2>. DEFINE n == Len(chunks)
    <2>. HIDE DEF n
    <2>3. n \in Nat /\ chunks' \in [1 .. n -> [StoreSlots -> Cell]]
      BY <1>5, <2>2 DEF n
    <2>4. chunks' \in Seq([StoreSlots -> Cell]) /\ Len(chunks') = n
      BY <2>3
    <2> QED BY <2>4 DEF n
  <1>9. Shaped'
    BY <1>4, <1>5, <1>8 DEF Shaped
  <1>10. CellsHold'
    <2>1. ASSUME NEW c \in 1 .. Len(masks'), NEW s \in StoreSlots, s \in masks'[c]
          PROVE  \E i \in DOMAIN idOf' : /\ ChunkOf(i - 1) = c /\ SlotOf(i - 1) = s /\ idOf'[i] \in DOMAIN last'
                                         /\ chunks'[c][s] = [key |-> idOf'[i], value |-> last'[idOf'[i]]]
      <3>1. c \in 1 .. Len(masks) /\ s \in masks[c] /\ c \in 1 .. Len(chunks)
        BY <1>4, <1>5, <2>1
      <3>2. PICK i \in DOMAIN idOf : /\ ChunkOf(i - 1) = c /\ SlotOf(i - 1) = s /\ idOf[i] \in DOMAIN last
                                     /\ chunks[c][s] = [key |-> idOf[i], value |-> last[idOf[i]]]
        BY <1>3, <3>1 DEF StoreOK, CellsHold
      <3>3. chunks[c][s].key = idOf[i]
        BY <3>2
      <3>4. last'[idOf[i]] = v /\ idOf[i] \in DOMAIN last'
        BY <1>4, <3>2
      <3>5. chunks'[c][s] = [key |-> idOf[i], value |-> v]
        BY <1>7, <3>1, <3>3
      <3>6. idOf' = idOf
        BY <1>4
      <3> QED BY <3>2, <3>4, <3>5, <3>6
    <2> QED BY <2>1 DEF CellsHold
  <1>11. NamesHeld'
    <2>1. DOMAIN last' = DOMAIN last /\ masks' = masks /\ idOf' = idOf
      BY <1>4
    <2> QED BY <1>3, <2>1 DEF StoreOK, NamesHeld
  <1> QED BY <1>2, <1>3, <1>4, <1>8, <1>9, <1>10, <1>11, BulkStoreKeeps

LEMMA StoreResetKeeps == ASSUME StoreInv, NEW t \in Setters, StoreReset(t), ~exposed' PROVE StoreOK'
  <1>1. StoreCall(t) /\ exposed \in BOOLEAN
    BY DEF StoreReset, StoreInv
  <1>2. ~exposed /\ \A u \in Setters : setting[u].at \notin {"fast", "bit"}
    BY <1>1, NoOverlap
  <1>3. StoreOK
    BY <1>2 DEF StoreInv
  <1>. DEFINE new == [s \in 0 .. ChunkSize - 1 |-> Empty]
              n == Len(chunks)
  <1>4. /\ masks' = [c \in DOMAIN masks |-> {}] /\ chunks' = [c \in DOMAIN chunks |-> new] /\ last' = <<>>
        /\ UNCHANGED <<idOf, array, setting>>
    BY DEF StoreReset
  <1>5. DOMAIN chunks = 1 .. n /\ DOMAIN masks = 1 .. n /\ n \in Nat
    <2>1. chunks \in Seq([StoreSlots -> Cell]) /\ masks \in Seq(SUBSET StoreSlots) /\ Len(chunks) = Len(masks)
      BY <1>3 DEF StoreOK, Shaped
    <2> QED BY <2>1, SeqPlaces
  <1>6. new \in [StoreSlots -> Cell]
    BY DEF StoreSlots, Cell, Empty
  <1>. HIDE DEF new, n
  <1>7. chunks' \in Seq([StoreSlots -> Cell]) /\ Len(chunks') = n
    BY <1>4, <1>5, <1>6
  <1>8. masks' \in Seq(SUBSET StoreSlots) /\ Len(masks') = n /\ \A c \in 1 .. n : masks'[c] = {}
    <2>1. masks' \in [1 .. n -> SUBSET StoreSlots] /\ \A c \in 1 .. n : masks'[c] = {}
      BY <1>4, <1>5
    <2> QED BY <1>5, <2>1
  <1>9. Shaped'
    BY <1>7, <1>8 DEF Shaped
  <1>10. CellsHold'
    BY <1>8 DEF CellsHold
  <1>11. NamesHeld'
    <2>1. DOMAIN last' = {}
      BY <1>4
    <2> QED BY <2>1 DEF NamesHeld
  <1>12. Len(chunks') = Len(chunks)
    BY <1>7 DEF n
  <1> QED BY <1>2, <1>3, <1>4, <1>9, <1>10, <1>11, <1>12, BulkStoreKeeps

LEMMA StoreStays ==
  ASSUME StoreOK, UNCHANGED <<idOf, chunks, masks, array, setting, last>>
  PROVE  StoreOK'
  <1>1. idOf' = idOf /\ chunks' = chunks /\ masks' = masks /\ array' = array /\ setting' = setting /\ last' = last
    OBVIOUS
  <1>2. \A u \in Setters : NameOf(u)' = NameOf(u)
    BY <1>1 DEF NameOf
  <1>3. BitPending'
    BY <1>1, <1>2 DEF StoreOK, BitPending
  <1>4. Naming' /\ Shaped' /\ Placed' /\ Alone'
    BY <1>1 DEF StoreOK, Naming, Shaped, Placed, Alone
  <1>5. CellsHold' /\ NamesHeld'
    BY <1>1 DEF StoreOK, CellsHold, NamesHeld
  <1> QED BY <1>3, <1>4, <1>5 DEF StoreOK

-----------------------------------------------------------------------------
(* The basic store.                                                          *)

LEMMA BasicSetKeeps ==
  ASSUME BasicOK, NEW t \in Setters, NEW k \in SetKeys, NEW v \in SetValues, BasicSet(t, k, v)
  PROVE  BasicOK'
  <1>. DEFINE ks == basic.keys
              vs == basic.values
              n == Len(ks)
  <1>0. ks \in Seq(SetKeys) /\ vs \in Seq(SetValues) /\ Len(vs) = n /\ basic.bits = 1 .. n
    BY DEF BasicOK
  <1>1. DOMAIN ks = 1 .. n /\ n \in Nat
    BY <1>0, SeqPlaces
  <1>2. /\ basic = [keys |-> ks, values |-> vs, bits |-> basic.bits]
        /\ \A i, j \in 1 .. n : ks[i] = ks[j] => i = j
        /\ DOMAIN basicLast = {ks[i] : i \in 1 .. n}
        /\ \A i \in 1 .. n : vs[i] = basicLast[ks[i]]
    BY DEF BasicOK
  <1>3. Put1Is(basicLast, k, v)
    BY Put1Knows
  <1>4. CASE k \in Range(ks)
    <2>. DEFINE b == BasicIndex(k)
                ws == [vs EXCEPT ![b] = v]
    <2>1. b \in 1 .. n /\ ks[b] = k
      BY <1>1, <1>4 DEF Range, BasicIndex
    <2>2. basic' = [basic EXCEPT !.values[b] = v, !.bits = @ \union {b}] /\ basicLast' = Put1(basicLast, k, v)
      BY <1>4 DEF BasicSet
    <2>. HIDE DEF b
    <2>3. basic' = [keys |-> ks, values |-> ws, bits |-> basic.bits \union {b}]
      BY <1>2, <2>2
    <2>4. ws \in Seq(SetValues) /\ Len(ws) = n /\ \A i \in 1 .. n : ws[i] = IF i = b THEN v ELSE vs[i]
      BY <1>0, <2>1, ExceptSeq
    <2>. HIDE DEF ws
    <2>5. basic.bits \union {b} = 1 .. n
      BY <1>0, <2>1
    <2>6. /\ basic'.keys = ks /\ basic'.values = ws /\ basic'.bits = 1 .. n
          /\ basic' = [keys |-> basic'.keys, values |-> basic'.values, bits |-> basic'.bits]
      BY <2>3, <2>5
    <2>7. DOMAIN basicLast' = {ks[i] : i \in 1 .. n} /\ \A i \in 1 .. n : ws[i] = basicLast'[ks[i]]
      <3>1. DOMAIN basicLast' = DOMAIN basicLast \union {k} /\ basicLast'[k] = v
            /\ \A x \in DOMAIN basicLast : x # k => basicLast'[x] = basicLast[x]
        BY <1>3, <2>2 DEF Put1Is
      <3>2. k \in {ks[i] : i \in 1 .. n}
        BY <2>1
      <3>3. \A i \in 1 .. n : ks[i] \in DOMAIN basicLast /\ (ks[i] = k <=> i = b)
        BY <1>2, <2>1
      <3> QED BY <1>2, <2>4, <3>1, <3>2, <3>3
    <2> QED BY <1>0, <1>2, <2>4, <2>6, <2>7 DEF BasicOK
  <1>5. CASE k \notin Range(ks) /\ Len(ks) < BasicCap
    <2>. DEFINE kt == Append(ks, k)
                ws == Append(vs, v)
    <2>1. basic' = [keys |-> kt, values |-> ws, bits |-> basic.bits \union {n + 1}] /\ basicLast' = Put1(basicLast, k, v)
      BY <1>5 DEF BasicSet
    <2>2. kt \in Seq(SetKeys) /\ Len(kt) = n + 1 /\ kt[n + 1] = k /\ \A i \in 1 .. n : kt[i] = ks[i]
      BY <1>0, AppendProperties
    <2>3. ws \in Seq(SetValues) /\ Len(ws) = n + 1 /\ ws[n + 1] = v /\ \A i \in 1 .. n : ws[i] = vs[i]
      BY <1>0, AppendProperties
    <2>. HIDE DEF kt, ws
    <2>4. basic.bits \union {n + 1} = 1 .. n + 1
      BY <1>0, <1>1
    <2>5. /\ basic'.keys = kt /\ basic'.values = ws /\ basic'.bits = 1 .. n + 1
          /\ basic' = [keys |-> basic'.keys, values |-> basic'.values, bits |-> basic'.bits]
      BY <2>1, <2>4
    <2>6. DOMAIN basicLast' = DOMAIN basicLast \union {k} /\ basicLast'[k] = v
          /\ \A x \in DOMAIN basicLast : x # k => basicLast'[x] = basicLast[x]
      BY <1>3, <2>1 DEF Put1Is
    <2>7. \A i \in 1 .. n : ks[i] # k
      BY <1>1, <1>5 DEF Range
    <2>8. \A i \in 1 .. n + 1 : i \in 1 .. n \/ i = n + 1
      BY <1>1
    <2>9. \A i \in 1 .. n : i \in 1 .. n + 1
      BY <1>1
    <2>a. n + 1 \in 1 .. n + 1
      BY <1>1
    <2>10. \A i, j \in 1 .. n + 1 : kt[i] = kt[j] => i = j
      BY <1>2, <2>2, <2>7, <2>8
    <2>11. DOMAIN basicLast' = {kt[i] : i \in 1 .. n + 1}
      BY <1>2, <2>2, <2>6, <2>8, <2>9, <2>a
    <2>12. \A i \in 1 .. n + 1 : ws[i] = basicLast'[kt[i]]
      BY <1>2, <2>2, <2>3, <2>6, <2>7, <2>8
    <2> QED BY <2>2, <2>3, <2>5, <2>10, <2>11, <2>12 DEF BasicOK
  <1>6. CASE k \notin Range(ks) /\ ~(Len(ks) < BasicCap)
    <2>1. basic' = basic /\ basicLast' = basicLast
      BY <1>6 DEF BasicSet
    <2> QED BY <2>1 DEF BasicOK
  <1> QED BY <1>4, <1>5, <1>6

LEMMA BasicResetKeeps == ASSUME NEW t \in Setters, BasicReset(t) PROVE BasicOK'
  <1>1. basic' = [keys |-> <<>>, values |-> <<>>, bits |-> {}] /\ basicLast' = <<>>
    BY DEF BasicReset
  <1>2. 1 .. 0 = {} /\ Len(<<>>) = 0 /\ DOMAIN <<>> = {}
    OBVIOUS
  <1>3. basic'.keys = <<>> /\ basic'.values = <<>> /\ basic'.bits = {} /\ DOMAIN basicLast' = {}
        /\ basic' = [keys |-> basic'.keys, values |-> basic'.values, bits |-> basic'.bits]
    BY <1>1, <1>2
  <1> QED BY <1>2, <1>3 DEF BasicOK

LEMMA BasicMeans ==
  ASSUME BasicOK
  PROVE  /\ \A k \in DOMAIN basicLast : BasicGet(k) = {basicLast[k]}
         /\ Cardinality(basic.bits) = Cardinality(DOMAIN basicLast)
  <1>. DEFINE ks == basic.keys
              n == Len(ks)
              S == DOMAIN basicLast
  <1>1. /\ ks \in Seq(SetKeys) /\ basic.bits = 1 .. n
        /\ \A i, j \in 1 .. n : ks[i] = ks[j] => i = j
        /\ S = {ks[i] : i \in 1 .. n}
        /\ \A i \in 1 .. n : basic.values[i] = basicLast[ks[i]]
    BY DEF BasicOK
  <1>2. DOMAIN ks = 1 .. n /\ n \in Nat
    BY <1>1, SeqPlaces
  <1>3. ASSUME NEW k \in S PROVE BasicGet(k) = {basicLast[k]}
    <2>1. PICK i \in 1 .. n : ks[i] = k
      BY <1>1, <1>3
    <2>2. {j \in basic.bits : ks[j] = k} = {i}
      BY <1>1, <2>1
    <2>3. BasicGet(k) = {basic.values[j] : j \in {i}}
      BY <2>2 DEF BasicGet
    <2> QED BY <1>1, <2>1, <2>3
  <1>4. Cardinality(S) = n
    <2>1. ks \in [1 .. n -> S]
      <3>1. ks = [i \in DOMAIN ks |-> ks[i]]
        BY <1>1
      <3> QED BY <1>1, <1>2, <3>1
    <2>2. ks \in Bijection(1 .. n, S)
      BY <1>1, <2>1 DEF Bijection, Injection, Surjection, IsInjective
    <2>3. ExistsBijection(1 .. n, S)
      BY <2>2 DEF ExistsBijection
    <2>. HIDE DEF S, n
    <2> QED BY <1>2, <2>3, FS_CountingElements
  <1>5. Cardinality(1 .. n) = n
    <2>1. 1 \in Int /\ n \in Int
      BY <1>2
    <2>2. Cardinality(1 .. n) = IF 1 > n THEN 0 ELSE n - 1 + 1
      <3>. HIDE DEF n
      <3> QED BY <2>1, FS_Interval
    <2>. HIDE DEF n
    <2> QED BY <1>2, <2>2
  <1> QED BY <1>1, <1>3, <1>4, <1>5

-----------------------------------------------------------------------------
LEMMA StoreMeans == ASSUME StoreInv PROVE FieldsFound
  <1>1. ASSUME ~exposed
        PROVE  /\ \A k \in DOMAIN last :
                     /\ {p \in Present : chunks[p[1]][p[2]] = [key |-> k, value |-> last[k]]} # {}
                     /\ hasDict => StoreGet(k) = {last[k]}
               /\ \A p, q \in Present : chunks[p[1]][p[2]].key = chunks[q[1]][q[2]].key => p = q
               /\ \A p \in Present : chunks[p[1]][p[2]].key \in DOMAIN last
    <2>1. StoreOK
      BY <1>1 DEF StoreInv
    <2>2. /\ \A i, j \in DOMAIN idOf : idOf[i] = idOf[j] => i = j
          /\ \A c \in 1 .. Len(masks), s \in StoreSlots : s \in masks[c] =>
               \E i \in DOMAIN idOf : /\ ChunkOf(i - 1) = c /\ SlotOf(i - 1) = s /\ idOf[i] \in DOMAIN last
                                      /\ chunks[c][s] = [key |-> idOf[i], value |-> last[idOf[i]]]
          /\ \A k \in DOMAIN last :
               \E i \in DOMAIN idOf : idOf[i] = k /\ ChunkOf(i - 1) \in 1 .. Len(masks) /\ SlotOf(i - 1) \in masks[ChunkOf(i - 1)]
          /\ idOf \in Seq(SetKeys) /\ masks \in Seq(SUBSET StoreSlots) /\ Len(chunks) = Len(masks)
      BY <2>1 DEF StoreOK, Naming, CellsHold, NamesHeld, Shaped
    <2>3. DOMAIN masks = 1 .. Len(masks) /\ Len(masks) \in Nat /\ \A i \in DOMAIN idOf : i \in Nat /\ i - 1 \in Nat
      BY <2>2, SeqPlaces
    <2>4. ASSUME NEW p \in Present
          PROVE  \E i \in DOMAIN idOf : /\ p = <<ChunkOf(i - 1), SlotOf(i - 1)>> /\ idOf[i] \in DOMAIN last
                                        /\ chunks[p[1]][p[2]].key = idOf[i]
      <3>. DEFINE a == p[1]
                  b == p[2]
      <3>1. a \in 1 .. Len(masks) /\ b \in StoreSlots /\ b \in masks[a] /\ p = <<a, b>>
        BY <2>3 DEF Present, StoreSlots
      <3>. HIDE DEF a, b
      <3>2. PICK i \in DOMAIN idOf : /\ ChunkOf(i - 1) = a /\ SlotOf(i - 1) = b /\ idOf[i] \in DOMAIN last
                                     /\ chunks[a][b] = [key |-> idOf[i], value |-> last[idOf[i]]]
        BY <2>1, <3>1 DEF StoreOK, CellsHold
      <3>3. chunks[a][b].key = idOf[i]
        BY <3>2
      <3>4. p = <<ChunkOf(i - 1), SlotOf(i - 1)>>
        BY <3>1, <3>2
      <3> QED BY <3>2, <3>3, <3>4 DEF a, b
    <2>5. ASSUME NEW k \in DOMAIN last
          PROVE  /\ {p \in Present : chunks[p[1]][p[2]] = [key |-> k, value |-> last[k]]} # {}
                 /\ hasDict => StoreGet(k) = {last[k]}
      <3>1. PICK i \in DOMAIN idOf : idOf[i] = k /\ ChunkOf(i - 1) \in 1 .. Len(masks) /\ SlotOf(i - 1) \in masks[ChunkOf(i - 1)]
        BY <2>2
      <3>. DEFINE c == ChunkOf(i - 1)
                  s == SlotOf(i - 1)
      <3>2. s \in StoreSlots
        BY <2>3, ChunkSlot
      <3>a. c \in 1 .. Len(masks) /\ s \in masks[c]
        BY <3>1
      <3>b. c = ChunkOf(i - 1) /\ s = SlotOf(i - 1)
        OBVIOUS
      <3>. HIDE DEF c, s
      <3>3. PICK j \in DOMAIN idOf : /\ ChunkOf(j - 1) = c /\ SlotOf(j - 1) = s /\ idOf[j] \in DOMAIN last
                                     /\ chunks[c][s] = [key |-> idOf[j], value |-> last[idOf[j]]]
        BY <2>1, <3>a, <3>2 DEF StoreOK, CellsHold
      <3>4. j - 1 = i - 1
        BY <2>3, <3>3, <3>b, OnePlace
      <3>5. j = i
        BY <2>3, <3>4, SameBelow
      <3>6. chunks[c][s] = [key |-> k, value |-> last[k]]
        BY <3>1, <3>3, <3>5
      <3>7. <<c, s>> \in Present
        BY <2>3, <3>a, <3>2 DEF Present, StoreSlots
      <3>8. ASSUME hasDict PROVE StoreGet(k) = {last[k]}
        <4>1. {j1 \in DOMAIN idOf : idOf[j1] = k} = {i}
          BY <2>2, <3>1
        <4>2. Lookup(k) = {i - 1}
          BY <3>8, <4>1 DEF Lookup
        <4>3. c <= Len(chunks)
          <5>1. \A m \in 1 .. Len(masks) : m <= Len(masks)
            BY <2>3
          <5> QED BY <2>2, <3>a, <5>1
        <4>4. {x \in Lookup(k) : ChunkOf(x) <= Len(chunks) /\ SlotOf(x) \in masks[ChunkOf(x)]} = {i - 1}
          BY <4>2, <4>3, <3>a, <3>b
        <4>5. StoreGet(k) = {chunks[ChunkOf(x)][SlotOf(x)].value : x \in {i - 1}}
          BY <4>4 DEF StoreGet
        <4>6. chunks[c][s].value = last[k]
          BY <3>6
        <4> QED BY <4>5, <4>6, <3>b
      <3> QED BY <3>6, <3>7, <3>8
    <2>6. ASSUME NEW p \in Present, NEW q \in Present, chunks[p[1]][p[2]].key = chunks[q[1]][q[2]].key PROVE p = q
      <3>1. PICK i \in DOMAIN idOf : p = <<ChunkOf(i - 1), SlotOf(i - 1)>> /\ chunks[p[1]][p[2]].key = idOf[i]
        BY <2>4
      <3>2. PICK j \in DOMAIN idOf : q = <<ChunkOf(j - 1), SlotOf(j - 1)>> /\ chunks[q[1]][q[2]].key = idOf[j]
        BY <2>4
      <3>3. i = j
        BY <2>2, <2>6, <3>1, <3>2
      <3> QED BY <3>1, <3>2, <3>3
    <2>7. \A p \in Present : chunks[p[1]][p[2]].key \in DOMAIN last
      BY <2>4
    <2> QED BY <2>5, <2>6, <2>7
  <1>2. BasicOK
    BY DEF StoreInv
  <1> QED BY <1>1, <1>2, BasicMeans DEF FieldsFound

LEMMA StoreStarts == ASSUME StoreInit PROVE StoreInv
  <1>1. idOf = <<>> /\ setting = [t \in Setters |-> NotSetting] /\ chunks = <<>> /\ masks = <<>> /\ array = 0
        /\ last = <<>> /\ basicLast = <<>> /\ exposed = FALSE /\ basic = [keys |-> <<>>, values |-> <<>>, bits |-> {}]
    BY DEF StoreInit
  <1>2. NotSetting \in SettingState /\ NotSetting.at = "idle"
    BY DEF NotSetting, SettingState
  <1>3. \A t \in Setters : setting[t].at = "idle"
    BY <1>1, <1>2
  <1>4. Naming
    <2>1. idOf \in Seq(SetKeys) /\ DOMAIN idOf = {}
      BY <1>1
    <2>2. setting \in [Setters -> SettingState]
      BY <1>1, <1>2
    <2> QED BY <1>3, <2>1, <2>2 DEF Naming
  <1>5. Shaped /\ Placed /\ Alone /\ BitPending /\ CellsHold /\ NamesHeld
    BY <1>1, <1>3 DEF Shaped, Placed, Alone, BitPending, CellsHold, NamesHeld
  <1>6. 1 .. 0 = {} /\ Len(<<>>) = 0 /\ DOMAIN <<>> = {}
    OBVIOUS
  <1>7. basic.keys = <<>> /\ basic.values = <<>> /\ basic.bits = {} /\ DOMAIN basicLast = {}
        /\ basic = [keys |-> basic.keys, values |-> basic.values, bits |-> basic.bits]
    BY <1>1, <1>6
  <1>8. BasicOK
    BY <1>6, <1>7 DEF BasicOK
  <1> QED BY <1>1, <1>4, <1>5, <1>8 DEF StoreInv, StoreOK

LEMMA ExposedStays == ASSUME StoreInv, StoreNext PROVE exposed' \in BOOLEAN /\ (~exposed' => ~exposed)
  BY ZenonT(60) DEF StoreInv, StoreNext, SetBegins, BasicSet, SetByID, FastWrite, FastBit, GrowCheck, GrowChunk, SlowWrite,
         TransformValues, StoreReset, BasicReset, EnableFastPath, StoreCall

\* Every step of a call keeps the invariant.
LEMMA StoreKeeps == ASSUME StoreInv, StoreNext PROVE StoreInv'
  <1>1. exposed' \in BOOLEAN /\ (~exposed' => ~exposed)
    BY ExposedStays
  <1>2. ASSUME NEW t \in Setters, NEW k \in SetKeys, NEW v \in SetValues, BasicSet(t, k, v)
        PROVE  BasicOK' /\ (~exposed' => StoreOK')
    <2>1. UNCHANGED <<idOf, chunks, masks, array, setting, last>>
      BY <1>2 DEF BasicSet
    <2> QED BY <1>1, <1>2, <2>1, BasicSetKeeps, StoreStays DEF StoreInv
  <1>3. ASSUME NEW t \in Setters, BasicReset(t) PROVE BasicOK' /\ (~exposed' => StoreOK')
    <2>1. UNCHANGED <<idOf, chunks, masks, array, setting, last>>
      BY <1>3 DEF BasicReset
    <2> QED BY <1>1, <1>3, <2>1, BasicResetKeeps, StoreStays DEF StoreInv
  <1>4. ASSUME NEW on \in BOOLEAN, EnableFastPath(on) PROVE BasicOK' /\ (~exposed' => StoreOK')
    <2>1. UNCHANGED <<idOf, chunks, masks, array, setting, last, basic, basicLast>>
      BY <1>4 DEF EnableFastPath
    <2> QED BY <1>1, <2>1, StoreStays DEF StoreInv, BasicOK
  <1>5. ASSUME NEW t \in Setters, NEW k \in SetKeys, NEW v \in SetValues, SetBegins(t, k, v)
        PROVE  UNCHANGED <<basic, basicLast>> /\ (~exposed' => StoreOK')
    <2>1. UNCHANGED <<basic, basicLast>>
      BY <1>5 DEF SetBegins
    <2> QED BY <1>5, <2>1, SetBeginsKeeps
  <1>6. ASSUME NEW t \in Setters, NEW id \in 0 .. Cardinality(SetKeys), NEW v \in SetValues, SetByID(t, id, v)
        PROVE  UNCHANGED <<basic, basicLast>> /\ (~exposed' => StoreOK')
    <2>1. UNCHANGED <<basic, basicLast>>
      BY <1>6 DEF SetByID
    <2>2. id \in Nat
      OBVIOUS
    <2> QED BY <1>6, <2>1, <2>2, SetByIDKeeps
  <1>7. ASSUME NEW t \in Setters, FastWrite(t) \/ FastBit(t) \/ GrowCheck(t) \/ GrowChunk(t) \/ SlowWrite(t)
        PROVE  UNCHANGED <<basic, basicLast>> /\ (~exposed' => StoreOK')
    <2>1. UNCHANGED <<basic, basicLast>>
      BY <1>7 DEF FastWrite, FastBit, GrowCheck, GrowChunk, SlowWrite
    <2>2. ~exposed => StoreOK
      BY DEF StoreInv
    <2> QED BY <1>1, <1>7, <2>1, <2>2, FastWriteKeeps, FastBitKeeps, GrowCheckKeeps, GrowChunkKeeps, SlowWriteKeeps
  <1>8. ASSUME NEW t \in Setters, NEW v \in SetValues, TransformValues(t, v)
        PROVE  UNCHANGED <<basic, basicLast>> /\ (~exposed' => StoreOK')
    <2>1. UNCHANGED <<basic, basicLast>>
      BY <1>8 DEF TransformValues
    <2> QED BY <1>8, <2>1, TransformKeeps
  <1>9. ASSUME NEW t \in Setters, StoreReset(t)
        PROVE  UNCHANGED <<basic, basicLast>> /\ (~exposed' => StoreOK')
    <2>1. UNCHANGED <<basic, basicLast>>
      BY <1>9 DEF StoreReset
    <2> QED BY <1>9, <2>1, StoreResetKeeps
  <1>10. UNCHANGED <<basic, basicLast>> => BasicOK'
    BY DEF StoreInv, BasicOK
  <1>11. BasicOK' /\ (~exposed' => StoreOK')
    BY <1>2, <1>3, <1>4, <1>5, <1>6, <1>7, <1>8, <1>9, <1>10 DEF StoreNext
  <1> QED BY <1>1, <1>11 DEF StoreInv

LEMMA StoreUnchanged == ASSUME StoreInv, UNCHANGED storeVars PROVE StoreInv'
  <1>1. UNCHANGED <<idOf, chunks, masks, array, setting, last>> /\ exposed' = exposed /\ basic' = basic /\ basicLast' = basicLast
    BY DEF storeVars
  <1>2. BasicOK'
    BY <1>1 DEF StoreInv, BasicOK
  <1> QED BY <1>1, <1>2, StoreStays DEF StoreInv

-----------------------------------------------------------------------------
(* Stack entries: nothing that was added is dropped without a trace.           *)

\* A sequence is a prefix of whatever is appended to it.
LEMMA PrefixOfConcat ==
  ASSUME NEW S, NEW s \in Seq(S), NEW t \in Seq(S)
  PROVE  /\ s \o t \in Seq(S) /\ Len(s \o t) = Len(s) + Len(t)
         /\ SubSeq(s \o t, 1, Len(s)) = s
  <1>1. s \o t \in Seq(S) /\ Len(s \o t) = Len(s) + Len(t) /\ Len(s) \in Nat
    BY ConcatProperties, LenProperties
  <1>2. CASE s = <<>>
    <2>1. SubSeq(s \o t, 1, Len(s)) = <<>>
      BY <1>1, <1>2, SubSeqEmpty
    <2> QED BY <2>1, <1>1, <1>2
  <1>3. CASE s # <<>>
    <2>1. 1 \in 1 .. Len(s) /\ Len(s) \in 1 .. Len(s)
      BY <1>1, <1>3, EmptySeq
    <2>2. SubSeq(s \o t, 1, Len(s)) = SubSeq(s, 1, Len(s))
      BY <2>1, SubSeqOfConcat1
    <2> QED BY <2>2, <1>1, SubSeqFull
  <1> QED BY <1>2, <1>3

USE StackEntryAssumption

\* The types of the entry, its target and the history of the last conversion.
EntryTypes ==
    /\ stack \in [static : Seq(EntryFields), dynamic : Seq(EntryFields)]
    /\ target \in [cap : Nat, static : Seq(EntryFields), fields : Seq(EntryFields)]
    /\ converted \in [all : Seq(EntryFields), over : Nat]

EntryInv == EntryTypes /\ Len(stack.static) <= StaticMax /\ NoFieldDropped

LEMMA EntryStart == EntryInit => EntryInv
  <1>. SUFFICES ASSUME EntryInit PROVE EntryInv
    OBVIOUS
  <1>. USE DEF EntryInit
  <1>1. PICK c \in TargetCaps : target = [cap |-> c, static |-> <<>>, fields |-> <<>>]
    OBVIOUS
  <1>2. EntryTypes
    BY <1>1 DEF EntryTypes
  <1>3. NoFieldDropped
    <2>1. /\ target.static = <<>> /\ target.fields = <<>> /\ converted.all = <<>>
          /\ converted.over = 0 /\ stack.dynamic = <<>> /\ target.cap \in Nat
      BY <1>1
    <2>2. <<>> \o <<>> = <<>>
      OBVIOUS
    <2> QED BY <2>1, <2>2 DEF NoFieldDropped, AllFields
  <1> QED BY <1>2, <1>3 DEF EntryInv

LEMMA EntryAdds == EntryInv /\ AddField => EntryInv'
  <1>. SUFFICES ASSUME EntryInv, AddField PROVE EntryInv'
    OBVIOUS
  <1>. USE DEF EntryInv, EntryTypes
  <1>1. PICK f \in EntryFields :
          stack' = IF Len(stack.static) < StaticMax
                   THEN [stack EXCEPT !.static = Append(@, f)]
                   ELSE [stack EXCEPT !.dynamic = Append(@, f)]
    BY DEF AddField
  <1>2. target' = target /\ converted' = converted
    BY DEF AddField
  <1>3. EntryTypes' /\ Len(stack'.static) <= StaticMax
    <2>1. CASE Len(stack.static) < StaticMax
      <3>1. stack'.static = Append(stack.static, f) /\ stack'.dynamic = stack.dynamic
        BY <2>1, <1>1
      <3>2. stack' = [static |-> Append(stack.static, f), dynamic |-> stack.dynamic]
        BY <2>1, <1>1
      <3>3. /\ Append(stack.static, f) \in Seq(EntryFields)
            /\ Len(Append(stack.static, f)) = Len(stack.static) + 1
            /\ Len(stack.static) \in Nat
        BY <1>1, AppendProperties
      <3> QED BY <3>1, <3>2, <3>3, <2>1, <1>2
    <2>2. CASE ~(Len(stack.static) < StaticMax)
      <3>1. stack'.static = stack.static
        BY <2>2, <1>1
      <3>2. stack' = [static |-> stack.static, dynamic |-> Append(stack.dynamic, f)]
        BY <2>2, <1>1
      <3>3. Append(stack.dynamic, f) \in Seq(EntryFields)
        BY <1>1, AppendProperties
      <3> QED BY <3>1, <3>2, <3>3, <1>2
    <2> QED BY <2>1, <2>2
  <1>4. stack'.dynamic # <<>> => Len(stack'.static) = StaticMax
    <2>1. CASE Len(stack.static) < StaticMax
      <3>1. stack.dynamic = <<>>
        BY <2>1 DEF NoFieldDropped
      <3> QED BY <3>1, <2>1, <1>1
    <2>2. CASE ~(Len(stack.static) < StaticMax)
      <3>1. stack'.static = stack.static
        BY <2>2, <1>1
      <3> QED BY <3>1, <2>2
    <2> QED BY <2>1, <2>2
  <1>5. NoFieldDropped'
    BY <1>2, <1>4 DEF NoFieldDropped, AllFields
  <1> QED BY <1>3, <1>5

LEMMA EntryResets == EntryInv /\ ResetEntry => EntryInv'
  <1>. SUFFICES ASSUME EntryInv, ResetEntry PROVE EntryInv'
    OBVIOUS
  <1>1. /\ stack' = [static |-> <<>>, dynamic |-> <<>>]
        /\ target' = target /\ converted' = converted
    BY DEF ResetEntry
  <1>2. EntryTypes' /\ Len(stack'.static) <= StaticMax
    BY <1>1 DEF EntryInv, EntryTypes
  <1>3. NoFieldDropped'
    BY <1>1 DEF EntryInv, NoFieldDropped, AllFields
  <1> QED BY <1>2, <1>3 DEF EntryInv

LEMMA EntryConverts == EntryInv /\ ToLogEntry => EntryInv'
  <1>. SUFFICES ASSUME EntryInv, ToLogEntry PROVE EntryInv'
    OBVIOUS
  <1>. DEFINE s == stack.static
              d == stack.dynamic
              b == target.fields
  <1>1. s \in Seq(EntryFields) /\ d \in Seq(EntryFields) /\ b \in Seq(EntryFields) /\ target.cap \in Nat
    BY DEF EntryInv, EntryTypes
  <1>2. /\ target'.cap = IF Len(s) > target.cap THEN Len(s) ELSE target.cap
        /\ target'.static = s
        /\ target'.fields = IF d = <<>> THEN b ELSE d
        /\ converted'.all = s \o d /\ converted'.over = Len(d) /\ stack' = stack
    BY DEF ToLogEntry, AllFields
  <1>3. EntryTypes'
    BY <1>1 DEF ToLogEntry, EntryTypes, AllFields, EntryInv
  <1>4. Len(target'.static) <= target'.cap
    BY <1>1, <1>2
  <1>5. CASE d = <<>>
    <2>1. converted'.all = s /\ converted'.over = 0 /\ target'.fields = b
      BY <1>5, <1>2, <1>1
    <2>2. Len(s \o b) >= Len(s) /\ SubSeq(s \o b, 1, Len(s)) = s
      <3>1. Len(s) \in Nat /\ Len(b) \in Nat
        BY <1>1, LenProperties
      <3> HIDE DEF s, b
      <3> QED BY <3>1, <1>1, PrefixOfConcat
    <2>3. NoFieldDropped'
      <3>1. /\ Len(target'.static \o target'.fields) >= Len(converted'.all)
            /\ SubSeq(target'.static \o target'.fields, 1, Len(converted'.all)) = converted'.all
        BY <2>1, <2>2, <1>2
      <3>2. ~(converted'.over > 0) /\ stack'.dynamic = <<>>
        BY <2>1, <1>2, <1>5
      <3> QED BY <3>1, <3>2, <1>4 DEF NoFieldDropped, AllFields
    <2> QED BY <2>3, <1>2, <1>3 DEF EntryInv
  <1>6. CASE d # <<>>
    <2>1. target'.fields = d
      BY <1>6, <1>2
    <2>2. SubSeq(s \o d, 1, Len(s \o d)) = s \o d
      BY <1>1, SubSeqFull, ConcatProperties
    <2>3. Len(stack'.static) = StaticMax
      BY <1>6, <1>2 DEF EntryInv, NoFieldDropped
    <2>4. Len(s \o d) \in Nat
      BY <1>1, ConcatProperties, LenProperties
    <2>5. NoFieldDropped'
      <3>1. target'.static \o target'.fields = s \o d /\ converted'.all = s \o d
        BY <2>1, <1>2
      <3>2. Len(s \o d) >= Len(s \o d)
        BY <2>4
      <3> HIDE DEF s, d
      <3> QED BY <3>1, <3>2, <2>2, <2>3, <1>4 DEF NoFieldDropped, AllFields
    <2> QED BY <2>5, <1>2, <1>3 DEF EntryInv
  <1> QED BY <1>5, <1>6

LEMMA EntryKeeps == EntryInv /\ EntryNext => EntryInv'
  BY EntryAdds, EntryResets, EntryConverts DEF EntryNext

-----------------------------------------------------------------------------
(* Branching contexts: an array may be shared, a field of a branch may not.    *)

\* The places an array may hold, and the first fields of a slice of one.
Places == CtxFields \union {NoBound}
FieldsOf(h, v) == IF v.arr = 0 THEN <<>> ELSE SubSeq(h[v.arr], 1, v.len)

\* A context or logger v over the arrays h, derived with the fields a.
Carries(h, v, a) ==
    /\ v \in [kind : {"logger", "context"}, arr : Nat, len : Nat]
    /\ a \in Seq(CtxFields)
    /\ v.arr <= Len(h)
    /\ v.arr = 0 => v.len = 0
    /\ v.arr # 0 => v.len <= Len(h[v.arr])
    /\ v.len = IF Len(a) < MaxBound THEN Len(a) ELSE MaxBound
    /\ FieldsOf(h, v) = SubSeq(a, 1, v.len)

CtxInv ==
    /\ heap \in Seq(Seq(Places))
    /\ derived \in Seq([kind : {"logger", "context"}, arr : Nat, len : Nat])
    /\ asked \in Seq(Seq(CtxFields))
    /\ Len(asked) = Len(derived)
    /\ \A i \in 1 .. Len(derived) : Carries(heap, derived[i], asked[i])

LEMMA CtxMeans == CtxInv => BranchesKeepTheirOwn
  <1>. SUFFICES ASSUME CtxInv, NEW i \in DOMAIN derived
                PROVE  Bound(derived[i]) = SubSeq(asked[i], 1, IF Len(asked[i]) < MaxBound THEN Len(asked[i]) ELSE MaxBound)
    BY DEF BranchesKeepTheirOwn
  <1>1. i \in 1 .. Len(derived)
    BY DEF CtxInv
  <1> QED BY <1>1 DEF CtxInv, Carries, FieldsOf, Bound

LEMMA CtxStart == ContextsInit => CtxInv
  <1>. SUFFICES ASSUME ContextsInit PROVE CtxInv
    OBVIOUS
  <1>. DEFINE v == [kind |-> "logger", arr |-> 0, len |-> 0]
  <1>1. heap = <<>> /\ derived = <<v>> /\ asked = <<<<>>>>
    BY DEF ContextsInit
  <1>2. Carries(<<>>, v, <<>>)
    BY ContextsAssumption, SubSeqEmpty DEF Carries, FieldsOf
  <1>3. /\ v \in [kind : {"logger", "context"}, arr : Nat, len : Nat]
        /\ <<>> \in Seq(CtxFields)
    OBVIOUS
  <1> QED BY <1>1, <1>2, <1>3 DEF CtxInv

\* What is derived stays what it is when an array is added.
LEMMA CarriesOn ==
  ASSUME NEW h \in Seq(Seq(Places)), NEW x \in Seq(Places), NEW v, NEW a, Carries(h, v, a)
  PROVE  Carries(Append(h, x), v, a)
  <1>1. /\ v \in [kind : {"logger", "context"}, arr : Nat, len : Nat]
        /\ v.arr <= Len(h) /\ Len(h) \in Nat
    BY LenProperties DEF Carries
  <1>2. Len(Append(h, x)) = Len(h) + 1 /\ \A i \in 1 .. Len(h) : Append(h, x)[i] = h[i]
    BY AppendProperties
  <1>3. v.arr # 0 => Append(h, x)[v.arr] = h[v.arr]
    BY <1>1, <1>2
  <1> QED BY <1>1, <1>2, <1>3 DEF Carries, FieldsOf

\* One more context or logger, over the same arrays or over one more.
LEMMA CtxDerives ==
  ASSUME CtxInv, NEW v, NEW a, Derive(v, a), Carries(heap', v, a),
         heap' = heap \/ \E x \in Seq(Places) : heap' = Append(heap, x)
  PROVE  CtxInv'
  <1>. DEFINE V == [kind : {"logger", "context"}, arr : Nat, len : Nat]
  <1>1. /\ heap \in Seq(Seq(Places)) /\ derived \in Seq(V) /\ asked \in Seq(Seq(CtxFields))
        /\ Len(asked) = Len(derived) /\ Len(derived) \in Nat
    BY LenProperties DEF CtxInv
  <1>2. derived' = Append(derived, v) /\ asked' = Append(asked, a) /\ v \in V /\ a \in Seq(CtxFields)
    BY DEF Derive, Carries
  <1>3. heap' \in Seq(Seq(Places))
    <2>1. \A x \in Seq(Places) : Append(heap, x) \in Seq(Seq(Places))
      BY <1>1, AppendProperties
    <2> QED BY <2>1, <1>1
  <1>. HIDE DEF V
  <1>4. /\ derived' \in Seq(V) /\ Len(derived') = Len(derived) + 1
        /\ \A i \in 1 .. Len(derived) : derived'[i] = derived[i]
        /\ derived'[Len(derived) + 1] = v
    BY <1>1, <1>2, AppendProperties
  <1>5. /\ asked' \in Seq(Seq(CtxFields)) /\ Len(asked') = Len(derived) + 1
        /\ \A i \in 1 .. Len(derived) : asked'[i] = asked[i]
        /\ asked'[Len(derived) + 1] = a
    BY <1>1, <1>2, AppendProperties
  <1>6. ASSUME NEW i \in 1 .. Len(derived') PROVE Carries(heap', derived'[i], asked'[i])
    <2>1. CASE i \in 1 .. Len(derived)
      <3>1. Carries(heap, derived[i], asked[i])
        BY <2>1 DEF CtxInv
      <3>2. Carries(heap', derived[i], asked[i])
        BY <3>1, <1>1, CarriesOn
      <3> QED BY <3>2, <2>1, <1>4, <1>5
    <2>2. CASE i = Len(derived) + 1
      BY <2>2, <1>4, <1>5
    <2> QED BY <2>1, <2>2, <1>4, <1>1
  <1> QED BY <1>3, <1>4, <1>5, <1>6 DEF CtxInv, V

\* The slice of derived[i], and what it holds.
LEMMA CtxOf ==
  ASSUME CtxInv, NEW i \in DOMAIN derived
  PROVE  /\ Carries(heap, derived[i], asked[i])
         /\ Bound(derived[i]) = SubSeq(asked[i], 1, derived[i].len)
         /\ Bound(derived[i]) \in Seq(CtxFields) /\ Len(Bound(derived[i])) = derived[i].len
         /\ derived[i].len \in Nat /\ derived[i].len <= Len(asked[i]) /\ derived[i].len <= MaxBound
         /\ asked[i] \in Seq(CtxFields) /\ Len(asked[i]) \in Nat /\ Len(heap) \in Nat
         /\ heap \in Seq(Seq(Places))
  <1>1. i \in 1 .. Len(derived)
    BY DEF CtxInv
  <1>2. Carries(heap, derived[i], asked[i]) /\ heap \in Seq(Seq(Places)) /\ Len(heap) \in Nat
    BY <1>1, LenProperties DEF CtxInv
  <1>3. Bound(derived[i]) = SubSeq(asked[i], 1, derived[i].len)
    BY <1>2 DEF Carries, FieldsOf, Bound
  <1>4. /\ asked[i] \in Seq(CtxFields) /\ Len(asked[i]) \in Nat
        /\ derived[i].len \in Nat /\ derived[i].len <= Len(asked[i]) /\ derived[i].len <= MaxBound
    BY <1>2, LenProperties, ContextsAssumption DEF Carries
  <1>5. \A k \in 1 .. derived[i].len : asked[i][k] \in CtxFields
    BY <1>4, ElementOfSeq
  <1>6. /\ SubSeq(asked[i], 1, derived[i].len) \in Seq(CtxFields)
        /\ Len(SubSeq(asked[i], 1, derived[i].len)) = derived[i].len
    BY <1>4, <1>5, SubSeqProperties
  <1> QED BY <1>2, <1>3, <1>4, <1>6

LEMMA CtxWith == ASSUME CtxInv, NEW i \in DOMAIN derived, With(i) PROVE CtxInv'
  <1>1. CASE derived[i].len = 0
    <2>. DEFINE v == [kind |-> "context", arr |-> 0, len |-> 0]
    <2>1. Derive(v, asked[i]) /\ heap' = heap
      BY <1>1 DEF With
    <2>2. Carries(heap', v, asked[i])
      BY <1>1, <2>1, CtxOf, SubSeqEmpty DEF Carries, FieldsOf
    <2> QED BY <2>1, <2>2, CtxDerives
  <1>2. CASE derived[i].len # 0
    <2>. DEFINE v == [kind |-> "context", arr |-> Len(heap) + 1, len |-> derived[i].len]
                x == Bound(derived[i])
    <2>1. Derive(v, asked[i]) /\ heap' = Append(heap, x)
      BY <1>2 DEF With
    <2>2. x \in Seq(CtxFields) /\ x \in Seq(Places) /\ Len(x) = derived[i].len
      BY CtxOf, SeqMonotonic DEF Places
    <2>3. Len(heap') = Len(heap) + 1 /\ heap'[Len(heap) + 1] = x
      BY <2>1, <2>2, CtxOf, AppendProperties
    <2>4. SubSeq(x, 1, v.len) = x
      BY <2>2, SubSeqFull
    <2>5. Carries(heap', v, asked[i])
      BY <2>2, <2>3, <2>4, CtxOf DEF Carries, FieldsOf
    <2> QED BY <2>1, <2>2, <2>5, CtxDerives
  <1> QED BY <1>1, <1>2

LEMMA CtxAdd == ASSUME CtxInv, NEW i \in DOMAIN derived, NEW f \in CtxFields, Add(i, f) PROVE CtxInv'
  <1>1. derived[i].kind = "context" /\ derived[i].len < MaxBound /\ Grown(i, f)
    BY DEF Add
  <1>2. PICK n \in 0 .. MaxSpare :
       /\ Derive([kind |-> "context", arr |-> Len(heap) + 1, len |-> derived[i].len + 1], Append(asked[i], f))
       /\ heap' = Append(heap, Bound(derived[i]) \o <<f>> \o Unused(n))
    BY <1>1 DEF Grown
  <1>. DEFINE v == [kind |-> "context", arr |-> Len(heap) + 1, len |-> derived[i].len + 1]
              b == Bound(derived[i])
              y == b \o <<f>>
              x == y \o Unused(n)
              a == Append(asked[i], f)
  <1>3. /\ b = SubSeq(asked[i], 1, derived[i].len) /\ b \in Seq(CtxFields) /\ Len(b) = derived[i].len
        /\ asked[i] \in Seq(CtxFields) /\ Len(asked[i]) \in Nat /\ Len(heap) \in Nat /\ heap \in Seq(Seq(Places))
        /\ derived[i].len \in Nat
    BY CtxOf
  <1>4. derived[i].len = Len(asked[i]) /\ b = asked[i]
    <2>1. derived[i].len = Len(asked[i])
      BY <1>1, <1>3, CtxOf, ContextsAssumption DEF Carries
    <2> QED BY <2>1, <1>3, SubSeqFull
  <1>5. a \in Seq(CtxFields) /\ Len(a) = Len(asked[i]) + 1 /\ y = a
    <2>1. a \in Seq(CtxFields) /\ Len(a) = Len(asked[i]) + 1
      BY <1>3, AppendProperties
    <2>2. a = asked[i] \o <<f>>
      BY <1>3, AppendIsConcat
    <2> QED BY <2>1, <2>2, <1>4
  <1>6. a \in Seq(Places) /\ Unused(n) \in Seq(Places)
    <2>1. n \in Nat
      BY ContextsAssumption
    <2>2. Unused(n) \in [1 .. n -> Places]
      BY DEF Unused, Places
    <2>3. Unused(n) \in Seq(Places)
      BY <2>1, <2>2, SeqDef
    <2> QED BY <2>3, <1>5, SeqMonotonic DEF Places
  <1>7. x \in Seq(Places) /\ Len(x) >= Len(a) /\ SubSeq(x, 1, Len(a)) = a
    <2>1. x = a \o Unused(n)
      BY <1>5
    <2>2. Len(a) \in Nat /\ Len(Unused(n)) \in Nat
      BY <1>6, LenProperties
    <2>. HIDE DEF a, x
    <2> QED BY <2>1, <2>2, <1>6, PrefixOfConcat
  <1>8. Len(heap') = Len(heap) + 1 /\ heap'[Len(heap) + 1] = x /\ heap' = Append(heap, x)
    <2>1. heap' = Append(heap, x)
      BY <1>2
    <2>. HIDE DEF x
    <2> QED BY <2>1, <1>3, <1>7, AppendProperties
  <1>9. SubSeq(a, 1, v.len) = a /\ v.len = Len(a)
    BY <1>4, <1>5, SubSeqFull
  <1>10. Carries(heap', v, a)
    <2>1. v \in [kind : {"logger", "context"}, arr : Nat, len : Nat]
      BY <1>3
    <2>2. v.arr = Len(heap) + 1 /\ v.len = Len(a) /\ v.arr # 0
      BY <1>9, <1>3
    <2>3. v.len = IF Len(a) < MaxBound THEN Len(a) ELSE MaxBound
      <3>1. Len(asked[i]) < MaxBound /\ MaxBound \in Nat
        BY <1>1, <1>4, ContextsAssumption
      <3>2. Len(a) = Len(asked[i]) + 1 /\ v.len = Len(a)
        BY <2>2, <1>5
      <3>. HIDE DEF a, v
      <3> QED BY <3>1, <3>2, <1>3
    <2>4. FieldsOf(heap', v) = SubSeq(a, 1, v.len)
      BY <2>2, <1>7, <1>8, <1>9 DEF FieldsOf
    <2>. HIDE DEF v, a, x
    <2> QED BY <2>1, <2>2, <2>3, <2>4, <1>5, <1>7, <1>8, <1>3 DEF Carries
  <1> QED BY <1>2, <1>7, <1>8, <1>10, CtxDerives

LEMMA CtxPastCap == ASSUME CtxInv, NEW i \in DOMAIN derived, NEW f \in CtxFields, AddPastCap(i, f) PROVE CtxInv'
  <1>. DEFINE v == derived[i]
              s == asked[i]
              a == Append(s, f)
  <1>1. Derive(v, a) /\ heap' = heap /\ v.len >= MaxBound
    BY DEF AddPastCap
  <1>2. Carries(heap, v, s) /\ s \in Seq(CtxFields) /\ Len(s) \in Nat /\ v.len = MaxBound /\ MaxBound <= Len(s)
    BY <1>1, CtxOf, ContextsAssumption
  <1>3. a \in Seq(CtxFields) /\ Len(a) = Len(s) + 1 /\ a = s \o <<f>>
    BY <1>2, AppendProperties, AppendIsConcat
  <1>4. SubSeq(a, 1, MaxBound) = SubSeq(s, 1, MaxBound)
    <2>1. CASE MaxBound = 0
      BY <2>1, SubSeqEmpty
    <2>2. CASE MaxBound # 0
      <3>1. 1 \in 1 .. Len(s) /\ MaxBound \in 1 .. Len(s) /\ <<f>> \in Seq(CtxFields)
        BY <2>2, <1>2, ContextsAssumption
      <3> QED BY <3>1, <1>2, <1>3, SubSeqOfConcat1
    <2> QED BY <2>1, <2>2
  <1>5. Carries(heap', v, a)
    BY <1>1, <1>2, <1>3, <1>4, ContextsAssumption DEF Carries, FieldsOf
  <1> QED BY <1>1, <1>5, CtxDerives

LEMMA CtxChild == ASSUME CtxInv, NEW i \in DOMAIN derived, Child(i) PROVE CtxInv'
  <1>. DEFINE v == [derived[i] EXCEPT !.kind = "logger"]
  <1>1. Derive(v, asked[i]) /\ heap' = heap
    BY DEF Child
  <1>2. Carries(heap, derived[i], asked[i])
    BY CtxOf
  <1>3. Carries(heap', v, asked[i])
    BY <1>1, <1>2 DEF Carries, FieldsOf
  <1> QED BY <1>1, <1>3, CtxDerives

LEMMA CtxKeeps == CtxInv /\ ContextsNext => CtxInv'
  BY CtxWith, CtxAdd, CtxPastCap, CtxChild DEF ContextsNext

-----------------------------------------------------------------------------
(* Pooled states: a slot or a fallback has one holder, and is clean when taken. *)

States == Slots \union Fallbacks
SlotCount == NumP * SlotsPerP

SlotTypes ==
    /\ inUse \in SUBSET Slots /\ spare \in SUBSET Fallbacks /\ made \in 0 .. MaxFallback
    /\ buffer \in [States -> Seq(Builders)] /\ fieldsIn \in [States -> Nat]
    /\ holds \in [Builders -> States \union {NoState}]
    /\ trying \in [Builders -> Nat \X Nat]
    /\ wrote \in [Builders -> Nat]

\* Where a builder is that looks for a slot: it has none yet.
Looking(b) == /\ trying[b][2] <= SlotCount
              /\ trying[b] # <<0, 0>> => holds[b] = NoState /\ trying[b][1] > 0

\* The entry of a builder is what it wrote.
OwnEntry(b) == /\ fieldsIn[holds[b]] = wrote[b] /\ wrote[b] <= Len(buffer[holds[b]])
               /\ \A i \in 1 .. wrote[b] : buffer[holds[b]][i] = b

\* A state that a builder has is in nobody else's reach.
OutOfReach(b) ==
    /\ holds[b] \in Slots => holds[b] \in inUse
    /\ holds[b] \in Fallbacks => holds[b] \notin spare /\ holds[b] <= SlotCount + made

SlotInv ==
    /\ SlotTypes
    /\ \A b \in Builders : Looking(b)
    /\ \A b \in Builders : holds[b] # NoState => OwnEntry(b) /\ OutOfReach(b)
    /\ \A b, c \in Builders : holds[b] = holds[c] /\ holds[b] # NoState => b = c
    /\ \A s \in inUse : \E b \in Builders : holds[b] = s
    /\ \A s \in spare : s <= SlotCount + made

\* A sequence cut off after n elements and continued with x.
LEMMA PrefixAppended ==
  ASSUME NEW S, NEW q \in Seq(S), NEW n \in Nat, n <= Len(q), NEW x \in S
  PROVE  /\ Append(SubSeq(q, 1, n), x) \in Seq(S) /\ Len(Append(SubSeq(q, 1, n), x)) = n + 1
         /\ Append(SubSeq(q, 1, n), x)[n + 1] = x
         /\ \A i \in 1 .. n : Append(SubSeq(q, 1, n), x)[i] = q[i]
  <1>1. \A i \in 1 .. n : q[i] \in S
    BY ElementOfSeq, LenProperties
  <1>2. /\ SubSeq(q, 1, n) \in Seq(S) /\ Len(SubSeq(q, 1, n)) = n
        /\ \A i \in 1 .. n : SubSeq(q, 1, n)[i] = q[i]
    BY <1>1, SubSeqProperties
  <1> QED BY <1>2, AppendProperties

LEMMA SlotNumbers ==
  /\ SlotCount \in Nat /\ NoState \notin States
  /\ Slots = 1 .. SlotCount /\ Fallbacks = SlotCount + 1 .. SlotCount + MaxFallback
  <1>1. SlotCount \in Nat
    BY SlotPoolAssumption DEF SlotCount
  <1>2. Slots = 1 .. SlotCount /\ Fallbacks = SlotCount + 1 .. SlotCount + MaxFallback
    BY DEF Slots, Fallbacks, SlotCount
  <1> QED BY <1>1, <1>2 DEF States, NoState

LEMMA SlotMeans == SlotInv => StatesExclusive
  <1>. SUFFICES ASSUME SlotInv PROVE StatesExclusive
    OBVIOUS
  <1>1. ASSUME NEW b \in Builders, holds[b] # NoState
        PROVE  /\ SubSeq(buffer[holds[b]], 1, fieldsIn[holds[b]]) = [i \in 1 .. wrote[b] |-> b]
               /\ IF holds[b] \in Slots THEN holds[b] \in inUse ELSE holds[b] \notin spare
    <2>. DEFINE s == holds[b]
                q == buffer[s]
                n == wrote[b]
    <2>1. s \in States /\ q \in Seq(Builders) /\ n \in Nat /\ fieldsIn[s] = n /\ n <= Len(q)
          /\ \A i \in 1 .. n : q[i] = b
      BY <1>1 DEF SlotInv, SlotTypes, OwnEntry
    <2>2. SubSeq(q, 1, n) = [i \in 1 .. n |-> b]
      <3>1. \A i \in 1 .. n : q[i] \in Builders
        BY <2>1
      <3>2. /\ SubSeq(q, 1, n) \in Seq(Builders) /\ Len(SubSeq(q, 1, n)) = n
            /\ \A i \in 1 .. n : SubSeq(q, 1, n)[i] = q[i]
        <4>. HIDE DEF q, n
        <4> QED BY <3>1, <2>1, SubSeqProperties
      <3>3. SubSeq(q, 1, n) \in [1 .. n -> Builders]
        <4>. HIDE DEF q, n
        <4> QED BY <3>2, LenProperties
      <3> QED BY <3>2, <3>3, <2>1
    <2>3. OutOfReach(b)
      BY <1>1 DEF SlotInv
    <2> QED BY <2>1, <2>2, <2>3 DEF OutOfReach, States
  <1>2. Cardinality(inUse) = Cardinality({b \in Builders : holds[b] \in Slots})
    <2>. DEFINE B == {b \in Builders : holds[b] \in Slots}
                f == [b \in B |-> holds[b]]
    <2>1. IsFiniteSet(inUse)
      <3>1. IsFiniteSet(1 .. SlotCount)
        BY SlotNumbers, FS_Interval
      <3>2. inUse \subseteq 1 .. SlotCount
        BY SlotNumbers DEF SlotInv, SlotTypes
      <3> QED BY <3>1, <3>2, FS_Subset
    <2>2. \A b \in B : holds[b] \in inUse /\ holds[b] # NoState
      BY SlotNumbers DEF SlotInv, OutOfReach, States
    <2>3. f \in [B -> inUse]
      BY <2>2
    <2>4. \A b, c \in B : f[b] = f[c] => b = c
      BY <2>2 DEF SlotInv
    <2>5. \A s \in inUse : \E b \in B : f[b] = s
      BY DEF SlotInv, SlotTypes
    <2>6. f \in Bijection(B, inUse)
      <3>1. f \in Injection(B, inUse)
        <4>. HIDE DEF f, B
        <4> QED BY <2>3, <2>4 DEF Injection, IsInjective
      <3>2. f \in Surjection(B, inUse)
        <4>. HIDE DEF f, B
        <4> QED BY <2>3, <2>5 DEF Surjection
      <3> QED BY <3>1, <3>2 DEF Bijection
    <2>7. ExistsBijection(B, inUse)
      BY <2>6 DEF ExistsBijection
    <2>. HIDE DEF B
    <2>8. ExistsBijection(inUse, B)
      BY <2>7, Fun_ExistsBijSymmetric
    <2> QED BY <2>1, <2>8, FS_Bijection DEF B
  <1> QED BY <1>1, <1>2 DEF StatesExclusive, SlotInv

LEMMA SlotStart == SlotInit => SlotInv
  <1>. SUFFICES ASSUME SlotInit PROVE SlotInv
    OBVIOUS
  <1>1. SlotTypes
    BY SlotPoolAssumption DEF SlotInit, SlotTypes, States
  <1> QED BY <1>1, SlotNumbers DEF SlotInit, SlotInv, Looking, NoState

LEMMA SlotBegins == ASSUME SlotInv, NEW b \in Builders, NEW p \in 0 .. NumP - 1, GetBegins(b, p) PROVE SlotInv'
  <1>. DEFINE lo == p * SlotsPerP + 1
              hi == (p + 1) * SlotsPerP
  <1>1. /\ holds[b] = NoState /\ trying' = [trying EXCEPT ![b] = <<lo, hi>>]
        /\ UNCHANGED <<inUse, spare, made, buffer, fieldsIn, holds, wrote>>
    BY DEF GetBegins
  <1>2. lo \in Nat /\ lo > 0 /\ hi \in Nat /\ hi <= SlotCount
    <2>1. PICK q \in Nat : NumP = p + 1 + q
      BY SlotPoolAssumption
    <2>2. SlotCount = hi + q * SlotsPerP /\ q * SlotsPerP \in Nat
      BY <2>1, SlotPoolAssumption DEF SlotCount
    <2> QED BY <2>2, SlotPoolAssumption
  <1>. HIDE DEF lo, hi
  <1>3. SlotTypes'
    BY <1>1, <1>2 DEF SlotInv, SlotTypes
  <1>4. \A c \in Builders : Looking(c)'
    BY <1>1, <1>2 DEF SlotInv, SlotTypes, Looking
  <1>5. \A c \in Builders : holds'[c] # NoState => OwnEntry(c)' /\ OutOfReach(c)'
    BY <1>1 DEF SlotInv, OwnEntry, OutOfReach
  <1> QED BY <1>1, <1>3, <1>4, <1>5 DEF SlotInv

\* Builder b takes a state that nobody has: what the state's reach becomes is the
\* caller's to show.
LEMMA SlotTaken ==
  ASSUME SlotInv, NEW b \in Builders, NEW s \in States, Takes(b, s), holds[b] = NoState,
         \A c \in Builders : holds[c] # s,
         inUse' \in SUBSET Slots, spare' \in SUBSET Fallbacks, made' \in 0 .. MaxFallback, buffer' = buffer,
         \A x \in Slots : x \in inUse' <=> x \in inUse \/ x = s,
         s \notin spare', spare' \subseteq spare, made' >= made, s \in Fallbacks => s <= SlotCount + made'
  PROVE  SlotInv'
  <1>1. /\ holds' = [holds EXCEPT ![b] = s] /\ trying' = [trying EXCEPT ![b] = <<0, 0>>]
        /\ fieldsIn' = [fieldsIn EXCEPT ![s] = 0] /\ wrote' = [wrote EXCEPT ![b] = 0]
    BY DEF Takes
  <1>2. SlotTypes
    BY DEF SlotInv
  <1>3. SlotTypes'
    BY <1>1, <1>2 DEF SlotTypes
  <1>4. \A c \in Builders : Looking(c)'
    BY <1>1, <1>2, SlotNumbers DEF SlotInv, SlotTypes, Looking
  <1>5. holds'[b] = s /\ \A c \in Builders : c # b => holds'[c] = holds[c]
    BY <1>1, <1>2 DEF SlotTypes
  <1>6. ASSUME NEW c \in Builders, holds'[c] # NoState PROVE OwnEntry(c)' /\ OutOfReach(c)'
    <2>1. CASE c = b
      <3>1. OwnEntry(c)'
        <4>1. wrote'[c] = 0 /\ holds'[c] = s /\ fieldsIn'[s] = 0 /\ Len(buffer'[s]) \in Nat
          BY <2>1, <1>1, <1>2, LenProperties DEF SlotTypes
        <4> QED BY <4>1 DEF OwnEntry
      <3>2. OutOfReach(c)'
        BY <2>1, <1>5 DEF OutOfReach
      <3> QED BY <3>1, <3>2
    <2>2. CASE c # b
      <3>1. holds'[c] = holds[c] /\ holds[c] # s /\ OwnEntry(c) /\ OutOfReach(c) /\ holds[c] \in States
        BY <2>2, <1>5, <1>6, <1>2 DEF SlotInv, SlotTypes
      <3>2. wrote'[c] = wrote[c] /\ fieldsIn'[holds[c]] = fieldsIn[holds[c]]
        BY <2>2, <3>1, <1>1, <1>2 DEF SlotTypes
      <3>3. OwnEntry(c)'
        BY <3>1, <3>2 DEF OwnEntry
      <3>4. OutOfReach(c)'
        <4>1. made \in Nat /\ made' \in Nat /\ SlotCount \in Nat
          BY <1>2, <1>3, SlotNumbers DEF SlotTypes
        <4>2. holds[c] \in Fallbacks => holds[c] \in Nat
          BY SlotNumbers
        <4>3. holds[c] \in Fallbacks => holds[c] <= SlotCount + made'
          BY <4>1, <4>2, <3>1 DEF OutOfReach
        <4> QED BY <4>3, <3>1 DEF OutOfReach
      <3> QED BY <3>3, <3>4
    <2> QED BY <2>1, <2>2
  <1>7. \A c, d \in Builders : holds'[c] = holds'[d] /\ holds'[c] # NoState => c = d
    BY <1>5 DEF SlotInv
  <1>8. \A x \in inUse' : \E c \in Builders : holds'[c] = x
    <2> SUFFICES ASSUME NEW x \in inUse' PROVE \E c \in Builders : holds'[c] = x
      OBVIOUS
    <2>1. CASE x = s
      BY <2>1, <1>5
    <2>2. CASE x # s
      <3>1. x \in inUse /\ x # NoState
        BY <2>2, SlotNumbers DEF States
      <3>2. PICK c \in Builders : holds[c] = x
        BY <3>1 DEF SlotInv
      <3> QED BY <3>1, <3>2, <1>5
    <2> QED BY <2>1, <2>2
  <1>9. \A x \in spare' : x <= SlotCount + made'
    <2>1. made \in Nat /\ made' \in Nat /\ SlotCount \in Nat
      BY <1>2, <1>3, SlotNumbers DEF SlotTypes
    <2>2. \A x \in spare' : x \in Nat /\ x <= SlotCount + made
      BY SlotNumbers DEF SlotInv, SlotTypes
    <2> QED BY <2>1, <2>2
  <1> QED BY <1>3, <1>4, <1>6, <1>7, <1>8, <1>9 DEF SlotInv

LEMMA SlotTries == ASSUME SlotInv, NEW b \in Builders, TrySlot(b) PROVE SlotInv'
  <1>. DEFINE s == trying[b][1]
  <1>1. SlotTypes /\ Looking(b)
    BY DEF SlotInv
  <1>2. s # 0 /\ s <= trying[b][2] /\ UNCHANGED <<spare, made, buffer>>
    BY DEF TrySlot
  <1>3. s \in 1 .. SlotCount /\ holds[b] = NoState /\ s \in Nat /\ trying[b][2] \in Nat
    BY <1>1, <1>2, SlotNumbers DEF Looking, SlotTypes
  <1>4. CASE s \notin inUse
    <2>1. inUse' = inUse \union {s} /\ Takes(b, s)
      BY <1>4 DEF TrySlot
    <2>2. s \in Slots /\ s \in States /\ s \notin Fallbacks
      BY <1>3, SlotNumbers DEF States
    <2>3. \A c \in Builders : holds[c] # s
      BY <2>2, <1>4, SlotNumbers DEF SlotInv, OutOfReach
    <2>4. spare \subseteq Fallbacks /\ made \in 0 .. MaxFallback
      BY <1>1 DEF SlotTypes
    <2>5. inUse' \in SUBSET Slots
      BY <2>1, <2>2, <1>1 DEF SlotTypes
    <2>. HIDE DEF s
    <2> QED BY <2>1, <2>2, <2>3, <2>4, <2>5, <1>2, <1>3, SlotTaken
  <1>5. CASE s \in inUse
    <2>1. trying' = [trying EXCEPT ![b][1] = @ + 1] /\ UNCHANGED <<inUse, holds, fieldsIn, wrote>>
      BY <1>5 DEF TrySlot
    <2>2. trying' = [trying EXCEPT ![b] = <<s + 1, trying[b][2]>>]
      <3>1. trying[b] \in Nat \X Nat
        BY <1>1 DEF SlotTypes
      <3>2. [trying[b] EXCEPT ![1] = s + 1] = <<s + 1, trying[b][2]>>
        BY <3>1
      <3> QED BY <2>1, <3>2
    <2>3. SlotTypes'
      <3>. HIDE DEF s
      <3>1. <<s + 1, trying[b][2]>> \in Nat \X Nat
        BY <1>3
      <3> QED BY <3>1, <2>1, <2>2, <1>1, <1>2 DEF SlotTypes
    <2>4. \A c \in Builders : Looking(c)'
      BY <2>1, <2>2, <1>1, <1>3 DEF SlotTypes, SlotInv, Looking
    <2>5. \A c \in Builders : holds'[c] # NoState => OwnEntry(c)' /\ OutOfReach(c)'
      BY <2>1, <1>2 DEF SlotInv, OwnEntry, OutOfReach
    <2> QED BY <2>1, <2>3, <2>4, <2>5, <1>2 DEF SlotInv
  <1> QED BY <1>4, <1>5

LEMMA SlotFallsBack == ASSUME SlotInv, NEW b \in Builders, TakeFallback(b) PROVE SlotInv'
  <1>1. SlotTypes /\ Looking(b)
    BY DEF SlotInv
  <1>2. trying[b][1] > trying[b][2] /\ UNCHANGED <<inUse, buffer>>
    BY DEF TakeFallback
  <1>3. holds[b] = NoState
    BY <1>1, <1>2 DEF Looking, SlotTypes
  <1>4. ASSUME NEW s \in spare, spare' = spare \ {s}, Takes(b, s), made' = made
        PROVE  SlotInv'
    <2>1. s \in Fallbacks /\ s \in States /\ s \notin Slots /\ s # NoState /\ s <= SlotCount + made
      BY <1>1, SlotNumbers DEF SlotTypes, States, SlotInv
    <2>2. \A c \in Builders : holds[c] # s
      BY <2>1 DEF SlotInv, OutOfReach
    <2>3. /\ inUse' \in SUBSET Slots /\ spare' \in SUBSET Fallbacks /\ made' \in 0 .. MaxFallback
          /\ \A x \in Slots : x \in inUse' <=> x \in inUse \/ x = s
          /\ s \notin spare' /\ spare' \subseteq spare /\ made' >= made
      BY <2>1, <1>1, <1>2, <1>4, SlotPoolAssumption DEF SlotTypes
    <2> QED BY <2>1, <2>2, <2>3, <1>2, <1>3, <1>4, SlotTaken
  <1>5. ASSUME made < MaxFallback, made' = made + 1, Takes(b, NumP * SlotsPerP + made + 1), spare' = spare
        PROVE  SlotInv'
    <2>. DEFINE s == SlotCount + made + 1
    <2>1. Takes(b, s) /\ made \in Nat
      BY <1>5, <1>1 DEF SlotCount, SlotTypes
    <2>2. s \in Fallbacks /\ s \in States /\ s \notin Slots /\ s # NoState
      BY <2>1, <1>5, SlotNumbers, SlotPoolAssumption DEF States
    <2>3. \A c \in Builders : holds[c] # s
      BY <2>1, <2>2, SlotNumbers DEF SlotInv, OutOfReach
    <2>4. s \notin spare
      BY <2>1, <2>2, SlotNumbers DEF SlotInv
    <2>5. /\ inUse' \in SUBSET Slots /\ spare' \in SUBSET Fallbacks /\ made' \in 0 .. MaxFallback
          /\ \A x \in Slots : x \in inUse' <=> x \in inUse \/ x = s
          /\ s \notin spare' /\ spare' \subseteq spare /\ made' >= made /\ s <= SlotCount + made'
      BY <2>1, <2>2, <2>4, <1>1, <1>2, <1>5, SlotPoolAssumption, SlotNumbers DEF SlotTypes
    <2>. HIDE DEF s
    <2> QED BY <2>1, <2>2, <2>3, <2>5, <1>2, <1>3, SlotTaken
  <1> QED BY <1>4, <1>5 DEF TakeFallback

LEMMA SlotWrites == ASSUME SlotInv, NEW b \in Builders, WithField(b) PROVE SlotInv'
  <1>. DEFINE s == holds[b]
              n == fieldsIn[s]
              q == buffer[s]
              r == Append(SubSeq(q, 1, n), b)
  <1>1. SlotTypes /\ s # NoState /\ UNCHANGED <<inUse, spare, made, holds, trying>>
    BY DEF WithField, SlotInv
  <1>2. s \in States /\ OwnEntry(b) /\ n \in Nat /\ n = wrote[b] /\ q \in Seq(Builders) /\ n <= Len(q)
        /\ \A i \in 1 .. n : q[i] = b
    BY <1>1 DEF SlotInv, SlotTypes, OwnEntry
  <1>3. CASE n < BufferCap
    <2>1. /\ buffer' = [buffer EXCEPT ![s] = r]
          /\ fieldsIn' = [fieldsIn EXCEPT ![s] = n + 1]
          /\ wrote' = [wrote EXCEPT ![b] = wrote[b] + 1]
      BY <1>3 DEF WithField
    <2>2. r \in Seq(Builders) /\ Len(r) = n + 1 /\ \A i \in 1 .. n + 1 : r[i] = b
      <3>. HIDE DEF n, q
      <3>1. r \in Seq(Builders) /\ Len(r) = n + 1 /\ r[n + 1] = b /\ \A i \in 1 .. n : r[i] = q[i]
        BY <1>2, PrefixAppended
      <3>. HIDE DEF r
      <3> QED BY <3>1, <1>2, SMTT(30)
    <2>3. SlotTypes'
      <3>. HIDE DEF r, n
      <3> QED BY <2>1, <2>2, <1>1, <1>2, SMTT(30) DEF SlotTypes
    <2>4. \A c \in Builders : Looking(c)'
      BY <1>1 DEF SlotInv, Looking
    <2>5. ASSUME NEW c \in Builders, holds'[c] # NoState PROVE OwnEntry(c)' /\ OutOfReach(c)'
      <3>1. OwnEntry(c) /\ OutOfReach(c) /\ holds'[c] = holds[c] /\ holds[c] \in States
        BY <2>5, <1>1 DEF SlotInv, SlotTypes
      <3>2. OutOfReach(c)'
        BY <3>1, <1>1 DEF OutOfReach
      <3>3. CASE c = b
        <4>1. wrote'[c] = n + 1 /\ fieldsIn'[s] = n + 1 /\ buffer'[s] = r /\ holds'[c] = s
          <5>1. wrote'[b] = wrote[b] + 1 /\ holds'[b] = s
            BY <2>1, <1>1 DEF SlotTypes
          <5>2. fieldsIn'[s] = n + 1 /\ buffer'[s] = r
            <6>. HIDE DEF r, n, s
            <6> QED BY <2>1, <1>1, <1>2 DEF SlotTypes
          <5>. HIDE DEF r, n, s
          <5> QED BY <5>1, <5>2, <3>3, <1>2
        <4>. HIDE DEF r, n, s
        <4>2. OwnEntry(c)'
          BY <4>1, <2>2, <1>2, <3>3 DEF OwnEntry
        <4> QED BY <4>2, <3>2
      <3>4. CASE c # b
        <4>1. holds[c] # s
          BY <3>4, <2>5, <1>1 DEF SlotInv
        <4>2. wrote'[c] = wrote[c] /\ fieldsIn'[holds[c]] = fieldsIn[holds[c]] /\ buffer'[holds[c]] = buffer[holds[c]]
          <5>. HIDE DEF r, n
          <5> QED BY <3>4, <3>1, <4>1, <2>1, <1>1 DEF SlotTypes
        <4>3. OwnEntry(c)'
          BY <4>2, <3>1 DEF OwnEntry
        <4> QED BY <4>3, <3>2
      <3> QED BY <3>3, <3>4
    <2> QED BY <2>3, <2>4, <2>5, <1>1 DEF SlotInv
  <1>4. CASE ~(n < BufferCap)
    <2>1. UNCHANGED <<buffer, fieldsIn, wrote>>
      BY <1>4 DEF WithField
    <2>2. \A c \in Builders : holds'[c] # NoState => OwnEntry(c)' /\ OutOfReach(c)'
      BY <2>1, <1>1 DEF SlotInv, OwnEntry, OutOfReach
    <2>3. \A c \in Builders : Looking(c)'
      BY <1>1 DEF SlotInv, Looking
    <2> QED BY <2>1, <2>2, <2>3, <1>1 DEF SlotInv, SlotTypes
  <1> QED BY <1>3, <1>4

LEMMA SlotGoesBack == ASSUME SlotInv, NEW b \in Builders, BuilderReset(b) PROVE SlotInv'
  <1>. DEFINE s == holds[b]
  <1>1. /\ SlotTypes /\ s # NoState /\ s \in States /\ OutOfReach(b)
        /\ holds' = [holds EXCEPT ![b] = NoState] /\ wrote' = [wrote EXCEPT ![b] = 0]
        /\ UNCHANGED <<made, buffer, fieldsIn, trying>>
        /\ IF s \in Slots THEN inUse' = inUse \ {s} /\ spare' = spare
           ELSE spare' = spare \union {s} /\ inUse' = inUse
    BY DEF BuilderReset, SlotInv, SlotTypes
  <1>2. holds'[b] = NoState /\ \A c \in Builders : c # b => (holds'[c] = holds[c] /\ wrote'[c] = wrote[c])
    BY <1>1 DEF SlotTypes
  <1>3. \A c \in Builders : c # b /\ holds[c] # NoState => holds[c] # s
    BY <1>1 DEF SlotInv
  <1>4. SlotTypes'
    <2>1. inUse' \in SUBSET Slots /\ spare' \in SUBSET Fallbacks
      BY <1>1 DEF SlotTypes, States
    <2> QED BY <2>1, <1>1 DEF SlotTypes
  <1>5. \A c \in Builders : Looking(c)'
    BY <1>1, <1>2 DEF SlotInv, Looking
  <1>6. ASSUME NEW c \in Builders, holds'[c] # NoState PROVE OwnEntry(c)' /\ OutOfReach(c)'
    <2>1. c # b /\ holds'[c] = holds[c] /\ wrote'[c] = wrote[c] /\ holds[c] # s /\ OwnEntry(c) /\ OutOfReach(c)
      BY <1>6, <1>2, <1>3 DEF SlotInv
    <2> QED BY <2>1, <1>1 DEF OwnEntry, OutOfReach
  <1>7. \A c, d \in Builders : holds'[c] = holds'[d] /\ holds'[c] # NoState => c = d
    BY <1>2 DEF SlotInv
  <1>8. \A x \in inUse' : \E c \in Builders : holds'[c] = x
    <2> SUFFICES ASSUME NEW x \in inUse' PROVE \E c \in Builders : holds'[c] = x
      OBVIOUS
    <2>1. x \in inUse /\ x # s
      BY <1>1 DEF OutOfReach, SlotTypes, States
    <2>2. PICK c \in Builders : holds[c] = x
      BY <2>1 DEF SlotInv
    <2> QED BY <2>1, <2>2, <1>2
  <1>9. \A x \in spare' : x <= SlotCount + made'
    BY <1>1 DEF SlotInv, OutOfReach, States
  <1> QED BY <1>4, <1>5, <1>6, <1>7, <1>8, <1>9 DEF SlotInv

LEMMA SlotKeeps == SlotInv /\ SlotNext => SlotInv'
  BY SlotBegins, SlotTries, SlotFallsBack, SlotWrites, SlotGoesBack DEF SlotNext

-----------------------------------------------------------------------------
(* Pipelines: an entry has one holder, and every line is its own writer's.      *)

LEMMA DivStep ==
  ASSUME NEW s \in Nat, NEW m \in Nat \ {0}
  PROVE  (s + 1) \div m = IF (s + 1) % m = 0 THEN s \div m + 1 ELSE s \div m
  <1>. DEFINE q == s \div m
              r == s % m
              q2 == (s + 1) \div m
              r2 == (s + 1) % m
  <1>1. s = m * q + r /\ r \in 0 .. m - 1 /\ q \in Nat
    OBVIOUS
  <1>2. s + 1 = m * q2 + r2 /\ r2 \in 0 .. m - 1 /\ q2 \in Nat
    OBVIOUS
  <1>. HIDE DEF q, r, q2, r2
  <1>3. CASE r2 = 0
    <2>1. m * q2 = m * q + r + 1
      BY <1>1, <1>2, <1>3
    <2>2. q2 > q
      <3>. SUFFICES ASSUME q2 <= q PROVE FALSE
        BY <1>1, <1>2
      <3>1. m * q2 <= m * q
        BY <1>1, <1>2
      <3> QED BY <3>1, <2>1, <1>1, <1>2
    <2>3. q2 <= q + 1
      <3>. SUFFICES ASSUME q2 >= q + 2 PROVE FALSE
        BY <1>1, <1>2
      <3>1. m * q2 >= m * (q + 2)
        BY <1>1, <1>2
      <3>2. m * (q + 2) = m * q + 2 * m
        BY <1>1
      <3> QED BY <3>1, <3>2, <2>1, <1>1, <1>2
    <2> QED BY <2>2, <2>3, <1>1, <1>2, <1>3 DEF q, q2, r2
  <1>4. CASE r2 # 0
    <2>1. m * q2 + (r2 - 1) = m * q + r
      BY <1>1, <1>2, <1>4
    <2>2. q2 >= q
      <3>. SUFFICES ASSUME q >= q2 + 1 PROVE FALSE
        BY <1>1, <1>2
      <3>1. m * q >= m * (q2 + 1)
        BY <1>1, <1>2
      <3>2. m * (q2 + 1) = m * q2 + m
        BY <1>2
      <3> QED BY <3>1, <3>2, <2>1, <1>1, <1>2
    <2>3. q2 <= q
      <3>. SUFFICES ASSUME q2 >= q + 1 PROVE FALSE
        BY <1>1, <1>2
      <3>1. m * q2 >= m * (q + 1)
        BY <1>1, <1>2
      <3>2. m * (q + 1) = m * q + m
        BY <1>1
      <3> QED BY <3>1, <3>2, <2>1, <1>1, <1>2, <1>4
    <2> QED BY <2>2, <2>3, <1>1, <1>2, <1>4 DEF q, q2, r2
  <1> QED BY <1>3, <1>4

Token == [line : 1 .. PWrites, entry : PEntries]
Written == [line : Nat, fields : Seq(Nat)]
WorkerState == [at : {"write"}, entry : Token] \union [at : {"select", "gone"}, entry : {NoEntry}]
FlyingAt == {"sample", "async", "sync"}
Fly(t) == pw[t].at \in FlyingAt
Busy(k) == worker[k].at = "write"

PipeTypes ==
    /\ PipelineTypeOK
    /\ psetup \in PSetups /\ sampled \in Nat /\ keptCount \in Nat /\ updates \in Nat
    /\ pwrites \in 0 .. PWrites /\ panicked \in BOOLEAN /\ pqClosed \in BOOLEAN
    /\ ent \in [PEntries -> [at : {"new", "used", "pool", "gone"}, slots : [1 .. StaticCap -> Nat],
                             used : 0 .. StaticCap, over : Seq(Nat)]]
    /\ pw \in [PWriters -> [at : FlyingAt \union {"idle", "record"}, line : Nat, n : Nat,
                            pipe : Pipelines \union {"none"}, entry : PEntries \union {NoEntry}]]
    /\ pq \in Seq(Token)
    /\ worker \in [AsyncWorkers -> WorkerState]
    /\ plines \in Seq(Written)
    /\ names \in [Pipelines -> Nat]

\* A line in flight is one that was begun and has not been written; its entry is in
\* use, and holds the fields of that line.
Good(line, e) ==
    /\ line \in 1 .. pwrites
    /\ \A i \in 1 .. Len(plines) : plines[i].line # line
    /\ e # NoEntry => /\ ent[e].at = "used"
                      /\ \A i \in 1 .. ent[e].used : ent[e].slots[i] = line
                      /\ \A i \in 1 .. Len(ent[e].over) : ent[e].over[i] = line

FlightsGood ==
    /\ \A t \in PWriters : IF Fly(t) THEN Good(pw[t].line, pw[t].entry) ELSE pw[t].entry = NoEntry
    /\ \A t \in PWriters : pw[t].at \in {"sample", "async"} => pw[t].entry # NoEntry
    /\ \A i \in 1 .. Len(pq) : Good(pq[i].line, pq[i].entry)
    /\ \A k \in AsyncWorkers : Busy(k) => Good(worker[k].entry.line, worker[k].entry.entry)

\* Two flights share neither line nor entry.
Clash(l, e, m, f) == l = m \/ (e = f /\ e # NoEntry)

FlightsApart ==
    /\ \A t, u \in PWriters : Fly(t) /\ Fly(u) /\ t # u => ~Clash(pw[t].line, pw[t].entry, pw[u].line, pw[u].entry)
    /\ \A i, j \in 1 .. Len(pq) : i # j => ~Clash(pq[i].line, pq[i].entry, pq[j].line, pq[j].entry)
    /\ \A k, l \in AsyncWorkers : Busy(k) /\ Busy(l) /\ k # l =>
          ~Clash(worker[k].entry.line, worker[k].entry.entry, worker[l].entry.line, worker[l].entry.entry)
    /\ \A t \in PWriters, i \in 1 .. Len(pq) : Fly(t) => ~Clash(pw[t].line, pw[t].entry, pq[i].line, pq[i].entry)
    /\ \A t \in PWriters, k \in AsyncWorkers : Fly(t) /\ Busy(k) =>
          ~Clash(pw[t].line, pw[t].entry, worker[k].entry.line, worker[k].entry.entry)
    /\ \A i \in 1 .. Len(pq), k \in AsyncWorkers : Busy(k) =>
          ~Clash(pq[i].line, pq[i].entry, worker[k].entry.line, worker[k].entry.entry)

HasHolder(e) ==
    \/ \E t \in PWriters : Fly(t) /\ pw[t].entry = e
    \/ \E i \in 1 .. Len(pq) : pq[i].entry = e
    \/ \E k \in AsyncWorkers : Busy(k) /\ worker[k].entry.entry = e

EntriesHeld == ~panicked => \A e \in PEntries : ent[e].at = "used" => HasHolder(e)

EntriesClean ==
    \A e \in PEntries :
       /\ ent[e].at \in {"new", "pool"} => \A i \in 1 .. StaticCap : ent[e].slots[i] = 0
       /\ ent[e].at = "used" => \A i \in 1 .. StaticCap : i > ent[e].used => ent[e].slots[i] = 0

LinesOnce ==
    /\ \A i \in 1 .. Len(plines) : /\ plines[i].line \in 1 .. pwrites
                                   /\ \A k \in 1 .. Len(plines[i].fields) : plines[i].fields[k] = plines[i].line
    /\ \A i, j \in 1 .. Len(plines) : plines[i].line = plines[j].line => i = j

PipeInv == PipeTypes /\ FlightsGood /\ FlightsApart /\ EntriesHeld /\ EntriesClean /\ LinesOnce /\ SampleShare

LEMMA PipeMeans == PipeInv => EntriesOwned /\ LinesIntact
  <1>. SUFFICES ASSUME PipeInv PROVE EntriesOwned /\ LinesIntact
    OBVIOUS
  <1>1. ASSUME NEW e \in PEntries, ent[e].at # "used" PROVE Holders(e) = {}
    <2>1. e # NoEntry
      BY PipelineBoundsAssumption DEF PEntries, NoEntry
    <2>2. \A t \in PWriters : pw[t].entry # e
      BY <1>1, <2>1 DEF PipeInv, FlightsGood, Good
    <2>3. \A i \in DOMAIN pq : pq[i].entry # e
      BY <1>1, <2>1 DEF PipeInv, FlightsGood, Good, PipeTypes
    <2>4. \A k \in AsyncWorkers : ~(worker[k].at = "write" /\ worker[k].entry.entry = e)
      BY <1>1, <2>1 DEF PipeInv, FlightsGood, Good, Busy
    <2> QED BY <2>2, <2>3, <2>4 DEF Holders
  <1>2. ASSUME NEW e \in PEntries, ent[e].at = "used", ~panicked PROVE Cardinality(Holders(e)) = 1
    <2>1. e # NoEntry
      BY PipelineBoundsAssumption DEF PEntries, NoEntry
    <2>2. HasHolder(e)
      BY <1>2 DEF PipeInv, EntriesHeld
    <2>3. \A t \in PWriters : pw[t].entry = e => Fly(t)
      BY <2>1 DEF PipeInv, FlightsGood
    <2>4. DOMAIN pq = 1 .. Len(pq)
      BY DEF PipeInv, PipeTypes
    <2>5. \E h : Holders(e) = {h}
      <3>1. CASE \E t \in PWriters : Fly(t) /\ pw[t].entry = e
        <4>1. PICK t \in PWriters : Fly(t) /\ pw[t].entry = e
          BY <3>1
        <4>2. \A u \in PWriters : pw[u].entry = e => u = t
          BY <4>1, <2>1, <2>3 DEF PipeInv, FlightsApart, Clash
        <4>3. \A i \in DOMAIN pq : pq[i].entry # e
          BY <4>1, <2>1, <2>4 DEF PipeInv, FlightsApart, Clash
        <4>4. \A k \in AsyncWorkers : ~(worker[k].at = "write" /\ worker[k].entry.entry = e)
          BY <4>1, <2>1 DEF PipeInv, FlightsApart, Clash, Busy
        <4>5. Holders(e) = {<<"w", t>>}
          BY <4>1, <4>2, <4>3, <4>4 DEF Holders
        <4> QED BY <4>5
      <3>2. CASE \E i \in 1 .. Len(pq) : pq[i].entry = e
        <4>1. PICK i \in 1 .. Len(pq) : pq[i].entry = e
          BY <3>2
        <4>2. \A u \in PWriters : pw[u].entry # e
          BY <4>1, <2>1, <2>3 DEF PipeInv, FlightsApart, Clash
        <4>3. \A j \in DOMAIN pq : pq[j].entry = e => j = i
          BY <4>1, <2>1, <2>4 DEF PipeInv, FlightsApart, Clash
        <4>4. \A k \in AsyncWorkers : ~(worker[k].at = "write" /\ worker[k].entry.entry = e)
          BY <4>1, <2>1 DEF PipeInv, FlightsApart, Clash, Busy
        <4>5. Holders(e) = {<<"q", i>>}
          BY <4>1, <4>2, <4>3, <4>4, <2>4 DEF Holders
        <4> QED BY <4>5
      <3>3. CASE \E k \in AsyncWorkers : Busy(k) /\ worker[k].entry.entry = e
        <4>1. PICK k \in AsyncWorkers : Busy(k) /\ worker[k].entry.entry = e
          BY <3>3
        <4>2. \A u \in PWriters : pw[u].entry # e
          BY <4>1, <2>1, <2>3 DEF PipeInv, FlightsApart, Clash
        <4>3. \A i \in DOMAIN pq : pq[i].entry # e
          BY <4>1, <2>1, <2>4 DEF PipeInv, FlightsApart, Clash
        <4>4. \A l \in AsyncWorkers : worker[l].at = "write" /\ worker[l].entry.entry = e => l = k
          BY <4>1, <2>1 DEF PipeInv, FlightsApart, Clash, Busy
        <4>5. Holders(e) = {<<"k", k>>}
          BY <4>1, <4>2, <4>3, <4>4 DEF Holders, Busy
        <4> QED BY <4>5
      <3> QED BY <2>2, <3>1, <3>2, <3>3 DEF HasHolder
    <2> QED BY <2>5, FS_Singleton
  <1>3. EntriesOwned
    BY <1>1, <1>2 DEF EntriesOwned, PipeInv, EntriesClean
  <1>4. LinesIntact
    <2>1. DOMAIN plines = 1 .. Len(plines) /\ \A i \in 1 .. Len(plines) : plines[i].fields \in Seq(Nat)
      <3>1. plines \in Seq(Written)
        BY DEF PipeInv, PipeTypes
      <3>2. DOMAIN plines = 1 .. Len(plines)
        BY <3>1
      <3>3. \A i \in 1 .. Len(plines) : plines[i] \in Written
        BY <3>1
      <3> QED BY <3>2, <3>3 DEF Written
    <2>2. \A i \in 1 .. Len(plines) : DOMAIN plines[i].fields = 1 .. Len(plines[i].fields)
      BY <2>1
    <2> QED BY <2>1, <2>2 DEF PipeInv, LinesOnce, LinesIntact
  <1> QED BY <1>3, <1>4

\* The flights of writers, queue and workers after a step are among those before it.
FlightsKept ==
    /\ \A t \in PWriters : Fly(t)' => Fly(t) /\ pw'[t].line = pw[t].line /\ pw'[t].entry = pw[t].entry
    /\ \A t \in PWriters : ~Fly(t)' => pw'[t].entry = NoEntry
    /\ \A t \in PWriters : pw'[t].at \in {"sample", "async"} => pw'[t].entry # NoEntry
    /\ pq' = pq
    /\ \A k \in AsyncWorkers : Busy(k)' => Busy(k) /\ worker'[k].entry = worker[k].entry
    /\ pwrites' = pwrites

LEMMA PipeApart == ASSUME PipeInv, FlightsKept PROVE FlightsApart'
  <1>1. FlightsApart
    BY DEF PipeInv
  <1> QED BY <1>1 DEF FlightsApart, FlightsKept, Clash

\* A step that leaves the flights and the entries as they are.
LEMMA PipeSame ==
  ASSUME PipeInv, PipeTypes', SampleShare', FlightsKept, ent' = ent, plines' = plines, panicked => panicked',
         \A t \in PWriters : Fly(t) => Fly(t)', \A k \in AsyncWorkers : Busy(k) => Busy(k)'
  PROVE  PipeInv'
  <1>1. FlightsGood'
    <2>1. FlightsGood
      BY DEF PipeInv
    <2>2. \A l, e : Good(l, e) => Good(l, e)'
      BY DEF FlightsKept, Good
    <2> QED BY <2>1, <2>2 DEF FlightsGood, FlightsKept
  <1>2. EntriesHeld'
    <2>1. \A e : HasHolder(e) => HasHolder(e)'
      BY DEF HasHolder, FlightsKept
    <2> QED BY <2>1 DEF PipeInv, EntriesHeld
  <1>3. EntriesClean' /\ LinesOnce'
    BY DEF PipeInv, EntriesClean, LinesOnce, FlightsKept
  <1> QED BY <1>1, <1>2, <1>3, PipeApart DEF PipeInv

\* What a step does to the entry of the flight that ends with it.
Released(e) == \/ ent' = [ent EXCEPT ![e] = ReleasedToPool(e)]
               \/ ent' = [ent EXCEPT ![e] = ReleasedBasic(e)]

LEMMA PipeReleases ==
  ASSUME PipeInv, NEW e \in PEntries, Released(e), ent[e].at = "used"
  PROVE  /\ ent' \in [PEntries -> [at : {"new", "used", "pool", "gone"}, slots : [1 .. StaticCap -> Nat],
                                   used : 0 .. StaticCap, over : Seq(Nat)]]
         /\ ent'[e].at # "used" /\ \A x \in PEntries : x # e => ent'[x] = ent[x]
         /\ EntriesClean'
  <1>. DEFINE E == [at : {"new", "used", "pool", "gone"}, slots : [1 .. StaticCap -> Nat],
                    used : 0 .. StaticCap, over : Seq(Nat)]
  <1>1. ent \in [PEntries -> E] /\ EntriesClean
    BY DEF PipeInv, PipeTypes
  <1>2. ent[e] \in E /\ StaticCap \in Nat
    BY <1>1, PipelineSizesAssumption
  <1>3. /\ ReleasedToPool(e) \in E /\ ReleasedToPool(e).at = "pool"
        /\ \A i \in 1 .. StaticCap : ReleasedToPool(e).slots[i] = 0
    <2>1. ent[e].slots \in [1 .. StaticCap -> Nat] /\ ent[e].used \in 0 .. StaticCap
      BY <1>2
    <2>2. \A i \in 1 .. StaticCap : i > ent[e].used => ent[e].slots[i] = 0
      BY <1>1 DEF EntriesClean
    <2>3. \A i \in 1 .. StaticCap : ReleasedToPool(e).slots[i] = 0
      BY <2>1, <2>2 DEF ReleasedToPool
    <2>4. [i \in 1 .. StaticCap |-> IF i <= ent[e].used THEN 0 ELSE ent[e].slots[i]] \in [1 .. StaticCap -> Nat]
      BY <2>1
    <2>5. <<>> \in Seq(Nat) /\ 0 \in 0 .. StaticCap
      BY <1>2
    <2> QED BY <2>3, <2>4, <2>5 DEF ReleasedToPool
  <1>4. ReleasedBasic(e) \in E /\ ReleasedBasic(e).at = "gone"
    <2>1. <<>> \in Seq(Nat) /\ 0 \in 0 .. StaticCap
      BY <1>2
    <2>2. ReleasedBasic(e) = [at |-> "gone", slots |-> ent[e].slots, used |-> 0, over |-> <<>>]
      BY DEF ReleasedBasic
    <2>3. ent[e].slots \in [1 .. StaticCap -> Nat]
      BY <1>2
    <2> QED BY <2>1, <2>2, <2>3
  <1>. HIDE DEF E
  <1>5. PICK r \in E : /\ ent' = [ent EXCEPT ![e] = r] /\ r.at \in {"pool", "gone"}
                       /\ r.at = "pool" => \A i \in 1 .. StaticCap : r.slots[i] = 0
    <2>1. CASE ent' = [ent EXCEPT ![e] = ReleasedToPool(e)]
      BY <2>1, <1>3
    <2>2. CASE ent' = [ent EXCEPT ![e] = ReleasedBasic(e)]
      BY <2>2, <1>4
    <2> QED BY <2>1, <2>2 DEF Released
  <1>6. ent' \in [PEntries -> E] /\ ent'[e] = r /\ \A x \in PEntries : x # e => ent'[x] = ent[x]
    <2>1. ent' = [ent EXCEPT ![e] = r] /\ r \in E
      BY <1>5
    <2> QED BY <2>1, <1>1
  <1>7. EntriesClean'
    <2>1. r.at # "used"
      BY <1>5
    <2>. SUFFICES ASSUME NEW x \in PEntries
                  PROVE  /\ ent'[x].at \in {"new", "pool"} => \A i \in 1 .. StaticCap : ent'[x].slots[i] = 0
                         /\ ent'[x].at = "used" => \A i \in 1 .. StaticCap : i > ent'[x].used => ent'[x].slots[i] = 0
      BY DEF EntriesClean
    <2>2. CASE x = e
      BY <2>1, <2>2, <1>5, <1>6
    <2>3. CASE x # e
      <3>1. ent'[x] = ent[x]
        BY <2>3, <1>6
      <3> QED BY <3>1, <1>1 DEF EntriesClean
    <2> QED BY <2>2, <2>3
  <1> QED BY <1>5, <1>6, <1>7 DEF E

\* What the adapter is given of a flight is that line, with its own fields.
LEMMA PipeLine ==
  ASSUME PipeInv, NEW l \in Nat, NEW e \in PEntries \union {NoEntry}, Good(l, e)
  PROVE  /\ LineOf(l, e) \in Written /\ LineOf(l, e).line = l
         /\ \A i \in 1 .. Len(LineOf(l, e).fields) : LineOf(l, e).fields[i] = l
  <1>1. CASE e = NoEntry
    BY <1>1 DEF LineOf, Written
  <1>2. CASE e # NoEntry
    <2>. DEFINE s == ent[e].slots
                u == ent[e].used
                o == ent[e].over
    <2>1. s \in [1 .. StaticCap -> Nat] /\ u \in 0 .. StaticCap /\ o \in Seq(Nat) /\ StaticCap \in Nat
      BY <1>2, PipelineSizesAssumption DEF PipeInv, PipeTypes
    <2>2. (\A i \in 1 .. u : s[i] = l) /\ (\A i \in 1 .. Len(o) : o[i] = l)
      BY <1>2 DEF Good
    <2>3. LineOf(l, e) = [line |-> l, fields |-> IF u > 0 THEN SubSeq(s, 1, u) ELSE o]
      BY <1>2 DEF LineOf
    <2>. HIDE DEF s, u, o
    <2>4. CASE u > 0
      <3>1. \A i \in 1 .. u : s[i] \in Nat
        BY <2>1
      <3>2. /\ SubSeq(s, 1, u) \in Seq(Nat) /\ Len(SubSeq(s, 1, u)) = u
            /\ \A i \in 1 .. u : SubSeq(s, 1, u)[i] = s[i]
        BY <2>1, <2>4, <3>1, SubSeqProperties
      <3> QED BY <2>2, <2>3, <2>4, <3>2 DEF Written
    <2>5. CASE ~(u > 0)
      BY <2>1, <2>2, <2>3, <2>5 DEF Written
    <2> QED BY <2>4, <2>5
  <1> QED BY <1>1, <1>2

\* The flight of line l in entry e ends: the entry is released, and the line is
\* written or left out.
FlightEnds(l, e) ==
    /\ FlightsKept
    /\ \A t \in PWriters : Fly(t)' => ~Clash(pw[t].line, pw[t].entry, l, e)
    /\ \A i \in 1 .. Len(pq) : ~Clash(pq[i].line, pq[i].entry, l, e)
    /\ \A k \in AsyncWorkers : Busy(k)' => ~Clash(worker[k].entry.line, worker[k].entry.entry, l, e)
    /\ IF e = NoEntry THEN ent' = ent ELSE Released(e) \/ (ent' = ent /\ panicked')
    /\ plines' = plines \/ plines' = Append(plines, LineOf(l, e))
    /\ ~panicked' => \A x \in PEntries : x # e /\ HasHolder(x) => HasHolder(x)'

\* Good, of the state after a step.
GoodAfter(line, e) ==
    /\ line \in 1 .. pwrites'
    /\ \A i \in 1 .. Len(plines') : plines'[i].line # line
    /\ e # NoEntry => /\ ent'[e].at = "used"
                      /\ \A i \in 1 .. ent'[e].used : ent'[e].slots[i] = line
                      /\ \A i \in 1 .. Len(ent'[e].over) : ent'[e].over[i] = line

\* The flights after a step are good if they are the flights before, or good themselves.
LEMMA FlightsGoodAfter ==
  ASSUME \A t \in PWriters : IF Fly(t)' THEN GoodAfter(pw'[t].line, pw'[t].entry) ELSE pw'[t].entry = NoEntry,
         \A t \in PWriters : pw'[t].at \in {"sample", "async"} => pw'[t].entry # NoEntry,
         \A i \in 1 .. Len(pq') : GoodAfter(pq'[i].line, pq'[i].entry),
         \A k \in AsyncWorkers : Busy(k)' => GoodAfter(worker'[k].entry.line, worker'[k].entry.entry)
  PROVE  FlightsGood'
  BY DEF FlightsGood, Good, GoodAfter

LEMMA PipeEnds ==
  ASSUME PipeInv, NEW l \in Nat, NEW e \in PEntries \union {NoEntry}, Good(l, e), FlightEnds(l, e),
         PipeTypes', SampleShare', ~panicked
  PROVE  PipeInv'
  <1>1. /\ \A x \in PEntries : x # e => ent'[x] = ent[x]
        /\ e # NoEntry /\ ~panicked' => ent'[e].at # "used"
        /\ EntriesClean'
    <2>1. CASE ent' = ent /\ (e = NoEntry \/ panicked')
      BY <2>1 DEF PipeInv, EntriesClean
    <2>2. CASE e # NoEntry /\ Released(e)
      BY <2>2, PipeReleases DEF Good
    <2> QED BY <2>1, <2>2 DEF FlightEnds
  <1>2. ASSUME NEW m, NEW f, Good(m, f), ~Clash(m, f, l, e), f \in PEntries \union {NoEntry} PROVE GoodAfter(m, f)
    <2>1. m # l /\ (f # NoEntry => f # e)
      BY <1>2 DEF Clash
    <2>2. f # NoEntry => ent'[f] = ent[f]
      BY <2>1, <1>1, <1>2
    <2>3. \A i \in 1 .. Len(plines') : plines'[i].line # m
      <3>1. CASE plines' = plines
        BY <3>1, <1>2 DEF Good
      <3>2. CASE plines' = Append(plines, LineOf(l, e))
        <4>1. plines \in Seq(Written) /\ LineOf(l, e) \in Written /\ LineOf(l, e).line = l
          BY PipeLine DEF PipeInv, PipeTypes
        <4>2. /\ Len(plines') = Len(plines) + 1 /\ plines'[Len(plines) + 1] = LineOf(l, e)
              /\ \A i \in 1 .. Len(plines) : plines'[i] = plines[i]
          <5>1. \A w \in Written : /\ Len(Append(plines, w)) = Len(plines) + 1
                                   /\ Append(plines, w)[Len(plines) + 1] = w
                                   /\ \A i \in 1 .. Len(plines) : Append(plines, w)[i] = plines[i]
            BY <4>1, AppendProperties
          <5> QED BY <5>1, <3>2, <4>1
        <4>3. Len(plines) \in Nat
          BY <4>1, LenProperties
        <4> QED BY <4>1, <4>2, <4>3, <2>1, <1>2 DEF Good
      <3> QED BY <3>1, <3>2 DEF FlightEnds
    <2>4. pwrites' = pwrites
      BY DEF FlightEnds, FlightsKept
    <2> QED BY <2>2, <2>3, <2>4, <1>2 DEF Good, GoodAfter
  <1>3. FlightsGood'
    <2>1. FlightsKept /\ FlightsGood /\ PipeTypes
      BY DEF FlightEnds, PipeInv
    <2>2. ASSUME NEW t \in PWriters, Fly(t)' PROVE GoodAfter(pw'[t].line, pw'[t].entry)
      <3>1. Good(pw[t].line, pw[t].entry) /\ pw'[t].line = pw[t].line /\ pw'[t].entry = pw[t].entry
            /\ ~Clash(pw[t].line, pw[t].entry, l, e)
        BY <2>1, <2>2 DEF FlightsGood, FlightsKept, FlightEnds
      <3>2. pw[t].entry \in PEntries \union {NoEntry}
        BY <2>1 DEF PipeTypes
      <3> QED BY <3>1, <3>2, <1>2
    <2>3. ASSUME NEW i \in 1 .. Len(pq) PROVE GoodAfter(pq'[i].line, pq'[i].entry)
      <3>1. Good(pq[i].line, pq[i].entry) /\ ~Clash(pq[i].line, pq[i].entry, l, e) /\ pq' = pq
        BY <2>1 DEF FlightsGood, FlightsKept, FlightEnds
      <3>2. pq[i].entry \in PEntries
        <4>1. pq \in Seq(Token)
          BY <2>1 DEF PipeTypes
        <4>2. pq[i] \in Token
          BY <4>1
        <4> QED BY <4>2 DEF Token
      <3> QED BY <3>1, <3>2, <1>2
    <2>4. ASSUME NEW k \in AsyncWorkers, Busy(k)' PROVE GoodAfter(worker'[k].entry.line, worker'[k].entry.entry)
      <3>1. /\ Busy(k) /\ Good(worker[k].entry.line, worker[k].entry.entry)
            /\ ~Clash(worker[k].entry.line, worker[k].entry.entry, l, e)
            /\ worker'[k].entry = worker[k].entry
        BY <2>1, <2>4 DEF FlightsGood, FlightsKept, FlightEnds
      <3>2. worker[k].entry.entry \in PEntries
        BY <2>1, <3>1 DEF PipeTypes, WorkerState, Token, Busy
      <3> QED BY <3>1, <3>2, <1>2
    <2> QED BY <2>1, <2>2, <2>3, <2>4, FlightsGoodAfter DEF FlightsKept
  <1>4. EntriesHeld'
    <2>. SUFFICES ASSUME ~panicked', NEW x \in PEntries, ent'[x].at = "used" PROVE HasHolder(x)'
      BY DEF EntriesHeld
    <2>1. x # e
      BY <1>1, PipelineBoundsAssumption DEF PEntries, NoEntry
    <2>2. HasHolder(x)
      BY <2>1, <1>1 DEF PipeInv, EntriesHeld
    <2> QED BY <2>1, <2>2 DEF FlightEnds
  <1>5. LinesOnce'
    <2>1. pwrites' = pwrites /\ LinesOnce
      BY DEF FlightEnds, FlightsKept, PipeInv
    <2>2. CASE plines' = plines
      BY <2>1, <2>2 DEF LinesOnce
    <2>3. CASE plines' = Append(plines, LineOf(l, e))
      <3>1. /\ plines \in Seq(Written) /\ LineOf(l, e) \in Written /\ LineOf(l, e).line = l
            /\ \A i \in 1 .. Len(LineOf(l, e).fields) : LineOf(l, e).fields[i] = l
        BY PipeLine DEF PipeInv, PipeTypes
      <3>2. /\ Len(plines') = Len(plines) + 1 /\ plines'[Len(plines) + 1] = LineOf(l, e)
            /\ \A i \in 1 .. Len(plines) : plines'[i] = plines[i]
        <4>1. \A w \in Written : /\ Len(Append(plines, w)) = Len(plines) + 1
                                 /\ Append(plines, w)[Len(plines) + 1] = w
                                 /\ \A i \in 1 .. Len(plines) : Append(plines, w)[i] = plines[i]
          BY <3>1, AppendProperties
        <4> QED BY <4>1, <2>3, <3>1
      <3>3. Len(plines) \in Nat
        BY <3>1, LenProperties
      <3>4. l \in 1 .. pwrites /\ \A i \in 1 .. Len(plines) : plines[i].line # l
        BY DEF Good
      <3>. DEFINE n == Len(plines)
      <3>5. ASSUME NEW i \in 1 .. Len(plines')
            PROVE  /\ plines'[i].line \in 1 .. pwrites'
                   /\ \A k \in 1 .. Len(plines'[i].fields) : plines'[i].fields[k] = plines'[i].line
        <4>1. CASE i = n + 1
          BY <4>1, <3>1, <3>2, <3>4, <2>1
        <4>2. CASE i \in 1 .. n
          <5>1. plines'[i] = plines[i]
            BY <4>2, <3>2
          <5> QED BY <5>1, <4>2, <2>1 DEF LinesOnce
        <4> QED BY <4>1, <4>2, <3>2, <3>3
      <3>6. ASSUME NEW i \in 1 .. Len(plines'), NEW j \in 1 .. Len(plines'), plines'[i].line = plines'[j].line
            PROVE  i = j
        <4>1. i \in 1 .. n + 1 /\ j \in 1 .. n + 1 /\ n \in Nat
          BY <3>2, <3>3
        <4>2. i \in 1 .. n => plines'[i] = plines[i] /\ plines[i].line # l
          BY <3>2, <3>4
        <4>3. j \in 1 .. n => plines'[j] = plines[j] /\ plines[j].line # l
          BY <3>2, <3>4
        <4>4. plines'[n + 1].line = l
          BY <3>1, <3>2
        <4>5. i \in 1 .. n /\ j \in 1 .. n => i = j
          BY <4>2, <4>3, <3>6, <2>1 DEF LinesOnce
        <4>. HIDE DEF n
        <4> QED BY <4>1, <4>2, <4>3, <4>4, <4>5, <3>6
      <3> QED BY <3>5, <3>6 DEF LinesOnce
    <2> QED BY <2>2, <2>3 DEF FlightEnds
  <1>6. FlightsApart'
    BY PipeApart DEF FlightEnds
  <1> QED BY <1>1, <1>3, <1>4, <1>5, <1>6 DEF PipeInv

LEMMA ClampInRange == ASSUME NEW r \in Int PROVE ClampRate(r) \in 0 .. 100
  BY DEF ClampRate

\* One line in m is kept, for an m that is not 0.
LEMMA Hundredth == ASSUME NEW r \in 1 .. 99 PROVE 100 \div r \in Nat \ {0}
  <1>. DEFINE m == 100 \div r
              x == 100 % r
  <1>1. 100 = r * m + x /\ x \in 0 .. r - 1 /\ m \in Int
    OBVIOUS
  <1>. HIDE DEF m, x
  <1>2. m > 0
    <2>. SUFFICES ASSUME m <= 0 PROVE FALSE
      BY <1>1
    <2>1. r * m <= 0
      BY <1>1
    <2> QED BY <2>1, <1>1
  <1> QED BY <1>1, <1>2 DEF m

LEMMA PipeStart == PipelineInit => PipeInv
  <1>. SUFFICES ASSUME PipelineInit PROVE PipeInv
    OBVIOUS
  <1>. USE DEF PipelineInit
  <1>1. PipeTypes
    <2>1. PipelineTypeOK
      <3>1. sel \in Pipelines
        BY DEF SelectOptimalPipeline, Pipelines
      <3>2. rate \in 0 .. 100
        <4>1. psetup.rate \in Int
          BY PipelineInputsAssumption
        <4>2. ClampRate(psetup.rate) \in 0 .. 100
          BY <4>1, ClampInRange
        <4>3. rate = ClampRate(psetup.rate) \/ rate = 0
          OBVIOUS
        <4> QED BY <4>2, <4>3
      <3>3. Len(pq) <= QueueCap
        BY PipelineSizesAssumption
      <3> QED BY <3>1, <3>2, <3>3 DEF PipelineTypeOK, Clean
    <2>2. ent \in [PEntries -> [at : {"new", "used", "pool", "gone"}, slots : [1 .. StaticCap -> Nat],
                                used : 0 .. StaticCap, over : Seq(Nat)]]
      BY PipelineSizesAssumption DEF Clean
    <2>3. pw \in [PWriters -> [at : FlyingAt \union {"idle", "record"}, line : Nat, n : Nat,
                               pipe : Pipelines \union {"none"}, entry : PEntries \union {NoEntry}]]
      <3>1. PIdle \in [at : FlyingAt \union {"idle", "record"}, line : Nat, n : Nat,
                       pipe : Pipelines \union {"none"}, entry : PEntries \union {NoEntry}]
        BY DEF PIdle
      <3> QED BY <3>1
    <2>4. worker \in [AsyncWorkers -> WorkerState]
      BY DEF WorkerState
    <2>5. /\ psetup \in PSetups /\ sampled \in Nat /\ keptCount \in Nat /\ updates \in Nat
          /\ pwrites \in 0 .. PWrites /\ panicked \in BOOLEAN /\ pqClosed \in BOOLEAN
      <3>1. /\ psetup \in PSetups /\ sampled = 0 /\ keptCount = 0 /\ updates = 0 /\ pwrites = 0
            /\ panicked = FALSE /\ pqClosed = FALSE
        OBVIOUS
      <3>2. 0 \in Nat /\ 0 \in 0 .. PWrites /\ FALSE \in BOOLEAN
        BY PipelineBoundsAssumption
      <3> QED BY <3>1, <3>2
    <2>7. names \in [Pipelines -> Nat]
      <3>1. names = [p \in Pipelines |-> 0]
        OBVIOUS
      <3>2. [p \in Pipelines |-> 0] \in [Pipelines -> Nat]
        OBVIOUS
      <3> QED BY <3>1, <3>2
    <2>6. pq \in Seq(Token) /\ plines \in Seq(Written)
      BY EmptySeq
    <2> QED BY <2>1, <2>2, <2>3, <2>4, <2>5, <2>6, <2>7 DEF PipeTypes
  <1>2. \A t \in PWriters : ~Fly(t) /\ pw[t].entry = NoEntry /\ pw[t].at = "idle"
    BY DEF Fly, FlyingAt, PIdle
  <1>3. \A k \in AsyncWorkers : ~Busy(k)
    BY DEF Busy
  <1>4. Len(pq) = 0 /\ Len(plines) = 0
    OBVIOUS
  <1>5. FlightsGood /\ FlightsApart /\ LinesOnce
    BY <1>2, <1>3, <1>4 DEF FlightsGood, FlightsApart, LinesOnce
  <1>6. EntriesHeld /\ EntriesClean
    BY DEF EntriesHeld, EntriesClean, Clean
  <1>7. SampleShare
    <2>1. rate \in 1 .. 99 => 0 = 0 \div (100 \div rate)
      <3>. SUFFICES ASSUME rate \in 1 .. 99 PROVE 0 \div (100 \div rate) = 0
        OBVIOUS
      <3>. DEFINE m == 100 \div rate
      <3>1. m \in Nat \ {0}
        BY Hundredth
      <3>. HIDE DEF m
      <3> QED BY <3>1 DEF m
    <2> QED BY <2>1 DEF SampleShare
  <1> QED BY <1>1, <1>5, <1>6, <1>7 DEF PipeInv

\* WriteBegin starts the flight of the next line, in an entry that nobody has.
LEMMA PipeBegins ==
  ASSUME PipeInv, NEW t \in PWriters, NEW n \in FieldCounts, WriteBegin(t, n)
  PROVE  PipeInv'
  <1>. DEFINE l == pwrites + 1
  <1>1. /\ pw[t].at = "idle" /\ pwrites < PWrites /\ pwrites' = l
        /\ UNCHANGED <<psetup, stratVars, sampled, keptCount, asyncStateVars, plines, names, panicked>>
    BY DEF WriteBegin
  <1>2. /\ PipeTypes /\ pwrites \in Nat /\ l \in 1 .. PWrites /\ n \in Nat
    <2>1. PipeTypes /\ pwrites \in 0 .. PWrites /\ PWrites \in Nat
      BY PipelineBoundsAssumption DEF PipeInv, PipeTypes
    <2>2. n \in Nat
      BY PipelineInputsAssumption
    <2> QED BY <2>1, <2>2, <1>1
  <1>3. PICK e \in PEntries \union {NoEntry}, a \in FlyingAt :
          /\ pw' = [pw EXCEPT ![t] = [at |-> a, line |-> l, n |-> n, pipe |-> sel, entry |-> e]]
          /\ e = NoEntry => ent' = ent /\ a = "sync"
          /\ e # NoEntry => ent[e].at \in {"new", "pool"} /\ ent' = [ent EXCEPT ![e] = Filled(e, l, n)]
    <2>. DEFINE a == IF sel = "full" /\ "sampling" \in fullHas THEN "sample"
                     ELSE IF sel = "full" /\ "async" \in fullHas THEN "async"
                     ELSE "sync"
    <2>1. a \in FlyingAt
      BY DEF FlyingAt
    <2>2. CASE sel = "direct" /\ n = 0
      <3>1. /\ pw' = [pw EXCEPT ![t] = [at |-> a, line |-> l, n |-> n, pipe |-> sel, entry |-> NoEntry]]
            /\ ent' = ent
        BY <2>2 DEF WriteBegin, entVars
      <3>2. a = "sync"
        BY <2>2
      <3>. HIDE DEF a
      <3> QED BY <3>1, <3>2, <2>1
    <2>3. CASE ~(sel = "direct" /\ n = 0)
      <3>1. PICK e \in PEntries : /\ AcquireEntry(e) /\ ent' = [ent EXCEPT ![e] = Filled(e, l, n)]
                                  /\ pw' = [pw EXCEPT ![t] = [at |-> a, line |-> l, n |-> n, pipe |-> sel, entry |-> e]]
        BY <2>3 DEF WriteBegin
      <3>2. ent[e].at \in {"new", "pool"} /\ e # NoEntry
        BY <3>1, PipelineBoundsAssumption DEF AcquireEntry, PEntries, NoEntry
      <3>. HIDE DEF a
      <3> QED BY <3>1, <3>2, <2>1
    <2> QED BY <2>2, <2>3
  <1>4. /\ pw'[t] = [at |-> a, line |-> l, n |-> n, pipe |-> sel, entry |-> e]
        /\ \A u \in PWriters : u # t => pw'[u] = pw[u]
        /\ pw' \in [PWriters -> [at : FlyingAt \union {"idle", "record"}, line : Nat, n : Nat,
                                 pipe : Pipelines \union {"none"}, entry : PEntries \union {NoEntry}]]
    <2>1. [at |-> a, line |-> l, n |-> n, pipe |-> sel, entry |-> e] \in
             [at : FlyingAt \union {"idle", "record"}, line : Nat, n : Nat,
              pipe : Pipelines \union {"none"}, entry : PEntries \union {NoEntry}]
      BY <1>2 DEF PipeTypes, PipelineTypeOK
    <2> QED BY <2>1, <1>2, <1>3 DEF PipeTypes
  <1>5. /\ \A x \in PEntries : x # e => ent'[x] = ent[x]
        /\ e # NoEntry => /\ ent'[e].at = "used" /\ ent'[e] = Filled(e, l, n)
                          /\ \A i \in 1 .. ent'[e].used : ent'[e].slots[i] = l
                          /\ \A i \in 1 .. Len(ent'[e].over) : ent'[e].over[i] = l
                          /\ \A i \in 1 .. StaticCap : i > ent'[e].used => ent'[e].slots[i] = 0
        /\ ent' \in [PEntries -> [at : {"new", "used", "pool", "gone"}, slots : [1 .. StaticCap -> Nat],
                                  used : 0 .. StaticCap, over : Seq(Nat)]]
    <2>1. CASE e = NoEntry
      BY <2>1, <1>2, <1>3 DEF PipeTypes
    <2>2. CASE e # NoEntry
      <3>. DEFINE E == [at : {"new", "used", "pool", "gone"}, slots : [1 .. StaticCap -> Nat],
                        used : 0 .. StaticCap, over : Seq(Nat)]
                  f == Filled(e, l, n)
      <3>1. ent \in [PEntries -> E] /\ ent[e] \in E /\ e \in PEntries /\ StaticCap \in Nat
        BY <2>2, <1>2, PipelineSizesAssumption DEF PipeTypes
      <3>2. \A i \in 1 .. StaticCap : ent[e].slots[i] = 0
        BY <2>2, <1>3, <3>1 DEF PipeInv, EntriesClean
      <3>3. /\ f.at = "used" /\ f.used = (IF n <= StaticCap THEN n ELSE 0)
            /\ f.slots = [i \in 1 .. StaticCap |-> IF i <= n /\ n <= StaticCap THEN l ELSE ent[e].slots[i]]
            /\ f.over = (IF n <= StaticCap THEN <<>> ELSE [i \in 1 .. n |-> l])
            /\ f = [at |-> f.at, slots |-> f.slots, used |-> f.used, over |-> f.over]
        BY DEF Filled
      <3>. HIDE DEF f
      <3>4. f.used \in 0 .. StaticCap /\ (n <= StaticCap => f.used = n) /\ (n > StaticCap => f.used = 0)
        BY <3>1, <3>3, <1>2
      <3>5. f.slots \in [1 .. StaticCap -> Nat]
        BY <3>2, <3>3, <1>2
      <3>6. f.over \in Seq(Nat) /\ \A i \in 1 .. Len(f.over) : f.over[i] = l
        <4>. DEFINE a2 == [i \in 1 .. n |-> l]
        <4>1. a2 \in [1 .. n -> Nat]
          BY <1>2
        <4>2. a2 \in Seq(Nat)
          BY <4>1, <1>2, SeqDef
        <4>3. Len(a2) = n
          BY <4>1, <4>2, <1>2, LenProperties
        <4>4. \A i \in 1 .. Len(a2) : a2[i] = l
          BY <4>3
        <4>. HIDE DEF a2
        <4>5. f.over = IF n <= StaticCap THEN <<>> ELSE a2
          BY <3>3 DEF a2
        <4> QED BY <4>2, <4>4, <4>5
      <3>7. f \in E
        BY <3>3, <3>4, <3>5, <3>6
      <3>8. \A i \in 1 .. StaticCap : f.slots[i] = IF i <= n /\ n <= StaticCap THEN l ELSE 0
        BY <3>2, <3>3
      <3>9. \A i \in 1 .. f.used : f.slots[i] = l
        BY <3>8, <3>4, <3>1, <1>2
      <3>10. \A i \in 1 .. StaticCap : i > f.used => f.slots[i] = 0
        BY <3>8, <3>4, <3>1, <1>2
      <3>. HIDE DEF E
      <3>11. ent' = [ent EXCEPT ![e] = f]
        BY <2>2, <1>3 DEF f
      <3>12. ent' \in [PEntries -> E] /\ ent'[e] = f /\ \A x \in PEntries : x # e => ent'[x] = ent[x]
        BY <3>1, <3>7, <3>11
      <3> QED BY <3>3, <3>6, <3>9, <3>10, <3>12 DEF E, f
    <2> QED BY <2>1, <2>2
  <1>6. PipeTypes'
    <2>1. PipelineTypeOK'
      BY <1>1, <1>2, <1>4, <1>5, SMTT(30) DEF PipeTypes, PipelineTypeOK, stratVars, asyncStateVars
    <2> QED BY <2>1, <1>1, <1>2, <1>4, <1>5, SMTT(30) DEF PipeTypes, stratVars, asyncStateVars
  <1>7. ASSUME NEW m, NEW f \in PEntries \union {NoEntry}, Good(m, f) PROVE GoodAfter(m, f) /\ ~Clash(m, f, l, e)
    <2>1. f # NoEntry => f # e /\ ent'[f] = ent[f]
      BY <1>3, <1>5, <1>7 DEF Good
    <2>2. m \in 1 .. pwrites /\ m # l /\ m \in 1 .. l
      BY <1>2, <1>7 DEF Good
    <2> QED BY <2>1, <2>2, <1>1, <1>7 DEF Good, GoodAfter, Clash
  <1>8. GoodAfter(l, e)
    <2>1. \A i \in 1 .. Len(plines') : plines'[i].line # l
      BY <1>1, <1>2 DEF PipeInv, LinesOnce
    <2>2. l \in 1 .. pwrites'
      BY <1>1, <1>2
    <2> QED BY <2>1, <2>2, <1>5 DEF GoodAfter
  <1>9. /\ \A u \in PWriters : pw[u].entry \in PEntries \union {NoEntry}
        /\ \A i \in 1 .. Len(pq) : pq[i].entry \in PEntries
        /\ \A k \in AsyncWorkers : Busy(k) => worker[k].entry.entry \in PEntries
    <2>1. \A i \in 1 .. Len(pq) : pq[i] \in Token
      <3>1. pq \in Seq(Token)
        BY <1>2 DEF PipeTypes
      <3> QED BY <3>1
    <2> QED BY <2>1, <1>2 DEF PipeTypes, Token, WorkerState, Busy
  <1>10. /\ pq' = pq /\ worker' = worker /\ plines' = plines /\ panicked' = panicked
         /\ \A k \in AsyncWorkers : Busy(k)' <=> Busy(k)
         /\ \A u \in PWriters : u # t => (Fly(u)' <=> Fly(u))
         /\ Fly(t)' /\ ~Fly(t)
    BY <1>1, <1>4 DEF asyncStateVars, Busy, Fly, FlyingAt
  <1>11. FlightsGood /\ FlightsApart
    BY DEF PipeInv
  <1>12. FlightsGood'
    <2>1. \A u \in PWriters : IF Fly(u)' THEN GoodAfter(pw'[u].line, pw'[u].entry) ELSE pw'[u].entry = NoEntry
      <3>. SUFFICES ASSUME NEW u \in PWriters
                    PROVE  IF Fly(u)' THEN GoodAfter(pw'[u].line, pw'[u].entry) ELSE pw'[u].entry = NoEntry
        OBVIOUS
      <3>1. CASE u = t
        BY <3>1, <1>4, <1>8, <1>10
      <3>2. CASE u # t
        <4>1. pw'[u] = pw[u] /\ (Fly(u)' <=> Fly(u))
          BY <3>2, <1>4, <1>10
        <4>2. Fly(u) => Good(pw[u].line, pw[u].entry)
          BY <1>11 DEF FlightsGood
        <4> QED BY <4>1, <4>2, <1>7, <1>9, <1>11 DEF FlightsGood
      <3> QED BY <3>1, <3>2
    <2>2. \A u \in PWriters : pw'[u].at \in {"sample", "async"} => pw'[u].entry # NoEntry
      BY <1>3, <1>4, <1>11 DEF FlightsGood
    <2>3. \A i \in 1 .. Len(pq') : GoodAfter(pq'[i].line, pq'[i].entry)
      BY <1>7, <1>9, <1>10, <1>11 DEF FlightsGood
    <2>4. \A k \in AsyncWorkers : Busy(k)' => GoodAfter(worker'[k].entry.line, worker'[k].entry.entry)
      BY <1>7, <1>9, <1>10, <1>11 DEF FlightsGood
    <2> QED BY <2>1, <2>2, <2>3, <2>4, FlightsGoodAfter
  <1>13. FlightsApart'
    <2>1. \A u \in PWriters : u # t /\ Fly(u) => ~Clash(pw[u].line, pw[u].entry, l, e)
      BY <1>7, <1>9, <1>11 DEF FlightsGood
    <2>2. \A i \in 1 .. Len(pq) : ~Clash(pq[i].line, pq[i].entry, l, e)
      BY <1>7, <1>9, <1>11 DEF FlightsGood
    <2>3. \A k \in AsyncWorkers : Busy(k) => ~Clash(worker[k].entry.line, worker[k].entry.entry, l, e)
      BY <1>7, <1>9, <1>11 DEF FlightsGood
    <2>4. pw'[t].line = l /\ pw'[t].entry = e
      BY <1>4
    <2> QED BY <2>1, <2>2, <2>3, <2>4, <1>4, <1>10, <1>11 DEF FlightsApart, Clash
  <1>14. EntriesHeld'
    <2>. SUFFICES ASSUME ~panicked', NEW x \in PEntries, ent'[x].at = "used" PROVE HasHolder(x)'
      BY DEF EntriesHeld
    <2>1. CASE x = e
      BY <2>1, <1>4, <1>10 DEF HasHolder
    <2>2. CASE x # e
      <3>1. HasHolder(x)
        BY <2>2, <1>5, <1>10 DEF PipeInv, EntriesHeld
      <3>2. \A u \in PWriters : Fly(u) => Fly(u)' /\ pw'[u].entry = pw[u].entry
        BY <1>4, <1>10
      <3> QED BY <3>1, <3>2, <1>10 DEF HasHolder
    <2> QED BY <2>1, <2>2
  <1>15. EntriesClean'
    <2>. SUFFICES ASSUME NEW x \in PEntries
                  PROVE  /\ ent'[x].at \in {"new", "pool"} => \A i \in 1 .. StaticCap : ent'[x].slots[i] = 0
                         /\ ent'[x].at = "used" => \A i \in 1 .. StaticCap : i > ent'[x].used => ent'[x].slots[i] = 0
      BY DEF EntriesClean
    <2>1. CASE x = e
      <3>1. e # NoEntry
        BY <2>1, PipelineBoundsAssumption DEF PEntries, NoEntry
      <3>2. ent'[e].at = "used" /\ \A i \in 1 .. StaticCap : i > ent'[e].used => ent'[e].slots[i] = 0
        BY <3>1, <1>5
      <3>3. ent'[x] = ent'[e]
        BY <2>1
      <3> QED BY <3>2, <3>3
    <2>2. CASE x # e
      <3>1. ent'[x] = ent[x]
        BY <2>2, <1>5
      <3> QED BY <3>1 DEF PipeInv, EntriesClean
    <2> QED BY <2>1, <2>2
  <1>16. LinesOnce' /\ SampleShare'
    <2>1. LinesOnce'
      <3>1. LinesOnce /\ plines' = plines /\ pwrites' = pwrites + 1
        BY <1>1 DEF PipeInv
      <3>2. \A i \in 1 .. Len(plines) : plines[i].line \in 1 .. pwrites
        BY <3>1 DEF LinesOnce
      <3>3. \A x \in 1 .. pwrites : x \in 1 .. pwrites + 1
        BY <1>2
      <3>. HIDE DEF l
      <3>4. \A i \in 1 .. Len(plines') : plines'[i].line \in 1 .. pwrites'
        BY <3>1, <3>2, <3>3
      <3> QED BY <3>1, <3>4 DEF LinesOnce
    <2>2. rate' = rate /\ updates' = updates /\ sampled' = sampled /\ keptCount' = keptCount
      BY <1>1 DEF stratVars
    <2> QED BY <2>1, <2>2 DEF PipeInv, SampleShare
  <1> QED BY <1>6, <1>12, <1>13, <1>14, <1>15, <1>16 DEF PipeInv

\* SampleLine: the flight goes on, or ends without a line.
LEMMA ShareKept ==
  ASSUME PipeInv, NEW keep \in BOOLEAN,
         LET counted == ~psetup.sampler /\ rate > 0 /\ rate < 100
         IN  /\ ~psetup.sampler => keep = (~counted \/ KeptByCount(sampled + 1))
             /\ sampled' = IF counted THEN sampled + 1 ELSE sampled
             /\ keptCount' = IF counted /\ keep THEN keptCount + 1 ELSE keptCount,
         rate' = rate, updates' = updates
  PROVE  SampleShare' /\ sampled' \in Nat /\ keptCount' \in Nat
  <1>1. sampled \in Nat /\ keptCount \in Nat /\ rate \in 0 .. 100
    BY DEF PipeInv, PipeTypes, PipelineTypeOK
  <1>. DEFINE counted == ~psetup.sampler /\ rate > 0 /\ rate < 100
  <1>2. CASE counted
    <2>1. /\ keep <=> (sampled + 1) % (100 \div rate) = 0
          /\ sampled' = sampled + 1 /\ keptCount' = IF keep THEN keptCount + 1 ELSE keptCount
      BY <1>2 DEF KeptByCount
    <2>. DEFINE m == 100 \div rate
    <2>2. m \in Nat \ {0}
      BY <1>1, <1>2, Hundredth
    <2>3. keep <=> (sampled + 1) % m = 0
      BY <2>1
    <2>4. (sampled + 1) \div m = IF keep THEN sampled \div m + 1 ELSE sampled \div m
      <3>. HIDE DEF m
      <3> QED BY <1>1, <2>2, <2>3, DivStep
    <2>5. updates = 0 => keptCount = sampled \div m
      BY <1>1, <1>2 DEF PipeInv, SampleShare
    <2>6. updates' = 0 => keptCount' = sampled' \div (100 \div rate')
      <3>. HIDE DEF m
      <3>1. updates' = 0 => keptCount' = sampled' \div m
        BY <2>1, <2>4, <2>5
      <3> QED BY <3>1 DEF m
    <2> QED BY <2>1, <2>6, <1>1 DEF SampleShare
  <1>3. CASE ~counted
    <2>1. sampled' = sampled /\ keptCount' = keptCount
      BY <1>3
    <2> QED BY <2>1, <1>1 DEF PipeInv, SampleShare
  <1> QED BY <1>2, <1>3

LEMMA ReleaseEntryReleases == ASSUME NEW e, NEW m, ReleaseEntry(e, m) PROVE Released(e)
  BY DEF ReleaseEntry, Released

PipeRecord == [at : FlyingAt \union {"idle", "record"}, line : Nat, n : Nat,
               pipe : Pipelines \union {"none"}, entry : PEntries \union {NoEntry}]

LEMMA IdleRecord == PIdle \in PipeRecord /\ Recording \in PipeRecord /\ Recording.at = "record" /\ Recording.entry = NoEntry
                    /\ PIdle.at = "idle" /\ PIdle.entry = NoEntry
  BY DEF PIdle, Recording, PipeRecord

\* Writer t goes to another place of its Write, with its flight or at its end.
LEMMA WriterMoves ==
  ASSUME PipeInv, NEW t \in PWriters, NEW r \in PipeRecord, pw' = [pw EXCEPT ![t] = r], pq' = pq,
         worker' = worker, pwrites' = pwrites,
         \/ r.at \in FlyingAt /\ Fly(t) /\ r.line = pw[t].line /\ r.entry = pw[t].entry
            /\ (r.at \in {"sample", "async"} => r.entry # NoEntry)
         \/ r.at \in {"idle", "record"} /\ r.entry = NoEntry
  PROVE  /\ FlightsKept /\ pw' \in [PWriters -> PipeRecord]
         /\ pw'[t] = r /\ \A u \in PWriters : u # t => pw'[u] = pw[u]
         /\ \A k \in AsyncWorkers : Busy(k)' <=> Busy(k)
  <1>1. pw \in [PWriters -> PipeRecord] /\ FlightsGood
    BY DEF PipeInv, PipeTypes, PipeRecord
  <1>2. pw' \in [PWriters -> PipeRecord] /\ pw'[t] = r /\ \A u \in PWriters : u # t => pw'[u] = pw[u]
    BY <1>1
  <1>3. \A k \in AsyncWorkers : Busy(k)' <=> Busy(k)
    BY DEF Busy
  <1>4. ASSUME NEW u \in PWriters
        PROVE  /\ Fly(u)' => Fly(u) /\ pw'[u].line = pw[u].line /\ pw'[u].entry = pw[u].entry
               /\ ~Fly(u)' => pw'[u].entry = NoEntry
               /\ pw'[u].at \in {"sample", "async"} => pw'[u].entry # NoEntry
    <2>1. CASE u = t
      BY <2>1, <1>2 DEF Fly, FlyingAt
    <2>2. CASE u # t
      BY <2>2, <1>1, <1>2 DEF Fly, FlightsGood
    <2> QED BY <2>1, <2>2
  <1> QED BY <1>2, <1>3, <1>4 DEF FlightsKept

\* The flight of writer t ends: what that asks of the other flights.
LEMMA WriterEnds ==
  ASSUME PipeInv, NEW t \in PWriters, Fly(t), ~panicked, NEW r \in PipeRecord, pw' = [pw EXCEPT ![t] = r],
         r.at = "record", r.entry = NoEntry, pq' = pq, worker' = worker, pwrites' = pwrites,
         IF pw[t].entry = NoEntry THEN ent' = ent ELSE Released(pw[t].entry) \/ (ent' = ent /\ panicked'),
         plines' = plines \/ plines' = Append(plines, LineOf(pw[t].line, pw[t].entry))
  PROVE  FlightEnds(pw[t].line, pw[t].entry) /\ Good(pw[t].line, pw[t].entry) /\ pw' \in [PWriters -> PipeRecord]
  <1>. DEFINE l == pw[t].line
              e == pw[t].entry
  <1>1. /\ FlightsKept /\ pw' \in [PWriters -> PipeRecord]
        /\ pw'[t] = r /\ \A u \in PWriters : u # t => pw'[u] = pw[u]
        /\ \A k \in AsyncWorkers : Busy(k)' <=> Busy(k)
    BY WriterMoves
  <1>2. FlightsGood /\ FlightsApart
    BY DEF PipeInv
  <1>3. ~Fly(t)'
    BY <1>1 DEF Fly, FlyingAt
  <1>4. \A u \in PWriters : Fly(u)' => ~Clash(pw[u].line, pw[u].entry, l, e)
    BY <1>1, <1>2, <1>3 DEF FlightsApart, FlightsKept
  <1>5. \A i \in 1 .. Len(pq) : ~Clash(pq[i].line, pq[i].entry, l, e)
    BY <1>2 DEF FlightsApart, Clash
  <1>6. \A k \in AsyncWorkers : Busy(k)' => ~Clash(worker[k].entry.line, worker[k].entry.entry, l, e)
    BY <1>1, <1>2 DEF FlightsApart, Clash
  <1>7. \A x \in PEntries : x # e /\ HasHolder(x) => HasHolder(x)'
    <2>. SUFFICES ASSUME NEW x \in PEntries, x # e, HasHolder(x) PROVE HasHolder(x)'
      OBVIOUS
    <2>1. CASE \E u \in PWriters : Fly(u) /\ pw[u].entry = x
      <3>1. PICK u \in PWriters : Fly(u) /\ pw[u].entry = x
        BY <2>1
      <3>2. u # t /\ Fly(u)' /\ pw'[u].entry = x
        BY <3>1, <1>1 DEF Fly
      <3> QED BY <3>2 DEF HasHolder
    <2>2. CASE \E i \in 1 .. Len(pq) : pq[i].entry = x
      BY <2>2 DEF HasHolder
    <2>3. CASE \E k \in AsyncWorkers : Busy(k) /\ worker[k].entry.entry = x
      BY <2>3, <1>1 DEF HasHolder
    <2> QED BY <2>1, <2>2, <2>3 DEF HasHolder
  <1>8. FlightEnds(l, e)
    BY <1>1, <1>4, <1>5, <1>6, <1>7 DEF FlightEnds
  <1>9. Good(l, e)
    BY <1>2 DEF FlightsGood
  <1> QED BY <1>1, <1>8, <1>9

LEMMA PipeSamples ==
  ASSUME PipeInv, ~panicked, NEW t \in PWriters, SampleLine(t) PROVE PipeInv'
  <1>1. PICK keep \in BOOLEAN :
          LET counted == ~psetup.sampler /\ rate > 0 /\ rate < 100
          IN /\ ~psetup.sampler => keep = (~counted \/ KeptByCount(sampled + 1))
             /\ sampled' = IF counted THEN sampled + 1 ELSE sampled
             /\ keptCount' = IF counted /\ keep THEN keptCount + 1 ELSE keptCount
             /\ pw' = [pw EXCEPT ![t] =
                         IF ~keep THEN Recording
                         ELSE [@ EXCEPT !.at = IF "async" \in fullHas THEN "async" ELSE "sync"]]
             /\ IF keep THEN UNCHANGED entVars ELSE ReleaseEntry(pw[t].entry, FALSE)
    BY DEF SampleLine
  <1>2. /\ pw[t].at = "sample" /\ pq' = pq /\ worker' = worker /\ pwrites' = pwrites /\ plines' = plines
        /\ pqClosed' = pqClosed /\ names' = names /\ panicked' = panicked /\ psetup' = psetup /\ UNCHANGED stratVars
    BY DEF SampleLine, asyncStateVars
  <1>3. Fly(t) /\ pw \in [PWriters -> PipeRecord] /\ pw[t].entry # NoEntry /\ PipeTypes /\ pw[t].line \in Nat
        /\ pw[t].entry \in PEntries \union {NoEntry}
    BY <1>2 DEF PipeInv, PipeTypes, PipeRecord, Fly, FlyingAt, FlightsGood
  <1>4. SampleShare' /\ sampled' \in Nat /\ keptCount' \in Nat
    BY <1>1, <1>2, ShareKept DEF stratVars
  <1>5. PipelineTypeOK' /\ updates' = updates
    <2>1. ent' \in [PEntries -> [at : {"new", "used", "pool", "gone"}, slots : [1 .. StaticCap -> Nat],
                                 used : 0 .. StaticCap, over : Seq(Nat)]]
      <3>1. CASE keep
        BY <3>1, <1>1, <1>3 DEF PipeTypes, entVars
      <3>2. CASE ~keep
        <4>1. Released(pw[t].entry)
          BY <3>2, <1>1, ReleaseEntryReleases
        <4>2. pw[t].entry \in PEntries /\ ent[pw[t].entry].at = "used"
          BY <1>3 DEF PipeInv, FlightsGood, Good
        <4> QED BY <4>1, <4>2, PipeReleases
      <3> QED BY <3>1, <3>2
    <2> QED BY <2>1, <1>2, <1>3 DEF PipelineTypeOK, PipeTypes, stratVars
  <1>6. CASE keep
    <2>. DEFINE r == [pw[t] EXCEPT !.at = IF "async" \in fullHas THEN "async" ELSE "sync"]
    <2>1. pw' = [pw EXCEPT ![t] = r] /\ ent' = ent
      <3>1. pw' = [pw EXCEPT ![t] = r]
        BY <1>6, <1>1
      <3>2. ent' = ent
        BY <1>6, <1>1 DEF entVars
      <3> QED BY <3>1, <3>2
    <2>2. r \in PipeRecord /\ r.at \in FlyingAt /\ r.line = pw[t].line /\ r.entry = pw[t].entry
      BY <1>3 DEF PipeRecord, FlyingAt
    <2>. HIDE DEF r
    <2>3. /\ FlightsKept /\ pw' \in [PWriters -> PipeRecord]
          /\ pw'[t] = r /\ \A u \in PWriters : u # t => pw'[u] = pw[u]
          /\ \A k \in AsyncWorkers : Busy(k)' <=> Busy(k)
      BY <1>2, <1>3, <2>1, <2>2, WriterMoves
    <2>4. PipeTypes'
      BY <1>2, <1>3, <1>4, <1>5, <2>1, <2>3 DEF PipeTypes, PipeRecord
    <2>5. \A u \in PWriters : Fly(u) => Fly(u)'
      BY <2>2, <2>3 DEF Fly
    <2> QED BY <1>2, <1>4, <2>1, <2>3, <2>4, <2>5, PipeSame
  <1>7. CASE ~keep
    <2>1. pw' = [pw EXCEPT ![t] = Recording] /\ Released(pw[t].entry)
      BY <1>7, <1>1, ReleaseEntryReleases
    <2>2. FlightEnds(pw[t].line, pw[t].entry) /\ Good(pw[t].line, pw[t].entry) /\ pw' \in [PWriters -> PipeRecord]
      BY <1>2, <1>3, <2>1, IdleRecord, WriterEnds
    <2>3. ent' \in [PEntries -> [at : {"new", "used", "pool", "gone"}, slots : [1 .. StaticCap -> Nat],
                                 used : 0 .. StaticCap, over : Seq(Nat)]]
      BY <1>3, <2>1, <2>2, PipeReleases DEF Good
    <2>4. PipeTypes'
      BY <1>2, <1>3, <1>4, <1>5, <2>2, <2>3 DEF PipeTypes, PipeRecord
    <2> QED BY <1>3, <1>4, <2>2, <2>4, PipeEnds
  <1> QED BY <1>6, <1>7

\* The flights of a writer, one in the queue and one of a worker.
LEMMA FlightsTyped ==
  ASSUME PipeInv
  PROVE  /\ \A u \in PWriters : pw[u].entry \in PEntries \union {NoEntry} /\ pw[u].line \in Nat
         /\ pq \in Seq(Token) /\ Len(pq) \in Nat
         /\ \A i \in 1 .. Len(pq) : pq[i] \in Token /\ pq[i].entry \in PEntries /\ pq[i].line \in Nat /\ pq[i].line \in 1 .. PWrites
         /\ \A k \in AsyncWorkers : Busy(k) => /\ worker[k].entry \in Token
                                               /\ worker[k].entry.entry \in PEntries /\ worker[k].entry.line \in Nat
         /\ NoEntry \notin PEntries
  <1>1. pq \in Seq(Token)
    BY DEF PipeInv, PipeTypes
  <1>2. Len(pq) \in Nat /\ \A i \in 1 .. Len(pq) : pq[i] \in Token
    BY <1>1
  <1>3. \A k \in AsyncWorkers : Busy(k) => worker[k].entry \in Token
    BY DEF PipeInv, PipeTypes, WorkerState, Busy
  <1>4. NoEntry \notin PEntries /\ \A x \in Token : x.entry \in PEntries /\ x.line \in Nat /\ x.line \in 1 .. PWrites
    BY PipelineBoundsAssumption DEF Token, PEntries, NoEntry
  <1>5. \A u \in PWriters : pw[u].entry \in PEntries \union {NoEntry} /\ pw[u].line \in Nat
    BY DEF PipeInv, PipeTypes
  <1> QED BY <1>1, <1>2, <1>3, <1>4, <1>5

\* SendAsync: the flight goes on in the queue, or in the writer's own hands.
LEMMA PipeSends ==
  ASSUME PipeInv, ~panicked, NEW t \in PWriters, SendAsync(t) PROVE PipeInv'
  <1>1. /\ pw[t].at = "async" /\ worker' = worker /\ pwrites' = pwrites /\ plines' = plines
        /\ names' = names /\ panicked' = pqClosed /\ psetup' = psetup /\ UNCHANGED stratVars /\ ent' = ent
        /\ sampled' = sampled /\ keptCount' = keptCount /\ pqClosed' = pqClosed
    BY DEF SendAsync, entVars
  <1>2. Fly(t) /\ pw \in [PWriters -> PipeRecord] /\ pw[t].entry # NoEntry /\ PipeTypes
    BY <1>1 DEF PipeInv, PipeTypes, PipeRecord, Fly, FlyingAt, FlightsGood
  <1>3. SampleShare'
    BY <1>1 DEF PipeInv, SampleShare, stratVars
  <1>4. CASE pqClosed \/ Len(pq) = QueueCap
    <2>. DEFINE r == [pw[t] EXCEPT !.at = IF pqClosed THEN "async" ELSE "sync"]
    <2>1. pq' = pq /\ pw' = [pw EXCEPT ![t] = r]
      <3>1. pq' = pq /\ pw' = [pw EXCEPT ![t].at = IF pqClosed THEN "async" ELSE "sync"]
        BY <1>4 DEF SendAsync
      <3> QED BY <3>1, <1>2
    <2>2. r \in PipeRecord /\ r.at \in FlyingAt /\ r.line = pw[t].line /\ r.entry = pw[t].entry
      BY <1>2 DEF PipeRecord, FlyingAt
    <2>. HIDE DEF r
    <2>3. /\ FlightsKept /\ pw' \in [PWriters -> PipeRecord]
          /\ pw'[t] = r /\ \A u \in PWriters : u # t => pw'[u] = pw[u]
          /\ \A k \in AsyncWorkers : Busy(k)' <=> Busy(k)
      BY <1>1, <1>2, <2>1, <2>2, WriterMoves
    <2>4. PipeTypes'
      <3>1. PipelineTypeOK' /\ updates' = updates
        BY <1>1, <1>2, <2>1 DEF PipelineTypeOK, PipeTypes, stratVars
      <3>2. panicked' \in BOOLEAN
        BY <1>1, <1>2 DEF PipeTypes
      <3> QED BY <1>1, <1>2, <3>1, <3>2, <2>1, <2>3 DEF PipeTypes, PipeRecord
    <2>5. \A u \in PWriters : Fly(u) => Fly(u)'
      BY <2>2, <2>3 DEF Fly
    <2> QED BY <1>1, <1>3, <2>1, <2>3, <2>4, <2>5, PipeSame
  <1>5. CASE ~(pqClosed \/ Len(pq) = QueueCap)
    <2>. DEFINE x == [line |-> pw[t].line, entry |-> pw[t].entry]
                n == Len(pq)
    <2>1. pq' = Append(pq, x) /\ pw' = [pw EXCEPT ![t] = Recording] /\ Len(pq) # QueueCap
      BY <1>5 DEF SendAsync
    <2>2. FlightsGood /\ FlightsApart
      BY DEF PipeInv
    <2>3. Good(pw[t].line, pw[t].entry) /\ pw[t].line \in 1 .. pwrites
      BY <1>2, <2>2 DEF FlightsGood, Good
    <2>4. x \in Token /\ x.line = pw[t].line /\ x.entry = pw[t].entry
      BY <1>2, <2>3, FlightsTyped, PipelineBoundsAssumption DEF Token, PipeTypes
    <2>. HIDE DEF x
    <2>5. /\ pq \in Seq(Token) /\ pq' \in Seq(Token) /\ Len(pq') = n + 1 /\ pq'[n + 1] = x /\ n \in Nat
          /\ \A i \in 1 .. n : pq'[i] = pq[i]
      BY <2>1, <2>4, FlightsTyped, AppendProperties
    <2>6. /\ pw' \in [PWriters -> PipeRecord] /\ pw'[t] = Recording /\ ~Fly(t)'
          /\ \A u \in PWriters : u # t => pw'[u] = pw[u] /\ (Fly(u)' <=> Fly(u))
          /\ \A k \in AsyncWorkers : (Busy(k)' <=> Busy(k)) /\ worker'[k] = worker[k]
      BY <1>1, <1>2, <2>1, IdleRecord DEF Fly, FlyingAt, Busy
    <2>7. PipeTypes'
      <3>1. PipelineTypeOK'
        <4>1. Len(pq') <= QueueCap
          BY <1>2, <2>1, <2>5, PipelineSizesAssumption DEF PipeTypes, PipelineTypeOK
        <4> QED BY <4>1, <1>1, <1>2 DEF PipelineTypeOK, PipeTypes, stratVars
      <3>2. panicked' \in BOOLEAN /\ updates' = updates
        BY <1>1, <1>2 DEF stratVars, PipeTypes
      <3> QED BY <1>1, <1>2, <3>1, <3>2, <2>5, <2>6 DEF PipeTypes, PipeRecord
    <2>8. \A l, e : Good(l, e) => GoodAfter(l, e)
      BY <1>1 DEF Good, GoodAfter
    <2>9. FlightsGood'
      <3>1. \A u \in PWriters : IF Fly(u)' THEN GoodAfter(pw'[u].line, pw'[u].entry) ELSE pw'[u].entry = NoEntry
        BY <2>2, <2>6, <2>8, IdleRecord DEF FlightsGood
      <3>2. \A u \in PWriters : pw'[u].at \in {"sample", "async"} => pw'[u].entry # NoEntry
        BY <2>2, <2>6, IdleRecord DEF FlightsGood
      <3>3. \A i \in 1 .. Len(pq') : GoodAfter(pq'[i].line, pq'[i].entry)
        <4>. SUFFICES ASSUME NEW i \in 1 .. Len(pq') PROVE GoodAfter(pq'[i].line, pq'[i].entry)
          OBVIOUS
        <4>1. CASE i = n + 1
          BY <4>1, <2>3, <2>4, <2>5, <2>8
        <4>2. CASE i \in 1 .. n
          BY <4>2, <2>2, <2>5, <2>8 DEF FlightsGood
        <4> QED BY <4>1, <4>2, <2>5
      <3>4. \A k \in AsyncWorkers : Busy(k)' => GoodAfter(worker'[k].entry.line, worker'[k].entry.entry)
        BY <2>2, <2>6, <2>8 DEF FlightsGood
      <3> QED BY <3>1, <3>2, <3>3, <3>4, FlightsGoodAfter
    <2>10. FlightsApart'
      <3>1. \A u, v \in PWriters : Fly(u)' /\ Fly(v)' /\ u # v => ~Clash(pw'[u].line, pw'[u].entry, pw'[v].line, pw'[v].entry)
        BY <2>2, <2>6 DEF FlightsApart
      <3>2. \A i, j \in 1 .. Len(pq') : i # j => ~Clash(pq'[i].line, pq'[i].entry, pq'[j].line, pq'[j].entry)
        <4>1. \A i \in 1 .. n : ~Clash(pq[i].line, pq[i].entry, x.line, x.entry)
          BY <1>2, <2>2, <2>4 DEF FlightsApart, Clash
        <4>2. \A i, j \in 1 .. n : i # j => ~Clash(pq[i].line, pq[i].entry, pq[j].line, pq[j].entry)
          BY <2>2 DEF FlightsApart
        <4>3. \A i \in 1 .. n + 1 : i = n + 1 \/ i \in 1 .. n
          BY <2>5
        <4> QED BY <4>1, <4>2, <4>3, <2>5 DEF Clash
      <3>3. \A k, m \in AsyncWorkers : Busy(k)' /\ Busy(m)' /\ k # m =>
               ~Clash(worker'[k].entry.line, worker'[k].entry.entry, worker'[m].entry.line, worker'[m].entry.entry)
        BY <2>2, <2>6 DEF FlightsApart
      <3>4. \A u \in PWriters, i \in 1 .. Len(pq') : Fly(u)' => ~Clash(pw'[u].line, pw'[u].entry, pq'[i].line, pq'[i].entry)
        <4>. SUFFICES ASSUME NEW u \in PWriters, NEW i \in 1 .. Len(pq'), Fly(u)'
                      PROVE  ~Clash(pw'[u].line, pw'[u].entry, pq'[i].line, pq'[i].entry)
          OBVIOUS
        <4>1. u # t /\ pw'[u] = pw[u] /\ Fly(u)
          BY <2>6
        <4>2. CASE i = n + 1
          BY <4>1, <4>2, <1>2, <2>2, <2>4, <2>5 DEF FlightsApart
        <4>3. CASE i \in 1 .. n
          BY <4>1, <4>3, <2>2, <2>5 DEF FlightsApart
        <4> QED BY <4>2, <4>3, <2>5
      <3>5. \A u \in PWriters, k \in AsyncWorkers : Fly(u)' /\ Busy(k)' =>
               ~Clash(pw'[u].line, pw'[u].entry, worker'[k].entry.line, worker'[k].entry.entry)
        BY <2>2, <2>6 DEF FlightsApart
      <3>6. \A i \in 1 .. Len(pq'), k \in AsyncWorkers : Busy(k)' =>
               ~Clash(pq'[i].line, pq'[i].entry, worker'[k].entry.line, worker'[k].entry.entry)
        <4>. SUFFICES ASSUME NEW i \in 1 .. Len(pq'), NEW k \in AsyncWorkers, Busy(k)'
                      PROVE  ~Clash(pq'[i].line, pq'[i].entry, worker'[k].entry.line, worker'[k].entry.entry)
          OBVIOUS
        <4>1. worker'[k] = worker[k] /\ Busy(k)
          BY <2>6
        <4>2. CASE i = n + 1
          BY <4>1, <4>2, <1>2, <2>2, <2>4, <2>5 DEF FlightsApart
        <4>3. CASE i \in 1 .. n
          BY <4>1, <4>3, <2>2, <2>5 DEF FlightsApart
        <4> QED BY <4>2, <4>3, <2>5
      <3> QED BY <3>1, <3>2, <3>3, <3>4, <3>5, <3>6 DEF FlightsApart, Clash
    <2>11. EntriesHeld'
      <3>. SUFFICES ASSUME ~panicked', NEW e \in PEntries, ent'[e].at = "used" PROVE HasHolder(e)'
        BY DEF EntriesHeld
      <3>1. HasHolder(e)
        BY <1>1 DEF PipeInv, EntriesHeld
      <3>2. CASE \E u \in PWriters : Fly(u) /\ pw[u].entry = e
        <4>1. PICK u \in PWriters : Fly(u) /\ pw[u].entry = e
          BY <3>2
        <4>2. CASE u = t
          <5>1. n + 1 \in 1 .. Len(pq') /\ pq'[n + 1].entry = e
            BY <4>1, <4>2, <2>4, <2>5
          <5> QED BY <5>1 DEF HasHolder
        <4>3. CASE u # t
          BY <4>1, <4>3, <2>6 DEF HasHolder
        <4> QED BY <4>2, <4>3
      <3>3. CASE \E i \in 1 .. Len(pq) : pq[i].entry = e
        <4>1. PICK i \in 1 .. Len(pq) : pq[i].entry = e
          BY <3>3
        <4>2. i \in 1 .. Len(pq') /\ pq'[i].entry = e
          BY <4>1, <2>5
        <4> QED BY <4>2 DEF HasHolder
      <3>4. CASE \E k \in AsyncWorkers : Busy(k) /\ worker[k].entry.entry = e
        BY <3>4, <2>6 DEF HasHolder
      <3> QED BY <3>1, <3>2, <3>3, <3>4 DEF HasHolder
    <2>12. EntriesClean' /\ LinesOnce'
      BY <1>1 DEF PipeInv, EntriesClean, LinesOnce
    <2> QED BY <1>3, <2>7, <2>9, <2>10, <2>11, <2>12 DEF PipeInv
  <1> QED BY <1>4, <1>5

LEMMA PipeWrites ==
  ASSUME PipeInv, ~panicked, NEW t \in PWriters, WriteSync(t) PROVE PipeInv'
  <1>. DEFINE some == pw[t].pipe \in slices
              nil == cleared
  <1>1. /\ pw[t].at = "sync" /\ worker' = worker /\ pwrites' = pwrites /\ pq' = pq /\ pqClosed' = pqClosed
        /\ names' = names /\ psetup' = psetup /\ UNCHANGED stratVars
        /\ sampled' = sampled /\ keptCount' = keptCount
        /\ panicked' = (some /\ nil)
        /\ plines' = IF some /\ ~nil THEN Append(plines, LineOf(pw[t].line, pw[t].entry)) ELSE plines
        /\ IF pw[t].entry = NoEntry \/ (some /\ nil) THEN UNCHANGED entVars
           ELSE ReleaseEntry(pw[t].entry, pw[t].pipe = "direct")
        /\ pw' = [pw EXCEPT ![t] = Recording]
    BY DEF WriteSync, asyncStateVars
  <1>. HIDE DEF some, nil
  <1>2. Fly(t) /\ pw \in [PWriters -> PipeRecord] /\ PipeTypes
        /\ pw[t].entry \in PEntries \union {NoEntry} /\ pw[t].line \in Nat
    BY <1>1 DEF PipeInv, PipeTypes, PipeRecord, Fly, FlyingAt
  <1>3. SampleShare'
    BY <1>1 DEF PipeInv, SampleShare, stratVars
  <1>4. IF pw[t].entry = NoEntry THEN ent' = ent ELSE Released(pw[t].entry) \/ (ent' = ent /\ panicked')
    <2>1. CASE pw[t].entry = NoEntry \/ (some /\ nil)
      BY <2>1, <1>1 DEF entVars
    <2>2. CASE ~(pw[t].entry = NoEntry \/ (some /\ nil))
      BY <2>2, <1>1, ReleaseEntryReleases
    <2> QED BY <2>1, <2>2
  <1>5. plines' = plines \/ plines' = Append(plines, LineOf(pw[t].line, pw[t].entry))
    BY <1>1
  <1>6. FlightEnds(pw[t].line, pw[t].entry) /\ Good(pw[t].line, pw[t].entry) /\ pw' \in [PWriters -> PipeRecord]
    BY <1>1, <1>2, <1>4, <1>5, IdleRecord, WriterEnds
  <1>7. PipeTypes'
    <2>1. ent' \in [PEntries -> [at : {"new", "used", "pool", "gone"}, slots : [1 .. StaticCap -> Nat],
                                 used : 0 .. StaticCap, over : Seq(Nat)]]
      <3>1. CASE ent' = ent
        BY <3>1, <1>2 DEF PipeTypes
      <3>2. CASE pw[t].entry # NoEntry /\ Released(pw[t].entry)
        BY <3>2, <1>2, <1>6, PipeReleases DEF Good
      <3> QED BY <3>1, <3>2, <1>4
    <2>2. PipelineTypeOK'
      BY <2>1, <1>1, <1>2 DEF PipelineTypeOK, PipeTypes, stratVars
    <2>3. plines' \in Seq(Written)
      <3>1. plines \in Seq(Written) /\ LineOf(pw[t].line, pw[t].entry) \in Written
        BY <1>2, <1>6, PipeLine DEF PipeTypes
      <3>2. Append(plines, LineOf(pw[t].line, pw[t].entry)) \in Seq(Written)
        BY <3>1, AppendProperties
      <3> QED BY <3>1, <3>2, <1>5
    <2>4. panicked' \in BOOLEAN /\ updates' = updates
      BY <1>1 DEF stratVars
    <2> QED BY <2>1, <2>2, <2>3, <2>4, <1>1, <1>2, <1>6 DEF PipeTypes, PipeRecord
  <1> QED BY <1>2, <1>3, <1>6, <1>7, PipeEnds

LEMMA PipeRecords ==
  ASSUME PipeInv, ~panicked, NEW t \in PWriters, RecordMetrics(t) PROVE PipeInv'
  <1>1. /\ pw[t].at = "record" /\ pw' = [pw EXCEPT ![t] = PIdle]
        /\ names' = (IF psetup.strategy THEN [names EXCEPT ![sel] = @ + 1] ELSE names)
        /\ UNCHANGED <<psetup, stratVars, sampled, keptCount, entVars, pwrites, asyncStateVars, plines, panicked>>
    BY DEF RecordMetrics
  <1>2. /\ pq' = pq /\ worker' = worker /\ ent' = ent /\ pqClosed' = pqClosed /\ UNCHANGED stratVars
    BY <1>1 DEF asyncStateVars, entVars
  <1>3. PipeTypes /\ ~Fly(t) /\ pw \in [PWriters -> PipeRecord]
    BY <1>1 DEF PipeInv, Fly, FlyingAt, PipeTypes, PipeRecord
  <1>4. /\ FlightsKept /\ pw' \in [PWriters -> PipeRecord]
        /\ pw'[t] = PIdle /\ \A u \in PWriters : u # t => pw'[u] = pw[u]
        /\ \A k \in AsyncWorkers : Busy(k)' <=> Busy(k)
    BY <1>1, <1>2, IdleRecord, WriterMoves
  <1>5. names' \in [Pipelines -> Nat]
    <2>1. names \in [Pipelines -> Nat] /\ sel \in Pipelines
      BY <1>3 DEF PipeTypes, PipelineTypeOK
    <2>2. names[sel] + 1 \in Nat
      BY <2>1
    <2>3. [names EXCEPT ![sel] = names[sel] + 1] \in [Pipelines -> Nat]
      BY <2>1, <2>2
    <2>4. names' = names \/ names' = [names EXCEPT ![sel] = names[sel] + 1]
      BY <1>1
    <2> QED BY <2>1, <2>3, <2>4
  <1>6. PipelineTypeOK' /\ updates' = updates
    BY <1>1, <1>2, <1>3 DEF PipelineTypeOK, PipeTypes, stratVars
  <1>7. PipeTypes'
    BY <1>1, <1>2, <1>3, <1>4, <1>5, <1>6 DEF PipeTypes, PipeRecord
  <1>8. SampleShare'
    BY <1>1, <1>2 DEF PipeInv, SampleShare, stratVars
  <1>9. \A u \in PWriters : Fly(u) => Fly(u)'
    BY <1>3, <1>4 DEF Fly
  <1> QED BY <1>1, <1>2, <1>4, <1>7, <1>8, <1>9, PipeSame

LEMMA PipeStops ==
  ASSUME PipeInv, ~panicked, NEW k \in AsyncWorkers, WorkerStop(k) PROVE PipeInv'
  <1>1. /\ worker[k].at = "select" /\ worker' = [worker EXCEPT ![k].at = "gone"]
        /\ UNCHANGED <<psetup, stratVars, sampled, keptCount, entVars, pw, pwrites, pq, asyncStop,
                       pqClosed, plines, names, panicked>>
    BY DEF WorkerStop
  <1>2. ent' = ent /\ PipeTypes /\ FlightsGood
    BY <1>1 DEF entVars, PipeInv
  <1>3. worker[k].entry = NoEntry /\ worker \in [AsyncWorkers -> WorkerState]
    BY <1>1, <1>2 DEF PipeTypes, WorkerState
  <1>4. /\ worker' = [worker EXCEPT ![k] = [at |-> "gone", entry |-> NoEntry]]
    <2>1. worker[k] = [at |-> "select", entry |-> NoEntry]
      BY <1>1, <1>3 DEF WorkerState
    <2>2. [worker[k] EXCEPT !.at = "gone"] = [at |-> "gone", entry |-> NoEntry]
      BY <2>1
    <2> QED BY <2>2, <1>1
  <1>5. [at |-> "gone", entry |-> NoEntry] \in WorkerState
    BY DEF WorkerState
  <1>6. /\ worker' \in [AsyncWorkers -> WorkerState]
        /\ worker'[k].at = "gone" /\ \A m \in AsyncWorkers : m # k => worker'[m] = worker[m]
    BY <1>3, <1>4, <1>5
  <1>7. \A m \in AsyncWorkers : (Busy(m)' <=> Busy(m)) /\ (Busy(m) => worker'[m].entry = worker[m].entry)
    BY <1>1, <1>6 DEF Busy
  <1>8. FlightsKept
    BY <1>1, <1>2, <1>7 DEF FlightsKept, Fly, FlightsGood
  <1>9. PipelineTypeOK' /\ updates' = updates
    BY <1>1, <1>2 DEF PipelineTypeOK, PipeTypes, stratVars
  <1>10. PipeTypes'
    BY <1>1, <1>2, <1>6, <1>9 DEF PipeTypes
  <1>11. SampleShare'
    BY <1>1 DEF PipeInv, SampleShare, stratVars
  <1>12. \A u \in PWriters : Fly(u) => Fly(u)'
    BY <1>1 DEF Fly
  <1> QED BY <1>1, <1>2, <1>7, <1>8, <1>10, <1>11, <1>12, PipeSame

\* The reconfigurations, which touch neither flights nor entries.
LEMMA PipeControls ==
  ASSUME PipeInv, ~panicked,
         (\E c \in PConfigs : UpdateConfig(c)) \/ Reselect \/ Shutdown \/ ResetNext \/ ResetStop \/ ResetClose
  PROVE  PipeInv'
  <1>1. /\ UNCHANGED <<psetup, fullHas, sampled, keptCount, ent, pw, pwrites, pq, worker, plines, names, panicked>>
        /\ (rate' = rate /\ updates' = updates) \/ (rate' \in 0 .. 100 /\ updates' = updates + 1)
        /\ sel' \in Pipelines /\ slices' \subseteq Pipelines /\ pqClosed' \in BOOLEAN
    <2>1. PipeTypes
      BY DEF PipeInv
    <2>2. CASE \E c \in PConfigs : UpdateConfig(c)
      <3>1. PICK c \in PConfigs : UpdateConfig(c)
        BY <2>2
      <3>2. ClampRate(c.rate) \in 0 .. 100
        BY PipelineInputsAssumption, ClampInRange
      <3> QED BY <3>1, <3>2, <2>1 DEF UpdateConfig, entVars, asyncStateVars, PipeTypes, PipelineTypeOK
    <2>3. CASE Reselect
      BY <2>3, <2>1 DEF Reselect, entVars, asyncStateVars, PipeTypes, PipelineTypeOK
    <2>4. CASE Shutdown
      BY <2>4, <2>1 DEF Shutdown, entVars, asyncStateVars, PipeTypes, PipelineTypeOK
    <2>5. CASE ResetNext
      BY <2>5, <2>1 DEF ResetNext, entVars, asyncStateVars, PipeTypes, PipelineTypeOK
    <2>6. CASE ResetStop
      BY <2>6, <2>1 DEF ResetStop, entVars, asyncStateVars, PipeTypes, PipelineTypeOK
    <2>7. CASE ResetClose
      BY <2>7, <2>1 DEF ResetClose, entVars, asyncStateVars, PipeTypes, PipelineTypeOK
    <2> QED BY <2>2, <2>3, <2>4, <2>5, <2>6, <2>7
  <1>2. PipeTypes /\ FlightsGood
    BY DEF PipeInv
  <1>3. rate' \in 0 .. 100 /\ updates' \in Nat
    <2>1. rate \in 0 .. 100 /\ updates \in Nat
      BY <1>2 DEF PipeTypes, PipelineTypeOK
    <2>2. CASE rate' = rate /\ updates' = updates
      BY <2>1, <2>2
    <2>3. CASE rate' \in 0 .. 100 /\ updates' = updates + 1
      BY <2>1, <2>3
    <2> QED BY <2>2, <2>3, <1>1
  <1>4. PipeTypes'
    <2>1. PipelineTypeOK'
      BY <1>1, <1>2, <1>3 DEF PipeTypes, PipelineTypeOK
    <2>2. /\ psetup' \in PSetups /\ sampled' \in Nat /\ keptCount' \in Nat /\ updates' \in Nat
          /\ pwrites' \in 0 .. PWrites /\ panicked' \in BOOLEAN /\ pqClosed' \in BOOLEAN
      BY <1>1, <1>2, <1>3 DEF PipeTypes
    <2> QED BY <2>1, <2>2, <1>1, <1>2 DEF PipeTypes
  <1>5. SampleShare'
    <2>1. CASE updates' = updates + 1
      <3>1. updates' # 0
        BY <2>1, <1>2 DEF PipeTypes
      <3> QED BY <3>1 DEF SampleShare
    <2>2. CASE rate' = rate /\ updates' = updates
      BY <2>2, <1>1 DEF PipeInv, SampleShare
    <2> QED BY <2>1, <2>2, <1>1
  <1>6. FlightsKept
    BY <1>1, <1>2 DEF FlightsKept, Fly, Busy, FlightsGood
  <1>7. (\A u \in PWriters : Fly(u) => Fly(u)') /\ (\A k \in AsyncWorkers : Busy(k) => Busy(k)')
    BY <1>1 DEF Fly, Busy
  <1> QED BY <1>1, <1>4, <1>5, <1>6, <1>7, PipeSame

LEMMA PipeWorkerWrites ==
  ASSUME PipeInv, ~panicked, NEW k \in AsyncWorkers, WorkerWrite(k) PROVE PipeInv'
  <1>. DEFINE l == worker[k].entry.line
              e == worker[k].entry.entry
              r == [at |-> "select", entry |-> NoEntry]
  <1>1. /\ worker[k].at = "write" /\ worker' = [worker EXCEPT ![k] = r]
        /\ plines' = Append(plines, LineOf(l, e)) /\ ReleaseEntry(e, FALSE)
        /\ UNCHANGED <<psetup, stratVars, sampled, keptCount, pw, pwrites, pq, asyncStop, pqClosed, names, panicked>>
    BY DEF WorkerWrite
  <1>2. /\ PipeTypes /\ FlightsGood /\ FlightsApart /\ Busy(k) /\ e \in PEntries /\ l \in Nat /\ e # NoEntry
        /\ e \in PEntries \union {NoEntry}
    BY <1>1, FlightsTyped DEF PipeInv, Busy
  <1>3. Good(l, e) /\ Released(e) /\ ent[e].at = "used"
    BY <1>1, <1>2, ReleaseEntryReleases DEF FlightsGood, Good
  <1>4. /\ worker' \in [AsyncWorkers -> WorkerState]
        /\ worker'[k].at = "select" /\ \A m \in AsyncWorkers : m # k => worker'[m] = worker[m]
    <2>1. r \in WorkerState
      BY DEF WorkerState
    <2> QED BY <2>1, <1>1, <1>2 DEF PipeTypes
  <1>5. \A m \in AsyncWorkers : Busy(m)' <=> (Busy(m) /\ m # k)
    BY <1>4 DEF Busy
  <1>6. FlightsKept
    BY <1>1, <1>2, <1>4, <1>5 DEF FlightsKept, Fly, FlightsGood
  <1>7. FlightEnds(l, e)
    <2>1. \A t \in PWriters : Fly(t)' => ~Clash(pw[t].line, pw[t].entry, l, e)
      BY <1>1, <1>2 DEF FlightsApart, Fly
    <2>2. \A i \in 1 .. Len(pq) : ~Clash(pq[i].line, pq[i].entry, l, e)
      BY <1>2 DEF FlightsApart
    <2>3. \A m \in AsyncWorkers : Busy(m)' => ~Clash(worker[m].entry.line, worker[m].entry.entry, l, e)
      BY <1>2, <1>5 DEF FlightsApart
    <2>4. \A x \in PEntries : x # e /\ HasHolder(x) => HasHolder(x)'
      <3>. SUFFICES ASSUME NEW x \in PEntries, x # e, HasHolder(x) PROVE HasHolder(x)'
        OBVIOUS
      <3>1. CASE \E m \in AsyncWorkers : Busy(m) /\ worker[m].entry.entry = x
        <4>1. PICK m \in AsyncWorkers : Busy(m) /\ worker[m].entry.entry = x
          BY <3>1
        <4>2. Busy(m)' /\ worker'[m].entry.entry = x
          BY <4>1, <1>4, <1>5
        <4> QED BY <4>2 DEF HasHolder
      <3>2. CASE \E u \in PWriters : Fly(u) /\ pw[u].entry = x
        BY <3>2, <1>1 DEF HasHolder, Fly
      <3>3. CASE \E i \in 1 .. Len(pq) : pq[i].entry = x
        BY <3>3, <1>1 DEF HasHolder
      <3> QED BY <3>1, <3>2, <3>3 DEF HasHolder
    <2> QED BY <2>1, <2>2, <2>3, <2>4, <1>1, <1>2, <1>3, <1>6 DEF FlightEnds
  <1>8. SampleShare'
    BY <1>1 DEF PipeInv, SampleShare, stratVars
  <1>9. ent' \in [PEntries -> [at : {"new", "used", "pool", "gone"}, slots : [1 .. StaticCap -> Nat],
                               used : 0 .. StaticCap, over : Seq(Nat)]]
    BY <1>2, <1>3, PipeReleases
  <1>10. plines' \in Seq(Written)
    <2>1. plines \in Seq(Written) /\ LineOf(l, e) \in Written
      BY <1>2, <1>3, PipeLine DEF PipeTypes
    <2>2. \A w \in Written : Append(plines, w) \in Seq(Written)
      BY <2>1, AppendProperties
    <2> QED BY <2>1, <2>2, <1>1
  <1>11. PipelineTypeOK' /\ updates' = updates
    BY <1>1, <1>2, <1>9 DEF PipelineTypeOK, PipeTypes, stratVars
  <1>12. PipeTypes'
    BY <1>1, <1>2, <1>4, <1>9, <1>10, <1>11 DEF PipeTypes
  <1>. HIDE DEF l, e
  <1> QED BY <1>2, <1>3, <1>7, <1>8, <1>12, PipeEnds

LEMMA PipeTakes ==
  ASSUME PipeInv, ~panicked, NEW k \in AsyncWorkers, WorkerTake(k) PROVE PipeInv'
  <1>. DEFINE x == pq[1]
              n == Len(pq)
              r == [at |-> "write", entry |-> x]
  <1>1. /\ worker[k].at = "select" /\ pq # <<>> /\ worker' = [worker EXCEPT ![k] = r] /\ pq' = Tail(pq)
        /\ UNCHANGED <<psetup, stratVars, sampled, keptCount, entVars, pw, pwrites, asyncStop, pqClosed,
                       plines, names, panicked>>
    BY DEF WorkerTake
  <1>2. PipeTypes /\ FlightsGood /\ FlightsApart /\ ent' = ent /\ pq \in Seq(Token) /\ n \in Nat
    BY <1>1, FlightsTyped DEF PipeInv, entVars
  <1>3. n >= 1 /\ x \in Token /\ 1 \in 1 .. n
    BY <1>1, <1>2, EmptySeq, FlightsTyped
  <1>4. pq' \in Seq(Token) /\ Len(pq') = n - 1 /\ \A i \in 1 .. n - 1 : pq'[i] = pq[i + 1] /\ i + 1 \in 1 .. n
    <2>1. /\ Tail(pq) \in Seq(Token) /\ Len(Tail(pq)) = n - 1
          /\ \A i \in 1 .. Len(Tail(pq)) : Tail(pq)[i] = pq[i + 1]
      BY <1>1, <1>2, HeadTailProperties
    <2> QED BY <2>1, <1>1, <1>2
  <1>. HIDE DEF x, n
  <1>5. /\ worker' \in [AsyncWorkers -> WorkerState] /\ worker'[k].at = "write" /\ worker'[k].entry = x
        /\ \A m \in AsyncWorkers : m # k => worker'[m] = worker[m]
    <2>1. r \in WorkerState
      BY <1>3 DEF WorkerState
    <2>2. worker'[k] = r /\ worker' \in [AsyncWorkers -> WorkerState]
          /\ \A m \in AsyncWorkers : m # k => worker'[m] = worker[m]
      <3>. HIDE DEF r
      <3> QED BY <2>1, <1>1, <1>2 DEF PipeTypes
    <2> QED BY <2>2
  <1>6. Busy(k)' /\ ~Busy(k) /\ \A m \in AsyncWorkers : m # k => (Busy(m)' <=> Busy(m))
    BY <1>1, <1>5 DEF Busy
  <1>7. pw' = pw /\ \A u \in PWriters : Fly(u)' <=> Fly(u)
    BY <1>1 DEF Fly
  <1>8. \A l, e : Good(l, e) => GoodAfter(l, e)
    BY <1>1, <1>2 DEF Good, GoodAfter
  <1>9. Good(x.line, x.entry)
    <2>1. \A i \in 1 .. n : Good(pq[i].line, pq[i].entry)
      BY <1>2 DEF FlightsGood, n
    <2> QED BY <2>1, <1>3 DEF x
  <1>10. PipeTypes'
    <2>1. PipelineTypeOK' /\ updates' = updates
      BY <1>1, <1>2, <1>4, PipelineSizesAssumption DEF PipelineTypeOK, PipeTypes, stratVars, n
    <2> QED BY <2>1, <1>1, <1>2, <1>4, <1>5 DEF PipeTypes
  <1>11. FlightsGood'
    <2>1. \A u \in PWriters : IF Fly(u)' THEN GoodAfter(pw'[u].line, pw'[u].entry) ELSE pw'[u].entry = NoEntry
      BY <1>2, <1>7, <1>8 DEF FlightsGood
    <2>2. \A u \in PWriters : pw'[u].at \in {"sample", "async"} => pw'[u].entry # NoEntry
      BY <1>2, <1>7 DEF FlightsGood
    <2>3. \A i \in 1 .. Len(pq') : GoodAfter(pq'[i].line, pq'[i].entry)
      BY <1>2, <1>4, <1>8 DEF FlightsGood, n
    <2>4. \A m \in AsyncWorkers : Busy(m)' => GoodAfter(worker'[m].entry.line, worker'[m].entry.entry)
      BY <1>2, <1>5, <1>6, <1>8, <1>9 DEF FlightsGood
    <2> QED BY <2>1, <2>2, <2>3, <2>4, FlightsGoodAfter
  <1>12. FlightsApart'
    <2>1. \A u, v \in PWriters : Fly(u)' /\ Fly(v)' /\ u # v => ~Clash(pw'[u].line, pw'[u].entry, pw'[v].line, pw'[v].entry)
      BY <1>2, <1>7 DEF FlightsApart
    <2>2. \A i, j \in 1 .. Len(pq') : i # j => ~Clash(pq'[i].line, pq'[i].entry, pq'[j].line, pq'[j].entry)
      <3>. SUFFICES ASSUME NEW i \in 1 .. Len(pq'), NEW j \in 1 .. Len(pq'), i # j
                    PROVE  ~Clash(pq'[i].line, pq'[i].entry, pq'[j].line, pq'[j].entry)
        OBVIOUS
      <3>1. pq'[i] = pq[i + 1] /\ i + 1 \in 1 .. n /\ pq'[j] = pq[j + 1] /\ j + 1 \in 1 .. n /\ i + 1 # j + 1
        BY <1>4
      <3> QED BY <3>1, <1>2 DEF FlightsApart, n
    <2>3. \A m, o \in AsyncWorkers : Busy(m)' /\ Busy(o)' /\ m # o =>
             ~Clash(worker'[m].entry.line, worker'[m].entry.entry, worker'[o].entry.line, worker'[o].entry.entry)
      <3>1. \A m \in AsyncWorkers : Busy(m) => ~Clash(x.line, x.entry, worker[m].entry.line, worker[m].entry.entry)
        BY <1>2, <1>3 DEF FlightsApart, x, n
      <3> QED BY <3>1, <1>2, <1>5, <1>6 DEF FlightsApart, Clash
    <2>4. \A u \in PWriters, i \in 1 .. Len(pq') : Fly(u)' => ~Clash(pw'[u].line, pw'[u].entry, pq'[i].line, pq'[i].entry)
      BY <1>2, <1>4, <1>7 DEF FlightsApart, n
    <2>5. \A u \in PWriters, m \in AsyncWorkers : Fly(u)' /\ Busy(m)' =>
             ~Clash(pw'[u].line, pw'[u].entry, worker'[m].entry.line, worker'[m].entry.entry)
      <3>1. \A u \in PWriters : Fly(u) => ~Clash(pw[u].line, pw[u].entry, x.line, x.entry)
        BY <1>2, <1>3 DEF FlightsApart, x, n
      <3> QED BY <3>1, <1>2, <1>5, <1>6, <1>7 DEF FlightsApart
    <2>6. \A i \in 1 .. Len(pq'), m \in AsyncWorkers : Busy(m)' =>
             ~Clash(pq'[i].line, pq'[i].entry, worker'[m].entry.line, worker'[m].entry.entry)
      <3>. SUFFICES ASSUME NEW i \in 1 .. Len(pq'), NEW m \in AsyncWorkers, Busy(m)'
                    PROVE  ~Clash(pq'[i].line, pq'[i].entry, worker'[m].entry.line, worker'[m].entry.entry)
        OBVIOUS
      <3>1. pq'[i] = pq[i + 1] /\ i + 1 \in 1 .. n /\ i + 1 # 1
        BY <1>4
      <3>2. CASE m = k
        BY <3>1, <3>2, <1>2, <1>3, <1>5 DEF FlightsApart, x, n
      <3>3. CASE m # k
        BY <3>1, <3>3, <1>2, <1>5, <1>6 DEF FlightsApart, n
      <3> QED BY <3>2, <3>3
    <2> QED BY <2>1, <2>2, <2>3, <2>4, <2>5, <2>6 DEF FlightsApart, Clash
  <1>13. EntriesHeld'
    <2>. SUFFICES ASSUME ~panicked', NEW e \in PEntries, ent'[e].at = "used" PROVE HasHolder(e)'
      BY DEF EntriesHeld
    <2>1. HasHolder(e)
      BY <1>1, <1>2 DEF PipeInv, EntriesHeld
    <2>2. CASE \E u \in PWriters : Fly(u) /\ pw[u].entry = e
      BY <2>2, <1>7 DEF HasHolder
    <2>3. CASE \E i \in 1 .. Len(pq) : pq[i].entry = e
      <3>1. PICK i \in 1 .. Len(pq) : pq[i].entry = e
        BY <2>3
      <3>2. CASE i = 1
        BY <3>1, <3>2, <1>5, <1>6 DEF HasHolder, x
      <3>3. CASE i # 1
        <4>1. i - 1 \in 1 .. n - 1 /\ (i - 1) + 1 = i
          BY <3>3, <1>2 DEF n
        <4>2. i - 1 \in 1 .. Len(pq') /\ pq'[i - 1].entry = e
          BY <4>1, <3>1, <1>4
        <4> QED BY <4>2 DEF HasHolder
      <3> QED BY <3>2, <3>3
    <2>4. CASE \E m \in AsyncWorkers : Busy(m) /\ worker[m].entry.entry = e
      BY <2>4, <1>5, <1>6 DEF HasHolder
    <2> QED BY <2>1, <2>2, <2>3, <2>4 DEF HasHolder
  <1>14. EntriesClean' /\ LinesOnce' /\ SampleShare'
    BY <1>1, <1>2 DEF PipeInv, EntriesClean, LinesOnce, SampleShare, stratVars
  <1> QED BY <1>10, <1>11, <1>12, <1>13, <1>14 DEF PipeInv

LEMMA PipeKeeps == PipeInv /\ PipelineNext => PipeInv'
  BY PipeBegins, PipeSamples, PipeSends, PipeWrites, PipeRecords, PipeTakes, PipeWorkerWrites, PipeStops, PipeControls
     DEF PipelineNext, WriterStep, AsyncWorkerStep

\* A step of another component, or none, leaves a component where it is.
LEMMA CarriersStill ==
    /\ PipeInv /\ UNCHANGED pipeVars => PipeInv'
    /\ SlotInv /\ UNCHANGED slotVars => SlotInv'
    /\ EntryInv /\ UNCHANGED entryVars => EntryInv'
    /\ CtxInv /\ UNCHANGED ctxVars => CtxInv'
  <1>1. PipeInv /\ UNCHANGED pipeVars => PipeInv'
    <2>. SUFFICES ASSUME PipeInv, UNCHANGED pipeVars PROVE PipeInv'
      OBVIOUS
    <2>1. /\ UNCHANGED <<psetup, sampled, keptCount, pw, pwrites, plines, names, panicked>>
          /\ UNCHANGED <<sel, slices, cleared, pmu, updates, fullHas, rate, poolShut>>
          /\ UNCHANGED <<ent, pactive, pq, asyncStop, pqClosed, worker>>
      BY DEF pipeVars, stratVars, entVars, asyncStateVars
    <2>2. PipelineTypeOK'
      BY <2>1 DEF PipeInv, PipeTypes, PipelineTypeOK
    <2>3. PipeTypes'
      BY <2>1, <2>2 DEF PipeInv, PipeTypes
    <2>4. FlightsGood'
      BY <2>1 DEF PipeInv, FlightsGood, Good, Fly, Busy
    <2>5. FlightsApart'
      BY <2>1 DEF PipeInv, FlightsApart, Clash, Fly, Busy
    <2>6. EntriesHeld'
      BY <2>1 DEF PipeInv, EntriesHeld, HasHolder, Fly, Busy
    <2>7. EntriesClean' /\ LinesOnce' /\ SampleShare'
      BY <2>1 DEF PipeInv, EntriesClean, LinesOnce, SampleShare
    <2> QED BY <2>3, <2>4, <2>5, <2>6, <2>7 DEF PipeInv
  <1>2. SlotInv /\ UNCHANGED slotVars => SlotInv'
    BY DEF SlotInv, slotVars, SlotTypes, Looking, OwnEntry, OutOfReach
  <1>3. EntryInv /\ UNCHANGED entryVars => EntryInv'
    BY DEF EntryInv, entryVars, EntryTypes, NoFieldDropped, AllFields
  <1>4. CtxInv /\ UNCHANGED ctxVars => CtxInv'
    BY DEF CtxInv, ctxVars, Carries, FieldsOf
  <1> QED BY <1>1, <1>2, <1>3, <1>4

-----------------------------------------------------------------------------
(* The registry of sensitive fields (fielddict/registry/).                    *)

AskNames == {Normal[f] : f \in FieldNames} \union {""}
AskRecord == [at : {"idle", "pattern"}, name : AskNames, sure : BOOLEAN]
InPattern == {t \in SCallers : ask[t].at = "pattern"}
\* Sensitive whatever is registered later.
Certain(n) == n \in CommonNames \/ \E i \in 1 .. Len(spats) : n \in spats[i]

RegTypes ==
    /\ spats \in Seq(Patterns) /\ ask \in [SCallers -> AskRecord] /\ blanks \in Nat /\ resets \in Nat
    /\ scount \in [hit : Nat, miss : Nat, check : Nat]
CertainStays == \A t \in SCallers : ask[t].at = "pattern" /\ ask[t].sure => Certain(ask[t].name)
AnswersRight == \A a \in answers : a.sure => a.says
IdsHaveNames == sids \subseteq snames /\ "" \notin sids
AsksCounted == resets = 0 => scount.hit + scount.miss + blanks + Cardinality(InPattern) = scount.check

RegInv == RegTypes /\ CertainStays /\ AnswersRight /\ IdsHaveNames /\ AsksCounted

LEMMA RegMeans == RegInv => NothingSlipsThrough
  <1>. SUFFICES ASSUME RegInv PROVE NothingSlipsThrough
    OBVIOUS
  <1>1. ASSUME NEW f \in FieldNames, Normal[f] \in sids \union CommonNames PROVE HasMask(f)
    BY <1>1, NormalAssumption DEF RegInv, IdsHaveNames, HasMask, Verdict
  <1> QED BY <1>1 DEF RegInv, AnswersRight, IdsHaveNames, AsksCounted, InPattern, NothingSlipsThrough

LEMMA RegStart == RegInit => RegInv
  <1>. SUFFICES ASSUME RegInit PROVE RegInv
    OBVIOUS
  <1>1. RegTypes
    <2>1. NotAsking \in AskRecord
      BY DEF NotAsking, AskRecord, AskNames
    <2>2. spats \in Seq(Patterns) /\ blanks \in Nat /\ resets \in Nat
      BY DEF RegInit
    <2>3. scount \in [hit : Nat, miss : Nat, check : Nat]
      BY DEF RegInit
    <2>4. ask \in [SCallers -> AskRecord]
      BY <2>1 DEF RegInit
    <2> QED BY <2>2, <2>3, <2>4 DEF RegTypes
  <1>2. InPattern = {} /\ Cardinality(InPattern) = 0
    BY FS_EmptySet DEF RegInit, NotAsking, InPattern
  <1>3. AsksCounted
    BY <1>2 DEF RegInit, AsksCounted
  <1>4. CertainStays
    BY DEF RegInit, NotAsking, CertainStays
  <1>5. AnswersRight /\ IdsHaveNames
    BY NormalAssumption DEF RegInit, AnswersRight, IdsHaveNames
  <1> QED BY <1>1, <1>3, <1>4, <1>5 DEF RegInv

LEMMA AsksFinite == IsFiniteSet(InPattern) /\ Cardinality(InPattern) \in Nat
  BY FS_Subset, FS_CardinalityType, NormalAssumption DEF InPattern

LEMMA RegAskExact ==
  ASSUME RegInv, NEW t \in SCallers, NEW f \in FieldNames, AskExact(t, f) PROVE RegInv'
  <1>. DEFINE n == Normal[f]
  <1>1. ask[t].at = "idle" /\ snames' = snames /\ spats' = spats /\ sids' = sids /\ resets' = resets
    BY DEF AskExact
  <1>0. IF n = ""
        THEN /\ scount' = [scount EXCEPT !.check = @ + 1]
             /\ blanks' = blanks + 1
             /\ UNCHANGED <<ask, answers>>
        ELSE IF n \in snames
        THEN /\ scount' = [scount EXCEPT !.check = @ + 1, !.hit = @ + 1]
             /\ answers' = answers \union {[name |-> n, says |-> TRUE, sure |-> TRUE]}
             /\ UNCHANGED <<ask, blanks>>
        ELSE /\ scount' = [scount EXCEPT !.check = @ + 1]
             /\ ask' = [ask EXCEPT ![t] = [at |-> "pattern", name |-> n, sure |-> Covered(n)]]
             /\ UNCHANGED <<answers, blanks>>
    BY DEF AskExact
  <1>2. /\ RegTypes /\ CertainStays /\ AnswersRight /\ IdsHaveNames /\ AsksCounted
        /\ spats \in Seq(Patterns) /\ ask \in [SCallers -> AskRecord] /\ blanks \in Nat /\ resets \in Nat
        /\ scount \in [hit : Nat, miss : Nat, check : Nat]
    BY DEF RegInv, RegTypes
  <1>11. scount.hit \in Nat /\ scount.miss \in Nat /\ scount.check \in Nat /\ blanks \in Nat
    BY <1>2
  <1>3. IsFiniteSet(InPattern) /\ Cardinality(InPattern) \in Nat
    BY AsksFinite
  <1>4. IdsHaveNames'
    BY <1>1, <1>2 DEF IdsHaveNames
  <1>5. CASE n = ""
    <2>1. scount' = [hit |-> scount.hit, miss |-> scount.miss, check |-> scount.check + 1]
          /\ blanks' = blanks + 1 /\ ask' = ask /\ answers' = answers
      BY <1>0, <1>2, <1>5
    <2>2. InPattern' = InPattern
      BY <2>1 DEF InPattern
    <2>3. scount'.hit + scount'.miss + blanks' = scount.hit + scount.miss + blanks + 1 /\ scount'.check = scount.check + 1
      BY <1>11, <2>1
    <2>5. AsksCounted'
      <3>1. scount.hit + scount.miss + blanks \in Nat /\ scount.check \in Nat
        BY <1>2
      <3>2. Cardinality(InPattern)' = Cardinality(InPattern)
        BY <2>2
      <3> QED BY <1>1, <1>2, <1>3, <2>3, <3>1, <3>2 DEF AsksCounted
    <2>6. RegTypes'
      <3>1. scount' \in [hit : Nat, miss : Nat, check : Nat]
        BY <1>2, <2>1
      <3> QED BY <1>1, <1>2, <2>1, <3>1 DEF RegTypes
    <2>4. CertainStays' /\ AnswersRight'
      BY <1>1, <1>2, <2>1 DEF CertainStays, Certain, AnswersRight
    <2> QED BY <1>4, <2>4, <2>5, <2>6 DEF RegInv
  <1>6. CASE n # "" /\ n \in snames
    <2>1. scount' = [hit |-> scount.hit + 1, miss |-> scount.miss, check |-> scount.check + 1]
          /\ blanks' = blanks /\ ask' = ask /\ answers' = answers \union {[name |-> n, says |-> TRUE, sure |-> TRUE]}
      BY <1>0, <1>2, <1>6
    <2>2. InPattern' = InPattern
      BY <2>1 DEF InPattern
    <2>3. scount'.hit + scount'.miss + blanks' = scount.hit + scount.miss + blanks + 1 /\ scount'.check = scount.check + 1
      BY <1>11, <2>1
    <2>5. AsksCounted'
      <3>1. scount.hit + scount.miss + blanks \in Nat /\ scount.check \in Nat
        BY <1>2
      <3>2. Cardinality(InPattern)' = Cardinality(InPattern)
        BY <2>2
      <3> QED BY <1>1, <1>2, <1>3, <2>3, <3>1, <3>2 DEF AsksCounted
    <2>6. RegTypes'
      <3>1. scount' \in [hit : Nat, miss : Nat, check : Nat]
        BY <1>2, <2>1
      <3> QED BY <1>1, <1>2, <2>1, <3>1 DEF RegTypes
    <2>4. CertainStays' /\ AnswersRight'
      BY <1>1, <1>2, <2>1 DEF CertainStays, Certain, AnswersRight
    <2> QED BY <1>4, <2>4, <2>5, <2>6 DEF RegInv
  <1>7. CASE n # "" /\ n \notin snames
    <2>. DEFINE b == Covered(n)
                r == [at |-> "pattern", name |-> n, sure |-> b]
    <2>1. scount' = [hit |-> scount.hit, miss |-> scount.miss, check |-> scount.check + 1]
          /\ blanks' = blanks /\ answers' = answers /\ ask' = [ask EXCEPT ![t] = r]
      BY <1>0, <1>2, <1>7
    <2>2. r \in AskRecord /\ r.at = "pattern" /\ r.name = n /\ (r.sure => Certain(n))
      <3>1. b \in BOOLEAN
        BY DEF Covered
      <3>2. n \in AskNames
        BY DEF AskNames
      <3>3. b => Certain(n)
        <4>1. DOMAIN spats = 1 .. Len(spats)
          BY <1>2
        <4> QED BY <1>7, <4>1 DEF Covered, Certain
      <3>. HIDE DEF b, n
      <3> QED BY <3>1, <3>2, <3>3 DEF AskRecord
    <2>. HIDE DEF r, n
    <2>3. ask' \in [SCallers -> AskRecord] /\ ask'[t] = r /\ \A u \in SCallers : u # t => ask'[u] = ask[u]
      BY <1>2, <2>1, <2>2
    <2>4. InPattern' = InPattern \union {t} /\ t \notin InPattern
      BY <1>1, <2>2, <2>3 DEF InPattern
    <2>5. Cardinality(InPattern') = Cardinality(InPattern) + 1
      BY <1>3, <2>4, FS_AddElement
    <2>6. RegTypes'
      <3>1. scount' \in [hit : Nat, miss : Nat, check : Nat]
        BY <1>2, <2>1
      <3> QED BY <1>1, <1>2, <2>1, <2>3, <3>1 DEF RegTypes
    <2>8. AsksCounted'
      <3>1. scount'.hit + scount'.miss = scount.hit + scount.miss /\ scount'.check = scount.check + 1
            /\ scount.hit + scount.miss \in Nat
        BY <1>2, <2>1
      <3>2. Cardinality(InPattern)' = Cardinality(InPattern) + 1
        BY <2>5
      <3> QED BY <1>1, <1>2, <1>3, <2>1, <3>1, <3>2 DEF AsksCounted
    <2>7. CertainStays' /\ AnswersRight'
      BY <1>1, <1>2, <2>1, <2>2, <2>3 DEF CertainStays, Certain, AnswersRight
    <2> QED BY <1>4, <2>6, <2>7, <2>8 DEF RegInv
  <1> QED BY <1>5, <1>6, <1>7

LEMMA RegAskPattern == ASSUME RegInv, NEW t \in SCallers, AskPattern(t) PROVE RegInv'
  <1>. DEFINE n == ask[t].name
              hit == n \in CommonNames \/ \E i \in DOMAIN spats : n \in spats[i]
  <1>1. ask[t].at = "pattern" /\ snames' = snames /\ spats' = spats /\ sids' = sids /\ blanks' = blanks /\ resets' = resets
    BY DEF AskPattern
  <1>0. /\ scount' = IF hit THEN [scount EXCEPT !.hit = @ + 1] ELSE [scount EXCEPT !.miss = @ + 1]
        /\ answers' = answers \union {[name |-> n, says |-> Verdict(n), sure |-> ask[t].sure]}
        /\ ask' = [ask EXCEPT ![t] = NotAsking]
    BY DEF AskPattern
  <1>2. /\ RegTypes /\ CertainStays /\ AnswersRight /\ IdsHaveNames /\ AsksCounted
        /\ spats \in Seq(Patterns) /\ ask \in [SCallers -> AskRecord] /\ blanks \in Nat /\ resets \in Nat
        /\ scount \in [hit : Nat, miss : Nat, check : Nat]
    BY DEF RegInv, RegTypes
  <1>3. ask[t].sure => Verdict(n)
    BY <1>1, <1>2 DEF CertainStays, Certain, Verdict
  <1>4. IsFiniteSet(InPattern) /\ Cardinality(InPattern) \in Nat
    BY AsksFinite
  <1>. HIDE DEF n, hit
  <1>5. NotAsking \in AskRecord /\ NotAsking.at = "idle"
    BY DEF NotAsking, AskRecord, AskNames
  <1>6. ask' \in [SCallers -> AskRecord] /\ ask'[t].at = "idle" /\ \A u \in SCallers : u # t => ask'[u] = ask[u]
    BY <1>0, <1>1, <1>2, <1>5
  <1>7. InPattern' = InPattern \ {t} /\ t \in InPattern
    BY <1>1, <1>6 DEF InPattern
  <1>8. Cardinality(InPattern') = Cardinality(InPattern) - 1
    BY <1>4, <1>7, FS_RemoveElement
  <1>9. /\ scount' \in [hit : Nat, miss : Nat, check : Nat] /\ scount'.check = scount.check
        /\ scount'.hit + scount'.miss = scount.hit + scount.miss + 1
    <2>1. CASE hit
      <3>1. scount' = [hit |-> scount.hit + 1, miss |-> scount.miss, check |-> scount.check]
        BY <1>0, <1>2, <2>1
      <3> QED BY <1>2, <3>1
    <2>2. CASE ~hit
      <3>1. scount' = [hit |-> scount.hit, miss |-> scount.miss + 1, check |-> scount.check]
        BY <1>0, <1>2, <2>2
      <3> QED BY <1>2, <3>1
    <2> QED BY <2>1, <2>2
  <1>10. RegTypes' /\ IdsHaveNames'
    BY <1>1, <1>2, <1>6, <1>9 DEF RegTypes, IdsHaveNames
  <1>11. AsksCounted'
    <2>1. InPattern' = InPattern \ {t} /\ Cardinality(InPattern)' = Cardinality(InPattern) - 1
      BY <1>7, <1>8
    <2>2. scount.hit + scount.miss \in Nat /\ scount.check \in Nat
      BY <1>2
    <2> QED BY SMTT(30), <1>1, <1>2, <1>4, <1>9, <2>1, <2>2 DEF AsksCounted
  <1>12. AnswersRight'
    BY <1>0, <1>2, <1>3 DEF AnswersRight
  <1>13. CertainStays'
    BY <1>1, <1>2, <1>6 DEF CertainStays, Certain
  <1> QED BY <1>10, <1>11, <1>12, <1>13 DEF RegInv

LEMMA RegRegisters ==
  ASSUME RegInv, (\E f \in FieldNames : RegisterName(f)) \/ (\E p \in Patterns : RegisterPattern(p)) PROVE RegInv'
  <1>1. CASE \E f \in FieldNames : RegisterName(f)
    BY <1>1 DEF RegisterName, RegInv, RegTypes, CertainStays, Certain, AnswersRight, IdsHaveNames, AsksCounted, InPattern
  <1>2. CASE \E p \in Patterns : RegisterPattern(p)
    <2>1. PICK p \in Patterns : spats' = Append(spats, p) /\ UNCHANGED <<snames, sids, scount, ask, answers, blanks, resets>>
      BY <1>2 DEF RegisterPattern
    <2>2. spats \in Seq(Patterns)
      BY DEF RegInv, RegTypes
    <2>3. spats' \in Seq(Patterns) /\ Len(spats') = Len(spats) + 1 /\ \A i \in 1 .. Len(spats) : spats'[i] = spats[i]
      BY <2>1, <2>2, AppendProperties
    <2>4. \A n : Certain(n) => Certain(n)'
      <3>1. Len(spats) \in Nat
        BY <2>2
      <3>2. \A i \in 1 .. Len(spats) : i \in 1 .. Len(spats')
        BY <3>1, <2>3
      <3> QED BY <3>2, <2>3 DEF Certain
    <2>5. CertainStays'
      BY <2>1, <2>4 DEF RegInv, CertainStays
    <2> QED BY <2>1, <2>3, <2>5 DEF RegInv, RegTypes, AnswersRight, IdsHaveNames, AsksCounted, InPattern
  <1> QED BY <1>1, <1>2

LEMMA RegResets == ASSUME RegInv, RegReset PROVE RegInv'
  <1>1. /\ sids' = {} /\ spats' = <<>> /\ scount' = [hit |-> 0, miss |-> 0, check |-> 0]
        /\ ask' = [t \in SCallers |-> [ask[t] EXCEPT !.sure = @ /\ ask[t].name \in CommonNames]]
        /\ resets' = resets + 1 /\ UNCHANGED <<answers, blanks>>
    BY DEF RegReset
  <1>2. resets \in Nat /\ ask \in [SCallers -> AskRecord] /\ blanks \in Nat
    BY DEF RegInv, RegTypes
  <1>3. ASSUME NEW t \in SCallers
        PROVE ask'[t] \in AskRecord /\ (ask'[t].sure => ask'[t].name \in CommonNames)
    <2>. DEFINE s == ask[t].sure /\ ask[t].name \in CommonNames
    <2>1. ask'[t] = [ask[t] EXCEPT !.sure = s]
      BY <1>1, <1>2 DEF AskRecord
    <2>2. ask[t] \in AskRecord
      BY <1>2
    <2>3. s \in BOOLEAN /\ (s => ask[t].name \in CommonNames)
      OBVIOUS
    <2>. HIDE DEF s
    <2>4. ask'[t] = [at |-> ask[t].at, name |-> ask[t].name, sure |-> s]
      BY <2>1, <2>2 DEF AskRecord
    <2> QED BY <2>2, <2>3, <2>4 DEF AskRecord
  <1>4. ask' \in [SCallers -> AskRecord]
    <2>1. DOMAIN ask' = SCallers /\ ask' = [t \in SCallers |-> ask'[t]]
      BY <1>1
    <2> QED BY <2>1, <1>3
  <1>5. RegTypes'
    BY <1>1, <1>2, <1>4 DEF RegTypes
  <1>6. CertainStays'
    BY <1>3 DEF CertainStays, Certain
  <1>7. resets' # 0
    BY <1>1, <1>2
  <1>8. AsksCounted'
    BY <1>7 DEF AsksCounted
  <1>9. AnswersRight'
    BY <1>1 DEF RegInv, AnswersRight
  <1>10. IdsHaveNames'
    BY <1>1 DEF IdsHaveNames
  <1> QED BY <1>5, <1>6, <1>8, <1>9, <1>10 DEF RegInv

LEMMA RegKeeps == RegInv /\ RegNext => RegInv'
  BY RegAskExact, RegAskPattern, RegRegisters, RegResets DEF RegNext

-----------------------------------------------------------------------------
(* The masker and its policies (pii_masker.go).                               *)

\* The masker's loop over the rules, step by step.
KeptStep(q, r, S) == IF r \in S THEN Append(q, r) ELSE q

LEMMA KeptRuns ==
  ASSUME NEW T, NEW s \in Seq(T), NEW S
  PROVE  \E g : /\ g[0] = <<>> /\ Kept(s, S) = g[Len(s)]
                /\ \A k \in 1 .. Len(s) : g[k] = KeptStep(g[k - 1], s[k], S)
  <1>. DEFINE n == Len(s)
              G == [p \in Seq(T) \X (1 .. n) |-> KeptStep(p[1], s[p[2]], S)]
  <1>0. n \in Nat /\ DOMAIN s = 1 .. n /\ (\A i \in 1 .. n : s[i] \in T) /\ <<>> \in Seq(T)
    OBVIOUS
  <1>1. \A e \in Seq(T), i \in 1 .. n : KeptStep(e, s[i], S) \in Seq(T)
    BY <1>0 DEF KeptStep
  <1>2. G \in [Seq(T) \X (1 .. n) -> Seq(T)] /\ \A e \in Seq(T), i \in 1 .. n : G[<<e, i>>] = KeptStep(e, s[i], S)
    BY <1>1
  <1>. HIDE DEF n, G
  <1>3. PICK f : FoldUpto(f, Seq(T), G, <<>>, n)
    BY <1>0, <1>2, FoldExists
  <1>4. f = [t \in SUBSET (1 .. n) |-> IF t = {} THEN <<>> ELSE KeptStep(f[t \ {Max(t)}], s[Max(t)], S)]
    <2>1. f \in [SUBSET (1 .. n) -> Seq(T)] /\ \A t \in SUBSET (1 .. n) : f[t] = FoldStep(f, G, <<>>, t)
      BY <1>3 DEF FoldUpto
    <2>2. ASSUME NEW t \in SUBSET (1 .. n), t # {}
          PROVE  f[t] = KeptStep(f[t \ {Max(t)}], s[Max(t)], S)
      <3>1. Max(t) \in 1 .. n
        BY <1>0, <2>2, Largest
      <3>2. f[t \ {Max(t)}] \in Seq(T)
        BY <2>1
      <3> QED BY <2>1, <2>2, <3>1, <3>2, <1>2 DEF FoldStep
    <2>3. f[{}] = <<>>
      BY <2>1 DEF FoldStep
    <2> QED BY <2>1, <2>2, <2>3
  <1>. DEFINE iter == CHOOSE h : h = [t \in SUBSET (1 .. n) |-> IF t = {} THEN <<>> ELSE KeptStep(h[t \ {Max(t)}], s[Max(t)], S)]
  <1>5. iter = [t \in SUBSET (1 .. n) |-> IF t = {} THEN <<>> ELSE KeptStep(iter[t \ {Max(t)}], s[Max(t)], S)]
    BY <1>4
  <1>6. Kept(s, S) = iter[1 .. n]
    BY <1>0 DEF Kept, FoldLeft, MapThenFoldSet, KeptStep
  <1>. HIDE DEF iter
  <1>. DEFINE g == [k \in 0 .. n |-> iter[1 .. k]]
  <1>7. g[0] = <<>>
    <2>1. 1 .. 0 = {} /\ {} \in SUBSET (1 .. n) /\ 0 \in 0 .. n
      BY <1>0
    <2>2. iter[{}] = <<>>
      BY <1>5, <2>1
    <2> QED BY <2>1, <2>2
  <1>8. g[n] = Kept(s, S)
    BY <1>0, <1>6
  <1>9. ASSUME NEW k \in 1 .. n PROVE g[k] = KeptStep(g[k - 1], s[k], S)
    <2>1. Max(1 .. k) = k /\ (1 .. k) \ {Max(1 .. k)} = 1 .. k - 1
      <3>1. k \in Nat \ {0}
        BY <1>0
      <3> QED BY <3>1, LargestOfAll
    <2>2. 1 .. k \in SUBSET (1 .. n) /\ 1 .. k # {}
      <3>1. n \in Nat
        BY <1>0
      <3>2. 1 \in 1 .. k /\ \A x \in 1 .. k : x \in 1 .. n
        BY <3>1
      <3> QED BY <3>2
    <2>3. iter[1 .. k] = KeptStep(iter[1 .. k - 1], s[k], S)
      BY <1>5, <2>1, <2>2
    <2> QED BY <2>3, <1>0
  <1> QED BY <1>7, <1>8, <1>9 DEF n

\* q has the elements of s that are in S, each in a place of its own.
KeptIs(q, s, k, S) ==
    \E f \in [1 .. Len(q) -> 1 .. k] :
       /\ \A i, j \in 1 .. Len(q) : i < j => f[i] < f[j]
       /\ \A i \in 1 .. Len(q) : q[i] = s[f[i]] /\ q[i] \in S
       /\ \A i \in 1 .. k : s[i] \in S => \E j \in 1 .. Len(q) : f[j] = i

LEMMA KeepsMore ==
  ASSUME NEW T, NEW s \in Seq(T), NEW S, NEW k \in Nat, k + 1 <= Len(s), NEW q \in Seq(T), KeptIs(q, s, k, S)
  PROVE  KeptStep(q, s[k + 1], S) \in Seq(T) /\ KeptIs(KeptStep(q, s[k + 1], S), s, k + 1, S)
  <1>1. PICK f \in [1 .. Len(q) -> 1 .. k] :
          /\ \A i, j \in 1 .. Len(q) : i < j => f[i] < f[j]
          /\ \A i \in 1 .. Len(q) : q[i] = s[f[i]] /\ q[i] \in S
          /\ \A i \in 1 .. k : s[i] \in S => \E j \in 1 .. Len(q) : f[j] = i
    BY DEF KeptIs
  <1>2. /\ k + 1 \in 1 .. k + 1 /\ s[k + 1] \in T /\ Len(q) \in Nat
        /\ \A i \in 1 .. k + 1 : i \in 1 .. k \/ i = k + 1
        /\ \A i \in 1 .. k : i \in 1 .. k + 1 /\ i < k + 1
    OBVIOUS
  <1>3. CASE s[k + 1] \notin S
    <2>1. f \in [1 .. Len(q) -> 1 .. k + 1]
      BY <1>2
    <2>2. \A i \in 1 .. k + 1 : s[i] \in S => \E j \in 1 .. Len(q) : f[j] = i
      BY <1>1, <1>2, <1>3
    <2> QED BY ZenonT(60), <1>1, <1>3, <2>1, <2>2 DEF KeptIs, KeptStep
  <1>4. CASE s[k + 1] \in S
    <2>. DEFINE m == Len(q)
                p == Append(q, s[k + 1])
                h == [i \in 1 .. m + 1 |-> IF i = m + 1 THEN k + 1 ELSE f[i]]
    <2>1. p \in Seq(T) /\ Len(p) = m + 1 /\ p[m + 1] = s[k + 1] /\ \A i \in 1 .. m : p[i] = q[i]
      BY <1>2, AppendProperties
    <2>2. m \in Nat /\ \A i \in 1 .. m + 1 : i \in 1 .. m \/ i = m + 1
      OBVIOUS
    <2>2a. \A i \in 1 .. m : i \in 1 .. m + 1 /\ i # m + 1 /\ i < m + 1 /\ f[i] \in 1 .. k
      BY <1>1
    <2>2b. m + 1 \in 1 .. m + 1
      BY <2>2
    <2>. HIDE DEF m, p
    <2>3. h \in [1 .. m + 1 -> 1 .. k + 1] /\ h[m + 1] = k + 1 /\ \A i \in 1 .. m : h[i] = f[i]
      BY <2>2, <2>2a, <2>2b, <1>2
    <2>. HIDE DEF h
    <2>4. ASSUME NEW i \in 1 .. m + 1, NEW j \in 1 .. m + 1, i < j PROVE h[i] < h[j]
      <3>1. i \in 1 .. m
        BY <2>2, <2>4
      <3>2. CASE j = m + 1
        BY <3>1, <3>2, <2>3, <2>2a, <1>2
      <3>3. CASE j \in 1 .. m
        BY <3>1, <3>3, <2>3, <1>1, <2>4 DEF m
      <3> QED BY <2>2, <3>2, <3>3
    <2>5. \A i \in 1 .. m + 1 : p[i] = s[h[i]] /\ p[i] \in S
      BY <2>1, <2>2, <2>3, <1>1, <1>4 DEF m
    <2>6. ASSUME NEW i \in 1 .. k + 1, s[i] \in S PROVE \E j \in 1 .. m + 1 : h[j] = i
      <3>1. CASE i = k + 1
        BY <3>1, <2>2b, <2>3
      <3>2. CASE i \in 1 .. k
        <4>1. PICK j \in 1 .. m : f[j] = i
          BY <3>2, <2>6, <1>1 DEF m
        <4> QED BY <4>1, <2>2a, <2>3
      <3> QED BY <3>1, <3>2, <1>2
    <2>7. KeptIs(p, s, k + 1, S)
      <3>1. 1 .. Len(p) = 1 .. m + 1
        BY <2>1
      <3>2. /\ h \in [1 .. Len(p) -> 1 .. k + 1]
            /\ \A i, j \in 1 .. Len(p) : i < j => h[i] < h[j]
            /\ \A i \in 1 .. Len(p) : p[i] = s[h[i]] /\ p[i] \in S
            /\ \A i \in 1 .. k + 1 : s[i] \in S => \E j \in 1 .. Len(p) : h[j] = i
        BY <3>1, <2>3, <2>4, <2>5, <2>6
      <3> QED BY <3>2 DEF KeptIs
    <2> QED BY <1>4, <2>1, <2>7 DEF KeptStep, p
  <1> QED BY <1>3, <1>4

LEMMA KeptKeeps ==
  ASSUME NEW T, NEW s \in Seq(T), NEW S
  PROVE  Kept(s, S) \in Seq(T) /\ KeptIs(Kept(s, S), s, Len(s), S)
  <1>. DEFINE n == Len(s)
  <1>0. n \in Nat
    OBVIOUS
  <1>1. PICK g : /\ g[0] = <<>> /\ Kept(s, S) = g[n]
                 /\ \A k \in 1 .. n : g[k] = KeptStep(g[k - 1], s[k], S)
    BY KeptRuns
  <1>. DEFINE OK(k) == g[k] \in Seq(T) /\ KeptIs(g[k], s, k, S)
              N == {k \in Nat : k <= n => OK(k)}
  <1>2. 0 \in N
    <2>1. <<>> \in Seq(T) /\ Len(<<>>) = 0 /\ 1 .. 0 = {}
      OBVIOUS
    <2>2. <<>> \in [1 .. Len(<<>>) -> 1 .. 0]
      BY <2>1
    <2>3. KeptIs(<<>>, s, 0, S)
      BY <2>1, <2>2 DEF KeptIs
    <2> QED BY <2>1, <2>3, <1>1
  <1>3. ASSUME NEW k \in Nat, k \in N PROVE k + 1 \in N
    <2>. SUFFICES ASSUME k + 1 <= n PROVE OK(k + 1)
      OBVIOUS
    <2>1. k + 1 \in 1 .. n /\ (k + 1) - 1 = k /\ k <= n
      BY <1>0
    <2>2. g[k + 1] = KeptStep(g[k], s[k + 1], S)
      BY <1>1, <2>1
    <2>3. OK(k)
      BY <1>3, <2>1
    <2> QED BY <2>2, <2>3, KeepsMore
  <1>4. N = Nat
    <2>1. N \in SUBSET Nat
      OBVIOUS
    <2>. HIDE DEF N
    <2> QED BY <1>2, <1>3, <2>1, Ind
  <1>5. OK(n)
    <2>. HIDE DEF OK
    <2> QED BY <1>0, <1>4
  <1> QED BY <1>1, <1>5

-----------------------------------------------------------------------------
\* Of the rules, those of a name: one with the pattern the name has, or none.
OwnedIn(rules, policies, n) ==
    LET owned == {i \in DOMAIN rules : rules[i].name = n}
    IN  IF n \in DOMAIN policies THEN \E i \in owned : owned = {i} /\ rules[i].pattern = policies[n]
        ELSE owned = {}

\* The rules that can be stored.
Storable == {Stored(r, n) : r \in MRules \union ToSet(BuiltIn), n \in PolicyNames \union {Unnamed}}

MaskerOK(m) == /\ mk[m].rules \in Seq(Storable) /\ mk[m].snap = Compile(mk[m].rules)
               /\ \A n \in PolicyNames : OwnedIn(mk[m].rules, mk[m].names, n)
\* Who is in Apply has masked the parts by the snapshot it loaded, which was current.
ApplyingOK(t) ==
    /\ ma[t] = [masker |-> ma[t].masker, snap |-> ma[t].snap, done |-> ma[t].done]
    /\ ma[t].masker # NoMasker => ma[t].snap \in since[t]
    /\ ma[t].done \in Seq({MaskPart(EntryParts[i], ma[t].snap) : i \in DOMAIN EntryParts})
    /\ Len(ma[t].done) <= Len(EntryParts)
    /\ \A i \in 1 .. Len(ma[t].done) : ma[t].done[i] = MaskPart(EntryParts[i], ma[t].snap)
ByOnePolicy(a) == \E s \in a.policies : a.parts = [i \in DOMAIN EntryParts |-> MaskPart(EntryParts[i], s)]
MaskInv ==
    /\ mk = [m \in Maskers |-> mk[m]] /\ ma = [t \in MCallers |-> ma[t]] /\ since = [t \in MCallers |-> since[t]]
    /\ \A m \in Maskers : MaskerOK(m)
    /\ \A t \in MCallers : ApplyingOK(t)
    /\ \A a \in masked : ByOnePolicy(a)

LEMMA MaskMeans == MaskInv => OnePolicy
  BY DEF MaskInv, OnePolicy, MaskerOK, ByOnePolicy, OwnedIn

\* What is kept of the rules has the rules of the policies that are kept.
LEMMA OwnedKept ==
  ASSUME NEW q \in Seq(Storable), NEW S, NEW policies, NEW n, OwnedIn(q, policies, n),
         \A i \in 1 .. Len(q) : q[i].name = n => q[i] \in S
  PROVE  OwnedIn(Kept(q, S), policies, n)
  <1>. DEFINE p == Kept(q, S)
  <1>1. p \in Seq(Storable) /\ KeptIs(p, q, Len(q), S)
    BY KeptKeeps
  <1>2. PICK f \in [1 .. Len(p) -> 1 .. Len(q)] :
          /\ \A i, j \in 1 .. Len(p) : i < j => f[i] < f[j]
          /\ \A i \in 1 .. Len(p) : p[i] = q[f[i]] /\ p[i] \in S
          /\ \A i \in 1 .. Len(q) : q[i] \in S => \E j \in 1 .. Len(p) : f[j] = i
    BY <1>1 DEF KeptIs
  <1>. HIDE DEF p
  <1>3. DOMAIN p = 1 .. Len(p) /\ DOMAIN q = 1 .. Len(q) /\ Len(p) \in Nat /\ Len(q) \in Nat
    BY <1>1
  <1>4. CASE n \notin DOMAIN policies
    <2>1. \A i \in 1 .. Len(q) : q[i].name # n
      BY <1>3, <1>4 DEF OwnedIn
    <2>2. \A i \in 1 .. Len(p) : p[i].name # n
      BY <2>1, <1>2
    <2> QED BY <2>2, <1>3, <1>4 DEF OwnedIn, p
  <1>5. CASE n \in DOMAIN policies
    <2>1. PICK i \in 1 .. Len(q) : q[i].name = n /\ q[i].pattern = policies[n] /\ \A j \in 1 .. Len(q) : q[j].name = n => j = i
      BY <1>3, <1>5 DEF OwnedIn
    <2>2. PICK k \in 1 .. Len(p) : f[k] = i
      BY <2>1, <1>2
    <2>3. p[k].name = n /\ p[k].pattern = policies[n]
      BY <2>1, <2>2, <1>2
    <2>4. ASSUME NEW j \in 1 .. Len(p), p[j].name = n PROVE j = k
      <3>1. f[j] = f[k]
        BY <2>1, <2>2, <2>4, <1>2
      <3>2. f[j] \in Int /\ f[k] \in Int /\ j \in Int /\ k \in Int
        BY <1>2
      <3>3. ~(j < k) /\ ~(k < j)
        BY <3>1, <3>2, <1>2
      <3> QED BY <3>2, <3>3
    <2> QED BY <2>3, <2>4, <1>3, <1>5 DEF OwnedIn, p
  <1> QED BY <1>4, <1>5

\* Nothing is left of a name whose rules are not kept.
LEMMA OwnedGone ==
  ASSUME NEW q \in Seq(Storable), NEW S, NEW policies, NEW n, n \notin DOMAIN policies,
         \A i \in 1 .. Len(q) : q[i].name = n => q[i] \notin S
  PROVE  OwnedIn(Kept(q, S), policies, n)
  <1>. DEFINE p == Kept(q, S)
  <1>1. p \in Seq(Storable) /\ KeptIs(p, q, Len(q), S)
    BY KeptKeeps
  <1>2. PICK f \in [1 .. Len(p) -> 1 .. Len(q)] :
          /\ \A i, j \in 1 .. Len(p) : i < j => f[i] < f[j]
          /\ \A i \in 1 .. Len(p) : p[i] = q[f[i]] /\ p[i] \in S
          /\ \A i \in 1 .. Len(q) : q[i] \in S => \E j \in 1 .. Len(p) : f[j] = i
    BY <1>1 DEF KeptIs
  <1>. HIDE DEF p
  <1>3. DOMAIN p = 1 .. Len(p)
    BY <1>1
  <1>4. \A i \in 1 .. Len(p) : p[i].name # n
    BY <1>2
  <1> QED BY <1>3, <1>4 DEF OwnedIn, p

-----------------------------------------------------------------------------
\* Who is in Apply is not disturbed as long as its snapshots stay.
LEMMA ApplyingStays ==
  ASSUME NEW t \in MCallers, ApplyingOK(t), ma'[t] = ma[t], since[t] \subseteq since'[t], mreg' = mreg
  PROVE  ApplyingOK(t)'
  <1>. DEFINE V == {MaskPart(EntryParts[i], ma[t].snap) : i \in DOMAIN EntryParts}
              W == [i \in DOMAIN EntryParts |-> MaskPart(EntryParts[i], ma[t].snap)]
              d == ma[t].done
  <1>1. /\ d \in Seq(V) /\ Len(d) <= Len(EntryParts)
        /\ \A i \in 1 .. Len(d) : d[i] = MaskPart(EntryParts[i], ma[t].snap)
    BY DEF ApplyingOK
  <1>2. \A i \in 1 .. Len(d) : i \in DOMAIN EntryParts /\ d[i] = W[i]
    <2>1. DOMAIN EntryParts = 1 .. Len(EntryParts) /\ Len(EntryParts) \in Nat /\ Len(d) \in Nat
      BY <1>1, PoliciesAssumption
    <2>2. \A i \in 1 .. Len(d) : i \in DOMAIN EntryParts
      BY <2>1, <1>1
    <2> QED BY <1>1, <2>2
  <1>3. /\ {MaskPart(EntryParts[i], ma[t].snap)' : i \in DOMAIN EntryParts} = V
        /\ \A i \in DOMAIN EntryParts : MaskPart(EntryParts[i], ma[t].snap)' = W[i]
    BY SMTT(30) DEF MaskPart
  <1>4. d' = d /\ ma'[t].snap = ma[t].snap /\ ma'[t].masker = ma[t].masker
    OBVIOUS
  <1>. HIDE DEF V, W, d
  <1>5. ma'[t] = [masker |-> ma'[t].masker, snap |-> ma'[t].snap, done |-> ma'[t].done]
        /\ (ma'[t].masker # NoMasker => ma'[t].snap \in since'[t])
    BY DEF ApplyingOK
  <1>6. d' \in Seq({MaskPart(EntryParts[i], ma[t].snap)' : i \in DOMAIN EntryParts})
    <2>1. ASSUME NEW U, U = V PROVE d' \in Seq(U)
      BY <1>1, <1>4, <2>1
    <2> QED BY <2>1, <1>3
  <1>7. \A i \in 1 .. Len(d') : d'[i] = MaskPart(EntryParts[i], ma[t].snap)'
    BY <1>2, <1>3, <1>4
  <1>8. Len(d') <= Len(EntryParts)
    BY <1>1, <1>4
  <1>9. d' = ma'[t].done
    BY DEF d
  <1> QED BY <1>5, <1>6, <1>7, <1>8, <1>9 DEF ApplyingOK

LEMMA MaskedStays ==
  ASSUME NEW a, ByOnePolicy(a), mreg' = mreg
  PROVE  ByOnePolicy(a)'
  BY ZenonT(60) DEF ByOnePolicy, MaskPart

\* What is published is what is stored.
LEMMA PublishKeeps ==
  ASSUME MaskInv, NEW m \in Maskers, NEW rules \in Seq(Storable), NEW policies,
         \A n \in PolicyNames : OwnedIn(rules, policies, n), Publish(m, rules, policies)
  PROVE  MaskInv'
  <1>1. /\ mk' = [mk EXCEPT ![m] = [rules |-> rules, names |-> policies, snap |-> Compile(rules), live |-> TRUE]]
        /\ since' = [t \in MCallers |-> IF ma[t].masker = m THEN since[t] \union {Compile(rules)} ELSE since[t]]
        /\ mreg' = mreg /\ ma' = ma /\ masked' = masked
    BY DEF Publish
  <1>2. /\ mk = [x \in Maskers |-> mk[x]] /\ ma = [t \in MCallers |-> ma[t]] /\ \A x \in Maskers : MaskerOK(x)
    BY DEF MaskInv
  <1>3. /\ mk' = [x \in Maskers |-> mk'[x]] /\ \A x \in Maskers : x # m => mk'[x] = mk[x]
        /\ mk'[m].rules = rules /\ mk'[m].names = policies /\ mk'[m].snap = Compile(rules)
    BY <1>1, <1>2
  <1>4. ASSUME NEW x \in Maskers PROVE MaskerOK(x)'
    <2>1. CASE x = m
      BY <2>1, <1>3 DEF MaskerOK
    <2>2. CASE x # m
      <3>1. mk'[x] = mk[x] /\ MaskerOK(x)
        BY <2>2, <1>2, <1>3
      <3> QED BY <3>1 DEF MaskerOK
    <2> QED BY <2>1, <2>2
  <1>5. ASSUME NEW t \in MCallers PROVE ApplyingOK(t)'
    <2>1. ma'[t] = ma[t] /\ since[t] \subseteq since'[t] /\ ApplyingOK(t)
      BY <1>1 DEF MaskInv
    <2> QED BY <2>1, <1>1, ApplyingStays
  <1>6. ASSUME NEW a \in masked' PROVE ByOnePolicy(a)'
    <2>1. ByOnePolicy(a)
      BY <1>6, <1>1 DEF MaskInv
    <2> QED BY <2>1, <1>1, MaskedStays
  <1>7. ma' = [t \in MCallers |-> ma'[t]] /\ since' = [t \in MCallers |-> since'[t]]
    BY <1>1, <1>2
  <1> QED BY <1>3, <1>4, <1>5, <1>6, <1>7 DEF MaskInv

\* A rule put behind the others.
LEMMA AddRuleKeeps ==
  ASSUME MaskInv, NEW m \in Maskers, NEW r \in MRules, AddRule(m, r)
  PROVE  MaskInv'
  <1>. DEFINE q == mk[m].rules
              x == Stored(r, Unnamed)
              p == Append(q, x)
  <1>1. q \in Seq(Storable) /\ x \in Storable /\ x.name = Unnamed /\ \A n \in PolicyNames : OwnedIn(q, mk[m].names, n)
    <2>1. x \in Storable /\ x.name = Unnamed
      BY DEF Storable, Stored
    <2>2. q \in Seq(Storable) /\ \A n \in PolicyNames : OwnedIn(q, mk[m].names, n)
      BY DEF MaskInv, MaskerOK
    <2> QED BY <2>1, <2>2
  <1>2. Publish(m, p, mk[m].names)
    BY DEF AddRule
  <1>. HIDE DEF q, x
  <1>3. p \in Seq(Storable) /\ Len(p) = Len(q) + 1 /\ p[Len(q) + 1] = x /\ (\A i \in 1 .. Len(q) : p[i] = q[i])
        /\ DOMAIN q = 1 .. Len(q) /\ Len(q) \in Nat /\ DOMAIN p = 1 .. Len(q) + 1
    BY <1>1, AppendProperties
  <1>. HIDE DEF p
  <1>4. ASSUME NEW n \in PolicyNames PROVE OwnedIn(p, mk[m].names, n)
    <2>1. \A i \in 1 .. Len(q) + 1 : i \in 1 .. Len(q) \/ i = Len(q) + 1
      BY <1>3
    <2>2. n # Unnamed
      BY PoliciesAssumption
    <2>3. {i \in DOMAIN p : p[i].name = n} = {i \in DOMAIN q : q[i].name = n}
      BY <1>1, <1>3, <2>1, <2>2
    <2>4. \A i \in DOMAIN q : p[i] = q[i]
      BY <1>3
    <2>5. OwnedIn(q, mk[m].names, n)
      BY <1>1
    <2> QED BY <2>3, <2>4, <2>5 DEF OwnedIn
  <1> QED BY <1>2, <1>3, <1>4, PublishKeeps

LEMMA RemoveRuleKeeps ==
  ASSUME MaskInv, NEW m \in Maskers, NEW p, RemoveRule(m, p)
  PROVE  MaskInv'
  <1>. DEFINE q == mk[m].rules
              ns == mk[m].names
              S == {r \in ToSet(q) : r.pattern # p}
              D == {n \in DOMAIN ns : ns[n] = p}
              policies == Without(ns, D)
  <1>1. q \in Seq(Storable) /\ \A n \in PolicyNames : OwnedIn(q, ns, n)
    BY DEF MaskInv, MaskerOK
  <1>2. Publish(m, Kept(q, S), policies)
    BY DEF RemoveRule
  <1>3. /\ DOMAIN policies = DOMAIN ns \ D /\ \A n \in DOMAIN policies : policies[n] = ns[n]
    BY DEF Without
  <1>4. \A i \in 1 .. Len(q) : i \in DOMAIN q /\ (q[i] \in S <=> q[i].pattern # p)
    BY <1>1 DEF ToSet
  <1>5. \A n : n \in D <=> n \in DOMAIN ns /\ ns[n] = p
    OBVIOUS
  <1>. HIDE DEF q, ns, S, D, policies
  <1>6. ASSUME NEW n \in PolicyNames PROVE OwnedIn(Kept(q, S), policies, n)
    <2>1. OwnedIn(q, ns, n) /\ DOMAIN q = 1 .. Len(q)
      BY <1>1
    <2>2. CASE n \in DOMAIN policies
      <3>1. n \in DOMAIN ns /\ policies[n] = ns[n] /\ ns[n] # p
        BY <2>2, <1>3, <1>5
      <3>2. OwnedIn(q, policies, n)
        BY <2>1, <2>2, <3>1 DEF OwnedIn
      <3>3. \A i \in 1 .. Len(q) : q[i].name = n => q[i].pattern # p
        BY <2>1, <3>1 DEF OwnedIn
      <3> QED BY <3>2, <3>3, <1>1, <1>4, OwnedKept
    <2>3. CASE n \notin DOMAIN policies
      <3>1. \A i \in 1 .. Len(q) : q[i].name = n => q[i].pattern = p
        BY <2>1, <2>3, <1>3, <1>5 DEF OwnedIn
      <3> QED BY <3>1, <2>3, <1>1, <1>4, OwnedGone
    <2> QED BY <2>2, <2>3
  <1>7. Kept(q, S) \in Seq(Storable)
    BY <1>1, KeptKeeps
  <1> QED BY <1>2, <1>6, <1>7, PublishKeeps

\* Without the rules of n, the other policies have theirs and n has none.
LEMMA NotNamedOwned ==
  ASSUME NEW m \in Maskers, MaskerOK(m), NEW n, NEW policies,
         n \notin DOMAIN policies, \A x \in PolicyNames : x # n => (x \in DOMAIN policies <=> x \in DOMAIN mk[m].names),
         \A x \in DOMAIN policies : policies[x] = mk[m].names[x]
  PROVE  /\ NotNamed(mk[m].rules, n) \in Seq(Storable)
         /\ \A x \in PolicyNames : OwnedIn(NotNamed(mk[m].rules, n), policies, x)
  <1>. DEFINE q == mk[m].rules
              S == {r \in ToSet(q) : r.name # n}
  <1>1. q \in Seq(Storable) /\ \A x \in PolicyNames : OwnedIn(q, mk[m].names, x)
    BY DEF MaskerOK
  <1>2. NotNamed(q, n) = Kept(q, S)
    BY DEF NotNamed
  <1>3. \A i \in 1 .. Len(q) : q[i] \in S <=> q[i].name # n
    BY <1>1 DEF ToSet
  <1>. HIDE DEF q, S
  <1>4. ASSUME NEW x \in PolicyNames PROVE OwnedIn(Kept(q, S), policies, x)
    <2>1. CASE x = n
      BY <2>1, <1>1, <1>3, OwnedGone
    <2>2. CASE x # n
      <3>1. OwnedIn(q, mk[m].names, x)
        BY <1>1
      <3>2. OwnedIn(q, policies, x)
        BY <2>2, <3>1 DEF OwnedIn
      <3> QED BY <3>2, <2>2, <1>1, <1>3, OwnedKept
    <2> QED BY <2>1, <2>2
  <1>5. Kept(q, S) \in Seq(Storable)
    BY <1>1, KeptKeeps
  <1> QED BY <1>2, <1>4, <1>5 DEF q

\* A rule of a name in front of rules that are not the name's.
LEMMA OwnedInFront ==
  ASSUME NEW q \in Seq(Storable), NEW y \in Storable, NEW n, y.name = n, NEW policies, NEW ns,
         n \notin DOMAIN ns, DOMAIN policies = DOMAIN ns \union {n}, policies[n] = y.pattern,
         \A x \in DOMAIN ns : policies[x] = ns[x],
         \A x \in PolicyNames : OwnedIn(q, ns, x), n \in PolicyNames
  PROVE  <<y>> \o q \in Seq(Storable) /\ \A x \in PolicyNames : OwnedIn(<<y>> \o q, policies, x)
  <1>. DEFINE p == <<y>> \o q
  <1>1. /\ p \in Seq(Storable) /\ Len(p) = Len(q) + 1 /\ p[1] = y /\ Len(q) \in Nat
        /\ \A i \in 1 .. Len(q) : p[i + 1] = q[i]
    BY ConcatProperties
  <1>2. DOMAIN p = 1 .. Len(q) + 1 /\ DOMAIN q = 1 .. Len(q)
    BY <1>1
  <1>3. /\ 1 \in 1 .. Len(q) + 1
        /\ \A i \in 1 .. Len(q) + 1 : i = 1 \/ (\E j \in 1 .. Len(q) : i = j + 1)
        /\ \A j \in 1 .. Len(q) : j + 1 \in 1 .. Len(q) + 1 /\ j \in Nat
    <2>1. ASSUME NEW i \in 1 .. Len(q) + 1, i # 1 PROVE i - 1 \in 1 .. Len(q) /\ i = (i - 1) + 1
      BY <2>1, <1>1
    <2>2. 1 \in 1 .. Len(q) + 1 /\ \A j \in 1 .. Len(q) : j + 1 \in 1 .. Len(q) + 1 /\ j \in Nat
      BY <1>1
    <2> QED BY <2>1, <2>2
  <1>. HIDE DEF p
  <1>4. ASSUME NEW x \in PolicyNames PROVE OwnedIn(p, policies, x)
    <2>1. OwnedIn(q, ns, x)
      OBVIOUS
    <2>2. CASE x = n
      <3>1. \A j \in 1 .. Len(q) : q[j].name # n
        BY <2>1, <2>2, <1>2 DEF OwnedIn
      <3>2. {i \in DOMAIN p : p[i].name = n} = {1}
        BY <3>1, <1>1, <1>2, <1>3
      <3> QED BY <2>2, <3>2, <1>1 DEF OwnedIn
    <2>3. CASE x # n /\ x \in DOMAIN ns
      <3>1. PICK j \in 1 .. Len(q) : q[j].name = x /\ q[j].pattern = ns[x] /\ \A k \in 1 .. Len(q) : q[k].name = x => k = j
        BY <2>1, <2>3, <1>2 DEF OwnedIn
      <3>2. p[j + 1].name = x /\ p[j + 1].pattern = policies[x] /\ j + 1 \in DOMAIN p
        BY <3>1, <1>1, <1>2, <1>3, <2>3
      <3>3. \A i \in DOMAIN p : p[i].name = x => i = j + 1
        BY <3>1, <1>1, <1>2, <1>3, <2>3
      <3> QED BY <3>2, <3>3, <2>3 DEF OwnedIn
    <2>4. CASE x # n /\ x \notin DOMAIN ns
      <3>1. \A j \in 1 .. Len(q) : q[j].name # x
        BY <2>1, <2>4, <1>2 DEF OwnedIn
      <3>2. {i \in DOMAIN p : p[i].name = x} = {}
        BY <3>1, <1>1, <1>2, <1>3, <2>4
      <3> QED BY <3>2, <2>4 DEF OwnedIn
    <2> QED BY <2>2, <2>3, <2>4
  <1> QED BY <1>1, <1>4 DEF p

LEMMA AddPatternKeeps ==
  ASSUME MaskInv, NEW m \in Maskers, NEW n \in PolicyNames, NEW r \in MRules, AddPattern(m, n, r)
  PROVE  MaskInv'
  <1>. DEFINE y == Stored(r, n)
              ns == Without(mk[m].names, {n})
              policies == WithBinding(mk[m].names, n, r.pattern)
              q == NotNamed(mk[m].rules, n)
  <1>1. y \in Storable /\ y.name = n /\ y.pattern = r.pattern
    BY DEF Storable, Stored
  <1>2. /\ n \notin DOMAIN ns /\ DOMAIN policies = DOMAIN ns \union {n} /\ policies[n] = r.pattern
        /\ \A x \in DOMAIN ns : policies[x] = ns[x] /\ ns[x] = mk[m].names[x]
        /\ \A x : x # n => (x \in DOMAIN ns <=> x \in DOMAIN mk[m].names)
    BY DEF Without, WithBinding
  <1>3. MaskerOK(m) /\ Publish(m, <<y>> \o q, policies)
    BY DEF MaskInv, AddPattern
  <1>. HIDE DEF y, ns, policies
  <1>4. q \in Seq(Storable) /\ \A x \in PolicyNames : OwnedIn(q, ns, x)
    BY <1>2, <1>3, NotNamedOwned
  <1>. HIDE DEF q
  <1>5. <<y>> \o q \in Seq(Storable) /\ \A x \in PolicyNames : OwnedIn(<<y>> \o q, policies, x)
    BY <1>1, <1>2, <1>4, OwnedInFront
  <1> QED BY <1>3, <1>5, PublishKeeps

LEMMA RemovePatternKeeps ==
  ASSUME MaskInv, NEW m \in Maskers, NEW n \in PolicyNames, RemovePattern(m, n)
  PROVE  MaskInv'
  <1>. DEFINE ns == Without(mk[m].names, {n})
              q == NotNamed(mk[m].rules, n)
  <1>2. /\ n \notin DOMAIN ns /\ \A x \in DOMAIN ns : ns[x] = mk[m].names[x]
        /\ \A x : x # n => (x \in DOMAIN ns <=> x \in DOMAIN mk[m].names)
    BY DEF Without
  <1>3. MaskerOK(m) /\ Publish(m, q, ns)
    BY DEF MaskInv, RemovePattern
  <1>. HIDE DEF ns
  <1>4. q \in Seq(Storable) /\ \A x \in PolicyNames : OwnedIn(q, ns, x)
    BY <1>2, <1>3, NotNamedOwned
  <1> QED BY <1>3, <1>4, PublishKeeps

LEMMA CloneKeeps == ASSUME MaskInv, Clone PROVE MaskInv'
  <1>1. /\ mk' = [mk EXCEPT !["clone"] = mk["original"]]
        /\ since' = since /\ mreg' = mreg /\ ma' = ma /\ masked' = masked
    BY DEF Clone
  <1>2. /\ mk = [x \in Maskers |-> mk[x]] /\ "clone" \in Maskers /\ "original" \in Maskers
        /\ \A x \in Maskers : MaskerOK(x)
    BY DEF MaskInv, Maskers
  <1>3. mk' = [x \in Maskers |-> mk'[x]] /\ \A x \in Maskers : \E y \in Maskers : mk'[x] = mk[y]
    BY <1>1, <1>2
  <1>4. ASSUME NEW x \in Maskers PROVE MaskerOK(x)'
    <2>1. PICK y \in Maskers : mk'[x] = mk[y]
      BY <1>3
    <2>2. MaskerOK(y)
      BY <1>2
    <2> QED BY <2>1, <2>2 DEF MaskerOK
  <1>5. ASSUME NEW t \in MCallers PROVE ApplyingOK(t)'
    <2>1. ma'[t] = ma[t] /\ since[t] \subseteq since'[t] /\ ApplyingOK(t)
      BY <1>1 DEF MaskInv
    <2> QED BY <2>1, <1>1, ApplyingStays
  <1>6. ASSUME NEW a \in masked' PROVE ByOnePolicy(a)'
    <2>1. ByOnePolicy(a)
      BY <1>6, <1>1 DEF MaskInv
    <2> QED BY <2>1, <1>1, MaskedStays
  <1>7. ma' = [t \in MCallers |-> ma'[t]] /\ since' = [t \in MCallers |-> since'[t]]
    BY <1>1 DEF MaskInv
  <1> QED BY <1>3, <1>4, <1>5, <1>6, <1>7 DEF MaskInv

\* A step of Apply leaves the maskers and who else is in Apply alone.
LEMMA ApplyStepKeeps ==
  ASSUME MaskInv, NEW t \in MCallers, mk' = mk, mreg' = mreg,
         ma' = [ma EXCEPT ![t] = ma'[t]], since' = [since EXCEPT ![t] = since'[t]],
         ApplyingOK(t)', \A a \in masked' : a \in masked \/ ByOnePolicy(a)
  PROVE  MaskInv'
  <1>1. ASSUME NEW x \in Maskers PROVE MaskerOK(x)'
    <2>1. MaskerOK(x)
      BY DEF MaskInv
    <2> QED BY <2>1 DEF MaskerOK
  <1>2. ASSUME NEW u \in MCallers PROVE ApplyingOK(u)'
    <2>1. CASE u # t
      <3>1. ma'[u] = ma[u] /\ since'[u] = since[u] /\ ApplyingOK(u)
        BY <2>1 DEF MaskInv
      <3> QED BY <3>1, ApplyingStays
    <2> QED BY <2>1
  <1>3. ASSUME NEW a \in masked' PROVE ByOnePolicy(a)'
    <2>1. ByOnePolicy(a)
      BY <1>3 DEF MaskInv
    <2> QED BY <2>1, MaskedStays
  <1>4. /\ mk = [x \in Maskers |-> mk[x]] /\ ma = [u \in MCallers |-> ma[u]] /\ since = [u \in MCallers |-> since[u]]
    BY DEF MaskInv
  <1>5. /\ mk' = [x \in Maskers |-> mk'[x]] /\ ma' = [u \in MCallers |-> ma'[u]] /\ since' = [u \in MCallers |-> since'[u]]
    BY <1>4
  <1> QED BY <1>1, <1>2, <1>3, <1>5 DEF MaskInv

LEMMA ApplyLoadKeeps ==
  ASSUME MaskInv, NEW t \in MCallers, NEW m \in Maskers, ApplyLoad(t, m)
  PROVE  MaskInv'
  <1>1. /\ ma' = [ma EXCEPT ![t] = [masker |-> m, snap |-> mk[m].snap, done |-> <<>>]]
        /\ since' = [since EXCEPT ![t] = {mk[m].snap}] /\ mk' = mk /\ mreg' = mreg /\ masked' = masked
    BY DEF ApplyLoad
  <1>2. ma = [u \in MCallers |-> ma[u]] /\ since = [u \in MCallers |-> since[u]]
    BY DEF MaskInv
  <1>3. /\ ma'[t] = [masker |-> m, snap |-> mk[m].snap, done |-> <<>>] /\ since'[t] = {mk[m].snap}
        /\ ma' = [ma EXCEPT ![t] = ma'[t]] /\ since' = [since EXCEPT ![t] = since'[t]]
    BY <1>1, <1>2
  <1>4. ApplyingOK(t)'
    <2>1. Len(EntryParts) \in Nat
      BY PoliciesAssumption
    <2>2. Len(<<>>) = 0 /\ 1 .. 0 = {} /\ \A S : <<>> \in Seq(S)
      OBVIOUS
    <2> QED BY <1>3, <2>1, <2>2 DEF ApplyingOK
  <1> QED BY <1>1, <1>3, <1>4, ApplyStepKeeps

LEMMA ApplyPartKeeps ==
  ASSUME MaskInv, NEW t \in MCallers, ApplyPart(t)
  PROVE  MaskInv'
  <1>. DEFINE d == ma[t].done
              s == ma[t].snap
              v == MaskPart(EntryParts[Len(d) + 1], s)
              V == {MaskPart(EntryParts[i], s) : i \in DOMAIN EntryParts}
              W == [i \in DOMAIN EntryParts |-> MaskPart(EntryParts[i], s)]
  <1>1. /\ ma[t].masker # NoMasker /\ Len(d) < Len(EntryParts)
        /\ ma' = [ma EXCEPT ![t].done = Append(d, v)]
        /\ since' = since /\ mk' = mk /\ mreg' = mreg /\ masked' = masked
    BY DEF ApplyPart
  <1>2. /\ ma = [u \in MCallers |-> ma[u]] /\ since = [u \in MCallers |-> since[u]] /\ ApplyingOK(t)
    BY DEF MaskInv
  <1>3. ma[t] = [masker |-> ma[t].masker, snap |-> s, done |-> d] /\ s \in since[t]
    BY <1>1, <1>2 DEF ApplyingOK
  <1>4. /\ ma'[t] = [masker |-> ma[t].masker, snap |-> s, done |-> Append(d, v)]
        /\ ma' = [ma EXCEPT ![t] = ma'[t]] /\ since' = [since EXCEPT ![t] = since'[t]]
    BY <1>1, <1>2, <1>3
  <1>5. /\ d \in Seq(V) /\ \A i \in 1 .. Len(d) : d[i] = W[i]
    <2>1. d \in Seq(V) /\ \A i \in 1 .. Len(d) : d[i] = MaskPart(EntryParts[i], s)
      BY <1>2 DEF ApplyingOK
    <2>2. \A i \in 1 .. Len(d) : i \in DOMAIN EntryParts
      <3>1. DOMAIN EntryParts = 1 .. Len(EntryParts) /\ Len(EntryParts) \in Nat /\ Len(d) \in Nat
        BY <2>1, PoliciesAssumption
      <3> QED BY <3>1, <1>1
    <2> QED BY <2>1, <2>2
  <1>6. Len(d) \in Nat /\ Len(d) + 1 \in DOMAIN EntryParts /\ DOMAIN EntryParts = 1 .. Len(EntryParts)
    <2>1. DOMAIN EntryParts = 1 .. Len(EntryParts) /\ Len(EntryParts) \in Nat /\ Len(d) \in Nat
      BY <1>5, PoliciesAssumption
    <2> QED BY <2>1, <1>1
  <1>7. v \in V /\ v = W[Len(d) + 1]
    BY <1>6
  <1>8. DOMAIN W = DOMAIN EntryParts /\ \A i \in DOMAIN EntryParts : W[i] = MaskPart(EntryParts[i], s)
    OBVIOUS
  <1>9. /\ {MaskPart(EntryParts[i], ma[t].snap)' : i \in DOMAIN EntryParts} = V
        /\ \A i \in DOMAIN EntryParts : MaskPart(EntryParts[i], ma[t].snap)' = W[i]
    <2>1. ma'[t].snap = ma[t].snap /\ mreg' = mreg
      BY <1>1, <1>4
    <2>2. /\ {MaskPart(EntryParts[i], ma[t].snap)' : i \in DOMAIN EntryParts} = V
          /\ \A i \in DOMAIN EntryParts : MaskPart(EntryParts[i], ma[t].snap)' = MaskPart(EntryParts[i], ma[t].snap)
      BY <2>1 DEF MaskPart
    <2> QED BY <2>2
  <1>. HIDE DEF d, s, v, V, W
  <1>10. /\ Append(d, v) \in Seq(V) /\ Len(Append(d, v)) = Len(d) + 1 /\ Append(d, v)[Len(d) + 1] = v
         /\ \A i \in 1 .. Len(d) : Append(d, v)[i] = d[i]
    BY <1>5, <1>7, AppendProperties
  <1>11. \A i \in 1 .. Len(d) + 1 : i \in DOMAIN EntryParts /\ Append(d, v)[i] = W[i]
    <2>1. \A i \in 1 .. Len(d) + 1 : i \in 1 .. Len(d) \/ i = Len(d) + 1
      BY <1>6
    <2>2. \A i \in 1 .. Len(d) + 1 : i \in DOMAIN EntryParts
      BY <1>6
    <2> QED BY <2>1, <2>2, <1>5, <1>7, <1>10
  <1>12. ApplyingOK(t)'
    <2>1. ma'[t].snap = s /\ ma'[t].done = Append(d, v) /\ ma'[t].masker = ma[t].masker
          /\ ma'[t] = [masker |-> ma'[t].masker, snap |-> ma'[t].snap, done |-> ma'[t].done]
      BY <1>4
    <2>2. ma'[t].snap \in since'[t]
      BY <2>1, <1>1, <1>3
    <2>3. Len(ma'[t].done) <= Len(EntryParts)
      BY <2>1, <1>10, <1>6
    <2>4. ma'[t].done \in Seq({MaskPart(EntryParts[i], ma[t].snap)' : i \in DOMAIN EntryParts})
      <3>1. ASSUME NEW U, U = V PROVE ma'[t].done \in Seq(U)
        BY <1>10, <2>1, <3>1
      <3> QED BY <3>1, <1>9, <2>1
    <2>5. \A i \in 1 .. Len(ma'[t].done) : ma'[t].done[i] = MaskPart(EntryParts[i], ma[t].snap)'
      BY <2>1, <1>9, <1>10, <1>11
    <2> QED BY <2>1, <2>2, <2>3, <2>4, <2>5 DEF ApplyingOK
  <1> QED BY <1>1, <1>4, <1>12, ApplyStepKeeps

LEMMA ApplyReturnKeeps ==
  ASSUME MaskInv, NEW t \in MCallers, ApplyReturn(t)
  PROVE  MaskInv'
  <1>. DEFINE a == [parts |-> ma[t].done, policies |-> since[t]]
  <1>1. /\ ma[t].masker # NoMasker /\ Len(ma[t].done) = Len(EntryParts)
        /\ ma' = [ma EXCEPT ![t] = NotApplying]
        /\ since' = [since EXCEPT ![t] = {}] /\ mk' = mk /\ mreg' = mreg /\ masked' = masked \union {a}
    BY DEF ApplyReturn
  <1>2. ma = [u \in MCallers |-> ma[u]] /\ since = [u \in MCallers |-> since[u]] /\ ApplyingOK(t)
    BY DEF MaskInv
  <1>3. /\ ma'[t] = NotApplying /\ since'[t] = {}
        /\ ma' = [ma EXCEPT ![t] = ma'[t]] /\ since' = [since EXCEPT ![t] = since'[t]]
    BY <1>1, <1>2
  <1>4. ApplyingOK(t)'
    <2>1. Len(EntryParts) \in Nat
      BY PoliciesAssumption
    <2>2. Len(<<>>) = 0 /\ 1 .. 0 = {} /\ \A S : <<>> \in Seq(S)
      OBVIOUS
    <2>3. /\ ma'[t].masker = NoMasker /\ ma'[t].done = <<>>
          /\ ma'[t] = [masker |-> ma'[t].masker, snap |-> ma'[t].snap, done |-> ma'[t].done]
      BY <1>3 DEF NotApplying
    <2> QED BY <2>1, <2>2, <2>3 DEF ApplyingOK
  <1>5. ByOnePolicy(a)
    <2>. DEFINE s == ma[t].snap
                V == {MaskPart(EntryParts[i], s) : i \in DOMAIN EntryParts}
    <2>1. /\ ma[t].done \in Seq(V) /\ s \in since[t]
          /\ \A i \in 1 .. Len(ma[t].done) : ma[t].done[i] = MaskPart(EntryParts[i], s)
      BY <1>1, <1>2 DEF ApplyingOK
    <2>. HIDE DEF V, s
    <2>2. DOMAIN EntryParts = 1 .. Len(EntryParts)
      BY PoliciesAssumption
    <2>3. ma[t].done = [i \in DOMAIN EntryParts |-> MaskPart(EntryParts[i], s)]
      <3>. DEFINE d == ma[t].done
                  W == [i \in 1 .. Len(EntryParts) |-> MaskPart(EntryParts[i], s)]
      <3>1. d = [i \in 1 .. Len(d) |-> d[i]] /\ Len(d) = Len(EntryParts)
        BY <2>1, <1>1
      <3>2. \A i \in 1 .. Len(EntryParts) : d[i] = W[i]
        BY <2>1, <3>1
      <3>. HIDE DEF d
      <3>3. d = [i \in 1 .. Len(EntryParts) |-> MaskPart(EntryParts[i], s)]
        BY <3>1, <3>2
      <3> QED BY <3>3, <2>2 DEF d
    <2>4. s \in a.policies /\ a.parts = ma[t].done
      BY <2>1
    <2> QED BY <2>3, <2>4 DEF ByOnePolicy
  <1>6. \A x \in masked' : x \in masked \/ ByOnePolicy(x)
    BY <1>1, <1>5
  <1> QED BY <1>1, <1>3, <1>4, <1>6, ApplyStepKeeps

LEMMA MaskKeeps == MaskInv /\ MaskerNext => MaskInv'
  BY AddRuleKeeps, RemoveRuleKeeps, AddPatternKeeps, RemovePatternKeeps, CloneKeeps,
     ApplyLoadKeeps, ApplyPartKeeps, ApplyReturnKeeps DEF MaskerNext

LEMMA MaskUnchanged == MaskInv /\ UNCHANGED maskVars => MaskInv'
  <1>. SUFFICES ASSUME MaskInv, UNCHANGED maskVars PROVE MaskInv'
    OBVIOUS
  <1>1. mk' = mk /\ ma' = ma /\ since' = since /\ masked' = masked /\ mreg' = mreg
    BY DEF maskVars
  <1>2. ASSUME NEW x \in Maskers PROVE MaskerOK(x)'
    <2>1. MaskerOK(x)
      BY DEF MaskInv
    <2> QED BY <1>1, <2>1 DEF MaskerOK
  <1>3. ASSUME NEW t \in MCallers PROVE ApplyingOK(t)'
    BY <1>1, ApplyingStays DEF MaskInv
  <1>4. ASSUME NEW a \in masked' PROVE ByOnePolicy(a)'
    <2>1. ByOnePolicy(a)
      BY <1>1, <1>4 DEF MaskInv
    <2> QED BY <2>1, <1>1, MaskedStays
  <1>5. mk' = [x \in Maskers |-> mk'[x]] /\ ma' = [t \in MCallers |-> ma'[t]] /\ since' = [t \in MCallers |-> since'[t]]
    BY <1>1 DEF MaskInv
  <1> QED BY <1>2, <1>3, <1>4, <1>5 DEF MaskInv

\* No name has a rule among those that have none.
LEMMA OwnedNone ==
  ASSUME NEW q \in Seq(Storable), \A i \in 1 .. Len(q) : q[i].name = Unnamed, NEW n \in PolicyNames
  PROVE  OwnedIn(q, <<>>, n)
  <1>1. DOMAIN q = 1 .. Len(q) /\ n # Unnamed /\ DOMAIN <<>> = {}
    BY PoliciesAssumption
  <1> QED BY <1>1 DEF OwnedIn

LEMMA MaskStart == MaskerInit => MaskInv
  <1>. SUFFICES ASSUME MaskerInit PROVE MaskInv
    OBVIOUS
  <1>. DEFINE rules == [i \in DOMAIN BuiltIn |-> Stored(BuiltIn[i], Unnamed)]
              first == [rules |-> rules, names |-> <<>>, snap |-> Compile(rules), live |-> TRUE]
  <1>1. rules \in Seq(Storable) /\ \A i \in 1 .. Len(rules) : rules[i].name = Unnamed
    <2>1. DOMAIN BuiltIn = 1 .. Len(BuiltIn) /\ Len(BuiltIn) \in Nat /\ \A i \in DOMAIN BuiltIn : BuiltIn[i] \in ToSet(BuiltIn)
      <3>1. BuiltIn \in Seq(ToSet(BuiltIn))
        BY PoliciesAssumption
      <3>. DEFINE T == ToSet(BuiltIn)
      <3>. HIDE DEF T
      <3> QED BY <3>1
    <2>2. \A i \in DOMAIN BuiltIn : Stored(BuiltIn[i], Unnamed) \in Storable /\ Stored(BuiltIn[i], Unnamed).name = Unnamed
      <3>1. \A i \in DOMAIN BuiltIn : Stored(BuiltIn[i], Unnamed) \in Storable
        BY <2>1 DEF Storable
      <3>2. \A i \in DOMAIN BuiltIn : Stored(BuiltIn[i], Unnamed).name = Unnamed
        BY DEF Stored
      <3> QED BY <3>1, <3>2
    <2> QED BY <2>1, <2>2
  <1>2. <<>> \in Seq(Storable) /\ Len(<<>>) = 0 /\ 1 .. 0 = {}
    OBVIOUS
  <1>3. mk = [m \in Maskers |-> IF m = "clone" THEN NoClone ELSE first]
    BY DEF MaskerInit
  <1>. HIDE DEF rules
  <1>4. ASSUME NEW m \in Maskers PROVE MaskerOK(m)
    <2>1. CASE m = "clone"
      <3>1. mk[m].rules = <<>> /\ mk[m].names = <<>> /\ mk[m].snap = Compile(<<>>)
        BY <2>1, <1>3 DEF NoClone
      <3>2. \A n \in PolicyNames : OwnedIn(<<>>, <<>>, n)
        BY <1>2, OwnedNone
      <3> QED BY <3>1, <3>2, <1>2 DEF MaskerOK
    <2>2. CASE m # "clone"
      <3>1. mk[m].rules = rules /\ mk[m].names = <<>> /\ mk[m].snap = Compile(rules)
        BY <2>2, <1>3
      <3>2. \A n \in PolicyNames : OwnedIn(rules, <<>>, n)
        BY <1>1, OwnedNone
      <3> QED BY <3>1, <3>2, <1>1 DEF MaskerOK
    <2> QED BY <2>1, <2>2
  <1>5. ASSUME NEW t \in MCallers PROVE ApplyingOK(t)
    <2>1. Len(EntryParts) \in Nat
      BY PoliciesAssumption
    <2>2. Len(<<>>) = 0 /\ 1 .. 0 = {} /\ \A S : <<>> \in Seq(S)
      OBVIOUS
    <2>3. /\ ma[t].masker = NoMasker /\ ma[t].done = <<>>
          /\ ma[t] = [masker |-> ma[t].masker, snap |-> ma[t].snap, done |-> ma[t].done]
      BY DEF MaskerInit, NotApplying
    <2> QED BY <2>1, <2>2, <2>3 DEF ApplyingOK
  <1>6. mk = [m \in Maskers |-> mk[m]] /\ ma = [t \in MCallers |-> ma[t]] /\ since = [t \in MCallers |-> since[t]] /\ masked = {}
    BY <1>3 DEF MaskerInit
  <1> QED BY <1>4, <1>5, <1>6 DEF MaskInv

-----------------------------------------------------------------------------
(* The redactor (masking/regex.go).                                           *)

\* A match and the rule that made it.
Match == [start : 0 .. TextLength, end : 0 .. TextLength, rule : 1 .. RuleCount]

LEMMA BuiltFields ==
  ASSUME NEW b, NEW o, NEW e, b = [out |-> o, end |-> e]
  PROVE  b.out = o /\ b.end = e
  OBVIOUS

LEMMA LenOfFunction ==
  ASSUME NEW S, NEW n \in Nat, NEW f \in [1 .. n -> S]
  PROVE  f \in Seq(S) /\ Len(f) = n
  OBVIOUS


LEMMA MatchFields ==
  /\ \A m \in Match : /\ m.start \in Nat /\ m.end \in Nat /\ m.start <= TextLength /\ m.end <= TextLength
                      /\ m.rule \in 1 .. RuleCount /\ m = [start |-> m.start, end |-> m.end, rule |-> m.rule]
  /\ \A a, b \in 0 .. TextLength, k \in 1 .. RuleCount : [start |-> a, end |-> b, rule |-> k] \in Match
  BY TextAssumption DEF Match

\* m put in place c of q.
PutAt(r, q, c, m) ==
    /\ Len(r) = Len(q) + 1 /\ r[c] = m
    /\ \A i \in 1 .. Len(q) : i < c => r[i] = q[i]
    /\ \A i \in 1 .. Len(q) : c <= i => r[i + 1] = q[i]

LEMMA InsertAtIs ==
  ASSUME NEW S, NEW q \in Seq(S), NEW m \in S, NEW c \in 1 .. Len(q) + 1
  PROVE  InsertAt(q, c, m) \in Seq(S) /\ PutAt(InsertAt(q, c, m), q, c, m)
  <1>. DEFINE a == SubSeq(q, 1, c - 1)
              b == SubSeq(q, c, Len(q))
              am == a \o <<m>>
              r == am \o b
  <1>1. Len(q) \in Nat /\ c \in Nat /\ c - 1 \in 0 .. Len(q)
    OBVIOUS
  <1>2. a \in Seq(S) /\ Len(a) = c - 1 /\ \A i \in 1 .. c - 1 : a[i] = q[i]
    BY <1>1, SubSeqProperties
  <1>3. b \in Seq(S) /\ Len(b) = Len(q) - c + 1 /\ \A i \in 1 .. Len(q) - c + 1 : b[i] = q[c + i - 1]
    BY <1>1, SubSeqProperties
  <1>4. InsertAt(q, c, m) = r
    BY DEF InsertAt
  <1>. HIDE DEF a, b
  <1>5. am \in Seq(S) /\ Len(am) = c /\ am[c] = m /\ \A i \in 1 .. c - 1 : am[i] = q[i]
    <2>1. am = Append(a, m)
      BY <1>2, AppendIsConcat
    <2> QED BY <2>1, <1>1, <1>2, AppendProperties
  <1>. HIDE DEF am
  <1>6. r \in Seq(S) /\ Len(r) = Len(q) + 1 /\ (\A i \in 1 .. c : r[i] = am[i])
        /\ \A i \in 1 .. Len(b) : r[c + i] = b[i]
    <2>1. r \in Seq(S) /\ Len(r) = Len(am) + Len(b)
      BY <1>3, <1>5, ConcatProperties
    <2>2. \A i \in 1 .. Len(am) + Len(b) : r[i] = IF i <= Len(am) THEN am[i] ELSE b[i - Len(am)]
      BY <1>3, <1>5, ConcatProperties
    <2>3. ASSUME NEW i \in 1 .. c PROVE r[i] = am[i]
      BY <2>2, <1>3, <1>5, <1>1
    <2>4. ASSUME NEW i \in 1 .. Len(b) PROVE r[c + i] = b[i]
      <3>. DEFINE j == c + i
      <3>1. j \in 1 .. Len(am) + Len(b) /\ ~(j <= Len(am)) /\ j - Len(am) = i
        BY <1>1, <1>3, <1>5
      <3>. HIDE DEF j
      <3>2. r[j] = b[j - Len(am)]
        BY <3>1, <2>2
      <3> QED BY <3>1, <3>2 DEF j
    <2> QED BY <2>1, <2>3, <2>4, <1>3, <1>5, <1>1
  <1>7. ASSUME NEW i \in 1 .. Len(q), c <= i PROVE r[i + 1] = q[i]
    <2>1. i - c + 1 \in 1 .. Len(b) /\ c + (i - c + 1) = i + 1 /\ c + (i - c + 1) - 1 = i
      BY <1>1, <1>3, <1>7
    <2>. DEFINE k == i - c + 1
    <2>2. k \in 1 .. Len(b) /\ k \in 1 .. Len(q) - c + 1 /\ c + k = i + 1 /\ c + k - 1 = i
      BY <2>1, <1>3
    <2>. HIDE DEF k
    <2>3. r[c + k] = b[k]
      BY <2>2, <1>6
    <2>4. b[k] = q[c + k - 1]
      BY <2>2, <1>3
    <2> QED BY <2>2, <2>3, <2>4
  <1>8. ASSUME NEW i \in 1 .. Len(q), i < c PROVE r[i] = q[i]
    <2>1. i \in 1 .. c - 1 /\ i \in 1 .. c
      BY <1>1, <1>8
    <2> QED BY <2>1, <1>5, <1>6
  <1>9. r[c] = m
    BY <1>1, <1>5, <1>6
  <1>. HIDE DEF r
  <1> QED BY <1>4, <1>6, <1>7, <1>8, <1>9 DEF PutAt

Sorted(q) == \A i, j \in 1 .. Len(q) : i < j => q[i].start <= q[j].start
Holds(q, x) == \E i \in 1 .. Len(q) : q[i] = x

\* m goes into q where it belongs.
GoesIn(r, q, m) == /\ r \in Seq(Match) /\ (Sorted(q) => Sorted(r))
                   /\ \A x : Holds(r, x) <=> Holds(q, x) \/ x = m

LEMMA InsertedIs == ASSUME NEW q \in Seq(Match), NEW m \in Match PROVE GoesIn(Inserted(q, m), q, m)
  <1>. DEFINE L == Len(q)
              J == {j \in 1 .. L : q[j].start <= m.start}
              C == {1} \union {i + 1 : i \in J}
              c == Max(C)
              r == InsertAt(q, c, m)
  <1>1. L \in Nat /\ DOMAIN q = 1 .. L /\ L + 1 \in Nat
    OBVIOUS
  <1>2. Inserted(q, m) = r
    BY <1>1 DEF Inserted
  <1>3. c \in C /\ c \in 1 .. L + 1 /\ \A y \in C : y <= c
    <2>1. C \in SUBSET (1 .. L + 1) /\ C # {}
      BY <1>1
    <2>. HIDE DEF C
    <2>2. c \in C /\ \A y \in C : y <= c
      BY <1>1, <2>1, Largest
    <2> QED BY <2>1, <2>2
  <1>4. m.start \in Nat /\ \A i \in 1 .. L : q[i].start \in Nat
    BY MatchFields
  <1>5. ASSUME NEW i \in 1 .. L, c <= i PROVE m.start < q[i].start
    <2>1. CASE q[i].start <= m.start
      <3>1. i + 1 \in C
        BY <2>1
      <3>2. i + 1 <= c
        BY <3>1, <1>3
      <3>. HIDE DEF c
      <3> QED BY <3>2, <1>1, <1>3, <1>5
    <2> QED BY <2>1, <1>4
  <1>6. c = 1 \/ (c - 1 \in 1 .. L /\ q[c - 1].start <= m.start)
    <2>1. CASE \E j \in J : c = j + 1
      <3>1. PICK j \in J : c = j + 1
        BY <2>1
      <3>2. j \in 1 .. L /\ (j + 1) - 1 = j
        OBVIOUS
      <3>. HIDE DEF c
      <3> QED BY <3>1, <3>2
    <2> QED BY <2>1, <1>3
  <1>. HIDE DEF c, C, J
  <1>7. r \in Seq(Match) /\ PutAt(r, q, c, m)
    BY <1>3, InsertAtIs
  <1>. HIDE DEF r
  <1>8. /\ Len(r) = L + 1 /\ r[c] = m
        /\ \A i \in 1 .. L : i < c => r[i] = q[i]
        /\ \A i \in 1 .. L : c <= i => r[i + 1] = q[i]
    BY <1>7 DEF PutAt
  <1>9. c \in Nat /\ \A i \in 1 .. L + 1 : \/ i < c /\ i \in 1 .. L
                                           \/ i = c
                                           \/ c < i /\ i - 1 \in 1 .. L /\ c <= i - 1 /\ (i - 1) + 1 = i
    BY <1>1, <1>3
  <1>10. ASSUME NEW i \in 1 .. L + 1
         PROVE  \/ i < c /\ i \in 1 .. L /\ r[i] = q[i]
                \/ i = c /\ r[i] = m
                \/ c < i /\ i - 1 \in 1 .. L /\ c <= i - 1 /\ r[i] = q[i - 1]
    <2>1. CASE i < c /\ i \in 1 .. L
      BY <2>1, <1>8
    <2>2. CASE i = c
      BY <2>2, <1>8
    <2>3. CASE c < i /\ i - 1 \in 1 .. L /\ c <= i - 1 /\ (i - 1) + 1 = i
      <3>1. r[(i - 1) + 1] = q[i - 1]
        BY <2>3, <1>8
      <3> QED BY <2>3, <3>1
    <2> QED BY <1>9, <2>1, <2>2, <2>3
  <1>11. ASSUME Sorted(q) PROVE Sorted(r)
    <2>1. \A i, j \in 1 .. L : i < j => q[i].start <= q[j].start
      BY <1>11 DEF Sorted
    <2>2. ASSUME NEW i \in 1 .. L, i < c PROVE q[i].start <= m.start
      <3>1. c - 1 \in 1 .. L /\ q[c - 1].start <= m.start /\ i <= c - 1
        BY <2>2, <1>6, <1>9
      <3>2. i = c - 1 \/ q[i].start <= q[c - 1].start
        BY <3>1, <2>1
      <3>3. q[c - 1].start \in Nat /\ q[i].start \in Nat
        BY <3>1, <1>4
      <3> QED BY <3>1, <3>2, <3>3, <1>4
    <2>3. ASSUME NEW i \in 1 .. L + 1, NEW j \in 1 .. L + 1, i < j PROVE r[i].start <= r[j].start
      <3>1. CASE i < c /\ i \in 1 .. L /\ r[i] = q[i]
        <4>1. CASE j < c /\ j \in 1 .. L /\ r[j] = q[j]
          BY <3>1, <4>1, <2>1, <2>3
        <4>2. CASE j = c /\ r[j] = m
          BY <3>1, <4>2, <2>2
        <4>3. CASE c < j /\ j - 1 \in 1 .. L /\ c <= j - 1 /\ r[j] = q[j - 1]
          <5>1. i < j - 1
            BY <3>1, <4>3, <1>9
          <5> QED BY <5>1, <3>1, <4>3, <2>1
        <4> QED BY <1>10, <4>1, <4>2, <4>3
      <3>2. CASE i = c /\ r[i] = m
        <4>1. c < j /\ j - 1 \in 1 .. L /\ c <= j - 1 /\ r[j] = q[j - 1]
          BY <3>2, <2>3, <1>9, <1>10
        <4>2. m.start < q[j - 1].start /\ q[j - 1].start \in Nat
          BY <4>1, <1>4, <1>5
        <4> QED BY <3>2, <4>1, <4>2, <1>4
      <3>3. CASE c < i /\ i - 1 \in 1 .. L /\ c <= i - 1 /\ r[i] = q[i - 1]
        <4>1. c < j /\ j - 1 \in 1 .. L /\ c <= j - 1 /\ r[j] = q[j - 1] /\ i - 1 < j - 1
          BY <3>3, <2>3, <1>9, <1>10
        <4> QED BY <3>3, <4>1, <2>1
      <3> QED BY <1>10, <3>1, <3>2, <3>3
    <2> QED BY <2>3, <1>8 DEF Sorted
  <1>12. ASSUME NEW x PROVE Holds(r, x) <=> Holds(q, x) \/ x = m
    <2>1. ASSUME Holds(r, x) PROVE Holds(q, x) \/ x = m
      <3>1. PICK i \in 1 .. L + 1 : r[i] = x
        BY <2>1, <1>8 DEF Holds
      <3> QED BY <3>1, <1>10 DEF Holds
    <2>2. ASSUME Holds(q, x) PROVE Holds(r, x)
      <3>1. PICK i \in 1 .. L : q[i] = x
        BY <2>2 DEF Holds
      <3>2. i \in 1 .. L + 1 /\ i + 1 \in 1 .. L + 1 /\ (i < c \/ c <= i)
        BY <1>1, <1>9
      <3>3. r[i] = x \/ r[i + 1] = x
        BY <3>1, <3>2, <1>8
      <3> QED BY <3>2, <3>3, <1>8 DEF Holds
    <2>3. Holds(r, m)
      BY <1>3, <1>8 DEF Holds
    <2> QED BY <2>1, <2>2, <2>3
  <1> QED BY <1>2, <1>7, <1>11, <1>12 DEF GoesIn

LEMMA MergeStepIn == ASSUME NEW q \in Seq(Match), NEW m \in Match PROVE MergeStep(q, m) \in Seq(Match)
  <1>1. CASE q # <<>> /\ m.start < q[Len(q)].end
    <2>. DEFINE e == q[Len(q)]
                d == [start |-> e.start, end |-> IF m.end > e.end THEN m.end ELSE e.end, rule |-> e.rule]
    <2>1. Len(q) \in 1 .. Len(q) /\ e \in Match
      BY <1>1
    <2>2. d \in Match
      BY <2>1 DEF Match
    <2>3. MergeStep(q, m) = [q EXCEPT ![Len(q)] = d]
      BY <1>1 DEF MergeStep
    <2>. HIDE DEF d
    <2> QED BY <2>1, <2>2, <2>3, ExceptSeq
  <1>2. CASE ~(q # <<>> /\ m.start < q[Len(q)].end)
    <2>1. MergeStep(q, m) = Append(q, m)
      BY <1>2 DEF MergeStep
    <2> QED BY <2>1
  <1> QED BY <1>1, <1>2

\* The sort, match by match.
LEMMA SortRuns ==
  ASSUME NEW s \in Seq(Match)
  PROVE  \E g : /\ g[0] = <<>> /\ SortedByStart(s) = g[Len(s)]
                /\ \A k \in 1 .. Len(s) : g[k] = Inserted(g[k - 1], s[k])
  <1>. DEFINE n == Len(s)
              G == [p \in Seq(Match) \X (1 .. n) |-> Inserted(p[1], s[p[2]])]
  <1>1. n \in Nat /\ DOMAIN s = 1 .. n /\ (\A i \in 1 .. n : s[i] \in Match) /\ <<>> \in Seq(Match)
    OBVIOUS
  <1>2. G \in [Seq(Match) \X (1 .. n) -> Seq(Match)] /\ \A e \in Seq(Match), i \in 1 .. n : G[<<e, i>>] = Inserted(e, s[i])
      <2>1. \A q \in Seq(Match), m \in Match : Inserted(q, m) \in Seq(Match)
      BY InsertedIs DEF GoesIn
    <2> QED BY <1>1, <2>1
  <1>. HIDE DEF n, G
  <1>3. PICK f : FoldUpto(f, Seq(Match), G, <<>>, n)
    BY <1>1, <1>2, FoldExists
  <1>4. f = [t \in SUBSET (1 .. n) |-> IF t = {} THEN <<>> ELSE Inserted(f[t \ {Max(t)}], s[Max(t)])]
    <2>1. /\ f \in [SUBSET (1 .. n) -> Seq(Match)] /\ f[{}] = <<>>
          /\ \A t \in SUBSET (1 .. n) : t # {} =>
                Max(t) \in 1 .. n /\ f[t \ {Max(t)}] \in Seq(Match) /\ f[t] = G[<<f[t \ {Max(t)}], Max(t)>>]
      <3>1. FoldIs(f, Seq(Match), G, <<>>, n)
        BY <1>1, <1>3, FoldValues
      <3> QED BY <3>1 DEF FoldIs
    <2>2. \A t \in SUBSET (1 .. n) : t # {} => f[t] = Inserted(f[t \ {Max(t)}], s[Max(t)])
      BY <2>1, <1>2
    <2> QED BY <2>1, <2>2
  <1>. DEFINE iter == CHOOSE h : h = [t \in SUBSET (1 .. n) |-> IF t = {} THEN <<>> ELSE Inserted(h[t \ {Max(t)}], s[Max(t)])]
              g == [k \in 0 .. n |-> iter[1 .. k]]
  <1>5. iter = [t \in SUBSET (1 .. n) |-> IF t = {} THEN <<>> ELSE Inserted(iter[t \ {Max(t)}], s[Max(t)])]
    BY <1>4
  <1>6. SortedByStart(s) = iter[1 .. n]
    BY <1>1 DEF SortedByStart, FoldLeft, MapThenFoldSet
  <1>. HIDE DEF iter
  <1>7. g[0] = <<>> /\ g[n] = SortedByStart(s) /\ \A k \in 1 .. n : g[k] = Inserted(g[k - 1], s[k])
    <2>1. /\ 1 .. 0 = {} /\ {} \in SUBSET (1 .. n) /\ 0 \in 0 .. n /\ n \in 0 .. n
          /\ \A k \in 1 .. n : /\ k \in 0 .. n /\ k - 1 \in 0 .. n /\ 1 .. k \in SUBSET (1 .. n) /\ 1 .. k # {}
                               /\ Max(1 .. k) = k /\ (1 .. k) \ {Max(1 .. k)} = 1 .. k - 1
      BY <1>1, FirstOnes
    <2>2. iter[{}] = <<>> /\ \A k \in 1 .. n : iter[1 .. k] = Inserted(iter[1 .. k - 1], s[k])
      BY <1>5, <2>1
    <2> QED BY <1>6, <2>1, <2>2
  <1> QED BY <1>7 DEF n

\* The merge, match by match.
LEMMA MergeRuns ==
  ASSUME NEW s \in Seq(Match)
  PROVE  \E g : /\ g[0] = <<>> /\ FoldLeft(MergeStep, <<>>, s) = g[Len(s)]
                /\ \A k \in 1 .. Len(s) : g[k] = MergeStep(g[k - 1], s[k])
  <1>. DEFINE n == Len(s)
              G == [p \in Seq(Match) \X (1 .. n) |-> MergeStep(p[1], s[p[2]])]
  <1>1. n \in Nat /\ DOMAIN s = 1 .. n /\ (\A i \in 1 .. n : s[i] \in Match) /\ <<>> \in Seq(Match)
    OBVIOUS
  <1>2. G \in [Seq(Match) \X (1 .. n) -> Seq(Match)] /\ \A e \in Seq(Match), i \in 1 .. n : G[<<e, i>>] = MergeStep(e, s[i])
    BY <1>1, MergeStepIn
  <1>. HIDE DEF n, G
  <1>3. PICK f : FoldUpto(f, Seq(Match), G, <<>>, n)
    BY <1>1, <1>2, FoldExists
  <1>4. f = [t \in SUBSET (1 .. n) |-> IF t = {} THEN <<>> ELSE MergeStep(f[t \ {Max(t)}], s[Max(t)])]
    <2>1. /\ f \in [SUBSET (1 .. n) -> Seq(Match)] /\ f[{}] = <<>>
          /\ \A t \in SUBSET (1 .. n) : t # {} =>
                Max(t) \in 1 .. n /\ f[t \ {Max(t)}] \in Seq(Match) /\ f[t] = G[<<f[t \ {Max(t)}], Max(t)>>]
      <3>1. FoldIs(f, Seq(Match), G, <<>>, n)
        BY <1>1, <1>3, FoldValues
      <3> QED BY <3>1 DEF FoldIs
    <2>2. \A t \in SUBSET (1 .. n) : t # {} => f[t] = MergeStep(f[t \ {Max(t)}], s[Max(t)])
      BY <2>1, <1>2
    <2> QED BY <2>1, <2>2
  <1>. DEFINE iter == CHOOSE h : h = [t \in SUBSET (1 .. n) |-> IF t = {} THEN <<>> ELSE MergeStep(h[t \ {Max(t)}], s[Max(t)])]
              g == [k \in 0 .. n |-> iter[1 .. k]]
  <1>5. iter = [t \in SUBSET (1 .. n) |-> IF t = {} THEN <<>> ELSE MergeStep(iter[t \ {Max(t)}], s[Max(t)])]
    BY <1>4
  <1>6. FoldLeft(MergeStep, <<>>, s) = iter[1 .. n]
    BY <1>1 DEF FoldLeft, MapThenFoldSet
  <1>. HIDE DEF iter
  <1>7. g[0] = <<>> /\ g[n] = FoldLeft(MergeStep, <<>>, s) /\ \A k \in 1 .. n : g[k] = MergeStep(g[k - 1], s[k])
    <2>1. /\ 1 .. 0 = {} /\ {} \in SUBSET (1 .. n) /\ 0 \in 0 .. n /\ n \in 0 .. n
          /\ \A k \in 1 .. n : /\ k \in 0 .. n /\ k - 1 \in 0 .. n /\ 1 .. k \in SUBSET (1 .. n) /\ 1 .. k # {}
                               /\ Max(1 .. k) = k /\ (1 .. k) \ {Max(1 .. k)} = 1 .. k - 1
      BY <1>1, FirstOnes
    <2>2. iter[{}] = <<>> /\ \A k \in 1 .. n : iter[1 .. k] = MergeStep(iter[1 .. k - 1], s[k])
      BY <1>5, <2>1
    <2> QED BY <1>6, <2>1, <2>2
  <1> QED BY <1>7 DEF n

-----------------------------------------------------------------------------
RedactInv == found \in [1 .. RuleCount -> FindAll]

\* What the library found is sequences of ranges.
MatchesAre(k) ==
    /\ MatchesOf(k) \in Seq(Match) /\ DOMAIN found[k] = 1 .. Len(MatchesOf(k))
    /\ \A i \in 1 .. Len(MatchesOf(k)) :
          /\ MatchesOf(k)[i] = [start |-> found[k][i].start, end |-> found[k][i].end, rule |-> k]
          /\ found[k][i].start \in Nat /\ found[k][i].end \in Nat /\ found[k][i].start <= found[k][i].end
LEMMA MatchesIn == ASSUME RedactInv, NEW k \in 1 .. RuleCount PROVE MatchesAre(k)
  <1>1. found[k] \in FindAll
    BY DEF RedactInv
  <1>2. PICK n \in 0 .. MaxMatches : found[k] \in [1 .. n -> Ranges]
    BY <1>1 DEF FindAll
  <1>3. n \in Nat
    BY TextAssumption
  <1>4. \A i \in 1 .. n : /\ found[k][i].start \in 0 .. TextLength /\ found[k][i].end \in 0 .. TextLength
                          /\ found[k][i].start <= found[k][i].end
    BY <1>2 DEF Ranges
  <1>5. \A i \in 1 .. n : [start |-> found[k][i].start, end |-> found[k][i].end, rule |-> k] \in Match
    BY <1>4, MatchFields
  <1>6. DOMAIN found[k] = 1 .. n
    BY <1>2
  <1>7. MatchesOf(k) = [i \in 1 .. n |-> [start |-> found[k][i].start, end |-> found[k][i].end, rule |-> k]]
    BY <1>6 DEF MatchesOf
  <1>8. MatchesOf(k) \in Seq(Match) /\ Len(MatchesOf(k)) = n
    BY <1>3, <1>5, <1>7
  <1>9. \A i \in 1 .. n : /\ MatchesOf(k)[i] = [start |-> found[k][i].start, end |-> found[k][i].end, rule |-> k]
    BY <1>7
  <1>10. \A i \in 1 .. n : found[k][i].start \in Nat /\ found[k][i].end \in Nat
    BY <1>4, TextAssumption
  <1> QED BY <1>4, <1>6, <1>8, <1>9, <1>10 DEF MatchesAre

LEMMA HoldsConcat ==
  ASSUME NEW S, NEW a \in Seq(S), NEW b \in Seq(S), NEW x
  PROVE  Holds(a \o b, x) <=> Holds(a, x) \/ Holds(b, x)
  <1>1. /\ Len(a) \in Nat /\ Len(b) \in Nat /\ Len(a \o b) = Len(a) + Len(b)
        /\ \A i \in 1 .. Len(a) + Len(b) : (a \o b)[i] = IF i <= Len(a) THEN a[i] ELSE b[i - Len(a)]
    BY ConcatProperties
  <1>. DEFINE c == a \o b
  <1>. HIDE DEF c
  <1>2. ASSUME Holds(c, x) PROVE Holds(a, x) \/ Holds(b, x)
    <2>1. PICK i \in 1 .. Len(a) + Len(b) : c[i] = x
      BY <1>1, <1>2 DEF Holds, c
    <2>2. CASE i <= Len(a)
      <3>1. i \in 1 .. Len(a) /\ a[i] = x
        BY <1>1, <2>1, <2>2 DEF c
      <3> QED BY <3>1 DEF Holds
    <2>3. CASE ~(i <= Len(a))
      <3>1. i - Len(a) \in 1 .. Len(b) /\ b[i - Len(a)] = x
        BY <1>1, <2>1, <2>3 DEF c
      <3> QED BY <3>1 DEF Holds
    <2> QED BY <2>2, <2>3
  <1>3. ASSUME Holds(a, x) PROVE Holds(c, x)
    <2>1. PICK i \in 1 .. Len(a) : a[i] = x
      BY <1>3 DEF Holds
    <2>2. i \in 1 .. Len(a) + Len(b) /\ i <= Len(a)
      BY <1>1
    <2>3. c[i] = x
      BY <1>1, <2>1, <2>2 DEF c
    <2> QED BY <1>1, <2>2, <2>3 DEF Holds, c
  <1>4. ASSUME Holds(b, x) PROVE Holds(c, x)
    <2>1. PICK i \in 1 .. Len(b) : b[i] = x
      BY <1>4 DEF Holds
    <2>2. Len(a) + i \in 1 .. Len(a) + Len(b) /\ ~(Len(a) + i <= Len(a)) /\ (Len(a) + i) - Len(a) = i
      BY <1>1
    <2>3. c[Len(a) + i] = b[(Len(a) + i) - Len(a)]
      BY <1>1, <2>2 DEF c
    <2>4. c[Len(a) + i] = x
      BY <2>1, <2>2, <2>3
    <2> QED BY <1>1, <2>2, <2>4 DEF Holds, c
  <1> QED BY <1>2, <1>3, <1>4 DEF c

\* The rules in the order in which their matches are collected.
RuleList == [k \in 1 .. RuleCount |-> k]

LEMMA RuleListIs ==
  RuleCount \in Nat /\ RuleList \in Seq(1 .. RuleCount) /\ Len(RuleList) = RuleCount /\ \A k \in 1 .. RuleCount : RuleList[k] = k
  <1>1. RuleCount \in Nat /\ RuleList \in [1 .. RuleCount -> 1 .. RuleCount]
    BY TextAssumption DEF RuleList
  <1>2. \A k \in 1 .. RuleCount : RuleList[k] = k
    BY DEF RuleList
  <1> QED BY <1>1, <1>2

\* The matches of the rules, rule by rule.
LEMMA CollectRuns ==
  ASSUME RedactInv
  PROVE  \E g : /\ g[0] = <<>> /\ Collected = g[Len(RuleList)]
                /\ \A k \in 1 .. Len(RuleList) : g[k] = g[k - 1] \o MatchesOf(RuleList[k])
  <1>. DEFINE n == Len(RuleList)
              G == [p \in Seq(Match) \X (1 .. n) |-> p[1] \o MatchesOf(RuleList[p[2]])]
  <1>1. n \in Nat /\ DOMAIN RuleList = 1 .. n /\ (\A i \in 1 .. n : RuleList[i] \in 1 .. RuleCount) /\ <<>> \in Seq(Match)
    BY RuleListIs, EmptySeq
  <1>2. G \in [Seq(Match) \X (1 .. n) -> Seq(Match)] /\ \A e \in Seq(Match), i \in 1 .. n : G[<<e, i>>] = e \o MatchesOf(RuleList[i])
      <2>1. \A q \in Seq(Match), k \in 1 .. RuleCount : q \o MatchesOf(k) \in Seq(Match)
      BY MatchesIn DEF MatchesAre
    <2> QED BY <1>1, <2>1
  <1>. HIDE DEF n, G
  <1>3. PICK f : FoldUpto(f, Seq(Match), G, <<>>, n)
    BY <1>1, <1>2, FoldExists
  <1>4. f = [t \in SUBSET (1 .. n) |-> IF t = {} THEN <<>> ELSE f[t \ {Max(t)}] \o MatchesOf(RuleList[Max(t)])]
    <2>1. /\ f \in [SUBSET (1 .. n) -> Seq(Match)] /\ f[{}] = <<>>
          /\ \A t \in SUBSET (1 .. n) : t # {} =>
                Max(t) \in 1 .. n /\ f[t \ {Max(t)}] \in Seq(Match) /\ f[t] = G[<<f[t \ {Max(t)}], Max(t)>>]
      <3>1. FoldIs(f, Seq(Match), G, <<>>, n)
        BY <1>1, <1>3, FoldValues
      <3> QED BY <3>1 DEF FoldIs
    <2>2. \A t \in SUBSET (1 .. n) : t # {} => f[t] = f[t \ {Max(t)}] \o MatchesOf(RuleList[Max(t)])
      BY <2>1, <1>2
    <2> QED BY <2>1, <2>2
  <1>. DEFINE iter == CHOOSE h : h = [t \in SUBSET (1 .. n) |-> IF t = {} THEN <<>> ELSE h[t \ {Max(t)}] \o MatchesOf(RuleList[Max(t)])]
              g == [k \in 0 .. n |-> iter[1 .. k]]
  <1>5. iter = [t \in SUBSET (1 .. n) |-> IF t = {} THEN <<>> ELSE iter[t \ {Max(t)}] \o MatchesOf(RuleList[Max(t)])]
    BY <1>4
  <1>6. Collected = iter[1 .. n]
    <2>1. Collected = FoldLeft(LAMBDA acc, k : acc \o MatchesOf(k), <<>>, RuleList)
      BY DEF Collected, RuleList
    <2> QED BY <1>1, <2>1 DEF FoldLeft, MapThenFoldSet
  <1>. HIDE DEF iter
  <1>7. g[0] = <<>> /\ g[n] = Collected /\ \A k \in 1 .. n : g[k] = g[k - 1] \o MatchesOf(RuleList[k])
    <2>1. /\ 1 .. 0 = {} /\ {} \in SUBSET (1 .. n) /\ 0 \in 0 .. n /\ n \in 0 .. n
          /\ \A k \in 1 .. n : /\ k \in 0 .. n /\ k - 1 \in 0 .. n /\ 1 .. k \in SUBSET (1 .. n) /\ 1 .. k # {}
                               /\ Max(1 .. k) = k /\ (1 .. k) \ {Max(1 .. k)} = 1 .. k - 1
      BY <1>1, FirstOnes
    <2>2. iter[{}] = <<>> /\ \A k \in 1 .. n : iter[1 .. k] = iter[1 .. k - 1] \o MatchesOf(RuleList[k])
      BY <1>5, <2>1
    <2> QED BY <1>6, <2>1, <2>2
  <1> QED BY <1>7 DEF n

\* A match that some rule found.
FoundBy(x, k) == \E i \in DOMAIN found[k] : x = [start |-> found[k][i].start, end |-> found[k][i].end, rule |-> k]

LEMMA CollectedIs ==
  ASSUME RedactInv
  PROVE  Collected \in Seq(Match) /\ \A x : Holds(Collected, x) <=> \E k \in 1 .. RuleCount : FoundBy(x, k)
  <1>. DEFINE n == RuleCount
              s == RuleList
  <1>1. n \in Nat /\ Len(s) = n /\ \A k \in 1 .. n : s[k] = k
    BY RuleListIs
  <1>3. PICK g : /\ g[0] = <<>> /\ Collected = g[Len(s)]
                 /\ \A k \in 1 .. Len(s) : g[k] = g[k - 1] \o MatchesOf(s[k])
    BY CollectRuns
  <1>. HIDE DEF s
  <1>. DEFINE OK(k) == g[k] \in Seq(Match) /\ \A x : Holds(g[k], x) <=> \E r \in 1 .. k : FoundBy(x, r)
              N == {k \in Nat : k <= n => OK(k)}
  <1>4. 0 \in N
    <2>1. <<>> \in Seq(Match) /\ 1 .. 0 = {} /\ Len(<<>>) = 0
      OBVIOUS
    <2>2. \A x : ~Holds(<<>>, x)
      BY <2>1 DEF Holds
    <2> QED BY <1>3, <2>1, <2>2
  <1>5. ASSUME NEW k \in Nat, k \in N PROVE k + 1 \in N
    <2>. SUFFICES ASSUME k + 1 <= n PROVE OK(k + 1)
      OBVIOUS
    <2>1. k + 1 \in 1 .. n /\ (k + 1) - 1 = k /\ k <= n /\ \A r \in 1 .. k + 1 : r \in 1 .. k \/ r = k + 1
      BY <1>1
    <2>2. OK(k)
      BY <1>5, <2>1
    <2>3. g[k + 1] = g[k] \o MatchesOf(k + 1)
      BY <1>1, <1>3, <2>1
    <2>4. MatchesAre(k + 1)
      BY <2>1, MatchesIn
    <2>5. MatchesOf(k + 1) \in Seq(Match) /\ \A x : Holds(MatchesOf(k + 1), x) <=> FoundBy(x, k + 1)
      BY <2>4 DEF MatchesAre, Holds, FoundBy
    <2>6. g[k + 1] \in Seq(Match)
      BY <2>2, <2>3, <2>5
    <2>7. ASSUME NEW x PROVE Holds(g[k + 1], x) <=> \E r \in 1 .. k + 1 : FoundBy(x, r)
      <3>1. Holds(g[k + 1], x) <=> Holds(g[k], x) \/ Holds(MatchesOf(k + 1), x)
        BY <2>2, <2>3, <2>5, HoldsConcat
      <3>2. Holds(g[k + 1], x) <=> (\E r \in 1 .. k : FoundBy(x, r)) \/ FoundBy(x, k + 1)
        BY <3>1, <2>2, <2>5
      <3>3. k + 1 \in 1 .. k + 1 /\ \A r \in 1 .. k : r \in 1 .. k + 1
        OBVIOUS
      <3> QED BY <3>2, <3>3, <2>1
    <2> QED BY <2>6, <2>7
  <1>6. N = Nat
    <2>1. N \in SUBSET Nat
      OBVIOUS
    <2>. HIDE DEF N
    <2> QED BY <1>4, <1>5, <2>1, Ind
  <1>7. OK(n)
    <2>. HIDE DEF OK
    <2> QED BY <1>1, <1>6
  <1> QED BY <1>1, <1>3, <1>7

LEMMA SortedIs ==
  ASSUME NEW s \in Seq(Match)
  PROVE  /\ SortedByStart(s) \in Seq(Match) /\ Sorted(SortedByStart(s))
         /\ \A x : Holds(SortedByStart(s), x) <=> Holds(s, x)
  <1>. DEFINE n == Len(s)
  <1>1. n \in Nat /\ \A i \in 1 .. n : s[i] \in Match
    OBVIOUS
  <1>2. PICK g : /\ g[0] = <<>> /\ SortedByStart(s) = g[n]
                 /\ \A k \in 1 .. n : g[k] = Inserted(g[k - 1], s[k])
    BY SortRuns
  <1>. DEFINE OK(k) == g[k] \in Seq(Match) /\ Sorted(g[k]) /\ \A x : Holds(g[k], x) <=> \E i \in 1 .. k : s[i] = x
              N == {k \in Nat : k <= n => OK(k)}
  <1>3. 0 \in N
    <2>1. <<>> \in Seq(Match) /\ 1 .. 0 = {} /\ Len(<<>>) = 0
      OBVIOUS
    <2>2. (\A x : ~Holds(<<>>, x)) /\ Sorted(<<>>)
      BY <2>1 DEF Holds, Sorted
    <2> QED BY <1>2, <2>1, <2>2
  <1>4. ASSUME NEW k \in Nat, k \in N PROVE k + 1 \in N
    <2>. SUFFICES ASSUME k + 1 <= n PROVE OK(k + 1)
      OBVIOUS
    <2>1. k + 1 \in 1 .. n /\ (k + 1) - 1 = k /\ k <= n /\ \A r \in 1 .. k + 1 : r \in 1 .. k \/ r = k + 1
      BY <1>1
    <2>2. OK(k)
      BY <1>4, <2>1
    <2>3. g[k + 1] = Inserted(g[k], s[k + 1])
      BY <1>2, <2>1
    <2>4. GoesIn(g[k + 1], g[k], s[k + 1])
      BY <1>1, <2>1, <2>2, <2>3, InsertedIs
    <2>5. g[k + 1] \in Seq(Match) /\ Sorted(g[k + 1]) /\ \A x : Holds(g[k + 1], x) <=> Holds(g[k], x) \/ x = s[k + 1]
      BY <2>2, <2>4 DEF GoesIn
    <2>6. ASSUME NEW x PROVE Holds(g[k + 1], x) <=> \E i \in 1 .. k + 1 : s[i] = x
      <3>1. Holds(g[k + 1], x) <=> (\E i \in 1 .. k : s[i] = x) \/ x = s[k + 1]
        BY <2>2, <2>5
      <3>2. k + 1 \in 1 .. k + 1 /\ \A r \in 1 .. k : r \in 1 .. k + 1
        OBVIOUS
      <3> QED BY <3>1, <3>2, <2>1
    <2> QED BY <2>5, <2>6
  <1>5. N = Nat
    <2>1. N \in SUBSET Nat
      OBVIOUS
    <2>. HIDE DEF N
    <2> QED BY <1>3, <1>4, <2>1, Ind
  <1>6. OK(n)
    <2>. HIDE DEF OK
    <2> QED BY <1>1, <1>5
  <1> QED BY <1>2, <1>6 DEF Holds

-----------------------------------------------------------------------------
\* Merging the first k of s, ranges in order, gives disjoint ranges that cover them.
Covers(q, p) == \E i \in 1 .. Len(q) : q[i].start <= p /\ p < q[i].end
Forward(q) == \A i \in 1 .. Len(q) : q[i].start <= q[i].end
Disjoint(q) == \A i, j \in 1 .. Len(q) : i < j => q[i].end <= q[j].start
MergedOK(q, s, k) ==
    /\ q \in Seq(Match) /\ Forward(q) /\ Disjoint(q)
    /\ \A i \in 1 .. Len(q) : \E j \in 1 .. k : q[i].start = s[j].start /\ q[i].rule = s[j].rule
    /\ \A p \in Nat : Covers(q, p) <=> \E j \in 1 .. k : s[j].start <= p /\ p < s[j].end

LEMMA MergeMore ==
  ASSUME NEW s \in Seq(Match), Sorted(s), Forward(s), NEW k \in Nat, k + 1 <= Len(s), NEW q, MergedOK(q, s, k)
  PROVE  MergedOK(MergeStep(q, s[k + 1]), s, k + 1)
  <1>. DEFINE m == s[k + 1]
              L == Len(q)
              e == q[L]
  <1>1. /\ k + 1 \in 1 .. Len(s) /\ k + 1 \in 1 .. k + 1 /\ (\A j \in 1 .. k + 1 : j \in 1 .. k \/ j = k + 1)
        /\ \A j \in 1 .. k : j \in 1 .. k + 1 /\ j < k + 1 /\ j \in 1 .. Len(s)
    OBVIOUS
  <1>2. /\ q \in Seq(Match) /\ L \in Nat /\ \A i \in 1 .. L : q[i].start <= q[i].end
        /\ \A i, j \in 1 .. L : i < j => q[i].end <= q[j].start
        /\ \A i \in 1 .. L : \E j \in 1 .. k : q[i].start = s[j].start /\ q[i].rule = s[j].rule
        /\ \A p \in Nat : Covers(q, p) <=> \E j \in 1 .. k : s[j].start <= p /\ p < s[j].end
    BY DEF MergedOK, Forward, Disjoint
  <1>3. /\ m \in Match /\ m.start \in Nat /\ m.end \in Nat /\ m.start <= m.end
        /\ \A i \in 1 .. L : q[i] \in Match /\ q[i].start \in Nat /\ q[i].end \in Nat
    BY SMTT(30), <1>1, <1>2, MatchFields DEF Forward
  <1>4. \A i \in 1 .. L : q[i].start <= m.start
    BY <1>1, <1>2 DEF Sorted
  <1>5. \A p \in Nat : (\E j \in 1 .. k + 1 : s[j].start <= p /\ p < s[j].end)
                         <=> Covers(q, p) \/ (m.start <= p /\ p < m.end)
    BY <1>1, <1>2
  <1>6. ASSUME NEW r \in Seq(Match), Len(r) \in Nat,
               \A i \in 1 .. Len(r) : \/ i \in 1 .. L /\ r[i].start = q[i].start /\ r[i].rule = q[i].rule
                                      \/ r[i].start = m.start /\ r[i].rule = m.rule,
               Forward(r), Disjoint(r), \A p \in Nat : Covers(r, p) <=> Covers(q, p) \/ (m.start <= p /\ p < m.end)
        PROVE  MergedOK(r, s, k + 1)
    <2>1. \A i \in 1 .. Len(r) : \E j \in 1 .. k + 1 : r[i].start = s[j].start /\ r[i].rule = s[j].rule
      BY <1>1, <1>2, <1>6
    <2> QED BY <1>5, <1>6, <2>1 DEF MergedOK
  <1>7. CASE q # <<>> /\ m.start < e.end
    <2>. DEFINE d == [start |-> e.start, end |-> IF m.end > e.end THEN m.end ELSE e.end, rule |-> e.rule]
                r == [q EXCEPT ![L] = d]
    <2>1. L \in 1 .. L /\ e \in Match /\ e.start \in Nat /\ e.end \in Nat /\ e.start <= e.end /\ e.start <= m.start
      <3>1. L \in 1 .. L
        BY <1>2, <1>7
      <3> QED BY <3>1, <1>2, <1>3, <1>4
    <2>2. d \in Match /\ d.start = e.start /\ d.rule = e.rule /\ d.end = IF m.end > e.end THEN m.end ELSE e.end
      BY <2>1, <1>3 DEF Match
    <2>3. d.end \in Nat /\ e.end <= d.end /\ m.end <= d.end /\ (d.end = m.end \/ d.end = e.end)
      BY <2>1, <2>2, <1>3
    <2>4. MergeStep(q, m) = r
      BY <1>7 DEF MergeStep
    <2>. HIDE DEF d
    <2>5. r \in Seq(Match) /\ Len(r) = L /\ r[L] = d /\ \A i \in 1 .. L : i # L => r[i] = q[i]
      BY <2>1, <2>2, <1>2
    <2>. HIDE DEF r, e, m, L
    <2>6. \A i \in 1 .. L : \/ i \in 1 .. L /\ r[i].start = q[i].start /\ r[i].rule = q[i].rule
      BY <2>2, <2>5 DEF e
    <2>7. Forward(r)
      <3>1. ASSUME NEW i \in 1 .. L PROVE r[i].start <= r[i].end
        <4>1. CASE i = L
          <5>1. r[i].start = e.start /\ r[i].end = d.end
            BY <4>1, <2>2, <2>5
          <5> QED BY <5>1, <2>1, <2>3
        <4>2. CASE i # L
          <5>1. r[i] = q[i] /\ q[i].start <= q[i].end
            BY <4>2, <2>5, <1>2
          <5> QED BY <5>1
        <4> QED BY <4>1, <4>2
      <3> QED BY <3>1, <2>5 DEF Forward
    <2>8. Disjoint(r)
      <3>1. ASSUME NEW i \in 1 .. L, NEW j \in 1 .. L, i < j PROVE r[i].end <= r[j].start
        <4>1. i # L /\ r[i] = q[i] /\ q[i].end <= q[j].start
          BY <3>1, <2>5, <1>2
        <4> QED BY <4>1, <2>6
      <3> QED BY <3>1, <2>5 DEF Disjoint
    <2>9. ASSUME NEW p \in Nat PROVE Covers(r, p) <=> Covers(q, p) \/ (m.start <= p /\ p < m.end)
      <3>1. ASSUME Covers(r, p) PROVE Covers(q, p) \/ (m.start <= p /\ p < m.end)
        <4>1. PICK i \in 1 .. L : r[i].start <= p /\ p < r[i].end
          BY <3>1, <2>5 DEF Covers
        <4>2. CASE i # L
          BY <4>1, <4>2, <2>5 DEF Covers, L
        <4>3. CASE i = L
          <5>1. e.start <= p /\ p < d.end
            BY <4>1, <4>3, <2>2, <2>5
          <5>2. CASE p < e.end
            <6>1. q[L].start <= p /\ p < q[L].end
              BY <5>1, <5>2 DEF e
            <6> QED BY <6>1, <2>1 DEF Covers, L
          <5>3. CASE e.end <= p
            BY <5>1, <5>3, <2>1, <2>3, <1>3, <1>7
          <5> QED BY <5>2, <5>3, <2>1
        <4> QED BY <4>2, <4>3
      <3>2. ASSUME Covers(q, p) PROVE Covers(r, p)
        <4>1. PICK i \in 1 .. L : q[i].start <= p /\ p < q[i].end
          BY <3>2 DEF Covers, L
        <4>2. r[i].start <= p
          BY <4>1, <2>6
        <4>3. p < r[i].end
          <5>1. CASE i # L
            BY <5>1, <4>1, <2>5
          <5>2. CASE i = L
            BY <5>2, <4>1, <2>1, <2>3, <2>5 DEF e
          <5> QED BY <5>1, <5>2
        <4> QED BY <4>2, <4>3, <2>5 DEF Covers
      <3>3. ASSUME m.start <= p, p < m.end PROVE Covers(r, p)
        <4>1. r[L].start <= p /\ p < r[L].end
          BY <3>3, <2>1, <2>2, <2>3, <2>5, <1>3
        <4> QED BY <4>1, <2>1, <2>5 DEF Covers
      <3> QED BY <3>1, <3>2, <3>3
    <2>10. MergedOK(r, s, k + 1)
      <3>1. Len(r) \in Nat /\ \A i \in 1 .. Len(r) : \/ i \in 1 .. L /\ r[i].start = q[i].start /\ r[i].rule = q[i].rule
                                                     \/ r[i].start = m.start /\ r[i].rule = m.rule
        BY <2>5, <2>6, <1>2
      <3> QED BY <3>1, <2>5, <2>7, <2>8, <2>9, <1>6
    <2> QED BY <2>4, <2>10 DEF m
  <1>8. CASE ~(q # <<>> /\ m.start < e.end)
    <2>. DEFINE r == Append(q, m)
    <2>1. MergeStep(q, m) = r
      BY <1>8 DEF MergeStep
    <2>2. /\ r \in Seq(Match) /\ Len(r) = L + 1 /\ r[L + 1] = m /\ \A i \in 1 .. L : r[i] = q[i]
      BY <1>2, <1>3, AppendProperties
    <2>3. \A i \in 1 .. L : q[i].end <= m.start
      <3>1. ASSUME NEW i \in 1 .. L PROVE q[i].end <= m.start
        <4>1. q # <<>> /\ L \in 1 .. L
          BY <1>2
        <4>2. e.end <= m.start /\ e.start <= e.end /\ e.start \in Nat /\ e.end \in Nat
          BY <4>1, <1>2, <1>3, <1>8
        <4>3. i = L \/ q[i].end <= e.start
          BY <4>1, <1>2
        <4> QED BY <4>2, <4>3, <1>3
      <3> QED BY <3>1
    <2>. HIDE DEF r, e, m
    <2>4. L + 1 \in 1 .. L + 1 /\ \A i \in 1 .. L + 1 : i \in 1 .. L \/ i = L + 1
      <3>1. L \in Nat
        BY <1>2
      <3>. HIDE DEF L
      <3> QED BY <3>1
    <2>5. Forward(r)
      <3>1. ASSUME NEW i \in 1 .. L + 1 PROVE r[i].start <= r[i].end
        <4>1. CASE i = L + 1
          BY <4>1, <2>2, <1>3
        <4>2. CASE i \in 1 .. L
          <5>1. r[i] = q[i] /\ q[i].start <= q[i].end
            BY <4>2, <2>2, <1>2
          <5> QED BY <5>1
        <4> QED BY <4>1, <4>2, <2>4
      <3> QED BY <3>1, <2>2 DEF Forward
    <2>6. Disjoint(r)
      <3>1. ASSUME NEW i \in 1 .. L + 1, NEW j \in 1 .. L + 1, i < j PROVE r[i].end <= r[j].start
        <4>1. i \in 1 .. L
          BY <3>1, <1>2
        <4>2. CASE j \in 1 .. L
          BY <4>1, <4>2, <3>1, <2>2, <1>2
        <4>3. CASE j = L + 1
          BY <4>1, <4>3, <2>2, <2>3
        <4> QED BY <4>2, <4>3, <2>4
      <3> QED BY <3>1, <2>2 DEF Disjoint
    <2>7. ASSUME NEW p \in Nat PROVE Covers(r, p) <=> Covers(q, p) \/ (m.start <= p /\ p < m.end)
      <3>1. \A i \in 1 .. L : i \in 1 .. L + 1
        BY <1>2
      <3> QED BY <3>1, <2>2, <2>4 DEF Covers, L
    <2>8. MergedOK(r, s, k + 1)
      <3>1. Len(r) \in Nat
        BY <2>2
      <3>2. ASSUME NEW i \in 1 .. Len(r)
            PROVE  \/ i \in 1 .. L /\ r[i].start = q[i].start /\ r[i].rule = q[i].rule
                   \/ r[i].start = m.start /\ r[i].rule = m.rule
        <4>1. i \in 1 .. L \/ i = L + 1
          BY <2>2, <2>4
        <4>2. CASE i \in 1 .. L
          <5>1. r[i] = q[i]
            BY <4>2, <2>2
          <5> QED BY <5>1, <4>2
        <4>3. CASE i = L + 1
          <5>1. r[i] = m
            BY <4>3, <2>2
          <5> QED BY <5>1
        <4> QED BY <4>1, <4>2, <4>3
      <3> QED BY <3>1, <3>2, <2>2, <2>5, <2>6, <2>7, <1>6
    <2> QED BY <2>1, <2>8 DEF m
  <1> QED BY <1>7, <1>8

LEMMA MergeIs ==
  ASSUME NEW s \in Seq(Match), Sorted(s), Forward(s)
  PROVE  MergedOK(FoldLeft(MergeStep, <<>>, s), s, Len(s))
  <1>. DEFINE n == Len(s)
  <1>1. n \in Nat
    OBVIOUS
  <1>2. PICK g : /\ g[0] = <<>> /\ FoldLeft(MergeStep, <<>>, s) = g[n]
                 /\ \A k \in 1 .. n : g[k] = MergeStep(g[k - 1], s[k])
    BY MergeRuns
  <1>. DEFINE N == {k \in Nat : k <= n => MergedOK(g[k], s, k)}
  <1>3. 0 \in N
    <2>1. <<>> \in Seq(Match) /\ 1 .. 0 = {} /\ Len(<<>>) = 0
      OBVIOUS
    <2>2. MergedOK(<<>>, s, 0)
      BY <2>1 DEF MergedOK, Forward, Disjoint, Covers
    <2> QED BY <1>2, <2>2
  <1>4. ASSUME NEW k \in Nat, k \in N PROVE k + 1 \in N
    <2>. SUFFICES ASSUME k + 1 <= n PROVE MergedOK(g[k + 1], s, k + 1)
      OBVIOUS
    <2>1. k + 1 \in 1 .. n /\ (k + 1) - 1 = k /\ k <= n
      BY <1>1
    <2>2. MergedOK(g[k], s, k) /\ g[k + 1] = MergeStep(g[k], s[k + 1])
      BY <1>2, <1>4, <2>1
    <2> QED BY <2>2, MergeMore
  <1>5. N = Nat
    <2>1. N \in SUBSET Nat
      OBVIOUS
    <2>. HIDE DEF N
    <2> QED BY <1>3, <1>4, <2>1, Ind
  <1> QED BY <1>1, <1>2, <1>5

-----------------------------------------------------------------------------
\* What the builder writes: positions of the text and replacements.
Out == [at : 0 .. TextLength] \union [by : 1 .. RuleCount]
Built == [out : Seq(Out), end : 0 .. TextLength]
Nothing == [out |-> <<>>, end |-> 0]

LEMMA OutFields ==
  /\ \A x \in Out : "at" \in DOMAIN x => x.at \in Nat
  /\ \A p \in 0 .. TextLength : [at |-> p] \in Out /\ "at" \in DOMAIN [at |-> p] /\ [at |-> p].at = p
  /\ \A k \in 1 .. RuleCount : [by |-> k] \in Out /\ "at" \notin DOMAIN [by |-> k]
  <1>1. \A p \in 0 .. TextLength : [at |-> p] \in Out /\ "at" \in DOMAIN [at |-> p] /\ [at |-> p].at = p
    BY DEF Out
  <1>2. \A k \in 1 .. RuleCount : [by |-> k] \in Out /\ "at" \notin DOMAIN [by |-> k]
    BY DEF Out
  <1>3. ASSUME NEW x \in Out, "at" \in DOMAIN x PROVE x.at \in Nat
    <2>1. CASE x \in [at : 0 .. TextLength]
      BY <2>1, TextAssumption
    <2>2. CASE x \in [by : 1 .. RuleCount]
      <3>1. DOMAIN x = {"by"}
        BY <2>2
      <3> QED BY <3>1, <1>3
    <2> QED BY <2>1, <2>2 DEF Out
  <1> QED BY <1>1, <1>2, <1>3

\* The text between two positions.
TextIs(t, from, to) ==
    /\ t \in Seq(Out) /\ Len(t) = IF from <= to THEN to - from ELSE 0
    /\ \A i \in 1 .. Len(t) : "at" \in DOMAIN t[i] /\ t[i].at = from + i - 1
LEMMA TextOf ==
  ASSUME NEW from \in 0 .. TextLength, NEW to \in 0 .. TextLength
  PROVE  TextIs(Text(from, to), from, to)
  <1>. DEFINE t == Text(from, to)
  <1>1. TextLength \in Nat /\ from \in Nat /\ to \in Nat
    BY TextAssumption
  <1>2. CASE from <= to
    <2>1. to - from \in Nat
      BY <1>1, <1>2
    <2>2. \A i \in 1 .. to - from : from + i - 1 \in 0 .. TextLength
      BY <1>1, <1>2
    <2>3. t = [i \in 1 .. to - from |-> [at |-> from + i - 1]]
      BY DEF Text
    <2>4. \A i \in 1 .. to - from : [at |-> from + i - 1] \in Out
      BY <2>2, OutFields
    <2>. HIDE DEF t
    <2>5. t \in Seq(Out) /\ Len(t) = to - from /\ \A i \in 1 .. to - from : t[i] = [at |-> from + i - 1]
      <3>1. t \in [1 .. to - from -> Out]
        BY <2>3, <2>4
      <3>2. \A i \in 1 .. to - from : t[i] = [at |-> from + i - 1]
        BY <2>3
      <3>3. t \in Seq(Out) /\ Len(t) = to - from
        BY <3>1, <2>1, LenOfFunction
      <3> QED BY <3>2, <3>3
    <2>6. \A i \in 1 .. to - from : "at" \in DOMAIN t[i] /\ t[i].at = from + i - 1
      BY <2>2, <2>5, OutFields
    <2> QED BY <1>2, <2>5, <2>6 DEF TextIs, t
  <1>3. CASE ~(from <= to)
    <2>1. 1 .. to - from = {}
      BY <1>1, <1>3
    <2>2. t = <<>>
      BY <2>1 DEF Text
    <2>3. <<>> \in Seq(Out) /\ Len(<<>>) = 0 /\ 1 .. 0 = {}
      OBVIOUS
    <2> QED BY <1>3, <2>2, <2>3 DEF TextIs
  <1> QED BY <1>2, <1>3

LEMMA NothingIn == Nothing \in Built
  BY TextAssumption DEF Nothing, Built

LEMMA ReplacedIn == \A e \in Built, m \in Match : Replaced(e, m) \in Built
  <1>. SUFFICES ASSUME NEW e \in Built, NEW m \in Match PROVE Replaced(e, m) \in Built
    OBVIOUS
  <1>1. e.out \in Seq(Out) /\ e.end \in 0 .. TextLength /\ m.start \in 0 .. TextLength /\ m.end \in 0 .. TextLength
        /\ m.rule \in 1 .. RuleCount
    BY DEF Built, Match
  <1>2. Text(e.end, m.start) \in Seq(Out) /\ [by |-> m.rule] \in Out
    BY <1>1, TextOf, OutFields DEF TextIs
  <1>3. e.out \o Text(e.end, m.start) \o <<[by |-> m.rule]>> \in Seq(Out)
    BY <1>1, <1>2
  <1> QED BY <1>1, <1>3 DEF Replaced, Built

\* The builder, range by range.
LEMMA ReplaceRuns ==
  ASSUME NEW s \in Seq(Match)
  PROVE  \E g : /\ g[0] = Nothing /\ FoldLeft(Replaced, Nothing, s) = g[Len(s)]
                /\ \A k \in 1 .. Len(s) : g[k] = Replaced(g[k - 1], s[k])
  <1>. DEFINE n == Len(s)
              G == [p \in Built \X (1 .. n) |-> Replaced(p[1], s[p[2]])]
  <1>1. n \in Nat /\ DOMAIN s = 1 .. n /\ (\A i \in 1 .. n : s[i] \in Match) /\ Nothing \in Built
    BY NothingIn
  <1>2. G \in [Built \X (1 .. n) -> Built] /\ \A e \in Built, i \in 1 .. n : G[<<e, i>>] = Replaced(e, s[i])
    BY <1>1, ReplacedIn
  <1>. HIDE DEF n, G
  <1>3. PICK f : FoldUpto(f, Built, G, Nothing, n)
    BY <1>1, <1>2, FoldExists
  <1>4. f = [t \in SUBSET (1 .. n) |-> IF t = {} THEN Nothing ELSE Replaced(f[t \ {Max(t)}], s[Max(t)])]
    <2>1. /\ f \in [SUBSET (1 .. n) -> Built] /\ f[{}] = Nothing
          /\ \A t \in SUBSET (1 .. n) : t # {} =>
                Max(t) \in 1 .. n /\ f[t \ {Max(t)}] \in Built /\ f[t] = G[<<f[t \ {Max(t)}], Max(t)>>]
      <3>1. FoldIs(f, Built, G, Nothing, n)
        BY <1>1, <1>3, FoldValues
      <3> QED BY <3>1 DEF FoldIs
    <2>2. \A t \in SUBSET (1 .. n) : t # {} => f[t] = Replaced(f[t \ {Max(t)}], s[Max(t)])
      BY <2>1, <1>2
    <2> QED BY <2>1, <2>2
  <1>. DEFINE iter == CHOOSE h : h = [t \in SUBSET (1 .. n) |-> IF t = {} THEN Nothing ELSE Replaced(h[t \ {Max(t)}], s[Max(t)])]
              g == [k \in 0 .. n |-> iter[1 .. k]]
  <1>5. iter = [t \in SUBSET (1 .. n) |-> IF t = {} THEN Nothing ELSE Replaced(iter[t \ {Max(t)}], s[Max(t)])]
    BY <1>4
  <1>6. FoldLeft(Replaced, Nothing, s) = iter[1 .. n]
    BY <1>1 DEF FoldLeft, MapThenFoldSet
  <1>. HIDE DEF iter
  <1>7. g[0] = Nothing /\ g[n] = FoldLeft(Replaced, Nothing, s) /\ \A k \in 1 .. n : g[k] = Replaced(g[k - 1], s[k])
    <2>1. /\ 1 .. 0 = {} /\ {} \in SUBSET (1 .. n) /\ 0 \in 0 .. n /\ n \in 0 .. n
          /\ \A k \in 1 .. n : /\ k \in 0 .. n /\ k - 1 \in 0 .. n /\ 1 .. k \in SUBSET (1 .. n) /\ 1 .. k # {}
                               /\ Max(1 .. k) = k /\ (1 .. k) \ {Max(1 .. k)} = 1 .. k - 1
      BY <1>1, FirstOnes
    <2>2. iter[{}] = Nothing /\ \A k \in 1 .. n : iter[1 .. k] = Replaced(iter[1 .. k - 1], s[k])
      BY <1>5, <2>1
    <2> QED BY <1>6, <2>1, <2>2
  <1> QED BY <1>7 DEF n

-----------------------------------------------------------------------------
\* out shows the positions in P, in order, and nothing is missing between neighbours.
Shows(q, P) ==
    /\ q \in Seq(Out)
    /\ {q[i].at : i \in {j \in 1 .. Len(q) : "at" \in DOMAIN q[j]}} = P
    /\ \A i, j \in 1 .. Len(q) : "at" \in DOMAIN q[i] /\ "at" \in DOMAIN q[j] /\ i < j => q[i].at < q[j].at
    /\ \A i \in 1 .. Len(q) : i < Len(q) /\ "at" \in DOMAIN q[i] /\ "at" \in DOMAIN q[i + 1] => q[i + 1].at = q[i].at + 1
\* Text is not followed by text.
EndsOpen(q) == Len(q) > 0 => "at" \notin DOMAIN q[Len(q)]

\* Elements of a concatenation come from one of the two.
LEMMA Halves ==
  ASSUME NEW S, NEW a \in Seq(S), NEW b \in Seq(S)
  PROVE  /\ a \o b \in Seq(S) /\ Len(a \o b) = Len(a) + Len(b) /\ Len(a) \in Nat /\ Len(b) \in Nat
         /\ \A i \in 1 .. Len(a) : (a \o b)[i] = a[i] /\ i \in 1 .. Len(a) + Len(b)
         /\ \A i \in 1 .. Len(b) : (a \o b)[Len(a) + i] = b[i] /\ Len(a) + i \in 1 .. Len(a) + Len(b)
         /\ \A i \in 1 .. Len(a) + Len(b) : i \in 1 .. Len(a) \/ (Len(a) < i /\ i - Len(a) \in 1 .. Len(b) /\ Len(a) + (i - Len(a)) = i)
  <1>. DEFINE c == a \o b
  <1>1. /\ Len(a) \in Nat /\ Len(b) \in Nat /\ c \in Seq(S) /\ Len(c) = Len(a) + Len(b)
        /\ \A i \in 1 .. Len(a) + Len(b) : c[i] = IF i <= Len(a) THEN a[i] ELSE b[i - Len(a)]
    BY ConcatProperties
  <1>. HIDE DEF c
  <1>2. \A i \in 1 .. Len(a) : i \in 1 .. Len(a) + Len(b) /\ i <= Len(a)
    BY <1>1
  <1>3. \A i \in 1 .. Len(b) : Len(a) + i \in 1 .. Len(a) + Len(b) /\ ~(Len(a) + i <= Len(a)) /\ (Len(a) + i) - Len(a) = i
    BY <1>1
  <1>4. \A i \in 1 .. Len(a) + Len(b) : i \in 1 .. Len(a) \/ (Len(a) < i /\ i - Len(a) \in 1 .. Len(b) /\ Len(a) + (i - Len(a)) = i)
    BY <1>1
  <1>5. \A i \in 1 .. Len(b) : c[Len(a) + i] = b[i]
    BY <1>1, <1>3
  <1> QED BY <1>1, <1>2, <1>3, <1>4, <1>5 DEF c

LEMMA TextAdds ==
  ASSUME NEW q, NEW P, Shows(q, P), EndsOpen(q), NEW from \in 0 .. TextLength, NEW to \in 0 .. TextLength, from <= to,
         \A p \in P : p < from
  PROVE  Shows(q \o Text(from, to), P \union (from .. to - 1))
  <1>. DEFINE t == Text(from, to)
              A == Len(q)
              B == Len(t)
              c == q \o t
  <1>1. t \in Seq(Out) /\ B = to - from /\ \A i \in 1 .. B : "at" \in DOMAIN t[i] /\ t[i].at = from + i - 1
    BY TextOf DEF TextIs
  <1>2. from \in Nat /\ to \in Nat
    BY TextAssumption
  <1>3. q \in Seq(Out) /\ {q[i].at : i \in {j \in 1 .. A : "at" \in DOMAIN q[j]}} = P
    BY DEF Shows
  <1>. HIDE DEF t
  <1>4. /\ c \in Seq(Out) /\ Len(c) = A + B /\ A \in Nat /\ B \in Nat
        /\ \A i \in 1 .. A : c[i] = q[i] /\ i \in 1 .. A + B
        /\ \A i \in 1 .. B : c[A + i] = t[i] /\ A + i \in 1 .. A + B
        /\ \A i \in 1 .. A + B : i \in 1 .. A \/ (A < i /\ i - A \in 1 .. B /\ A + (i - A) = i)
    BY ZenonT(60), <1>1, <1>3, Halves
  <1>. HIDE DEF c
  <1>5. \A i \in 1 .. A + B : \/ i \in 1 .. A /\ c[i] = q[i]
                              \/ A < i /\ i - A \in 1 .. B /\ "at" \in DOMAIN c[i] /\ c[i].at = from + (i - A) - 1
    <2>1. ASSUME NEW i \in 1 .. A + B, A < i, i - A \in 1 .. B, A + (i - A) = i
          PROVE  "at" \in DOMAIN c[i] /\ c[i].at = from + (i - A) - 1
      <3>1. c[A + (i - A)] = t[i - A]
        BY <2>1, <1>4
      <3>2. c[i] = t[i - A]
        BY <3>1, <2>1
      <3> QED BY <3>2, <2>1, <1>1
    <2> QED BY <1>4, <2>1
  <1>. HIDE DEF A, B
  <1>6. \A i \in 1 .. A : "at" \in DOMAIN q[i] => q[i].at \in P /\ q[i].at < from
    BY <1>3
  <1>7. ASSUME NEW x PROVE x \in {c[i].at : i \in {j \in 1 .. A + B : "at" \in DOMAIN c[j]}} <=> x \in P \union (from .. to - 1)
    <2>1. ASSUME NEW i \in 1 .. A + B, "at" \in DOMAIN c[i], x = c[i].at PROVE x \in P \union (from .. to - 1)
      <3>1. CASE i \in 1 .. A /\ c[i] = q[i]
        BY <2>1, <3>1, <1>6
      <3>2. CASE A < i /\ i - A \in 1 .. B /\ c[i].at = from + (i - A) - 1
        <4>1. c[i].at \in from .. to - 1
          BY <3>2, <1>1, <1>2, <1>4
        <4> QED BY <4>1, <2>1
      <3> QED BY <1>5, <3>1, <3>2
    <2>2. ASSUME x \in P PROVE \E i \in 1 .. A + B : "at" \in DOMAIN c[i] /\ x = c[i].at
      <3>1. PICK i \in 1 .. A : "at" \in DOMAIN q[i] /\ q[i].at = x
        BY <2>2, <1>3
      <3> QED BY <3>1, <1>4
    <2>3. ASSUME x \in from .. to - 1 PROVE \E i \in 1 .. A + B : "at" \in DOMAIN c[i] /\ x = c[i].at
      <3>. DEFINE i == x - from + 1
      <3>1. i \in 1 .. B /\ from + i - 1 = x
        BY <2>3, <1>1, <1>2
      <3>. HIDE DEF i
      <3>2. c[A + i] = t[i] /\ A + i \in 1 .. A + B /\ "at" \in DOMAIN t[i] /\ t[i].at = x
        BY <3>1, <1>1, <1>4
      <3> QED BY <3>2
    <2> QED BY <2>1, <2>2, <2>3
  <1>8. ASSUME NEW i \in 1 .. A + B, NEW j \in 1 .. A + B, "at" \in DOMAIN c[i], "at" \in DOMAIN c[j], i < j
        PROVE  c[i].at < c[j].at
    <2>1. CASE i \in 1 .. A /\ c[i] = q[i]
      <3>1. CASE j \in 1 .. A /\ c[j] = q[j]
        BY <1>8, <2>1, <3>1 DEF Shows, A
      <3>2. CASE A < j /\ j - A \in 1 .. B /\ c[j].at = from + (j - A) - 1
        <4>1. c[i].at < from /\ from <= c[j].at /\ q[i] \in Out
          BY <1>2, <1>3, <1>4, <1>6, <1>8, <2>1, <3>2 DEF A
        <4>2. c[i].at \in Nat /\ c[j].at \in Int
          BY <4>1, <1>8, <2>1, <3>2, <1>2, <1>4, OutFields
        <4> QED BY <4>1, <4>2, <1>2
      <3> QED BY <1>5, <3>1, <3>2
    <2>2. CASE A < i /\ i - A \in 1 .. B /\ c[i].at = from + (i - A) - 1
      <3>1. A < j /\ j - A \in 1 .. B /\ c[j].at = from + (j - A) - 1
        BY <1>4, <1>5, <1>8, <2>2
      <3> QED BY SMTT(30), <2>2, <3>1, <1>2, <1>4, <1>8
    <2> QED BY <1>5, <2>1, <2>2
  <1>9. ASSUME NEW i \in 1 .. A + B, i < A + B, "at" \in DOMAIN c[i], "at" \in DOMAIN c[i + 1] PROVE c[i + 1].at = c[i].at + 1
    <2>0. i + 1 \in 1 .. A + B
      BY <1>4, <1>9
    <2>1. CASE i \in 1 .. A /\ c[i] = q[i]
      <3>1. i # A
        BY <1>4, <1>9, <2>1 DEF EndsOpen, A
      <3>2. i < A /\ i + 1 \in 1 .. A /\ c[i + 1] = q[i + 1]
        BY <2>1, <3>1, <1>4
      <3> QED BY <1>9, <2>1, <3>2 DEF Shows, A
    <2>2. CASE A < i /\ i - A \in 1 .. B /\ c[i].at = from + (i - A) - 1
      <3>1. c[i + 1].at = from + (i + 1 - A) - 1
        BY <2>0, <2>2, <1>4, <1>5
      <3> QED BY <2>2, <3>1, <1>2, <1>4
    <2> QED BY <1>5, <2>1, <2>2
  <1> QED
    <2>1. {c[i].at : i \in {j \in 1 .. Len(c) : "at" \in DOMAIN c[j]}} = P \union (from .. to - 1)
      BY <1>4, <1>7
    <2>2. Shows(c, P \union (from .. to - 1))
      BY <2>1, <1>4, <1>8, <1>9 DEF Shows
    <2> QED BY <2>2 DEF c, t

LEMMA ByAdds ==
  ASSUME NEW q, NEW P, Shows(q, P), NEW k \in 1 .. RuleCount
  PROVE  Shows(q \o <<[by |-> k]>>, P) /\ EndsOpen(q \o <<[by |-> k]>>)
  <1>. DEFINE b == [by |-> k]
              A == Len(q)
              c == q \o <<b>>
  <1>1. b \in Out /\ "at" \notin DOMAIN b
    BY OutFields
  <1>2. q \in Seq(Out) /\ {q[i].at : i \in {j \in 1 .. A : "at" \in DOMAIN q[j]}} = P
    BY DEF Shows
  <1>. HIDE DEF b
  <1>3. c \in Seq(Out) /\ Len(c) = A + 1 /\ A \in Nat /\ c[A + 1] = b /\ \A i \in 1 .. A : c[i] = q[i]
    <2>1. c = Append(q, b)
      BY <1>1, <1>2, AppendIsConcat
    <2> QED BY <2>1, <1>1, <1>2, AppendProperties
  <1>. HIDE DEF c
  <1>4. /\ A + 1 \in 1 .. A + 1 /\ (\A i \in 1 .. A : i \in 1 .. A + 1) /\ \A i \in 1 .. A + 1 : i \in 1 .. A \/ i = A + 1
    BY <1>3
  <1>5. \A i \in 1 .. A + 1 : "at" \in DOMAIN c[i] => i \in 1 .. A /\ c[i] = q[i]
    BY <1>1, <1>3, <1>4
  <1>6. {c[i].at : i \in {j \in 1 .. A + 1 : "at" \in DOMAIN c[j]}} = P
    <2>1. {j \in 1 .. A + 1 : "at" \in DOMAIN c[j]} = {j \in 1 .. A : "at" \in DOMAIN q[j]}
      BY <1>3, <1>4, <1>5
    <2>2. \A i \in {j \in 1 .. A : "at" \in DOMAIN q[j]} : c[i] = q[i]
      BY <1>3
    <2> QED BY <2>1, <2>2, <1>2
  <1>7. \A i, j \in 1 .. A + 1 : "at" \in DOMAIN c[i] /\ "at" \in DOMAIN c[j] /\ i < j => c[i].at < c[j].at
    BY <1>5 DEF Shows, A
  <1>8. ASSUME NEW i \in 1 .. A + 1, i < A + 1, "at" \in DOMAIN c[i], "at" \in DOMAIN c[i + 1] PROVE c[i + 1].at = c[i].at + 1
    <2>1. i + 1 \in 1 .. A + 1 /\ i \in 1 .. A
      BY <1>3, <1>8
    <2>2. i + 1 \in 1 .. A /\ c[i + 1] = q[i + 1] /\ c[i] = q[i] /\ i < A
      BY <2>1, <1>3, <1>5, <1>8
    <2> QED BY <2>1, <2>2, <1>8 DEF Shows, A
  <1> QED
    <2>1. Shows(c, P)
      BY <1>3, <1>6, <1>7, <1>8 DEF Shows
    <2>2. EndsOpen(c)
      BY <1>1, <1>3 DEF EndsOpen
    <2> QED BY <2>1, <2>2 DEF c, b

\* The positions before the end of the k-th range that none of the ranges covers.
Uncovered(s, k, e) == {p \in 0 .. e - 1 : \A j \in 1 .. k : ~(s[j].start <= p /\ p < s[j].end)}
EndOf(s, k) == IF k = 0 THEN 0 ELSE s[k].end

LEMMA BuiltIs ==
  ASSUME NEW s \in Seq(Match), Forward(s), Disjoint(s)
  PROVE  /\ FoldLeft(Replaced, Nothing, s).end = EndOf(s, Len(s))
         /\ Shows(FoldLeft(Replaced, Nothing, s).out, Uncovered(s, Len(s), EndOf(s, Len(s))))
         /\ EndsOpen(FoldLeft(Replaced, Nothing, s).out)
  <1>. DEFINE n == Len(s)
  <1>1. n \in Nat /\ \A i \in 1 .. n : /\ s[i] \in Match /\ s[i].start \in 0 .. TextLength /\ s[i].end \in 0 .. TextLength
                                       /\ s[i].rule \in 1 .. RuleCount
    <2>1. n \in Nat /\ \A i \in 1 .. n : s[i] \in Match
      OBVIOUS
    <2> QED BY <2>1 DEF Match
  <1>2. PICK g : /\ g[0] = Nothing /\ FoldLeft(Replaced, Nothing, s) = g[n]
                 /\ \A k \in 1 .. n : g[k] = Replaced(g[k - 1], s[k])
    BY ReplaceRuns
  <1>3. TextLength \in Nat
    BY TextAssumption
  <1>. DEFINE OK(k) == /\ g[k].end = EndOf(s, k) /\ Shows(g[k].out, Uncovered(s, k, EndOf(s, k))) /\ EndsOpen(g[k].out)
              N == {k \in Nat : k <= n => OK(k)}
  <1>4. 0 \in N
    <2>1. <<>> \in Seq(Out) /\ Len(<<>>) = 0 /\ 1 .. 0 = {} /\ 0 .. 0 - 1 = {}
      OBVIOUS
    <2>2. Uncovered(s, 0, 0) = {} /\ EndOf(s, 0) = 0
      BY <2>1 DEF Uncovered, EndOf
    <2>3. Shows(<<>>, {}) /\ EndsOpen(<<>>)
      BY <2>1 DEF Shows, EndsOpen
    <2>4. g[0].out = <<>> /\ g[0].end = 0
      BY <1>2 DEF Nothing
    <2> QED BY <2>2, <2>3, <2>4
  <1>5. ASSUME NEW k \in Nat, k \in N PROVE k + 1 \in N
    <2>. SUFFICES ASSUME k + 1 <= n PROVE OK(k + 1)
      OBVIOUS
    <2>. DEFINE m == s[k + 1]
                e == EndOf(s, k)
                P == Uncovered(s, k, e)
                R == Uncovered(s, k + 1, m.end)
    <2>1. /\ k + 1 \in 1 .. n /\ (k + 1) - 1 = k /\ k <= n /\ (\A j \in 1 .. k + 1 : j \in 1 .. k \/ j = k + 1)
          /\ k + 1 \in 1 .. k + 1 /\ \A j \in 1 .. k : j \in 1 .. n /\ j < k + 1 /\ j \in 1 .. k + 1 /\ (j = k \/ j < k)
      BY <1>1
    <2>2. OK(k) /\ g[k + 1] = Replaced(g[k], m)
      BY <1>2, <1>5, <2>1
    <2>3. m.start \in 0 .. TextLength /\ m.end \in 0 .. TextLength /\ m.start <= m.end /\ m.rule \in 1 .. RuleCount
      BY <1>1, <2>1 DEF Forward
    <2>4. e \in 0 .. TextLength /\ e <= m.start /\ \A j \in 1 .. k : s[j].end <= e
      <3>1. CASE k = 0
        BY <3>1, <1>3, <2>3 DEF EndOf
      <3>2. CASE k # 0
        <4>1. e = s[k].end /\ k \in 1 .. k /\ k \in 1 .. n
          BY <3>2, <2>1 DEF EndOf
        <4>2. e \in 0 .. TextLength /\ e <= m.start
          BY <4>1, <1>1, <2>1 DEF Disjoint
        <4>3. ASSUME NEW j \in 1 .. k PROVE s[j].end <= e
          <5>1. CASE j = k
            BY <5>1, <4>1, <4>2, <1>3
          <5>2. CASE j < k
            <6>1. s[j].end <= s[k].start /\ s[k].start <= s[k].end
              BY <5>2, <4>1, <2>1 DEF Disjoint, Forward
            <6>2. s[j].end \in Nat /\ s[k].start \in Nat /\ s[k].end \in Nat
              BY <4>1, <1>1, <1>3, <2>1
            <6> QED BY <6>1, <6>2, <4>1
          <5> QED BY <5>1, <5>2, <2>1
        <4> QED BY <4>2, <4>3
      <3> QED BY <3>1, <3>2
    <2>5. \A p \in P : p < e
      BY <2>4, <1>3 DEF Uncovered
    <2>6. R = P \union (e .. m.start - 1)
      <3>1. ASSUME NEW p \in P PROVE p \in R
        <4>1. p \in 0 .. e - 1 /\ \A j \in 1 .. k : ~(s[j].start <= p /\ p < s[j].end)
          BY DEF Uncovered
        <4>2. p \in 0 .. m.end - 1 /\ ~(m.start <= p)
          BY <4>1, <2>3, <2>4, <1>3
        <4> QED BY <4>1, <4>2, <2>1 DEF Uncovered
      <3>2. ASSUME NEW p \in e .. m.start - 1 PROVE p \in R
        <4>1. p \in 0 .. m.end - 1 /\ ~(m.start <= p)
          BY <2>3, <2>4, <1>3
        <4>2. ASSUME NEW j \in 1 .. k PROVE ~(p < s[j].end)
          <5>1. s[j].end <= e /\ s[j].end \in Nat /\ e \in Nat /\ e <= p /\ p \in Nat
            BY <2>1, <2>4, <1>1, <1>3, <4>1
          <5> QED BY <5>1
        <4> QED BY <4>1, <4>2, <2>1 DEF Uncovered
      <3>3. ASSUME NEW p \in R PROVE p \in P \union (e .. m.start - 1)
        <4>1. p \in 0 .. m.end - 1 /\ \A j \in 1 .. k + 1 : ~(s[j].start <= p /\ p < s[j].end)
          BY DEF Uncovered
        <4>2. p \in Nat /\ p < m.start
          BY <4>1, <2>1, <2>3, <1>3
        <4>3. CASE p < e
          <5>1. p \in 0 .. e - 1
            BY <4>2, <4>3, <2>4, <1>3
          <5> QED BY <5>1, <4>1, <2>1 DEF Uncovered
        <4>4. CASE e <= p
          BY <4>2, <4>4, <2>3, <2>4, <1>3
        <4> QED BY <4>2, <4>3, <4>4, <2>4, <1>3
      <3> QED BY <3>1, <3>2, <3>3
    <2>7. /\ g[k].end = e /\ Shows(g[k].out, P) /\ EndsOpen(g[k].out)
      BY <2>2
    <2>8. g[k + 1].out = (g[k].out \o Text(e, m.start)) \o <<[by |-> m.rule]>> /\ g[k + 1].end = m.end
      <3>1. g[k + 1] = Replaced(g[k], m)
        BY <2>2
      <3>. DEFINE o == (g[k].out \o Text(g[k].end, m.start)) \o <<[by |-> m.rule]>>
      <3>2. g[k + 1] = [out |-> o, end |-> m.end]
        BY <3>1 DEF Replaced
      <3>3. g[k].end = e
        BY <2>7
      <3>. HIDE DEF o, m
      <3>4. g[k + 1].out = o /\ g[k + 1].end = m.end
        BY <3>2, BuiltFields
      <3>. HIDE DEF e
      <3> QED BY <3>3, <3>4 DEF o
    <2>9. EndOf(s, k + 1) = m.end
      BY DEF EndOf
    <2>. HIDE DEF m, e, P, R
    <2>10. Shows(g[k].out \o Text(e, m.start), R)
      BY <2>3, <2>4, <2>5, <2>6, <2>7, TextAdds
    <2>11. Shows(g[k + 1].out, R) /\ EndsOpen(g[k + 1].out)
      BY <2>3, <2>8, <2>10, ByAdds
    <2> QED BY <2>8, <2>9, <2>11 DEF R
  <1>6. N = Nat
    <2>1. N \in SUBSET Nat
      OBVIOUS
    <2>. HIDE DEF N
    <2> QED BY <1>4, <1>5, <2>1, Ind
  <1>7. OK(n)
    <2>. HIDE DEF OK
    <2> QED BY <1>1, <1>6
  <1> QED BY <1>2, <1>7

\* The redactor covers what the rules match, no more and no less.
LEMMA RedactMeans == ASSUME RedactInv PROVE RedactsTheUnion
  <1>. DEFINE s == SortedByStart(Collected)
              all == FoldLeft(Replaced, Nothing, Merged)
              n == Len(Merged)
  <1>1. /\ s \in Seq(Match) /\ Sorted(s) /\ \A x : Holds(s, x) <=> \E k \in 1 .. RuleCount : FoundBy(x, k)
    BY CollectedIs, SortedIs
  <1>2. ASSUME NEW i \in 1 .. Len(s)
        PROVE  \E k \in 1 .. RuleCount : \E j \in DOMAIN found[k] :
                 /\ s[i].start = found[k][j].start /\ s[i].end = found[k][j].end /\ s[i].rule = k
                 /\ s[i].start <= s[i].end
    <2>1. Holds(s, s[i])
      BY DEF Holds
    <2>2. PICK k \in 1 .. RuleCount : FoundBy(s[i], k)
      BY <2>1, <1>1
    <2>3. PICK j \in DOMAIN found[k] : s[i] = [start |-> found[k][j].start, end |-> found[k][j].end, rule |-> k]
      BY <2>2 DEF FoundBy
    <2>4. found[k][j].start <= found[k][j].end
      BY MatchesIn DEF MatchesAre
    <2> QED BY <2>3, <2>4
  <1>3. Forward(s)
    BY <1>2 DEF Forward
  <1>4. \A p \in Nat : InMatch(p) <=> \E i \in 1 .. Len(s) : s[i].start <= p /\ p < s[i].end
    <2>1. ASSUME NEW p \in Nat, NEW k \in 1 .. RuleCount, NEW j \in DOMAIN found[k], found[k][j].start <= p, p < found[k][j].end
          PROVE  \E i \in 1 .. Len(s) : s[i].start <= p /\ p < s[i].end
      <3>. DEFINE x == [start |-> found[k][j].start, end |-> found[k][j].end, rule |-> k]
      <3>1. FoundBy(x, k) /\ x.start = found[k][j].start /\ x.end = found[k][j].end
        BY DEF FoundBy
      <3>. HIDE DEF x
      <3>2. PICK i \in 1 .. Len(s) : s[i] = x
        BY <3>1, <1>1 DEF Holds
      <3> QED BY <3>1, <3>2, <2>1
    <2> QED BY <1>2, <2>1 DEF InMatch
  <1>5. Merged = FoldLeft(MergeStep, <<>>, s)
    BY DEF Merged
  <1>. HIDE DEF s
  <1>6. MergedOK(Merged, s, Len(s))
    BY <1>1, <1>3, <1>5, MergeIs
  <1>7. /\ Merged \in Seq(Match) /\ Forward(Merged) /\ Disjoint(Merged)
        /\ \A i \in 1 .. n : \E j \in 1 .. Len(s) : Merged[i].start = s[j].start /\ Merged[i].rule = s[j].rule
        /\ \A p \in Nat : Covers(Merged, p) <=> \E j \in 1 .. Len(s) : s[j].start <= p /\ p < s[j].end
    BY <1>6 DEF MergedOK
  <1>8. /\ all.end = EndOf(Merged, n) /\ Shows(all.out, Uncovered(Merged, n, EndOf(Merged, n))) /\ EndsOpen(all.out)
    BY <1>7, BuiltIs
  <1>9. Masked = all.out \o Text(all.end, TextLength)
    BY DEF Masked, Nothing
  <1>. HIDE DEF all
  <1>. DEFINE e == EndOf(Merged, n)
              P == Uncovered(Merged, n, e)
  <1>10. /\ n \in Nat /\ DOMAIN Merged = 1 .. n /\ TextLength \in Nat
         /\ \A i \in 1 .. n : Merged[i].end \in 0 .. TextLength /\ Merged[i].start \in 0 .. TextLength
    <2>1. \A i \in 1 .. n : Merged[i] \in Match
      BY <1>7
    <2> QED BY <2>1, <1>7, TextAssumption DEF Match
  <1>11. e \in 0 .. TextLength /\ \A i \in 1 .. n : Merged[i].end <= e
    <2>1. CASE n = 0
      BY <2>1, <1>10 DEF EndOf
    <2>2. CASE n # 0
      <3>1. n \in 1 .. n /\ e = Merged[n].end
        BY <2>2, <1>10 DEF EndOf
      <3>2. ASSUME NEW i \in 1 .. n PROVE Merged[i].end <= e
        <4>1. CASE i = n
          BY <4>1, <3>1, <1>10
        <4>2. CASE i < n
          <5>1. Merged[i].end <= Merged[n].start /\ Merged[n].start <= Merged[n].end
            BY <4>2, <3>1, <1>7 DEF Disjoint, Forward
          <5>2. Merged[i].end \in Nat /\ Merged[n].start \in Nat /\ Merged[n].end \in Nat
            BY <3>1, <1>10
          <5> QED BY <5>1, <5>2, <3>1
        <4>3. i \in Nat /\ n \in Nat /\ i <= n
          BY <1>10
        <4>. HIDE DEF n, e
        <4> QED BY <4>1, <4>2, <4>3
      <3> QED BY <3>1, <3>2, <1>10
    <2> QED BY <2>1, <2>2
  <1>12. Shows(Masked, P \union (e .. TextLength - 1))
    <2>1. \A p \in P : p < e
      BY <1>11, <1>10 DEF Uncovered
    <2>2. TextLength \in 0 .. TextLength /\ e <= TextLength
      BY <1>10, <1>11
    <2>. HIDE DEF e, P
    <2> QED BY <2>1, <2>2, <1>8, <1>9, <1>11, TextAdds DEF e, P
  <1>13. P \union (e .. TextLength - 1) = {p \in 0 .. TextLength - 1 : ~InMatch(p)}
    <2>1. ASSUME NEW p \in 0 .. TextLength - 1
          PROVE  InMatch(p) <=> \E j \in 1 .. n : Merged[j].start <= p /\ p < Merged[j].end
      <3>1. p \in Nat
        BY <1>10
      <3> QED BY <3>1, <1>4, <1>7 DEF Covers
    <2>2. ASSUME NEW p \in P PROVE p \in 0 .. TextLength - 1 /\ ~InMatch(p)
      <3>1. p \in 0 .. e - 1 /\ \A j \in 1 .. n : ~(Merged[j].start <= p /\ p < Merged[j].end)
        BY DEF Uncovered
      <3>2. p \in 0 .. TextLength - 1
        BY <3>1, <1>10, <1>11
      <3> QED BY <3>1, <3>2, <2>1
    <2>3. ASSUME NEW p \in e .. TextLength - 1 PROVE p \in 0 .. TextLength - 1 /\ ~InMatch(p)
      <3>1. p \in 0 .. TextLength - 1 /\ p \in Nat /\ e \in Nat /\ e <= p
        BY <1>10, <1>11
      <3>2. \A j \in 1 .. n : ~(p < Merged[j].end)
        <4>1. ASSUME NEW j \in 1 .. n PROVE ~(p < Merged[j].end)
          <5>1. Merged[j].end \in Nat /\ Merged[j].end <= e
            BY <1>10, <1>11
          <5> QED BY <5>1, <3>1
        <4> QED BY <4>1
      <3> QED BY <3>1, <3>2, <2>1
    <2>4. ASSUME NEW p \in 0 .. TextLength - 1, ~InMatch(p) PROVE p \in P \union (e .. TextLength - 1)
      <3>1. \A j \in 1 .. n : ~(Merged[j].start <= p /\ p < Merged[j].end)
        BY <2>1, <2>4
      <3>2. CASE p < e
        <4>1. p \in 0 .. e - 1
          BY <3>2, <1>10, <1>11
        <4> QED BY <3>1, <4>1 DEF Uncovered
      <3>3. CASE e <= p
        BY <3>3, <1>10, <1>11
      <3> QED BY <3>2, <3>3, <1>10, <1>11
    <2>. HIDE DEF P, e
    <2> QED BY <2>2, <2>3, <2>4
  <1>. HIDE DEF e, P
  <1>14. Shows(Masked, {p \in 0 .. TextLength - 1 : ~InMatch(p)})
    BY <1>12, <1>13
  <1>. DEFINE kept == {i \in DOMAIN Masked : "at" \in DOMAIN Masked[i]}
  <1>15. Masked \in Seq(Out) /\ DOMAIN Masked = 1 .. Len(Masked) /\ Len(Masked) \in Nat
    BY <1>14 DEF Shows
  <1>16. {Masked[i].at : i \in kept} = {p \in 0 .. TextLength - 1 : ~InMatch(p)}
    BY <1>14, <1>15 DEF Shows
  <1>17. \A i, j \in kept : i < j => Masked[i].at < Masked[j].at
    BY <1>14, <1>15 DEF Shows
  <1>18. \A i \in kept : i + 1 \in kept => Masked[i + 1].at = Masked[i].at + 1
    <2>1. \A i \in kept : i + 1 \in kept => i < Len(Masked)
      BY <1>15
    <2> QED BY <2>1, <1>14, <1>15 DEF Shows
  <1>19. \A m \in {Merged[i] : i \in DOMAIN Merged} : \E j \in DOMAIN found[m.rule] : found[m.rule][j].start = m.start
    <2>1. ASSUME NEW i \in 1 .. n PROVE \E j \in DOMAIN found[Merged[i].rule] : found[Merged[i].rule][j].start = Merged[i].start
      <3>1. PICK c \in 1 .. Len(s) : Merged[i].start = s[c].start /\ Merged[i].rule = s[c].rule
        BY <1>7
      <3>2. PICK k \in 1 .. RuleCount : \E j \in DOMAIN found[k] : s[c].start = found[k][j].start /\ s[c].rule = k
        BY <1>2
      <3> QED BY <3>1, <3>2
    <2> QED BY <2>1, <1>10
  <1> QED BY <1>16, <1>17, <1>18, <1>19 DEF RedactsTheUnion

LEMMA RedactStart == RedactionInit => RedactInv
  BY DEF RedactionInit, RedactInv

\* A step that leaves the variables of the component alone keeps its invariant.
LEMMA MaskingStill ==
    /\ RedactInv /\ UNCHANGED found => RedactInv'
    /\ RegInv /\ UNCHANGED regVars => RegInv'
  <1>1. RedactInv /\ UNCHANGED found => RedactInv'
    BY DEF RedactInv, FindAll
  <1>2. RegInv /\ UNCHANGED regVars => RegInv'
    <2>. SUFFICES ASSUME RegInv, UNCHANGED regVars PROVE RegInv'
      OBVIOUS
    <2>1. /\ snames' = snames /\ spats' = spats /\ sids' = sids /\ scount' = scount /\ ask' = ask
          /\ answers' = answers /\ blanks' = blanks /\ resets' = resets
      BY DEF regVars
    <2>2. RegTypes' /\ IdsHaveNames' /\ AnswersRight'
      BY <2>1 DEF RegInv, RegTypes, IdsHaveNames, AnswersRight
    <2>3. CertainStays'
      <3>1. \A n : Certain(n) => Certain(n)'
        BY <2>1 DEF Certain
      <3> QED BY <2>1, <3>1 DEF RegInv, CertainStays
    <2>4. AsksCounted'
      BY <2>1 DEF RegInv, AsksCounted, InPattern
    <2> QED BY <2>2, <2>3, <2>4 DEF RegInv
  <1> QED BY <1>1, <1>2
==============================================================================
