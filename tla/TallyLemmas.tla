----------------------------- MODULE TallyLemmas ----------------------------
(***************************************************************************)
(* Facts about sums, those of Tally over 1..n and those over finite sets,  *)
(* for every length, every set and every function.  The induction is       *)
(* carried by the least element of the set of counterexamples.             *)
(***************************************************************************)
EXTENDS Tally, FiniteSetTheorems, TLAPS

\* s holds running sums of f up to m.
Accumulates(s, f, m) == s[0] = 0 /\ \A i \in 1..m : s[i] = s[i - 1] + f[i]
HasRunning(f, m) == \E s \in [0..m -> Int] : Accumulates(s, f, m)

\* Every non-empty set of naturals has a least element.
LEMMA LeastNatural ==
  ASSUME NEW T \in SUBSET Nat, T # {}
  PROVE  \E m \in T : \A k \in T : m <= k
<1> DEFINE R == OpToRel(<, Nat)
<1>1. IsWellFoundedOn(R, Nat)
  BY NatLessThanWellFounded
<1>2. \A y, x \in Nat : y < x => <<y, x>> \in R
  BY DEF OpToRel
<1> HIDE DEF R
<1>3. PICK x \in T : \A y \in T : ~ (<<y, x>> \in R)
  BY <1>1, WFMin
<1>4. \A y \in T : ~ (y < x)
  BY <1>2, <1>3
<1> QED
  BY <1>4

\* The recursion of Running has a solution.
LEMMA RunningExists ==
  ASSUME NEW n \in Nat, NEW f \in [1..n -> Int]
  PROVE  HasRunning(f, n)
<1> DEFINE T == {m \in 0..n : ~ HasRunning(f, m)}
<1> SUFFICES ASSUME T # {} PROVE FALSE
  OBVIOUS
<1>1. PICK m \in T : \A k \in T : m <= k
  <2>1. T \in SUBSET Nat
    OBVIOUS
  <2> HIDE DEF T
  <2> QED
    BY <2>1, LeastNatural
<1>2. m # 0
  <2> DEFINE z == [i \in {0} |-> 0]
  <2>1. z \in [0..0 -> Int] /\ z[0] = 0
    OBVIOUS
  <2> HIDE DEF z
  <2>2. Accumulates(z, f, 0)
    BY <2>1 DEF Accumulates
  <2>3. HasRunning(f, 0)
    BY <2>1, <2>2 DEF HasRunning
  <2> QED
    BY <2>3
<1>3. HasRunning(f, m - 1)
  BY <1>1, <1>2
<1>4. PICK s \in [0..(m - 1) -> Int] : Accumulates(s, f, m - 1)
  BY <1>3 DEF HasRunning
<1> DEFINE t == [i \in 0..m |-> IF i = m THEN s[m - 1] + f[m] ELSE s[i]]
<1>5. t \in [0..m -> Int] /\ t[0] = 0
  BY <1>1, <1>2, <1>4 DEF Accumulates
<1>6. \A i \in 1..m : t[i] = t[i - 1] + f[i]
  BY <1>1, <1>2, <1>4, SMTT(30) DEF Accumulates
<1>7. HasRunning(f, m)
  BY <1>5, <1>6 DEF HasRunning, Accumulates
<1> QED
  BY <1>7

\* It has one solution only.
LEMMA RunningUnique ==
  ASSUME NEW n \in Nat, NEW f \in [1..n -> Int], NEW s, NEW t,
         Accumulates(s, f, n), Accumulates(t, f, n)
  PROVE  \A m \in 0..n : s[m] = t[m]
<1> DEFINE T == {m \in 0..n : s[m] # t[m]}
<1> SUFFICES ASSUME T # {} PROVE FALSE
  OBVIOUS
<1>1. PICK m \in T : \A k \in T : m <= k
  <2>1. T \in SUBSET Nat
    OBVIOUS
  <2> HIDE DEF T
  <2> QED
    BY <2>1, LeastNatural
<1>2. m # 0
  BY DEF Accumulates
<1>3. s[m - 1] = t[m - 1]
  BY <1>1, <1>2
<1> QED
  BY <1>2, <1>3 DEF Accumulates

\* Running is that solution: the recursive definition may be unfolded.
LEMMA RunningIs ==
  ASSUME NEW n \in Nat, NEW f \in [1..n -> Int]
  PROVE  Accumulates(Running(f, n), f, n)
<1> DEFINE Unfold(s) == [i \in 0..n |-> IF i = 0 THEN 0 ELSE s[i - 1] + f[i]]
<1>1. \E s : s = Unfold(s)
  <2>1. PICK s \in [0..n -> Int] : Accumulates(s, f, n)
    BY RunningExists DEF HasRunning
  <2>2. s = Unfold(s)
    BY <2>1 DEF Accumulates
  <2> QED
    BY <2>2
<1>2. Running(f, n) = CHOOSE s : s = Unfold(s)
  BY DEF Running
<1>3. Running(f, n) = Unfold(Running(f, n))
  <2> HIDE DEF Unfold
  <2> QED
    BY <1>1, <1>2, Zenon
<1> DEFINE p == Running(f, n)
<1>4. p = [i \in 0..n |-> IF i = 0 THEN 0 ELSE p[i - 1] + f[i]]
  BY <1>3
<1> HIDE DEF p
<1>5. p[0] = 0
  BY <1>4
<1>6. ASSUME NEW i \in 1..n PROVE p[i] = p[i - 1] + f[i]
  <2>1. i \in 0..n /\ i # 0
    OBVIOUS
  <2> QED
    BY <1>4, <2>1
<1>7. Accumulates(p, f, n)
  BY <1>5, <1>6 DEF Accumulates
<1> QED
  BY <1>7 DEF p

\* Any running sums end in the total.
LEMMA TotalIs ==
  ASSUME NEW n \in Nat, NEW f \in [1..n -> Int],
         NEW s, Accumulates(s, f, n)
  PROVE  Total(f, n) = s[n]
BY RunningIs, RunningUnique DEF Total

\* The total of a tally of numbers is a number.
LEMMA TotalType ==
  ASSUME NEW n \in Nat, NEW f \in [1..n -> Int]
  PROVE  Total(f, n) \in Int
<1>1. PICK s \in [0..n -> Int] : Accumulates(s, f, n)
  BY RunningExists DEF HasRunning
<1> QED
  BY <1>1, TotalIs

\* Changing one entry changes the total by as much.
LEMMA TotalUpdate ==
  ASSUME NEW n \in Nat, NEW f \in [1..n -> Int], NEW g \in [1..n -> Int],
         NEW k \in 1..n, \A i \in 1..n : i # k => g[i] = f[i]
  PROVE  Total(g, n) = Total(f, n) + (g[k] - f[k])
<1>1. PICK s \in [0..n -> Int] : Accumulates(s, f, n)
  BY RunningExists DEF HasRunning
<1> DEFINE t == [i \in 0..n |-> IF i < k THEN s[i] ELSE s[i] + (g[k] - f[k])]
<1>2. Accumulates(t, g, n)
  <2>1. t[0] = 0
    BY <1>1 DEF Accumulates
  <2>2. ASSUME NEW i \in 1..n PROVE t[i] = t[i - 1] + g[i]
    <3>1. s[i] = s[i - 1] + f[i] /\ s[i] \in Int /\ s[i - 1] \in Int
      BY <1>1 DEF Accumulates
    <3>2. g[i] \in Int /\ f[i] \in Int /\ g[k] \in Int /\ f[k] \in Int
      OBVIOUS
    <3>3. CASE i < k
      <4>1. t[i] = s[i] /\ t[i - 1] = s[i - 1]
        BY <3>3
      <4>2. g[i] = f[i]
        BY <3>3
      <4> QED
        BY <3>1, <4>1, <4>2
    <3>4. CASE i = k
      <4>1. t[i] = s[i] + (g[k] - f[k]) /\ t[i - 1] = s[i - 1]
        BY <3>4
      <4> HIDE DEF t
      <4> QED
        BY <3>1, <3>2, <3>4, <4>1
    <3>5. CASE i > k
      <4>1. t[i] = s[i] + (g[k] - f[k]) /\ t[i - 1] = s[i - 1] + (g[k] - f[k])
        BY <3>5, SMTT(30)
      <4>2. g[i] = f[i]
        BY <3>5
      <4> HIDE DEF t
      <4> QED
        BY <3>1, <3>2, <4>1, <4>2
    <3> QED
      BY <3>3, <3>4, <3>5
  <2> QED
    BY <2>1, <2>2 DEF Accumulates
<1>3. Total(g, n) = t[n] /\ Total(f, n) = s[n]
  BY <1>1, <1>2, TotalIs
<1> QED
  BY <1>3

\* Equal entries, equal totals.
LEMMA TotalSame ==
  ASSUME NEW n \in Nat, NEW f \in [1..n -> Int], NEW g \in [1..n -> Int],
         \A i \in 1..n : g[i] = f[i]
  PROVE  Total(g, n) = Total(f, n)
<1>1. f = g
  OBVIOUS
<1> QED
  BY <1>1

\* The total of a sum is the sum of the totals.
LEMMA TotalPlus ==
  ASSUME NEW n \in Nat, NEW f \in [1..n -> Int], NEW g \in [1..n -> Int],
         NEW h \in [1..n -> Int], \A i \in 1..n : h[i] = f[i] + g[i]
  PROVE  Total(h, n) = Total(f, n) + Total(g, n)
<1>1. PICK s \in [0..n -> Int] : Accumulates(s, f, n)
  BY RunningExists DEF HasRunning
<1>2. PICK t \in [0..n -> Int] : Accumulates(t, g, n)
  BY RunningExists DEF HasRunning
<1> DEFINE u == [i \in 0..n |-> s[i] + t[i]]
<1>3. Accumulates(u, h, n)
  <2>1. u[0] = 0
    BY <1>1, <1>2 DEF Accumulates
  <2>2. ASSUME NEW i \in 1..n PROVE u[i] = u[i - 1] + h[i]
    <3>1. s[i] = s[i - 1] + f[i] /\ s[i - 1] \in Int
      BY <1>1, SMTT(30) DEF Accumulates
    <3>2. t[i] = t[i - 1] + g[i] /\ t[i - 1] \in Int
      BY <1>2, SMTT(30) DEF Accumulates
    <3> QED
      BY <3>1, <3>2, SMTT(30)
  <2> QED
    BY <2>1, <2>2 DEF Accumulates
<1>4. Total(h, n) = u[n] /\ Total(f, n) = s[n] /\ Total(g, n) = t[n]
  BY <1>1, <1>2, <1>3, TotalIs
<1> QED
  BY <1>4

\* A total of naturals is not negative.
LEMMA TotalNat ==
  ASSUME NEW n \in Nat, NEW f \in [1..n -> Nat]
  PROVE  Total(f, n) >= 0
<1>1. PICK s \in [0..n -> Int] : Accumulates(s, f, n)
  <2>1. f \in [1..n -> Int]
    OBVIOUS
  <2> QED
    BY <2>1, RunningExists DEF HasRunning
<1> DEFINE T == {m \in 0..n : s[m] < 0}
<1>2. T = {}
  <2> SUFFICES ASSUME T # {} PROVE FALSE
    OBVIOUS
  <2>1. PICK m \in T : \A k \in T : m <= k
    <3>1. T \in SUBSET Nat
      OBVIOUS
    <3> HIDE DEF T
    <3> QED
      BY <3>1, LeastNatural
  <2>2. m # 0
    BY <1>1 DEF Accumulates
  <2>3. s[m - 1] >= 0
    BY <2>1, <2>2
  <2>4. s[m] = s[m - 1] + f[m]
    BY <1>1, <2>2 DEF Accumulates
  <2> QED
    BY <2>2, <2>3, <2>4
<1>3. Total(f, n) = s[n]
  BY <1>1, TotalIs
<1> QED
  BY <1>2, <1>3

\* A total of zeros is zero.
LEMMA TotalZero ==
  ASSUME NEW n \in Nat, NEW f \in [1..n -> Int], \A i \in 1..n : f[i] = 0
  PROVE  Total(f, n) = 0
<1> DEFINE z == [i \in 0..n |-> 0]
<1>1. Accumulates(z, f, n)
  BY DEF Accumulates
<1> QED
  BY <1>1, TotalIs

\* The total of two tallies one after the other.
LEMMA TotalJoin ==
  ASSUME NEW m \in Nat, NEW n \in Nat, NEW f \in [1..m -> Int], NEW g \in [1..n -> Int],
         NEW h \in [1..(m + n) -> Int],
         \A i \in 1..m : h[i] = f[i], \A i \in 1..n : h[m + i] = g[i]
  PROVE  Total(h, m + n) = Total(f, m) + Total(g, n)
<1>1. PICK s \in [0..m -> Int] : Accumulates(s, f, m)
  BY RunningExists DEF HasRunning
<1>2. PICK t \in [0..n -> Int] : Accumulates(t, g, n)
  BY RunningExists DEF HasRunning
<1> DEFINE u == [i \in 0..(m + n) |-> IF i <= m THEN s[i] ELSE s[m] + t[i - m]]
<1>3. Accumulates(u, h, m + n)
  <2>1. u[0] = 0
    BY <1>1 DEF Accumulates
  <2>2. ASSUME NEW i \in 1..(m + n) PROVE u[i] = u[i - 1] + h[i]
    <3>1. CASE i <= m
      <4>1. i \in 1..m /\ i \in 0..(m + n) /\ i - 1 \in 0..(m + n) /\ i - 1 <= m
        BY <3>1
      <4>2. u[i] = s[i] /\ u[i - 1] = s[i - 1]
        BY <3>1, <4>1
      <4> QED
        BY <1>1, <4>1, <4>2 DEF Accumulates
    <3>2. CASE i > m
      <4> DEFINE j == i - m
      <4>1. j \in 1..n /\ i = m + j /\ i \in 0..(m + n) /\ i - 1 \in 0..(m + n) /\ ~(i <= m)
        BY <3>2
      <4>2. t[j] = t[j - 1] + g[j] /\ h[i] = g[j] /\ t[j - 1] \in Int /\ g[j] \in Int /\ s[m] \in Int
        BY <1>1, <1>2, <4>1 DEF Accumulates
      <4>3. u[i] = s[m] + t[j]
        BY <4>1
      <4>4. u[i - 1] = s[m] + t[j - 1]
        <5>1. CASE j = 1
          <6>1. i - 1 = m /\ t[j - 1] = 0
            BY <1>2, <4>1, <5>1 DEF Accumulates
          <6>2. u[i - 1] = s[m]
            BY <4>1, <6>1
          <6> QED
            BY <4>2, <6>1, <6>2
        <5>2. CASE j # 1
          <6>1. ~(i - 1 <= m) /\ (i - 1) - m = j - 1
            BY <4>1, <5>2
          <6> QED
            BY <4>1, <6>1
        <5> QED
          BY <5>1, <5>2
      <4> HIDE DEF u, j
      <4> QED
        BY <4>2, <4>3, <4>4
    <3> QED
      BY <3>1, <3>2
  <2> QED
    BY <2>1, <2>2 DEF Accumulates
<1>4. Total(h, m + n) = u[m + n] /\ Total(f, m) = s[m] /\ Total(g, n) = t[n]
  <2>1. m + n \in Nat
    OBVIOUS
  <2> HIDE DEF u
  <2> QED
    BY <1>1, <1>2, <1>3, <2>1, TotalIs
<1>5. u[m + n] = s[m] + t[n]
  <2>1. CASE n = 0
    <3>1. t[n] = 0 /\ s[m] \in Int
      BY <1>2, <2>1 DEF Accumulates
    <3> QED
      BY <2>1, <3>1
  <2>2. CASE n # 0
    BY <2>2
  <2> QED
    BY <2>1, <2>2
<1> QED
  BY <1>4, <1>5

(***************************************************************************)
(* Sums over finite sets: SumFunctionOnSet of the community modules, which *)
(* folds a CHOOSE, depends on the entries only.                            *)
(***************************************************************************)

\* What holds of the empty set and is kept by adding an element holds of a
\* finite set.
LEMMA SetInduction ==
  ASSUME NEW S, IsFiniteSet(S), NEW Good, {} \in Good,
         \A T \in SUBSET S, x \in S : T \in Good => T \cup {x} \in Good
  PROVE  S \in Good
<1> DEFINE Sizes == {n \in Nat : \E T \in SUBSET S : T \notin Good /\ Cardinality(T) = n}
<1>1. \A T \in SUBSET S : IsFiniteSet(T) /\ Cardinality(T) \in Nat
  BY FS_Subset, FS_CardinalityType
<1> SUFFICES ASSUME S \notin Good PROVE FALSE
  OBVIOUS
<1>2. Sizes # {} /\ Sizes \in SUBSET Nat
  BY <1>1
<1> HIDE DEF Sizes
<1>3. PICK n \in Sizes : \A k \in Sizes : n <= k
  BY <1>2, LeastNatural
<1>4. PICK T \in SUBSET S : T \notin Good /\ Cardinality(T) = n
  BY <1>3 DEF Sizes
<1>5. PICK x \in T : TRUE
  BY <1>4
<1>6. Cardinality(T \ {x}) = n - 1 /\ n \in Nat /\ Cardinality(T \ {x}) \in Nat
  BY <1>1, <1>4, <1>5, FS_RemoveElement
<1>7. T \ {x} \in Good
  BY <1>3, <1>6 DEF Sizes
<1>8. (T \ {x}) \cup {x} = T
  BY <1>5
<1> QED
  BY <1>4, <1>5, <1>7, <1>8

\* The element a fold over s takes first.
First(s) == CHOOSE x \in s : TRUE

\* it is the fold of f over the sets of D.
FoldsOver(it, f, D) ==
  \A s \in D : it[s] = IF s = {} THEN 0 ELSE f[First(s)] + it[s \ {First(s)}]

UpTo(S, m) == {T \in SUBSET S : Cardinality(T) <= m}

\* Taking the first element out of a set leaves a smaller one.
LEMMA SmallerSet ==
  ASSUME NEW S, IsFiniteSet(S), NEW T \in SUBSET S, T # {}
  PROVE  /\ First(T) \in T /\ T \ {First(T)} \in SUBSET S
         /\ Cardinality(T \ {First(T)}) = Cardinality(T) - 1
         /\ Cardinality(T) \in Nat
<1>1. First(T) \in T
  BY DEF First
<1>2. IsFiniteSet(T)
  BY FS_Subset
<1> QED
  BY <1>1, <1>2, FS_RemoveElement, FS_CardinalityType

\* The recursion of SumFunctionOnSet has a solution.
LEMMA FoldExists ==
  ASSUME NEW S, IsFiniteSet(S), NEW f, \A x \in S : f[x] \in Int
  PROVE  \E it \in [SUBSET S -> Int] : FoldsOver(it, f, SUBSET S)
<1> DEFINE Has(m) == \E it \in [UpTo(S, m) -> Int] : FoldsOver(it, f, UpTo(S, m))
           Bad == {m \in Nat : ~ Has(m)}
<1>1. \A T \in SUBSET S : IsFiniteSet(T) /\ Cardinality(T) \in Nat
  BY FS_Subset, FS_CardinalityType
<1>2. Bad = {}
  <2> SUFFICES ASSUME Bad # {} PROVE FALSE
    OBVIOUS
  <2>1. PICK m \in Bad : \A k \in Bad : m <= k
    <3>1. Bad \in SUBSET Nat
      OBVIOUS
    <3> HIDE DEF Bad
    <3> QED
      BY <3>1, LeastNatural
  <2>2. m # 0
    <3>1. UpTo(S, 0) = {{}}
      BY <1>1, FS_EmptySet DEF UpTo
    <3> DEFINE z == [s \in UpTo(S, 0) |-> 0]
    <3>2. z \in [UpTo(S, 0) -> Int] /\ FoldsOver(z, f, UpTo(S, 0))
      BY <3>1 DEF FoldsOver
    <3> QED
      BY <3>2
  <2>3. PICK it \in [UpTo(S, m - 1) -> Int] : FoldsOver(it, f, UpTo(S, m - 1))
    BY <2>1, <2>2
  <2> DEFINE jt == [s \in UpTo(S, m) |-> IF s = {} THEN 0 ELSE f[First(s)] + it[s \ {First(s)}]]
  <2>4. ASSUME NEW s \in UpTo(S, m), s # {}
        PROVE  s \ {First(s)} \in UpTo(S, m - 1) /\ f[First(s)] \in Int
    BY <1>1, <2>1, <2>2, <2>4, SmallerSet DEF UpTo
  <2>5. jt \in [UpTo(S, m) -> Int]
    BY <2>3, <2>4
  <2>6. ASSUME NEW s \in UpTo(S, m - 1) PROVE s \in UpTo(S, m) /\ jt[s] = it[s]
    <3>1. s \in UpTo(S, m)
      BY <1>1, <2>1 DEF UpTo
    <3> QED
      BY <2>3, <3>1 DEF FoldsOver
  <2>7. FoldsOver(jt, f, UpTo(S, m))
    <3> SUFFICES ASSUME NEW s \in UpTo(S, m), s # {}
                 PROVE  jt[s] = f[First(s)] + jt[s \ {First(s)}]
      BY DEF FoldsOver
    <3>1. jt[s \ {First(s)}] = it[s \ {First(s)}]
      BY <2>4, <2>6
    <3> QED
      BY <3>1
  <2> QED
    BY <2>1, <2>5, <2>7
<1>3. Has(Cardinality(S))
  BY <1>1, <1>2
<1>4. UpTo(S, Cardinality(S)) = SUBSET S
  BY FS_Subset DEF UpTo
<1> QED
  BY <1>3, <1>4

\* It has one solution only, on whatever sets two of them have in common.
LEMMA FoldUnique ==
  ASSUME NEW S, IsFiniteSet(S), NEW U, S \in SUBSET U, NEW f, NEW it, NEW jt,
         FoldsOver(it, f, SUBSET S), FoldsOver(jt, f, SUBSET U)
  PROVE  it[S] = jt[S]
<1> DEFINE Sizes == {n \in Nat : \E T \in SUBSET S : it[T] # jt[T] /\ Cardinality(T) = n}
<1>1. \A T \in SUBSET S : IsFiniteSet(T) /\ Cardinality(T) \in Nat
  BY FS_Subset, FS_CardinalityType
<1> SUFFICES ASSUME it[S] # jt[S] PROVE FALSE
  OBVIOUS
<1>2. Sizes # {} /\ Sizes \in SUBSET Nat
  BY <1>1
<1> HIDE DEF Sizes
<1>3. PICK n \in Sizes : \A k \in Sizes : n <= k
  BY <1>2, LeastNatural
<1>4. PICK T \in SUBSET S : it[T] # jt[T] /\ Cardinality(T) = n
  BY <1>3 DEF Sizes
<1>5. T \in SUBSET U
  OBVIOUS
<1>6. T # {}
  BY <1>4, <1>5 DEF FoldsOver
<1>7. it[T \ {First(T)}] = jt[T \ {First(T)}]
  <2>1. T \ {First(T)} \in SUBSET S /\ Cardinality(T \ {First(T)}) = n - 1 /\ n \in Nat
    BY <1>4, <1>6, SmallerSet
  <2> QED
    BY <1>1, <1>3, <2>1 DEF Sizes
<1> QED
  BY <1>4, <1>5, <1>6, <1>7 DEF FoldsOver

\* A solution evaluated at S is the sum over S.
LEMMA SumIs ==
  ASSUME NEW S, IsFiniteSet(S), NEW f, \A x \in S : f[x] \in Int
  PROVE  \E it \in [SUBSET S -> Int] : /\ FoldsOver(it, f, SUBSET S)
                                       /\ SumFunctionOnSet(f, S) = it[S]
<1> DEFINE Unfold(it) == [s \in SUBSET S |-> IF s = {} THEN 0 ELSE f[First(s)] + it[s \ {First(s)}]]
           fold == CHOOSE it : it = Unfold(it)
<1>1. SumFunctionOnSet(f, S) = fold[S]
  BY DEF SumFunctionOnSet, FoldFunctionOnSet, MapThenFoldSet, First
<1>2. PICK it \in [SUBSET S -> Int] : FoldsOver(it, f, SUBSET S)
  BY FoldExists
<1>3. it = Unfold(it)
  BY <1>2 DEF FoldsOver
<1>4. fold = Unfold(fold)
  <2> HIDE DEF Unfold
  <2> QED
    BY <1>3, Zenon
<1> HIDE DEF fold
<1>5. FoldsOver(fold, f, SUBSET S)
  BY <1>4 DEF FoldsOver
<1>6. fold[S] = it[S]
  BY <1>2, <1>5, FoldUnique
<1> QED
  BY <1>1, <1>2, <1>6

\* The sum over no element is 0; a sum of integers is one.
LEMMA SumEmpty == ASSUME NEW f PROVE SumFunctionOnSet(f, {}) = 0
<1>1. IsFiniteSet({})
  BY FS_EmptySet
<1>2. PICK it \in [SUBSET {} -> Int] : FoldsOver(it, f, SUBSET {}) /\ SumFunctionOnSet(f, {}) = it[{}]
  BY <1>1, SumIs
<1> QED
  BY <1>2 DEF FoldsOver

\* A sum of integers is an integer.
LEMMA SumInt ==
  ASSUME NEW S, IsFiniteSet(S), NEW f, \A x \in S : f[x] \in Int
  PROVE  SumFunctionOnSet(f, S) \in Int
<1>1. PICK it \in [SUBSET S -> Int] : SumFunctionOnSet(f, S) = it[S]
  BY SumIs
<1> QED
  BY <1>1

\* The first element may be split off ...
LEMMA SumFirst ==
  ASSUME NEW S, IsFiniteSet(S), S # {}, NEW f, \A x \in S : f[x] \in Int
  PROVE  SumFunctionOnSet(f, S) = f[First(S)] + SumFunctionOnSet(f, S \ {First(S)})
<1> DEFINE T == S \ {First(S)}
<1>1. PICK it \in [SUBSET S -> Int] : FoldsOver(it, f, SUBSET S) /\ SumFunctionOnSet(f, S) = it[S]
  BY SumIs
<1>2. IsFiniteSet(T) /\ T \in SUBSET S
  BY FS_RemoveElement
<1>3. PICK jt \in [SUBSET T -> Int] : FoldsOver(jt, f, SUBSET T) /\ SumFunctionOnSet(f, T) = jt[T]
  BY <1>2, SumIs
<1>4. jt[T] = it[T]
  <2> HIDE DEF T
  <2> QED
    BY <1>1, <1>2, <1>3, FoldUnique
<1>5. it[S] = f[First(S)] + it[T]
  BY <1>1 DEF FoldsOver
<1> QED
  BY <1>1, <1>3, <1>4, <1>5

\* ... and so may any other.
LEMMA SumSplit ==
  ASSUME NEW S, IsFiniteSet(S), NEW f, \A y \in S : f[y] \in Int, NEW x \in S
  PROVE  SumFunctionOnSet(f, S) = f[x] + SumFunctionOnSet(f, S \ {x})
<1> DEFINE Splits(T) == \A y \in T : SumFunctionOnSet(f, T) = f[y] + SumFunctionOnSet(f, T \ {y})
           Sizes == {n \in Nat : \E T \in SUBSET S : ~ Splits(T) /\ Cardinality(T) = n}
<1>1. \A T \in SUBSET S : IsFiniteSet(T) /\ Cardinality(T) \in Nat
  BY FS_Subset, FS_CardinalityType
<1>2. Splits(S)
  <2> SUFFICES ASSUME ~ Splits(S) PROVE FALSE
    OBVIOUS
  <2>1. Sizes # {} /\ Sizes \in SUBSET Nat
    BY <1>1
  <2> HIDE DEF Sizes
  <2>2. PICK n \in Sizes : \A k \in Sizes : n <= k
    BY <2>1, LeastNatural
  <2>3. PICK T \in SUBSET S : ~ Splits(T) /\ Cardinality(T) = n
    BY <2>2 DEF Sizes
  <2>4. PICK y \in T : SumFunctionOnSet(f, T) # f[y] + SumFunctionOnSet(f, T \ {y})
    BY <2>3
  <2> DEFINE c == First(T)
  <2>5. c \in T /\ T \ {c} \in SUBSET S /\ T \ {y} \in SUBSET S
    BY <2>4 DEF First
  <2>6. /\ SumFunctionOnSet(f, T) = f[c] + SumFunctionOnSet(f, T \ {c})
    BY <1>1, <2>5, SumFirst
  <2> HIDE DEF c
  <2>7. y # c
    BY <2>4, <2>6
  <2>8. \A z \in T : Cardinality(T \ {z}) = n - 1 /\ n - 1 \in Nat /\ IsFiniteSet(T \ {z})
    <3> SUFFICES ASSUME NEW z \in T
                 PROVE  Cardinality(T \ {z}) = n - 1 /\ n - 1 \in Nat /\ IsFiniteSet(T \ {z})
      OBVIOUS
    <3>1. IsFiniteSet(T \ {z}) /\ Cardinality(T \ {z}) = n - 1
      BY <1>1, <2>3, FS_RemoveElement
    <3> QED
      BY <3>1, FS_CardinalityType
  <2>9. \A z \in T : Splits(T \ {z})
    <3> SUFFICES ASSUME NEW z \in T, ~ Splits(T \ {z}) PROVE FALSE
      OBVIOUS
    <3> HIDE DEF Splits
    <3>1. T \ {z} \in SUBSET S /\ Cardinality(T \ {z}) = n - 1 /\ n - 1 \in Nat
      BY <2>8
    <3>2. n - 1 \in Sizes
      BY <3>1 DEF Sizes
    <3>3. n \in Nat /\ n <= n - 1
      BY <2>1, <2>2, <3>1, <3>2
    <3> QED
      BY <3>3
  <2>10. SumFunctionOnSet(f, T \ {c}) = f[y] + SumFunctionOnSet(f, (T \ {c}) \ {y})
    BY <2>4, <2>5, <2>7, <2>9
  <2>11. SumFunctionOnSet(f, T \ {y}) = f[c] + SumFunctionOnSet(f, (T \ {y}) \ {c})
    BY <2>4, <2>5, <2>7, <2>9
  <2>12. (T \ {c}) \ {y} = (T \ {y}) \ {c}
    OBVIOUS
  <2>13. IsFiniteSet((T \ {c}) \ {y}) /\ \A z \in (T \ {c}) \ {y} : f[z] \in Int
    BY <2>5, <2>8, FS_RemoveElement
  <2>14. SumFunctionOnSet(f, (T \ {c}) \ {y}) \in Int /\ f[c] \in Int /\ f[y] \in Int
    BY <2>4, <2>5, <2>13, SumInt
  <2>15. SumFunctionOnSet(f, T) = f[c] + (f[y] + SumFunctionOnSet(f, (T \ {c}) \ {y}))
    BY <2>6, <2>10
  <2>16. SumFunctionOnSet(f, T \ {y}) = f[c] + SumFunctionOnSet(f, (T \ {c}) \ {y})
    BY <2>11, <2>12
  <2>17. \A a, b, d \in Int : a + (b + d) = b + (a + d)
    OBVIOUS
  <2> QED
    BY <2>4, <2>14, <2>15, <2>16, <2>17
<1> QED
  BY <1>2

\* Adding an element adds its entry.
LEMMA SumAdd ==
  ASSUME NEW T, IsFiniteSet(T), NEW x, x \notin T, NEW f, \A y \in T \cup {x} : f[y] \in Int
  PROVE  SumFunctionOnSet(f, T \cup {x}) = f[x] + SumFunctionOnSet(f, T)
<1>1. IsFiniteSet(T \cup {x}) /\ (T \cup {x}) \ {x} = T
  BY FS_AddElement
<1> QED
  BY <1>1, SumSplit

\* Entry by entry no larger, no larger altogether.
LEMMA SumMonotone ==
  ASSUME NEW S, IsFiniteSet(S), NEW f, NEW g,
         \A x \in S : f[x] \in Int /\ g[x] \in Int /\ f[x] <= g[x]
  PROVE  SumFunctionOnSet(f, S) <= SumFunctionOnSet(g, S)
<1> DEFINE Good == {T \in SUBSET S : SumFunctionOnSet(f, T) <= SumFunctionOnSet(g, T)}
<1>1. {} \in Good
  BY SumEmpty
<1>2. ASSUME NEW T \in SUBSET S, NEW x \in S, T \in Good PROVE T \cup {x} \in Good
  <2>1. CASE x \in T
    <3>1. T \cup {x} = T
      BY <2>1
    <3> QED
      BY <1>2, <3>1
  <2>2. CASE x \notin T
    <3>1. IsFiniteSet(T)
      BY FS_Subset
    <3>2. /\ SumFunctionOnSet(f, T \cup {x}) = f[x] + SumFunctionOnSet(f, T)
          /\ SumFunctionOnSet(g, T \cup {x}) = g[x] + SumFunctionOnSet(g, T)
      BY <2>2, <3>1, SumAdd
    <3>3. SumFunctionOnSet(f, T) \in Int /\ SumFunctionOnSet(g, T) \in Int
      BY <3>1, SumInt
    <3>4. T \cup {x} \in SUBSET S /\ f[x] \in Int /\ g[x] \in Int /\ f[x] <= g[x]
      OBVIOUS
    <3> QED
      BY <1>2, <3>2, <3>3, <3>4
  <2> QED
    BY <2>1, <2>2
<1>3. S \in Good
  <2> HIDE DEF Good
  <2> QED
    BY <1>1, <1>2, SetInduction
<1> QED
  BY <1>3

\* Equal entries, equal sums.
LEMMA SumSame ==
  ASSUME NEW S, IsFiniteSet(S), NEW f, NEW g, \A x \in S : f[x] \in Int /\ f[x] = g[x]
  PROVE  SumFunctionOnSet(f, S) = SumFunctionOnSet(g, S)
<1>1. SumFunctionOnSet(f, S) <= SumFunctionOnSet(g, S)
  BY SumMonotone
<1>2. SumFunctionOnSet(g, S) <= SumFunctionOnSet(f, S)
  BY SumMonotone
<1>3. SumFunctionOnSet(f, S) \in Int /\ SumFunctionOnSet(g, S) \in Int
  BY SumInt
<1> QED
  BY <1>1, <1>2, <1>3

\* Changing one entry changes the sum by as much.
LEMMA SumUpdate ==
  ASSUME NEW S, IsFiniteSet(S), NEW f, NEW g, NEW x \in S,
         \A y \in S : f[y] \in Int /\ g[y] \in Int,
         \A y \in S : y # x => g[y] = f[y]
  PROVE  SumFunctionOnSet(g, S) = SumFunctionOnSet(f, S) + (g[x] - f[x])
<1>1. IsFiniteSet(S \ {x})
  BY FS_RemoveElement
<1>2. SumFunctionOnSet(f, S \ {x}) = SumFunctionOnSet(g, S \ {x})
  BY <1>1, SumSame
<1>3. SumFunctionOnSet(f, S \ {x}) \in Int
  BY <1>1, SumInt
<1>4. /\ SumFunctionOnSet(f, S) = f[x] + SumFunctionOnSet(f, S \ {x})
      /\ SumFunctionOnSet(g, S) = g[x] + SumFunctionOnSet(g, S \ {x})
  BY SumSplit
<1> QED
  BY <1>2, <1>3, <1>4

\* Raising at most one entry, by d, raises the sum by d at most.
LEMMA SumRaised ==
  ASSUME NEW S, IsFiniteSet(S), NEW f, NEW g, NEW x, NEW d \in Nat,
         \A y \in S : f[y] \in Int /\ g[y] = IF y = x THEN f[y] + d ELSE f[y]
  PROVE  SumFunctionOnSet(g, S) <= SumFunctionOnSet(f, S) + d
<1>1. \A y \in S : f[y] \in Int /\ g[y] \in Int
  OBVIOUS
<1>2. SumFunctionOnSet(f, S) \in Int
  BY SumInt
<1>3. CASE x \in S
  <2>a. \A y \in S : y # x => g[y] = f[y]
    OBVIOUS
  <2>1. SumFunctionOnSet(g, S) = SumFunctionOnSet(f, S) + (g[x] - f[x])
    BY <1>1, <1>3, <2>a, SumUpdate
  <2>2. g[x] = f[x] + d /\ f[x] \in Int
    BY <1>3
  <2> QED
    BY <1>2, <2>1, <2>2
<1>4. CASE x \notin S
  <2>1. SumFunctionOnSet(f, S) = SumFunctionOnSet(g, S)
    BY <1>4, SumSame
  <2> QED
    BY <1>2, <2>1
<1> QED
  BY <1>3, <1>4

\* Changing one entry by at most d changes the sum by at most d.
LEMMA SumChanged ==
  ASSUME NEW S, IsFiniteSet(S), NEW f, NEW g, NEW x \in S, NEW d \in Int,
         \A y \in S : f[y] \in Int /\ g[y] \in Int,
         \A y \in S : y # x => g[y] = f[y],
         g[x] <= f[x] + d
  PROVE  SumFunctionOnSet(g, S) <= SumFunctionOnSet(f, S) + d
<1>1. SumFunctionOnSet(g, S) = SumFunctionOnSet(f, S) + (g[x] - f[x])
  BY SumUpdate
<1>2. SumFunctionOnSet(f, S) \in Int
  BY SumInt
<1> QED
  BY <1>1, <1>2

\* Entries up to m add up to m for each element at most.
LEMMA SumBound ==
  ASSUME NEW S, IsFiniteSet(S), NEW f, NEW m \in Int, \A x \in S : f[x] \in Int /\ f[x] <= m
  PROVE  SumFunctionOnSet(f, S) <= Cardinality(S) * m
<1> DEFINE Good == {T \in SUBSET S : SumFunctionOnSet(f, T) <= Cardinality(T) * m}
<1>1. {} \in Good
  BY SumEmpty, FS_EmptySet
<1>2. ASSUME NEW T \in SUBSET S, NEW x \in S, T \in Good PROVE T \cup {x} \in Good
  <2>1. CASE x \in T
    <3>1. T \cup {x} = T
      BY <2>1
    <3> QED
      BY <1>2, <3>1
  <2>2. CASE x \notin T
    <3>1. IsFiniteSet(T)
      BY FS_Subset
    <3>2. SumFunctionOnSet(f, T \cup {x}) = f[x] + SumFunctionOnSet(f, T)
      BY <2>2, <3>1, SumAdd
    <3>3. SumFunctionOnSet(f, T) \in Int /\ Cardinality(T) \in Nat
      BY <3>1, SumInt, FS_CardinalityType
    <3>4. Cardinality(T \cup {x}) = Cardinality(T) + 1
      BY <2>2, <3>1, FS_AddElement
    <3>5. \A c \in Nat : (c + 1) * m = c * m + m
      OBVIOUS
    <3>6. T \cup {x} \in SUBSET S /\ f[x] \in Int /\ f[x] <= m /\ Cardinality(T) * m \in Int
      BY <3>3
    <3> QED
      BY <1>2, <3>2, <3>3, <3>4, <3>5, <3>6
  <2> QED
    BY <2>1, <2>2
<1>3. S \in Good
  <2> HIDE DEF Good
  <2> QED
    BY <1>1, <1>2, SetInduction
<1> QED
  BY <1>3

\* A sum of naturals is not negative, and grows with the set.
LEMMA SumNat ==
  ASSUME NEW S, IsFiniteSet(S), NEW f, \A x \in S : f[x] \in Nat
  PROVE  SumFunctionOnSet(f, S) \in Nat
<1> DEFINE z == [x \in S |-> 0]
           Good == {T \in SUBSET S : SumFunctionOnSet(z, T) = 0}
<1>1. \A x \in S : z[x] = 0
  OBVIOUS
<1> HIDE DEF z
<1>2. {} \in Good
  BY SumEmpty
<1>3. ASSUME NEW T \in SUBSET S, NEW x \in S, T \in Good PROVE T \cup {x} \in Good
  <2>1. CASE x \in T
    <3>1. T \cup {x} = T
      BY <2>1
    <3> QED
      BY <1>3, <3>1
  <2>2. CASE x \notin T
    <3>1. IsFiniteSet(T)
      BY FS_Subset
    <3>2. \A y \in T \cup {x} : z[y] \in Int
      BY <1>1
    <3>3. SumFunctionOnSet(z, T \cup {x}) = z[x] + SumFunctionOnSet(z, T)
      BY <2>2, <3>1, <3>2, SumAdd
    <3> QED
      BY <1>1, <1>3, <3>3
  <2> QED
    BY <2>1, <2>2
<1>4. S \in Good
  <2> HIDE DEF Good
  <2> QED
    BY <1>2, <1>3, SetInduction
<1>5. SumFunctionOnSet(z, S) <= SumFunctionOnSet(f, S)
  BY <1>1, SumMonotone
<1>6. SumFunctionOnSet(f, S) \in Int
  BY SumInt
<1> QED
  BY <1>4, <1>5, <1>6

\* Zeros add up to zero.
LEMMA SumZero ==
  ASSUME NEW S, IsFiniteSet(S), NEW f, \A x \in S : f[x] = 0
  PROVE  SumFunctionOnSet(f, S) = 0
<1> DEFINE Good == {T \in SUBSET S : SumFunctionOnSet(f, T) = 0}
<1>1. {} \in Good
  BY SumEmpty
<1>2. ASSUME NEW T \in SUBSET S, NEW x \in S, T \in Good PROVE T \cup {x} \in Good
  <2>1. CASE x \in T
    <3>1. T \cup {x} = T
      BY <2>1
    <3> QED
      BY <1>2, <3>1
  <2>2. CASE x \notin T
    <3>1. IsFiniteSet(T)
      BY FS_Subset
    <3>2. \A y \in T \cup {x} : f[y] \in Int /\ f[y] = 0
      OBVIOUS
    <3>3. SumFunctionOnSet(f, T \cup {x}) = f[x] + SumFunctionOnSet(f, T)
      BY <2>2, <3>1, <3>2, SumAdd
    <3> QED
      BY <1>2, <3>2, <3>3
  <2> QED
    BY <2>1, <2>2
<1> HIDE DEF Good
<1>3. S \in Good
  BY <1>1, <1>2, SetInduction
<1> QED
  BY <1>3 DEF Good


\* A part of a sum of natural numbers is at most the whole.
LEMMA SumSubset ==
  ASSUME NEW S, IsFiniteSet(S), NEW f, \A x \in S : f[x] \in Nat, NEW T \in SUBSET S
  PROVE  SumFunctionOnSet(f, T) <= SumFunctionOnSet(f, S)
<1> DEFINE Good == {U \in SUBSET S : SumFunctionOnSet(f, U \cap T) <= SumFunctionOnSet(f, U)}
<1>1. {} \in Good
  <2>1. {} \cap T = {}
    OBVIOUS
  <2> QED
    BY <2>1, SumEmpty
<1>2. ASSUME NEW U \in SUBSET S, NEW x \in S, U \in Good PROVE U \cup {x} \in Good
  <2>0. IsFiniteSet(U) /\ IsFiniteSet(U \cap T)
    BY FS_Subset
  <2>1. CASE x \in U
    <3>1. U \cup {x} = U
      BY <2>1
    <3> QED
      BY <1>2, <3>1
  <2>2. CASE x \notin U /\ x \in T
    <3>1. (U \cup {x}) \cap T = (U \cap T) \cup {x}
      BY <2>2
    <3>2. /\ SumFunctionOnSet(f, U \cup {x}) = f[x] + SumFunctionOnSet(f, U)
          /\ SumFunctionOnSet(f, (U \cap T) \cup {x}) = f[x] + SumFunctionOnSet(f, U \cap T)
      BY <2>0, <2>2, SumAdd
    <3>3. SumFunctionOnSet(f, U) \in Int /\ SumFunctionOnSet(f, U \cap T) \in Int /\ f[x] \in Int
      BY <2>0, SumInt
    <3>4. SumFunctionOnSet(f, U \cap T) <= SumFunctionOnSet(f, U)
      BY <1>2
    <3> HIDE DEF Good
    <3>5. f[x] + SumFunctionOnSet(f, U \cap T) <= f[x] + SumFunctionOnSet(f, U)
      BY <3>3, <3>4
    <3>6. SumFunctionOnSet(f, (U \cup {x}) \cap T) <= SumFunctionOnSet(f, U \cup {x})
      BY <3>1, <3>2, <3>5, Zenon
    <3> QED
      BY <3>6 DEF Good
  <2>3. CASE x \notin U /\ x \notin T
    <3>1. (U \cup {x}) \cap T = U \cap T
      BY <2>3
    <3>2. \A y \in U \cup {x} : f[y] \in Int
      OBVIOUS
    <3>3. SumFunctionOnSet(f, U \cup {x}) = f[x] + SumFunctionOnSet(f, U)
      BY <2>0, <2>3, <3>2, SumAdd
    <3>4. SumFunctionOnSet(f, U) \in Int /\ SumFunctionOnSet(f, U \cap T) \in Int /\ f[x] \in Nat
      BY <2>0, SumInt
    <3> QED
      BY <1>2, <3>1, <3>3, <3>4
  <2> QED
    BY <2>1, <2>2, <2>3
<1>3. S \in Good
  <2> HIDE DEF Good
  <2> QED
    BY <1>1, <1>2, SetInduction
<1>4. S \cap T = T
  OBVIOUS
<1> QED
  BY <1>3, <1>4

\* A set is no larger than the sum over it of entries of at least one.
LEMMA SumCounts ==
  ASSUME NEW S, IsFiniteSet(S), NEW f, \A x \in S : f[x] \in Nat,
         NEW T \in SUBSET S, \A x \in T : f[x] >= 1
  PROVE  Cardinality(T) <= SumFunctionOnSet(f, S)
<1> DEFINE Good == {U \in SUBSET T : Cardinality(U) <= SumFunctionOnSet(f, U)}
<1>0. IsFiniteSet(T)
  BY FS_Subset
<1>1. {} \in Good
  BY SumEmpty, FS_EmptySet
<1>2. ASSUME NEW U \in SUBSET T, NEW x \in T, U \in Good PROVE U \cup {x} \in Good
  <2>1. CASE x \in U
    <3>1. U \cup {x} = U
      BY <2>1
    <3> QED
      BY <1>2, <3>1
  <2>2. CASE x \notin U
    <3>1. IsFiniteSet(U) /\ \A y \in U \cup {x} : f[y] \in Int
      BY <1>0, FS_Subset
    <3>2. SumFunctionOnSet(f, U \cup {x}) = f[x] + SumFunctionOnSet(f, U)
      BY <2>2, <3>1, SumAdd
    <3>3. Cardinality(U \cup {x}) = Cardinality(U) + 1 /\ Cardinality(U) \in Nat
      BY <2>2, <3>1, FS_AddElement, FS_CardinalityType
    <3>4. SumFunctionOnSet(f, U) \in Int
      BY <3>1, SumInt
    <3> QED
      BY <1>2, <3>2, <3>3, <3>4
  <2> QED
    BY <2>1, <2>2
<1>3. T \in Good
  <2> HIDE DEF Good
  <2> QED
    BY <1>0, <1>1, <1>2, SetInduction
<1>4. SumFunctionOnSet(f, T) <= SumFunctionOnSet(f, S)
  BY SumSubset
<1>5. SumFunctionOnSet(f, T) \in Int /\ SumFunctionOnSet(f, S) \in Int /\ Cardinality(T) \in Nat
  BY <1>0, SumInt, FS_CardinalityType
<1> QED
  BY <1>3, <1>4, <1>5

\* A set moved by one position has the same sum.
LEMMA SumShift ==
  ASSUME NEW m \in Int, NEW n \in Int, NEW f, NEW g,
         \A a \in m..n : f[a] \in Int,
         \A a \in (m + 1)..(n + 1) : g[a] = f[a - 1]
  PROVE  SumFunctionOnSet(g, (m + 1)..(n + 1)) = SumFunctionOnSet(f, m..n)
<1> DEFINE Shifted(T) == {a + 1 : a \in T}
           Good == {T \in SUBSET (m..n) : /\ IsFiniteSet(Shifted(T))
                                          /\ SumFunctionOnSet(g, Shifted(T)) = SumFunctionOnSet(f, T)}
<1>0. IsFiniteSet(m..n)
  BY FS_Interval
<1>1. {} \in Good
  <2>1. Shifted({}) = {}
    OBVIOUS
  <2> QED
    BY <2>1, SumEmpty, FS_EmptySet
<1>2. ASSUME NEW T \in SUBSET (m..n), NEW x \in m..n, T \in Good PROVE T \cup {x} \in Good
  <2>1. CASE x \in T
    <3>1. T \cup {x} = T
      BY <2>1
    <3> QED
      BY <1>2, <3>1
  <2>2. CASE x \notin T
    <3>1. IsFiniteSet(T) /\ \A y \in T \cup {x} : f[y] \in Int
      BY <1>0, FS_Subset
    <3>2. SumFunctionOnSet(f, T \cup {x}) = f[x] + SumFunctionOnSet(f, T)
      BY <2>2, <3>1, SumAdd
    <3>3. x + 1 \notin Shifted(T)
      BY <2>2
    <3>4. Shifted(T \cup {x}) = Shifted(T) \cup {x + 1}
      OBVIOUS
    <3>5. IsFiniteSet(Shifted(T)) /\ SumFunctionOnSet(g, Shifted(T)) = SumFunctionOnSet(f, T)
      BY <1>2
    <3>6. \A y \in Shifted(T) \cup {x + 1} : g[y] \in Int
      <4> SUFFICES ASSUME NEW a \in T \cup {x} PROVE g[a + 1] \in Int
        OBVIOUS
      <4>1. a + 1 \in (m + 1)..(n + 1) /\ (a + 1) - 1 = a
        OBVIOUS
      <4> QED
        BY <3>1, <4>1
    <3>7. g[x + 1] = f[x]
      OBVIOUS
    <3> HIDE DEF Shifted
    <3>8. SumFunctionOnSet(g, Shifted(T) \cup {x + 1}) = g[x + 1] + SumFunctionOnSet(g, Shifted(T))
      BY <3>3, <3>5, <3>6, SumAdd
    <3>9. IsFiniteSet(Shifted(T) \cup {x + 1})
      BY <3>5, FS_AddElement
    <3>10. IsFiniteSet(Shifted(T \cup {x})) /\ SumFunctionOnSet(g, Shifted(T \cup {x})) = SumFunctionOnSet(f, T \cup {x})
      BY <3>2, <3>4, <3>5, <3>7, <3>8, <3>9
    <3> QED
      BY <3>10
  <2> QED
    BY <2>1, <2>2
<1>3. m..n \in Good
  <2> HIDE DEF Good
  <2> QED
    BY <1>0, <1>1, <1>2, SetInduction
<1>4. Shifted(m..n) = (m + 1)..(n + 1)
  <2>1. \A a \in (m + 1)..(n + 1) : a - 1 \in m..n /\ a = (a - 1) + 1
    OBVIOUS
  <2> QED
    BY <2>1
<1> QED
  BY <1>3, <1>4

\* A finite set of integers that is not empty has a largest element.
LEMMA LargestExists ==
  ASSUME NEW S \in SUBSET Int, IsFiniteSet(S), S # {}
  PROVE  \E x \in S : \A y \in S : x >= y
<1> DEFINE Good == {T \in SUBSET S : T = {} \/ \E x \in T : \A y \in T : x >= y}
<1>1. {} \in Good
  OBVIOUS
<1>2. ASSUME NEW T \in SUBSET S, NEW z \in S, T \in Good PROVE T \cup {z} \in Good
  <2>1. CASE T = {}
    <3>1. z \in T \cup {z} /\ \A y \in T \cup {z} : z >= y
      BY <2>1
    <3> QED
      BY <3>1
  <2>2. CASE T # {}
    <3>1. PICK x \in T : \A y \in T : x >= y
      BY <1>2, <2>2
    <3>2. CASE x >= z
      <4>1. \A y \in T \cup {z} : x >= y
        BY <3>1, <3>2
      <4> QED
        BY <4>1
    <3>3. CASE ~(x >= z)
      <4>1. \A y \in T \cup {z} : z >= y
        BY <3>1, <3>3
      <4> QED
        BY <4>1
    <3> QED
      BY <3>2, <3>3
  <2> QED
    BY <2>1, <2>2
<1>3. S \in Good
  <2> HIDE DEF Good
  <2> QED
    BY <1>1, <1>2, SetInduction
<1> QED
  BY <1>3

=============================================================================
