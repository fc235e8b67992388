-------------------------- MODULE RecursionTheorems --------------------------
(***************************************************************************)
(* Induction on the naturals and recursion over 1..m, for sets and         *)
(* functions instead of operators, so that they can be cited; ranks in     *)
(* finite ordered sets.                                                    *)
(***************************************************************************)
EXTENDS Integers, FiniteSetTheorems, FunctionTheorems, WellFoundedInduction, TLAPS

(* A nonempty set of naturals has a least element. *)
LEMMA LeastNumber ==
  ASSUME NEW T \in SUBSET Nat, T # {}
  PROVE  \E m \in T : \A n \in T : m <= n
<1> DEFINE R == {ss \in Nat \X Nat : ss[1] < ss[2]}
<1>1. IsWellFoundedOn(R, Nat)
  BY NatLessThanWellFounded DEF OpToRel
<1>2. PICK m \in T : \A n \in T : ~(<<n, m>> \in R)
  <2> HIDE DEF R
  <2> QED
    BY <1>1, WFMin
<1>3. ASSUME NEW n \in T PROVE m <= n
  <2>1. m \in Nat /\ n \in Nat /\ <<n, m>> \in Nat \X Nat
    OBVIOUS
  <2>2. ~(n < m)
    BY <1>2, <2>1
  <2> QED
    BY <2>1, <2>2
<1> QED
  BY <1>3

(* A set with 0 that has the successor of each number in it has them all. *)
LEMMA InductionOverSet ==
  ASSUME NEW S, 0 \in S, \A n \in Nat : n \in S => n + 1 \in S
  PROVE  \A n \in Nat : n \in S
<1> SUFFICES ASSUME Nat \ S # {} PROVE FALSE
  OBVIOUS
<1>1. PICK m \in Nat \ S : \A n \in Nat \ S : m <= n
  BY LeastNumber
<1>2. m # 0 /\ m - 1 \in Nat /\ m - 1 \notin Nat \ S
  BY <1>1
<1> QED
  BY <1>1, <1>2

(* f starts at start and takes the steps of step up to m. *)
Recursive(f, m, start, step) ==
  f[0] = start /\ \A n \in 1..m : f[n] = step[n][f[n - 1]]

LEMMA RecursionExists ==
  ASSUME NEW m \in Nat, NEW V, NEW start \in V, NEW step \in [1..m -> [V -> V]]
  PROVE  \E f \in [0..m -> V] : Recursive(f, m, start, step)
<1> DEFINE S == {n \in Nat : n <= m => \E f \in [0..n -> V] : Recursive(f, n, start, step)}
<1>1. 0 \in S
  <2> DEFINE f == [n \in 0..0 |-> start]
  <2>1. f \in [0..0 -> V] /\ f[0] = start
    OBVIOUS
  <2> HIDE DEF f
  <2>2. Recursive(f, 0, start, step)
    BY <2>1 DEF Recursive
  <2> QED
    BY <2>1, <2>2
<1>2. ASSUME NEW n \in Nat, n \in S PROVE n + 1 \in S
  <2> SUFFICES ASSUME n + 1 <= m
               PROVE  \E g \in [0..(n + 1) -> V] : Recursive(g, n + 1, start, step)
    OBVIOUS
  <2>1. PICK f \in [0..n -> V] : Recursive(f, n, start, step)
    BY <1>2
  <2> DEFINE g == [i \in 0..(n + 1) |-> IF i <= n THEN f[i] ELSE step[n + 1][f[n]]]
  <2>2. g \in [0..(n + 1) -> V]
    <3>1. step[n + 1] \in [V -> V] /\ f[n] \in V
      OBVIOUS
    <3>2. step[n + 1][f[n]] \in V
      BY <3>1
    <3> QED
      BY <3>2
  <2>3. \A i \in 0..n : g[i] = f[i]
    OBVIOUS
  <2>4. g[n + 1] = step[n + 1][f[n]]
    OBVIOUS
  <2> HIDE DEF g
  <2>5. ASSUME NEW i \in 1..(n + 1) PROVE g[i] = step[i][g[i - 1]]
    <3>1. CASE i = n + 1
      BY <2>3, <2>4, <3>1
    <3>2. CASE i # n + 1
      <4>1. i \in 1..n /\ i \in 0..n /\ i - 1 \in 0..n
        BY <3>2
      <4> QED
        BY <2>1, <2>3, <4>1 DEF Recursive
    <3> QED
      BY <3>1, <3>2
  <2>6. Recursive(g, n + 1, start, step)
    <3>1. g[0] = start
      BY <2>1, <2>3 DEF Recursive
    <3> QED
      BY <2>5, <3>1 DEF Recursive
  <2> QED
    BY <2>2, <2>6
<1> HIDE DEF S
<1>3. m \in S
  BY <1>1, <1>2, InductionOverSet
<1> QED
  BY <1>3 DEF S

(* Two functions that take the same steps agree. *)
LEMMA RecursionUnique ==
  ASSUME NEW m \in Nat, NEW start, NEW step, NEW f, NEW g,
         Recursive(f, m, start, step), Recursive(g, m, start, step)
  PROVE  \A n \in 0..m : f[n] = g[n]
<1> DEFINE S == {n \in Nat : n <= m => f[n] = g[n]}
<1>1. 0 \in S
  BY DEF Recursive
<1>2. ASSUME NEW n \in Nat, n \in S PROVE n + 1 \in S
  <2> SUFFICES ASSUME n + 1 <= m PROVE f[n + 1] = g[n + 1]
    OBVIOUS
  <2>1. n + 1 \in 1..m /\ (n + 1) - 1 = n /\ f[n] = g[n]
    BY <1>2
  <2>2. f[n + 1] = step[n + 1][f[(n + 1) - 1]] /\ g[n + 1] = step[n + 1][g[(n + 1) - 1]]
    BY <2>1 DEF Recursive
  <2> QED
    BY <2>1, <2>2
<1> HIDE DEF S
<1>3. \A n \in Nat : n \in S
  BY <1>1, <1>2, InductionOverSet
<1> QED
  BY <1>3 DEF S

(* Induction up to m. *)
LEMMA InductionUpTo ==
  ASSUME NEW m \in Nat, NEW S, 0 \in S, \A n \in 1..m : n - 1 \in S => n \in S
  PROVE  \A n \in 0..m : n \in S
<1> DEFINE T == {n \in Nat : n <= m => n \in S}
<1>1. 0 \in T
  OBVIOUS
<1>2. ASSUME NEW n \in Nat, n \in T PROVE n + 1 \in T
  <2> SUFFICES ASSUME n + 1 <= m PROVE n + 1 \in S
    OBVIOUS
  <2>1. n + 1 \in 1..m /\ (n + 1) - 1 = n /\ n \in S
    BY <1>2
  <2> QED
    BY <2>1
<1> HIDE DEF T
<1>3. \A n \in Nat : n \in T
  BY <1>1, <1>2, InductionOverSet
<1> QED
  BY <1>3 DEF T

(* A function that starts in V and stays there. *)
LEMMA RecursionStays ==
  ASSUME NEW m \in Nat, NEW V, NEW g, g[0] \in V, \A n \in 1..m : g[n - 1] \in V => g[n] \in V
  PROVE  \A n \in 0..m : g[n] \in V
<1> DEFINE S == {n \in 0..m : g[n] \in V}
<1>1. 0 \in S /\ \A n \in 1..m : n - 1 \in S => n \in S
  OBVIOUS
<1> HIDE DEF S
<1>2. \A n \in 0..m : n \in S
  BY <1>1, InductionUpTo
<1> QED
  BY <1>2 DEF S

-----------------------------------------------------------------------------
(* Ranks: in a finite set with a strict order, as many have rank less than *)
(* k as there are such ranks.                                              *)
Ordering(S, R) ==
  /\ \A x \in S : <<x, x>> \notin R
  /\ \A x, y \in S : x = y \/ <<x, y>> \in R \/ <<y, x>> \in R
  /\ \A x, y, z \in S : <<x, y>> \in R /\ <<y, z>> \in R => <<x, z>> \in R
RankIn(S, R, x) == Cardinality({y \in S : <<y, x>> \in R})
RanksMatch(S, R) ==
  /\ Cardinality(S) \in Nat
  /\ \A x \in S : RankIn(S, R, x) \in 0..(Cardinality(S) - 1)
  /\ \A x, y \in S : RankIn(S, R, x) = RankIn(S, R, y) => x = y
  /\ \A k \in 0..(Cardinality(S) - 1) : \E x \in S : RankIn(S, R, x) = k

LEMMA RankGrows ==
  ASSUME NEW S, IsFiniteSet(S), NEW R, Ordering(S, R), NEW x \in S, NEW y \in S, <<x, y>> \in R
  PROVE  RankIn(S, R, x) < RankIn(S, R, y)
<1> DEFINE A == {z \in S : <<z, x>> \in R}
           B == {z \in S : <<z, y>> \in R}
<1>1. IsFiniteSet(A) /\ IsFiniteSet(B)
  <2>1. A \in SUBSET S /\ B \in SUBSET S
    OBVIOUS
  <2> HIDE DEF A, B
  <2> QED
    BY <2>1, FS_Subset
<1>2. A \union {x} \subseteq B /\ x \notin A
  BY DEF Ordering
<1> HIDE DEF A, B
<1>3. IsFiniteSet(A \union {x}) /\ Cardinality(A \union {x}) = Cardinality(A) + 1
  BY <1>1, <1>2, FS_AddElement
<1>4. Cardinality(A \union {x}) <= Cardinality(B)
  BY <1>1, <1>2, <1>3, FS_Subset
<1>5. Cardinality(A) \in Nat /\ Cardinality(B) \in Nat
  BY <1>1, FS_CardinalityType
<1> QED
  BY <1>3, <1>4, <1>5 DEF RankIn, A, B

LEMMA RanksAreAll ==
  ASSUME NEW S, IsFiniteSet(S), NEW R, Ordering(S, R)
  PROVE  RanksMatch(S, R)
<1> DEFINE n == Cardinality(S)
           T == 0..(n - 1)
           r == [x \in S |-> RankIn(S, R, x)]
<1>1. n \in Nat
  BY FS_CardinalityType
<1>2. ASSUME NEW x \in S PROVE RankIn(S, R, x) \in T
  <2> DEFINE A == {y \in S : <<y, x>> \in R}
  <2>1. A \subseteq S \ {x}
    BY DEF Ordering
  <2> HIDE DEF A
  <2>2. IsFiniteSet(S \ {x}) /\ Cardinality(S \ {x}) = n - 1
    BY FS_RemoveElement
  <2>3. IsFiniteSet(A) /\ Cardinality(A) <= n - 1
    BY <2>1, <2>2, FS_Subset
  <2>4. Cardinality(A) \in Nat
    BY <2>3, FS_CardinalityType
  <2> QED
    BY <1>1, <2>3, <2>4 DEF RankIn, A
<1>3. ASSUME NEW x \in S, NEW y \in S, RankIn(S, R, x) = RankIn(S, R, y) PROVE x = y
  <2>1. RankIn(S, R, x) \in Int /\ RankIn(S, R, y) \in Int
    BY <1>1, <1>2
  <2>2. ~(<<x, y>> \in R) /\ ~(<<y, x>> \in R)
    BY <1>3, <2>1, RankGrows
  <2> QED
    BY <2>2 DEF Ordering
<1>4. r \in Injection(S, T)
  <2>1. r \in [S -> T]
    BY <1>2
  <2>2. \A x, y \in S : r[x] = r[y] => x = y
    BY <1>3
  <2> HIDE DEF r, T
  <2> QED
    BY <2>1, <2>2, Fun_IsInj
<1>5. IsFiniteSet(T) /\ Cardinality(T) = n
  BY <1>1, FS_Interval
<1>6. r \in Surjection(S, T)
  <2> HIDE DEF r, T
  <2> QED
    BY <1>4, <1>5, FS_Injection
<1>7. \A k \in T : \E x \in S : RankIn(S, R, x) = k
  <2>1. \A k \in T : \E x \in S : r[x] = k
    <3> HIDE DEF r, T
    <3> QED
      BY <1>6 DEF Surjection
  <2> QED
    BY <2>1
<1> QED
  BY <1>1, <1>2, <1>3, <1>7 DEF RanksMatch

LEMMA LowestRanks ==
  ASSUME NEW S, IsFiniteSet(S), NEW R, Ordering(S, R), NEW k \in 0..Cardinality(S)
  PROVE  Cardinality({x \in S : RankIn(S, R, x) < k}) = k
<1> DEFINE L == {x \in S : RankIn(S, R, x) < k}
           T == 0..(k - 1)
           r == [x \in L |-> RankIn(S, R, x)]
<1>1. /\ Cardinality(S) \in Nat /\ k \in Nat
      /\ \A x \in S : RankIn(S, R, x) \in 0..(Cardinality(S) - 1)
      /\ \A x, y \in S : RankIn(S, R, x) = RankIn(S, R, y) => x = y
      /\ \A i \in 0..(Cardinality(S) - 1) : \E x \in S : RankIn(S, R, x) = i
  <2>1. RanksMatch(S, R)
    BY RanksAreAll
  <2> QED
    BY <2>1, FS_CardinalityType DEF RanksMatch
<1>2. r \in [L -> T]
  BY <1>1
<1>3. \A x, y \in L : r[x] = r[y] => x = y
  BY <1>1
<1>4. \A i \in T : \E x \in L : r[x] = i
  <2> SUFFICES ASSUME NEW i \in T PROVE \E x \in L : r[x] = i
    OBVIOUS
  <2>1. i \in 0..(Cardinality(S) - 1) /\ i < k
    BY <1>1
  <2>2. PICK x \in S : RankIn(S, R, x) = i
    BY <1>1, <2>1
  <2> QED
    BY <2>1, <2>2
<1>5. IsFiniteSet(T) /\ Cardinality(T) = k
  <2>1. 0 \in Int /\ k - 1 \in Int
    BY <1>1
  <2>2. IsFiniteSet(0..(k - 1)) /\ Cardinality(0..(k - 1)) = IF 0 > k - 1 THEN 0 ELSE (k - 1) - 0 + 1
    BY <2>1, FS_Interval
  <2>3. k \in Nat
    BY <1>1
  <2>4. (IF 0 > k - 1 THEN 0 ELSE (k - 1) - 0 + 1) = k
    BY <2>3
  <2> QED
    BY <2>2, <2>4
<1>6. IsFiniteSet(L)
  <2>1. L \in SUBSET S
    OBVIOUS
  <2> HIDE DEF L
  <2> QED
    BY <2>1, FS_Subset
<1> HIDE DEF r, T, L
<1>7. r \in Injection(L, T)
  BY <1>2, <1>3, Fun_IsInj
<1>8. r \in Surjection(L, T)
  BY <1>2, <1>4, Fun_IsSurj
<1>9. Cardinality(L) = Cardinality(T)
  BY <1>5, <1>7, <1>8, FS_Injection
<1> QED
  BY <1>5, <1>9 DEF L

(* Sets matched one to one are equally large. *)
LEMMA SameSize ==
  ASSUME NEW S, NEW T, IsFiniteSet(T), NEW f \in [S -> T],
         \A x, y \in S : f[x] = f[y] => x = y, \A z \in T : \E x \in S : f[x] = z
  PROVE  IsFiniteSet(S) /\ Cardinality(S) = Cardinality(T)
<1>1. f \in Injection(S, T)
  BY Fun_IsInj
<1>2. f \in Surjection(S, T)
  BY Fun_IsSurj
<1> QED
  BY <1>1, <1>2, FS_Injection

=============================================================================
