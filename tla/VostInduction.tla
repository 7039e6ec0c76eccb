---------------------------- MODULE VostInduction ----------------------------
(* Induction over the naturals in the form the proofs of this project use, *)
(* with a set where the library's theorems have a predicate: what holds of *)
(* the numbers is stated as membership in the set of those it holds of.    *)
EXTENDS Naturals, FiniteSets, FiniteSetTheorems, WellFoundedInduction, NaturalsInduction, TLAPS

(* A set of numbers that is not empty has a least element.                 *)
LEMMA LeastNumber ==
    ASSUME NEW T, T \subseteq Nat, T # {}
    PROVE  \E x \in T : \A y \in T : ~(y < x)
<1>1. IsWellFoundedOn(OpToRel(<, Nat), Nat)
  BY NatLessThanWellFounded, Zenon
<1>2. \E x \in T : \A y \in T : ~(<<y, x>> \in OpToRel(<, Nat))
  BY <1>1, WFMin, Zenon
<1>3. \A x, y \in T : y < x => <<y, x>> \in OpToRel(<, Nat)
  BY DEF OpToRel
<1>4. QED
  BY <1>2, <1>3, Zenon

(* A set of numbers up to n that is not empty has a greatest element.      *)
LEMMA GreatestNumber ==
    ASSUME NEW n \in Nat, NEW T, T \subseteq 0 .. n, T # {}
    PROVE  \E x \in T : \A y \in T : y <= x
<1> DEFINE U == {k \in 0 .. n : n - k \in T}
<1>1. U \subseteq Nat
  OBVIOUS
<1>2. U # {}
  <2>1. PICK x \in T : TRUE
    OBVIOUS
  <2>2. n - x \in 0 .. n /\ n - (n - x) = x
    OBVIOUS
  <2>3. QED
    BY <2>1, <2>2
<1> HIDE DEF U
<1>3. PICK k \in U : \A j \in U : ~(j < k)
  BY <1>1, <1>2, LeastNumber
<1>4. k \in 0 .. n /\ n - k \in T
  BY DEF U
<1>5. ASSUME NEW y \in T PROVE y <= n - k
  <2>1. y \in 0 .. n /\ n - y \in 0 .. n /\ n - (n - y) = y
    OBVIOUS
  <2>2. n - y \in U
    BY <2>1 DEF U
  <2>3. QED
    BY <1>3, <1>4, <2>1, <2>2
<1>6. QED
  BY <1>4, <1>5

(* A set that contains 0, and with a number the next one, has them all.    *)
LEMMA InductionOnNat ==
    ASSUME NEW S, 0 \in S, \A n \in Nat : n \in S => n + 1 \in S
    PROVE  Nat \subseteq S
<1> SUFFICES ASSUME Nat \ S # {} PROVE FALSE
  OBVIOUS
<1>1. PICK x \in Nat \ S : \A y \in Nat \ S : ~(y < x)
  BY LeastNumber
<1>2. x # 0
  BY <1>1
<1>3. x - 1 \in Nat /\ x - 1 < x /\ (x - 1) + 1 = x
  BY <1>1, <1>2
<1>4. QED
  BY <1>1, <1>3

(* The same up to a bound.                                                 *)
LEMMA InductionUpTo ==
    ASSUME NEW n \in Nat, NEW S, 0 \in S, \A k \in 0 .. n : k < n /\ k \in S => k + 1 \in S
    PROVE  0 .. n \subseteq S
<1> DEFINE T == {k \in Nat : k <= n => k \in S}
<1>1. 0 \in T
  OBVIOUS
<1>2. \A k \in Nat : k \in T => k + 1 \in T
  OBVIOUS
<1> HIDE DEF T
<1>3. Nat \subseteq T
  BY <1>1, <1>2, InductionOnNat
<1>4. QED
  BY <1>3 DEF T

(* The same from all the smaller numbers.                                  *)
LEMMA StrongInductionUpTo ==
    ASSUME NEW n \in Nat, NEW S,
           \A k \in 0 .. n : (\A j \in 0 .. n : j < k => j \in S) => k \in S
    PROVE  0 .. n \subseteq S
<1> DEFINE T == (0 .. n) \ S
<1> SUFFICES ASSUME T # {} PROVE FALSE
  OBVIOUS
<1>1. T \subseteq Nat
  OBVIOUS
<1> HIDE DEF T
<1>2. PICK x \in T : \A y \in T : ~(y < x)
  BY <1>1, LeastNumber
<1>3. QED
  BY <1>2 DEF T

(* A recursion on 0 .. n: a value at 0, and a step from the value at some  *)
(* smaller number, prev[i], to the value at i.                             *)
IsRecursion(n, S, first, prev, step) ==
    /\ n \in Nat
    /\ first \in S
    /\ prev \in [1 .. n -> Nat]
    /\ \A i \in 1 .. n : prev[i] < i
    /\ step \in [1 .. n -> [S -> S]]

Solves(f, n, S, first, prev, step) ==
    /\ f \in [0 .. n -> S]
    /\ f[0] = first
    /\ \A i \in 1 .. n : f[i] = step[i][f[prev[i]]]

(* Some function satisfies a recursion.                                    *)
LEMMA Recursion ==
    ASSUME NEW n, NEW S, NEW first, NEW prev, NEW step,
           IsRecursion(n, S, first, prev, step)
    PROVE  \E f : Solves(f, n, S, first, prev, step)
<1> USE DEF IsRecursion
<1> DEFINE Upto(k) == \E f \in [0 .. k -> S] :
                 f[0] = first /\ \A i \in 1 .. k : f[i] = step[i][f[prev[i]]]
           T == {k \in 0 .. n : Upto(k)}
<1>1. 0 \in T
  <2> DEFINE f == [i \in 0 .. 0 |-> first]
  <2>1. f \in [0 .. 0 -> S]
    OBVIOUS
  <2>2. f[0] = first /\ \A i \in 1 .. 0 : f[i] = step[i][f[prev[i]]]
    OBVIOUS
  <2> HIDE DEF f
  <2>3. QED
    BY <2>1, <2>2
<1>2. ASSUME NEW k \in 0 .. n, k < n, k \in T PROVE k + 1 \in T
  <2>1. PICK f \in [0 .. k -> S] :
           f[0] = first /\ \A i \in 1 .. k : f[i] = step[i][f[prev[i]]]
    BY <1>2
  <2>2. k + 1 \in 1 .. n /\ prev[k + 1] \in 0 .. k
    BY <1>2
  <2> DEFINE last == step[k + 1][f[prev[k + 1]]]
             g == [i \in 0 .. k + 1 |-> IF i <= k THEN f[i] ELSE last]
  <2>3. last \in S
    BY <2>1, <2>2
  <2>4. g \in [0 .. k + 1 -> S]
    BY <2>1, <2>3
  <2>5. g[0] = first
    BY <2>1
  <2>6. ASSUME NEW i \in 1 .. k + 1 PROVE g[i] = step[i][g[prev[i]]]
    <3>1. prev[i] \in 0 .. k
      BY <1>2
    <3>2. g[prev[i]] = f[prev[i]]
      BY <3>1
    <3>3. CASE i <= k
      <4>1. g[i] = f[i] /\ i \in 1 .. k
        BY <3>3
      <4>2. QED
        BY <2>1, <3>2, <4>1
    <3>4. CASE i = k + 1
      <4>1. g[i] = last
        BY <3>4
      <4>2. QED
        BY <3>2, <3>4, <4>1
    <3>5. i <= k \/ i = k + 1
      OBVIOUS
    <3> HIDE DEF g
    <3>6. QED
      BY <3>3, <3>4, <3>5
  <2> HIDE DEF g
  <2>7. Upto(k + 1)
    BY <2>4, <2>5, <2>6
  <2>8. k + 1 \in 0 .. n
    BY <1>2
  <2>9. QED
    BY <2>7, <2>8
<1> HIDE DEF T
<1>3. 0 .. n \subseteq T
  BY <1>1, <1>2, InductionUpTo
<1>4. n \in T
  BY <1>3
<1>5. QED
  BY <1>4 DEF T, Solves

-----------------------------------------------------------------------------
(* The sum of a function over a finite set, taken in the order in which    *)
(* CHOOSE picks the elements of what is left: sum[s] for each subset s.    *)
Chosen(s) == CHOOSE x \in s : TRUE

IsSum(sum, f, S) ==
    sum = [s \in SUBSET S |-> IF s = {} THEN 0 ELSE f[Chosen(s)] + sum[s \ {Chosen(s)}]]

(* Taking the chosen element from a set makes it smaller by one.           *)
LEMMA WithoutChosen ==
    ASSUME NEW S, IsFiniteSet(S), NEW s \in SUBSET S
    PROVE  /\ Cardinality(s) \in Nat
           /\ Cardinality(s) = 0 <=> s = {}
           /\ s # {} => /\ Chosen(s) \in s
                        /\ s \ {Chosen(s)} \in SUBSET S
                        /\ Cardinality(s \ {Chosen(s)}) = Cardinality(s) - 1
<1>1. IsFiniteSet(s)
  BY FS_Subset
<1>2. Cardinality(s) \in Nat /\ (Cardinality(s) = 0 <=> s = {})
  BY <1>1, FS_CardinalityType, FS_EmptySet
<1>3. s # {} => Chosen(s) \in s
  BY DEF Chosen
<1>4. s # {} => Cardinality(s \ {Chosen(s)}) = Cardinality(s) - 1
  BY <1>1, <1>3, FS_RemoveElement
<1>5. QED
  BY <1>2, <1>3, <1>4

(* Every function on a finite set has a sum.                               *)
LEMMA SumExists ==
    ASSUME NEW S, IsFiniteSet(S), NEW f \in [S -> Nat]
    PROVE  \E sum : IsSum(sum, f, S)
<1> DEFINE Holds(sum, s) ==
             sum[s] = IF s = {} THEN 0 ELSE f[Chosen(s)] + sum[s \ {Chosen(s)}]
           Upto(k) == \E sum \in [SUBSET S -> Nat] :
                         \A s \in SUBSET S : Cardinality(s) <= k => Holds(sum, s)
           n == Cardinality(S)
           T == {k \in 0 .. n : Upto(k)}
<1>1. n \in Nat
  BY FS_CardinalityType
<1>2. 0 \in T
  <2> DEFINE sum == [s \in SUBSET S |-> 0]
  <2>1. sum \in [SUBSET S -> Nat]
    OBVIOUS
  <2>2. ASSUME NEW s \in SUBSET S, Cardinality(s) <= 0 PROVE Holds(sum, s)
    <3>1. Cardinality(s) \in Nat /\ (Cardinality(s) = 0 <=> s = {})
      BY WithoutChosen
    <3>2. s = {}
      BY <2>2, <3>1
    <3>3. QED
      BY <3>2
  <2> HIDE DEF sum
  <2>3. Upto(0)
    BY <2>1, <2>2
  <2> HIDE DEF Upto
  <2>4. QED
    BY <1>1, <2>3
<1>3. ASSUME NEW k \in 0 .. n, k < n, k \in T PROVE k + 1 \in T
  <2>1. PICK old \in [SUBSET S -> Nat] :
           \A s \in SUBSET S : Cardinality(s) <= k => Holds(old, s)
    BY <1>3
  <2> DEFINE next(s) == IF s = {} THEN 0 ELSE f[Chosen(s)] + old[s \ {Chosen(s)}]
             sum == [s \in SUBSET S |-> next(s)]
  <2>2. ASSUME NEW s \in SUBSET S PROVE next(s) \in Nat
    <3>1. s # {} => Chosen(s) \in S /\ s \ {Chosen(s)} \in SUBSET S
      BY WithoutChosen
    <3>2. QED
      BY <3>1
  <2>3. sum \in [SUBSET S -> Nat]
    BY <2>2
  <2>4. \A s \in SUBSET S : Cardinality(s) <= k => sum[s] = old[s]
    BY <2>1
  <2>5. \A s \in SUBSET S : sum[s] = next(s)
    OBVIOUS
  <2>6. k \in Nat
    BY <1>1, <1>3
  <2> HIDE DEF sum
  <2>7. ASSUME NEW s \in SUBSET S, Cardinality(s) <= k + 1 PROVE Holds(sum, s)
    <3>1. CASE s = {}
      BY <2>5, <3>1
    <3>2. CASE s # {}
      <4>1. s \ {Chosen(s)} \in SUBSET S /\ Cardinality(s \ {Chosen(s)}) <= k
        BY <2>6, <2>7, <3>2, WithoutChosen
      <4>2. sum[s \ {Chosen(s)}] = old[s \ {Chosen(s)}]
        BY <2>4, <4>1
      <4>3. QED
        BY <2>5, <3>2, <4>2
    <3>3. QED
      BY <3>1, <3>2
  <2>8. Upto(k + 1)
    BY <2>3, <2>7
  <2> HIDE DEF Upto
  <2>9. QED
    BY <1>1, <1>3, <2>8
<1> HIDE DEF T
<1>4. n \in T
  BY <1>1, <1>2, <1>3, InductionUpTo
<1>5. PICK sum \in [SUBSET S -> Nat] : \A s \in SUBSET S : Cardinality(s) <= n => Holds(sum, s)
  BY <1>4 DEF T
<1>6. \A s \in SUBSET S : Cardinality(s) <= n
  BY FS_Subset
<1>7. sum = [s \in SUBSET S |-> IF s = {} THEN 0 ELSE f[Chosen(s)] + sum[s \ {Chosen(s)}]]
  BY <1>5, <1>6
<1>8. QED
  BY <1>7 DEF IsSum

(* g exceeds f by at most d at t, and nowhere else.                        *)
AtMost(g, f, S, t, d) == \A u \in S : g[u] <= f[u] + (IF u = t THEN d ELSE 0)

(* A function that exceeds another by at most d at one element, and        *)
(* nowhere else, has a sum that exceeds the other's by at most d.          *)
LEMMA SumAtMost ==
    ASSUME NEW S, IsFiniteSet(S), NEW f \in [S -> Nat], NEW g \in [S -> Nat],
           NEW sumf, IsSum(sumf, f, S), NEW sumg, IsSum(sumg, g, S),
           NEW t, NEW d \in Nat,
           AtMost(g, f, S, t, d)
    PROVE  sumf[S] \in Nat /\ sumg[S] \in Nat /\ sumg[S] <= sumf[S] + d
<1> DEFINE Bounded(s) == /\ sumf[s] \in Nat /\ sumg[s] \in Nat
                         /\ sumg[s] <= sumf[s] + (IF t \in s THEN d ELSE 0)
           n == Cardinality(S)
           T == {k \in 0 .. n : \A s \in SUBSET S : Cardinality(s) <= k => Bounded(s)}
<1>1. n \in Nat
  BY FS_CardinalityType
<1>2. \A s \in SUBSET S :
         /\ sumf[s] = IF s = {} THEN 0 ELSE f[Chosen(s)] + sumf[s \ {Chosen(s)}]
         /\ sumg[s] = IF s = {} THEN 0 ELSE g[Chosen(s)] + sumg[s \ {Chosen(s)}]
  BY DEF IsSum
<1>3. 0 \in T
  <2>1. ASSUME NEW s \in SUBSET S, Cardinality(s) <= 0 PROVE Bounded(s)
    <3>1. s = {}
      <4>1. Cardinality(s) \in Nat /\ (Cardinality(s) = 0 <=> s = {})
        BY WithoutChosen
      <4>2. QED
        BY <2>1, <4>1
    <3>2. sumf[s] = 0 /\ sumg[s] = 0
      BY <1>2, <3>1
    <3>3. QED
      BY <3>1, <3>2
  <2>2. QED
    BY <1>1, <2>1
<1>4. ASSUME NEW k \in 0 .. n, k < n, k \in T PROVE k + 1 \in T
  <2>1. k \in Nat
    BY <1>1, <1>4
  <2>2. ASSUME NEW s \in SUBSET S, Cardinality(s) <= k + 1 PROVE Bounded(s)
    <3>1. CASE s = {}
      <4>1. sumf[s] = 0 /\ sumg[s] = 0
        BY <1>2, <3>1
      <4>2. QED
        BY <3>1, <4>1
    <3>2. CASE s # {}
      <4> DEFINE x == Chosen(s)
                 rest == s \ {x}
      <4>1. x \in s /\ rest \in SUBSET S /\ Cardinality(rest) <= k
        BY <2>1, <2>2, <3>2, WithoutChosen
      <4>2. Bounded(rest)
        BY <1>4, <4>1
      <4>3. sumf[s] = f[x] + sumf[rest] /\ sumg[s] = g[x] + sumg[rest]
        BY <1>2, <3>2
      <4>4. f[x] \in Nat /\ g[x] \in Nat /\ (x = t => g[x] <= f[x] + d) /\ (x # t => g[x] <= f[x])
        BY <4>1 DEF AtMost
      <4>5. (t \in s <=> x = t \/ t \in rest) /\ ~(x = t /\ t \in rest)
        BY <4>1
      <4> HIDE DEF x, rest
      <4>6. QED
        BY <4>2, <4>3, <4>4, <4>5
    <3>3. QED
      BY <3>1, <3>2
  <2>3. QED
    BY <1>1, <1>4, <2>2
<1> HIDE DEF T
<1>5. n \in T
  BY <1>1, <1>3, <1>4, InductionUpTo
<1>6. Bounded(S)
  BY <1>1, <1>5 DEF T
<1>7. QED
  BY <1>6

(* Zeros add up to zero.                                                   *)
LEMMA SumOfZeros ==
    ASSUME NEW S, IsFiniteSet(S), NEW f \in [S -> Nat], \A u \in S : f[u] = 0,
           NEW sum, IsSum(sum, f, S)
    PROVE  sum[S] = 0
<1> DEFINE zeros == [s \in SUBSET S |-> 0]
<1>1. ASSUME NEW s \in SUBSET S
      PROVE  (IF s = {} THEN 0 ELSE f[Chosen(s)] + zeros[s \ {Chosen(s)}]) = 0
  <2>1. s # {} => Chosen(s) \in S /\ s \ {Chosen(s)} \in SUBSET S
    BY WithoutChosen
  <2>2. QED
    BY <2>1
<1>2. IsSum(zeros, f, S)
  BY <1>1 DEF IsSum
<1>3. zeros[S] = 0
  OBVIOUS
<1>4. AtMost(f, f, S, 0, 0)
  BY DEF AtMost
<1> HIDE DEF zeros
<1>5. sum[S] \in Nat /\ sum[S] <= zeros[S] + 0
  BY <1>2, <1>4, SumAtMost
<1>6. QED
  BY <1>3, <1>5

(* Sets that have no element in common have together as many elements as   *)
(* the sum of their cardinalities says.                                    *)
LEMMA SumOfDisjoint ==
    ASSUME NEW S, IsFiniteSet(S), NEW f \in [S -> Nat], NEW sum, IsSum(sum, f, S), NEW c,
           \A x \in S : IsFiniteSet(c[x]) /\ Cardinality(c[x]) = f[x],
           \A x, y \in S : x # y => c[x] \cap c[y] = {}
    PROVE  Cardinality(UNION {c[x] : x \in S}) = sum[S]
<1> DEFINE All(s) == UNION {c[x] : x \in s}
           Counts(s) == IsFiniteSet(All(s)) /\ Cardinality(All(s)) = sum[s]
           n == Cardinality(S)
           T == {k \in 0 .. n : \A s \in SUBSET S : Cardinality(s) <= k => Counts(s)}
<1>1. n \in Nat
  BY FS_CardinalityType
<1>2. \A s \in SUBSET S : sum[s] = IF s = {} THEN 0 ELSE f[Chosen(s)] + sum[s \ {Chosen(s)}]
  BY DEF IsSum
<1>3. Counts({})
  <2>1. All({}) = {}
    OBVIOUS
  <2>2. sum[{}] = 0
    BY <1>2
  <2> HIDE DEF All
  <2>3. QED
    BY <2>1, <2>2, FS_EmptySet
<1> HIDE DEF Counts
<1>4. 0 \in T
  <2>1. ASSUME NEW s \in SUBSET S, Cardinality(s) <= 0 PROVE s = {}
    <3>1. Cardinality(s) \in Nat /\ (Cardinality(s) = 0 <=> s = {})
      BY WithoutChosen
    <3>2. QED
      BY <2>1, <3>1
  <2>2. QED
    BY <1>1, <1>3, <2>1
<1>5. ASSUME NEW k \in 0 .. n, k < n, k \in T PROVE k + 1 \in T
  <2>1. k \in Nat
    BY <1>1, <1>5
  <2>2. ASSUME NEW s \in SUBSET S, Cardinality(s) <= k + 1, s # {} PROVE Counts(s)
    <3> DEFINE x == Chosen(s)
               rest == s \ {x}
    <3>1. x \in s /\ x \in S /\ rest \in SUBSET S
      BY <2>2, WithoutChosen
    <3>2. Cardinality(rest) <= k
      BY <2>1, <2>2, WithoutChosen
    <3>3. Counts(rest)
      BY <1>5, <3>2
    <3>4. IsFiniteSet(All(rest)) /\ Cardinality(All(rest)) = sum[rest]
      BY <3>3 DEF Counts
    <3>5. sum[s] = f[x] + sum[rest]
      BY <1>2, <2>2, <3>1
    <3>6. All(s) = c[x] \cup All(rest) /\ c[x] \cap All(rest) = {}
      <4>1. \A y \in rest : y # x /\ y \in S
        BY <3>1
      <4>2. s = rest \cup {x}
        BY <3>1
      <4>3. QED
        BY <4>1, <4>2
    <3>7. IsFiniteSet(c[x]) /\ Cardinality(c[x]) = f[x] /\ f[x] \in Nat
      BY <3>1
    <3> HIDE DEF All, x, rest
    <3>8. /\ IsFiniteSet(All(s))
          /\ Cardinality(All(s)) = Cardinality(c[x]) + Cardinality(All(rest)) - Cardinality({})
      BY <3>4, <3>6, <3>7, FS_Union
    <3>9. Cardinality({}) = 0 /\ Cardinality(All(rest)) \in Nat
      BY <3>4, FS_EmptySet, FS_CardinalityType
    <3>10. QED
      BY <3>4, <3>5, <3>7, <3>8, <3>9 DEF Counts
  <2>3. \A s \in SUBSET S : Cardinality(s) <= k + 1 => Counts(s)
    BY <1>3, <2>2, Zenon
  <2>4. k + 1 \in 0 .. n
    BY <1>1, <1>5
  <2>5. QED
    BY <2>3, <2>4
<1> HIDE DEF T
<1>6. n \in T
  BY <1>1, <1>4, <1>5, InductionUpTo
<1>7. Counts(S)
  BY <1>1, <1>6 DEF T
<1>8. QED
  BY <1>7 DEF Counts

(* A set has as many elements as its image under a function that takes     *)
(* different elements to different ones.                                   *)
LEMMA SameNumber ==
    ASSUME NEW S, IsFiniteSet(S), NEW T, NEW f \in [S -> T],
           \A x, y \in S : f[x] = f[y] => x = y, \A z \in T : \E x \in S : z = f[x]
    PROVE  IsFiniteSet(T) /\ Cardinality(T) = Cardinality(S)
<1>1. f \in Surjection(S, T) /\ f \in Injection(S, T)
  BY DEF Surjection, Injection, IsInjective
<1>2. QED
  BY <1>1, FS_Surjection
=============================================================================
