------------------------------ MODULE FoldFacts -----------------------------
(***************************************************************************)
(* Facts about folds, which the community modules define with recursive    *)
(* functions and state nothing about: that the functions exist, and what   *)
(* SumFunctionOnSet, the sum of a function's values over a finite set, is. *)
(* And about remainders.  Induction is over a set of numbers, or of        *)
(* subsets, that is closed under the step: the library's induction         *)
(* theorems take an operator.                                              *)
(***************************************************************************)
EXTENDS Integers, Sequences, FiniteSets, Functions, FiniteSetsExt, FiniteSetTheorems, TLAPS

(* A set that holds 0 and the successor of each of its numbers is Nat. *)
LEMMA NaturalsBySuccessor ==
  ASSUME NEW G, 0 \in G, \A n \in Nat : n \in G => n + 1 \in G
  PROVE  \A n \in Nat : n \in G
<1> SUFFICES ASSUME Nat \ G # {} PROVE FALSE
  OBVIOUS
<1> DEFINE R == OpToRel(<, Nat)
<1>1. PICK n \in Nat \ G : \A m \in Nat \ G : <<m, n>> \notin R
  <2>1. IsWellFoundedOn(R, Nat)
    BY NatLessThanWellFounded
  <2> HIDE DEF R
  <2> QED BY <2>1, WFMin
<1>2. n # 0 /\ n - 1 \in Nat /\ n - 1 < n
  OBVIOUS
<1>3. <<n - 1, n>> \in R
  BY <1>2 DEF OpToRel
<1>4. n - 1 \in G
  BY <1>1, <1>2, <1>3
<1> QED BY <1>2, <1>4

(* Induction on the subsets of a finite set: from each T \ {x} to T. *)
LEMMA SubsetsByElement ==
  ASSUME NEW S, IsFiniteSet(S), NEW G, {} \in G,
         \A T \in SUBSET S : T # {} /\ (\A y \in T : T \ {y} \in G) => T \in G
  PROVE  \A T \in SUBSET S : T \in G
<1> DEFINE H == {n \in Nat : \A T \in SUBSET S : Cardinality(T) = n => T \in G}
<1>0. \A T \in SUBSET S : IsFiniteSet(T) /\ Cardinality(T) \in Nat
  BY FS_Subset, FS_CardinalityType
<1>1. 0 \in H
  BY <1>0, FS_EmptySet
<1>2. ASSUME NEW n \in Nat, n \in H PROVE n + 1 \in H
  <2> SUFFICES ASSUME NEW T \in SUBSET S, Cardinality(T) = n + 1 PROVE T \in G
    OBVIOUS
  <2>1. T # {}
    <3>1. Cardinality({}) = 0
      BY FS_EmptySet
    <3> QED BY <3>1
  <2>2. ASSUME NEW y \in T PROVE T \ {y} \in G
    <3>1. IsFiniteSet(T)
      BY <1>0
    <3>2. Cardinality(T \ {y}) = Cardinality(T) - 1
      BY <3>1, FS_RemoveElement
    <3> QED BY <1>2, <3>2
  <2> QED BY <2>1, <2>2
<1> HIDE DEF H
<1>3. \A n \in Nat : n \in H
  BY <1>1, <1>2, NaturalsBySuccessor
<1> QED BY <1>0, <1>3 DEF H

(* The results of n rounds of a step. *)
LEMMA RoundsExist ==
  ASSUME NEW V, NEW base \in V, NEW step \in [V -> V], NEW N \in Nat
  PROVE  \E f \in [0 .. N -> V] : \A n \in 0 .. N :
           f[n] = IF n = 0 THEN base ELSE step[f[n - 1]]
<1> DEFINE IsRun(f, m) == f \in [0 .. m -> V] /\ \A n \in 0 .. m :
                            f[n] = IF n = 0 THEN base ELSE step[f[n - 1]]
           H == {m \in Nat : \E f : IsRun(f, m)}
<1>1. 0 \in H
  <2>1. IsRun([n \in 0 .. 0 |-> base], 0)
    OBVIOUS
  <2> QED BY <2>1
<1>2. ASSUME NEW m \in Nat, m \in H PROVE m + 1 \in H
  <2>1. PICK f : IsRun(f, m)
    BY <1>2
  <2> DEFINE g == [n \in 0 .. m + 1 |-> IF n <= m THEN f[n] ELSE step[f[m]]]
  <2>2. f[m] \in V /\ step[f[m]] \in V
    BY <2>1
  <2>3. g \in [0 .. m + 1 -> V]
    BY <2>1, <2>2
  <2>4. ASSUME NEW n \in 0 .. m + 1 PROVE g[n] = IF n = 0 THEN base ELSE step[g[n - 1]]
    <3>1. CASE n <= m
      BY <2>1, <3>1
    <3>2. CASE ~(n <= m)
      <4>1. n = m + 1 /\ n - 1 = m
        BY <3>2
      <4> QED BY <4>1
    <3> QED BY <3>1, <3>2
  <2> HIDE DEF g
  <2>5. IsRun(g, m + 1)
    BY <2>3, <2>4
  <2> QED BY <2>5
<1> HIDE DEF H
<1>3. N \in H
  BY <1>1, <1>2, NaturalsBySuccessor
<1> QED BY <1>3 DEF H

(* Induction from the end of a sequence to its beginning. *)
LEMMA Backwards ==
  ASSUME NEW N \in Nat, NEW G,
         \A q \in 1 .. N + 1 : (\A r \in q + 1 .. N + 1 : r \in G) => q \in G
  PROVE  \A q \in 1 .. N + 1 : q \in G
<1> DEFINE H == {n \in Nat : \A q \in 1 .. N + 1 : q > N + 1 - n => q \in G}
<1>1. 0 \in H
  OBVIOUS
<1>2. ASSUME NEW n \in Nat, n \in H PROVE n + 1 \in H
  <2> SUFFICES ASSUME NEW q \in 1 .. N + 1, q > N + 1 - (n + 1) PROVE q \in G
    OBVIOUS
  <2>1. \A r \in q + 1 .. N + 1 : r \in G
    BY <1>2
  <2> QED BY <2>1
<1> HIDE DEF H
<1>3. N + 1 \in H
  BY <1>1, <1>2, NaturalsBySuccessor
<1> QED BY <1>3 DEF H

LooksAhead(F, N, V) ==
  /\ F \in [[1 .. N + 1 -> V] -> [1 .. N + 1 -> V]]
  /\ \A f, g \in [1 .. N + 1 -> V] : \A q \in 1 .. N + 1 :
       (\A r \in q + 1 .. N + 1 : f[r] = g[r]) => F[f][q] = F[g][q]

(***************************************************************************)
(* A function whose value at each index is worked out from the values at   *)
(* higher indices exists: F does one round of working out, and n rounds    *)
(* settle the last n values.                                               *)
(***************************************************************************)
LEMMA LookingAhead ==
  ASSUME NEW N \in Nat, NEW V, V # {}, NEW F, LooksAhead(F, N, V)
  PROVE  \E f \in [1 .. N + 1 -> V] : F[f] = f
<1> USE DEF LooksAhead
<1> DEFINE D == 1 .. N + 1
           H == {n \in Nat : \E f \in [D -> V] : \A q \in D : q > N + 1 - n => F[f][q] = f[q]}
<1>1. 0 \in H
  <2>1. PICK v \in V : TRUE
    OBVIOUS
  <2>2. PICK f \in [D -> V] : TRUE
    <3>1. [q \in D |-> v] \in [D -> V]
      OBVIOUS
    <3> QED BY <3>1
  <2>3. \A q \in D : ~(q > N + 1 - 0)
    OBVIOUS
  <2> QED BY <2>2, <2>3
<1>2. ASSUME NEW n \in Nat, n \in H PROVE n + 1 \in H
  <2>1. PICK f \in [D -> V] : \A q \in D : q > N + 1 - n => F[f][q] = f[q]
    BY <1>2
  <2>2. F[f] \in [D -> V]
    OBVIOUS
  <2>3. ASSUME NEW q \in D, q > N + 1 - (n + 1) PROVE F[F[f]][q] = F[f][q]
    <3>1. \A r \in q + 1 .. N + 1 : F[f][r] = f[r]
      BY <2>1, <2>3
    <3> QED BY <2>2, <3>1
  <2> QED BY <2>2, <2>3
<1> HIDE DEF H
<1>3. N + 1 \in H
  BY <1>1, <1>2, NaturalsBySuccessor
<1>4. PICK f \in [D -> V] : \A q \in D : q > N + 1 - (N + 1) => F[f][q] = f[q]
  BY <1>3 DEF H
<1>5. F[f] \in [D -> V] /\ \A q \in D : F[f][q] = f[q]
  BY <1>4
<1> QED BY <1>5

-----------------------------------------------------------------------------
(* A round of working out looks at smaller subsets only. *)
LooksWithin(F, S, V) ==
  /\ F \in [[SUBSET S -> V] -> [SUBSET S -> V]]
  /\ \A f, g \in [SUBSET S -> V] : \A T \in SUBSET S :
       (\A R \in SUBSET T : R # T => f[R] = g[R]) => F[f][T] = F[g][T]

Solves(f, F, S, V) == f \in [SUBSET S -> V] /\ F[f] = f

(* F does one round of working out, and n rounds settle the values at
   subsets of fewer than n elements. *)
LEMMA LookingWithin ==
  ASSUME NEW S, IsFiniteSet(S), NEW V, V # {}, NEW F, LooksWithin(F, S, V)
  PROVE  \E f : Solves(f, F, S, V)
<1> USE DEF LooksWithin, Solves
<1> DEFINE D == SUBSET S
           H == {n \in Nat : \E f \in [D -> V] : \A T \in D : Cardinality(T) < n => F[f][T] = f[T]}
<1>0. \A T \in D : Cardinality(T) \in Nat
  BY FS_Subset, FS_CardinalityType
<1>1. 0 \in H
  <2>1. PICK v \in V : TRUE
    OBVIOUS
  <2>2. PICK f \in [D -> V] : TRUE
    <3>1. [T \in D |-> v] \in [D -> V]
      OBVIOUS
    <3> QED BY <3>1
  <2>3. \A T \in D : ~(Cardinality(T) < 0)
    BY <1>0
  <2> QED BY <2>2, <2>3
<1>2. ASSUME NEW n \in Nat, n \in H PROVE n + 1 \in H
  <2>1. PICK f \in [D -> V] : \A T \in D : Cardinality(T) < n => F[f][T] = f[T]
    BY <1>2
  <2>2. F[f] \in [D -> V]
    OBVIOUS
  <2>3. ASSUME NEW T \in D, Cardinality(T) < n + 1 PROVE F[F[f]][T] = F[f][T]
    <3>1. ASSUME NEW R \in SUBSET T, R # T PROVE F[f][R] = f[R]
      <4>1. IsFiniteSet(T)
        BY FS_Subset
      <4>2. Cardinality(R) <= Cardinality(T) /\ Cardinality(R) # Cardinality(T)
        BY <3>1, <4>1, FS_Subset
      <4>3. Cardinality(R) < n
        BY <1>0, <2>3, <4>2
      <4> QED BY <2>1, <4>3
    <3> QED BY <2>2, <3>1
  <2>4. \E g \in [D -> V] : \A T \in D : Cardinality(T) < n + 1 => F[g][T] = g[T]
    BY <2>2, <2>3
  <2>5. n + 1 \in Nat
    OBVIOUS
  <2> QED BY <2>4, <2>5, Zenon
<1> HIDE DEF H
<1>3. Cardinality(S) + 1 \in H
  <2>1. Cardinality(S) + 1 \in Nat
    BY <1>0
  <2> QED BY <1>1, <1>2, <2>1, NaturalsBySuccessor
<1>4. PICK f \in [D -> V] : \A T \in D : Cardinality(T) < Cardinality(S) + 1 => F[f][T] = f[T]
  BY <1>3 DEF H
<1>5. ASSUME NEW T \in D PROVE F[f][T] = f[T]
  <2>1. Cardinality(T) <= Cardinality(S)
    BY FS_Subset
  <2>2. Cardinality(T) < Cardinality(S) + 1
    BY <1>0, <2>1
  <2> QED BY <1>4, <2>2
<1>6. F[f] \in [D -> V]
  OBVIOUS
<1> QED BY <1>5, <1>6

LEMMA MaxIsMember ==
  ASSUME NEW n \in Nat, NEW T \in SUBSET (1 .. n), T # {}
  PROVE  Max(T) \in T
<1> DEFINE G == {k \in Nat : \A R \in SUBSET (1 .. k) :
                                R # {} => \E x \in R : \A y \in R : x >= y}
<1>1. 0 \in G
  <2>1. 1 .. 0 = {}
    OBVIOUS
  <2> QED BY <2>1
<1>2. ASSUME NEW k \in Nat, k \in G PROVE k + 1 \in G
  <2> SUFFICES ASSUME NEW R \in SUBSET (1 .. k + 1), R # {}
               PROVE  \E x \in R : \A y \in R : x >= y
    OBVIOUS
  <2>1. CASE k + 1 \in R
    BY <2>1
  <2>2. CASE k + 1 \notin R
    <3>1. R \in SUBSET (1 .. k)
      BY <2>2
    <3> QED BY <1>2, <3>1
  <2> QED BY <2>1, <2>2
<1> HIDE DEF G
<1>3. n \in G
  BY <1>1, <1>2, NaturalsBySuccessor
<1>4. PICK x \in T : \A y \in T : x >= y
  BY <1>3 DEF G
<1> QED BY <1>4 DEF Max

LEMMA MinIsMember ==
  ASSUME NEW T \in SUBSET Nat, T # {}
  PROVE  Min(T) \in T /\ \A m \in T : Min(T) <= m
<1> DEFINE R == OpToRel(<, Nat)
<1>1. PICK n \in T : \A m \in T : <<m, n>> \notin R
  <2>1. IsWellFoundedOn(R, Nat)
    BY NatLessThanWellFounded
  <2> HIDE DEF R
  <2> QED BY <2>1, WFMin
<1>2. ASSUME NEW m \in T PROVE n <= m
  <2>1. m < n => <<m, n>> \in R
    BY DEF OpToRel
  <2> HIDE DEF R
  <2> QED BY <1>1, <2>1
<1> QED BY <1>2 DEF Min

LEMMA MaxOfFirst ==
  ASSUME NEW k \in Nat
  PROVE  /\ Max(1 .. k + 1) = k + 1
         /\ (1 .. k + 1) \ {Max(1 .. k + 1)} = 1 .. k
         /\ 1 .. k + 1 # {}
<1>1. k + 1 \in 1 .. k + 1 /\ \A y \in 1 .. k + 1 : k + 1 >= y
  OBVIOUS
<1>2. \A x \in 1 .. k + 1 : (\A y \in 1 .. k + 1 : x >= y) => x = k + 1
  OBVIOUS
<1>3. Max(1 .. k + 1) = k + 1
  BY <1>1, <1>2 DEF Max
<1> QED BY <1>1, <1>3

(* A fold's function, with the step as a function. *)
IsFold(g, V, base, seq, step) ==
  /\ g \in [SUBSET DOMAIN seq -> V]
  /\ \A T \in SUBSET DOMAIN seq :
       g[T] = IF T = {} THEN base ELSE step[g[T \ {Max(T)}]][seq[Max(T)]]

LEMMA FoldExists ==
  ASSUME NEW E, NEW V, NEW base \in V, NEW seq \in Seq(E), NEW step \in [V -> [E -> V]]
  PROVE  \E g : IsFold(g, V, base, seq, step)
<1> DEFINE S == DOMAIN seq
           Next(g, T) == IF T = {} THEN base ELSE step[g[T \ {Max(T)}]][seq[Max(T)]]
           F == [g \in [SUBSET S -> V] |-> [T \in SUBSET S |-> Next(g, T)]]
<1>1. S = 1 .. Len(seq) /\ Len(seq) \in Nat
  OBVIOUS
<1>2. IsFiniteSet(S)
  BY <1>1, FS_Interval
<1>3. ASSUME NEW T \in SUBSET S, T # {}
      PROVE  /\ seq[Max(T)] \in E
             /\ T \ {Max(T)} \in SUBSET T /\ T \ {Max(T)} # T
  <2>1. Max(T) \in T
    BY <1>1, <1>3, MaxIsMember
  <2>2. Max(T) \in 1 .. Len(seq)
    BY <1>1, <2>1
  <2> HIDE DEF S
  <2> QED BY <2>1, <2>2
<1>4. ASSUME NEW g \in [SUBSET S -> V], NEW T \in SUBSET S
      PROVE  Next(g, T) \in V
  <2>1. CASE T = {}
    BY <2>1
  <2>2. CASE T # {}
    <3>1. seq[Max(T)] \in E /\ g[T \ {Max(T)}] \in V
      BY <1>3, <2>2
    <3>2. \A q \in V, e \in E : step[q][e] \in V
      OBVIOUS
    <3>3. Next(g, T) = step[g[T \ {Max(T)}]][seq[Max(T)]]
      BY <2>2
    <3> HIDE DEF Next
    <3> QED BY <3>1, <3>2, <3>3
  <2> QED BY <2>1, <2>2
<1>5. F \in [[SUBSET S -> V] -> [SUBSET S -> V]]
  <2> HIDE DEF Next
  <2> QED BY <1>4
<1>6. ASSUME NEW f \in [SUBSET S -> V], NEW g \in [SUBSET S -> V], NEW T \in SUBSET S,
             \A U \in SUBSET T : U # T => f[U] = g[U]
      PROVE  F[f][T] = F[g][T]
  <2>1. T # {} => f[T \ {Max(T)}] = g[T \ {Max(T)}]
    BY <1>3, <1>6
  <2>2. Next(f, T) = Next(g, T)
    BY <2>1
  <2> HIDE DEF Next
  <2> QED BY <2>2
<1>7. LooksWithin(F, S, V)
  <2> HIDE DEF F, S
  <2> QED BY <1>5, <1>6 DEF LooksWithin
<1>8. PICK g : Solves(g, F, S, V)
  <2> HIDE DEF F, S
  <2> QED BY <1>2, <1>7, LookingWithin
<1>9. g \in [SUBSET S -> V] /\ F[g] = g
  BY <1>8 DEF Solves
<1>10. \A T \in SUBSET S : g[T] = Next(g, T)
  <2> HIDE DEF Next
  <2> QED BY <1>9
<1> QED BY <1>9, <1>10 DEF IsFold

-----------------------------------------------------------------------------
(* The recursive function behind the sum. *)
Pick(s) == CHOOSE x \in s : TRUE

Sums(f, S, g) ==
  g = [s \in SUBSET S |-> IF s = {} THEN 0 ELSE f[Pick(s)] + g[s \ {Pick(s)}]]

Total(f, S) == CHOOSE g : Sums(f, S, g)

LEMMA SumUnfolds ==
  ASSUME NEW f, NEW S
  PROVE  SumFunctionOnSet(f, S) = Total(f, S)[S]
  BY DEF Total, SumFunctionOnSet, FoldFunctionOnSet, MapThenFoldSet, Sums, Pick

LEMMA SumsExists ==
  ASSUME NEW f, NEW S, IsFiniteSet(S)
  PROVE  \E g : Sums(f, S, g)
<1> DEFINE Value(g, s) == IF s = {} THEN 0 ELSE f[Pick(s)] + g[s \ {Pick(s)}]
           Upto(n, g) == \A s \in SUBSET S : Cardinality(s) <= n => g[s] = Value(g, s)
           H == {n \in Nat : \E g : Upto(n, g)}
<1>0. \A s \in SUBSET S : IsFiniteSet(s) /\ Cardinality(s) \in Nat
  BY FS_Subset, FS_CardinalityType
<1>a. \A s \in SUBSET S : s # {} => Pick(s) \in s
  BY DEF Pick
<1>1. 0 \in H
  <2>1. Upto(0, [s \in SUBSET S |-> 0])
    BY <1>0, FS_EmptySet
  <2> QED BY <2>1
<1>2. ASSUME NEW n \in Nat, n \in H PROVE n + 1 \in H
  <2>1. PICK g : Upto(n, g)
    BY <1>2
  <2> DEFINE h == [s \in SUBSET S |-> IF Cardinality(s) <= n THEN g[s] ELSE Value(g, s)]
  <2>2. ASSUME NEW s \in SUBSET S, Cardinality(s) <= n + 1
        PROVE  h[s] = Value(h, s)
    <3>1. CASE s = {}
      BY <2>1, <3>1, FS_EmptySet
    <3>2. CASE s # {}
      <4> DEFINE t == s \ {Pick(s)}
      <4>1. t \in SUBSET S /\ Cardinality(t) <= n
        <5>1. Pick(s) \in s /\ IsFiniteSet(s) /\ Cardinality(s) \in Nat
          BY <1>0, <1>a, <3>2
        <5>2. Cardinality(t) = Cardinality(s) - 1
          BY <5>1, FS_RemoveElement
        <5> QED BY <2>2, <5>1, <5>2
      <4>2. h[t] = g[t]
        BY <4>1
      <4>3. h[s] = Value(g, s)
        BY <2>1
      <4> QED BY <3>2, <4>2, <4>3
    <3> QED BY <3>1, <3>2
  <2> HIDE DEF h
  <2>3. Upto(n + 1, h)
    BY <2>2
  <2>4. n + 1 \in Nat
    OBVIOUS
  <2> HIDE DEF Upto
  <2>5. \E k : Upto(n + 1, k)
    BY <2>3
  <2> QED BY <2>4, <2>5
<1>3. Cardinality(S) \in H
  <2> HIDE DEF H
  <2> QED BY <1>0, <1>1, <1>2, NaturalsBySuccessor
<1>4. PICK g : Upto(Cardinality(S), g)
  BY <1>3
<1> DEFINE h == [s \in SUBSET S |-> g[s]]
<1>5. \A s \in SUBSET S : Cardinality(s) <= Cardinality(S)
  BY FS_Subset
<1>6. \A s \in SUBSET S : h[s] = Value(h, s)
  BY <1>4, <1>5
<1>7. h = [s \in SUBSET S |-> Value(h, s)]
  BY <1>6
<1> QED BY <1>7 DEF Sums

LEMMA TotalIs ==
  ASSUME NEW f, NEW S, IsFiniteSet(S)
  PROVE  Sums(f, S, Total(f, S))
  BY SumsExists DEF Total

(* One step of the recursion. *)
LEMMA TotalUnfolds ==
  ASSUME NEW f, NEW S, IsFiniteSet(S), NEW T \in SUBSET S
  PROVE  Total(f, S)[T] = IF T = {} THEN 0 ELSE f[Pick(T)] + Total(f, S)[T \ {Pick(T)}]
<1>1. Sums(f, S, Total(f, S))
  BY TotalIs
<1>2. ASSUME NEW g, Sums(f, S, g)
      PROVE  g[T] = IF T = {} THEN 0 ELSE f[Pick(T)] + g[T \ {Pick(T)}]
  BY <1>2 DEF Sums
<1> QED BY <1>1, <1>2

LEMMA TotalOfNone ==
  ASSUME NEW f, NEW S, IsFiniteSet(S)
  PROVE  Total(f, S)[{}] = 0
  BY TotalUnfolds

LEMMA TotalOfSome ==
  ASSUME NEW f, NEW S, IsFiniteSet(S), NEW T \in SUBSET S, T # {}
  PROVE  Total(f, S)[T] = f[Pick(T)] + Total(f, S)[T \ {Pick(T)}]
  BY TotalUnfolds

LEMMA PickIsMember ==
  ASSUME NEW T, T # {}
  PROVE  Pick(T) \in T
  BY DEF Pick

(* Kept folded where functions are only passed on. *)
AgreeOn(f, h, S) == \A x \in S : f[x] = h[x]
IntegersOn(f, S) == \A x \in S : f[x] \in Int
NaturalsOn(f, S) == \A x \in S : f[x] \in Nat

(* The universe of the recursion does not matter, nor the function elsewhere. *)
LEMMA TotalsAgree ==
  ASSUME NEW f, NEW h, NEW S, IsFiniteSet(S), NEW R \in SUBSET S, AgreeOn(f, h, R)
  PROVE  \A T \in SUBSET R : Total(f, S)[T] = Total(h, R)[T]
<1> DEFINE G == {T \in SUBSET R : Total(f, S)[T] = Total(h, R)[T]}
<1>0. IsFiniteSet(R)
  BY FS_Subset
<1>1. {} \in G
  <2>1. Total(f, S)[{}] = 0
    BY TotalOfNone
  <2>2. Total(h, R)[{}] = 0
    BY <1>0, TotalOfNone
  <2> QED BY <2>1, <2>2
<1>2. ASSUME NEW T \in SUBSET R, T # {}, \A y \in T : T \ {y} \in G PROVE T \in G
  <2>0. T \in SUBSET S /\ T # {}
    BY <1>2
  <2>1. Total(f, S)[T] = f[Pick(T)] + Total(f, S)[T \ {Pick(T)}]
    BY <2>0, TotalOfSome
  <2>2. Total(h, R)[T] = h[Pick(T)] + Total(h, R)[T \ {Pick(T)}]
    BY <1>0, <2>0, TotalOfSome
  <2>3. Pick(T) \in T
    BY <1>2, PickIsMember
  <2>4. f[Pick(T)] = h[Pick(T)]
    BY <2>3 DEF AgreeOn
  <2>5. Total(f, S)[T \ {Pick(T)}] = Total(h, R)[T \ {Pick(T)}]
    BY <1>2, <2>3
  <2> QED BY <2>1, <2>2, <2>4, <2>5
<1> HIDE DEF G
<1>3. \A T \in SUBSET R : T \in G
  BY <1>0, <1>1, <1>2, SubsetsByElement
<1> QED BY <1>3 DEF G

LEMMA TotalType ==
  ASSUME NEW f, NEW S, IsFiniteSet(S), IntegersOn(f, S)
  PROVE  \A T \in SUBSET S : Total(f, S)[T] \in Int
<1> DEFINE G == {T \in SUBSET S : Total(f, S)[T] \in Int}
<1>1. {} \in G
  <2>1. Total(f, S)[{}] = 0
    BY TotalOfNone
  <2> QED BY <2>1
<1>2. ASSUME NEW T \in SUBSET S, T # {}, \A y \in T : T \ {y} \in G PROVE T \in G
  <2>0. Total(f, S)[T] = f[Pick(T)] + Total(f, S)[T \ {Pick(T)}]
    BY <1>2, TotalOfSome
  <2>1. Pick(T) \in T
    BY <1>2, PickIsMember
  <2>2. Total(f, S)[T \ {Pick(T)}] \in Int
    BY <1>2, <2>1
  <2>3. f[Pick(T)] \in Int
    BY <2>1 DEF IntegersOn
  <2> QED BY <2>0, <2>2, <2>3
<1> HIDE DEF G
<1>3. \A T \in SUBSET S : T \in G
  BY <1>1, <1>2, SubsetsByElement
<1> QED BY <1>3 DEF G

(* Any element can be taken out first. *)
LEMMA TotalReorders ==
  ASSUME NEW f, NEW S, IsFiniteSet(S), IntegersOn(f, S)
  PROVE  \A T \in SUBSET S, y \in S : y \in T => Total(f, S)[T] = f[y] + Total(f, S)[T \ {y}]
<1> DEFINE g == Total(f, S)
           G == {T \in SUBSET S : \A y \in T : g[T] = f[y] + g[T \ {y}]}
<1>1. {} \in G
  OBVIOUS
<1>2. ASSUME NEW T \in SUBSET S, T # {}, \A y \in T : T \ {y} \in G PROVE T \in G
  <2>1. PICK p : p \in T /\ g[T] = f[p] + g[T \ {p}]
    <3>1. Pick(T) \in T
      BY <1>2, PickIsMember
    <3>2. g[T] = f[Pick(T)] + g[T \ {Pick(T)}]
      BY <1>2, TotalOfSome
    <3> QED BY <3>1, <3>2
  <2>2. ASSUME NEW y \in T PROVE g[T] = f[y] + g[T \ {y}]
    <3>1. CASE y = p
      BY <2>1, <3>1
    <3>2. CASE y # p
      <4> DEFINE U == T \ {p, y}
      <4>1. g[T \ {p}] = f[y] + g[U]
        <5>1. (T \ {p}) \ {y} = U /\ y \in T \ {p}
          BY <3>2
        <5>2. T \ {p} \in G
          BY <1>2, <2>1
        <5> HIDE DEF U
        <5> QED BY <5>1, <5>2
      <4>2. g[T \ {y}] = f[p] + g[U]
        <5>1. (T \ {y}) \ {p} = U /\ p \in T \ {y}
          BY <2>1, <3>2
        <5>2. T \ {y} \in G
          BY <1>2
        <5> HIDE DEF U
        <5> QED BY <5>1, <5>2
      <4>3. g[U] \in Int
        BY TotalType
      <4>4. f[y] \in Int /\ f[p] \in Int
        BY <2>1 DEF IntegersOn
      <4> HIDE DEF U, g
      <4> QED BY <2>1, <4>1, <4>2, <4>3, <4>4
    <3> QED BY <3>1, <3>2
  <2> QED BY <2>2
<1> HIDE DEF G
<1>3. \A T \in SUBSET S : T \in G
  BY <1>1, <1>2, SubsetsByElement
<1> QED BY <1>3 DEF G

-----------------------------------------------------------------------------
(* What the sum over a finite set is, and how it changes with the set. *)
LEMMA SumEmpty ==
  ASSUME NEW f
  PROVE  SumFunctionOnSet(f, {}) = 0
  BY SumUnfolds, TotalOfNone, FS_EmptySet

LEMMA SumType ==
  ASSUME NEW f, NEW S, IsFiniteSet(S), IntegersOn(f, S)
  PROVE  SumFunctionOnSet(f, S) \in Int
  BY SumUnfolds, TotalType

LEMMA SumCongruence ==
  ASSUME NEW f, NEW h, NEW S, IsFiniteSet(S), AgreeOn(f, h, S)
  PROVE  SumFunctionOnSet(f, S) = SumFunctionOnSet(h, S)
<1>1. \A T \in SUBSET S : Total(f, S)[T] = Total(h, S)[T]
  <2>1. S \in SUBSET S
    OBVIOUS
  <2> QED BY <2>1, TotalsAgree
<1> QED BY <1>1, SumUnfolds

LEMMA SumRemove ==
  ASSUME NEW f, NEW S, IsFiniteSet(S), IntegersOn(f, S), NEW x \in S
  PROVE  SumFunctionOnSet(f, S) = f[x] + SumFunctionOnSet(f, S \ {x})
<1>1. Total(f, S)[S] = f[x] + Total(f, S)[S \ {x}]
  BY TotalReorders
<1>2. Total(f, S)[S \ {x}] = Total(f, S \ {x})[S \ {x}]
  <2> DEFINE R == S \ {x}
  <2>1. R \in SUBSET S /\ AgreeOn(f, f, R)
    BY DEF AgreeOn
  <2> HIDE DEF R
  <2>2. \A T \in SUBSET R : Total(f, S)[T] = Total(f, R)[T]
    BY <2>1, TotalsAgree
  <2> QED BY <2>2 DEF R
<1> QED BY <1>1, <1>2, SumUnfolds

LEMMA SumNatural ==
  ASSUME NEW f, NEW S, IsFiniteSet(S), NaturalsOn(f, S)
  PROVE  SumFunctionOnSet(f, S) \in Nat
<1> DEFINE sum(T) == SumFunctionOnSet(f, T)
           G == {T \in SUBSET S : sum(T) \in Nat}
<1>1. {} \in G
  BY SumEmpty
<1>2. ASSUME NEW T \in SUBSET S, T # {}, \A y \in T : T \ {y} \in G PROVE T \in G
  <2>1. PICK y : y \in T
    BY <1>2
  <2>2. IsFiniteSet(T) /\ IntegersOn(f, T)
    BY FS_Subset DEF IntegersOn, NaturalsOn
  <2>3. sum(T) = f[y] + sum(T \ {y})
    BY <2>1, <2>2, SumRemove
  <2>4. f[y] \in Nat /\ sum(T \ {y}) \in Nat
    <3>1. f[y] \in Nat
      BY <2>1 DEF NaturalsOn
    <3> QED BY <1>2, <2>1, <3>1
  <2> HIDE DEF sum
  <2> QED BY <2>3, <2>4
<1> HIDE DEF G
<1>3. \A T \in SUBSET S : T \in G
  BY <1>1, <1>2, SubsetsByElement
<1> QED BY <1>3 DEF G

LEMMA SumDifference ==
  ASSUME NEW f, NEW S, IsFiniteSet(S), IntegersOn(f, S), NEW R \in SUBSET S
  PROVE  SumFunctionOnSet(f, S) = SumFunctionOnSet(f, R) + SumFunctionOnSet(f, S \ R)
<1> DEFINE sum(T) == SumFunctionOnSet(f, T)
           G == {T \in SUBSET R : sum(S) = sum(T) + sum(S \ T)}
<1>0. IsFiniteSet(R)
  BY FS_Subset
<1>a. ASSUME NEW T \in SUBSET S
      PROVE  IsFiniteSet(T) /\ IntegersOn(f, T) /\ sum(T) \in Int
  <2>1. IsFiniteSet(T)
    BY FS_Subset
  <2>2. IntegersOn(f, T)
    BY DEF IntegersOn
  <2> QED BY <2>1, <2>2, SumType
<1>b. ASSUME NEW T \in SUBSET S, NEW x \in T PROVE sum(T) = f[x] + sum(T \ {x})
  BY <1>a, SumRemove
<1>1. {} \in G
  <2>1. sum({}) = 0
    BY SumEmpty
  <2>2. S \ {} = S /\ sum(S) \in Int
    BY <1>a
  <2> HIDE DEF sum
  <2> QED BY <2>1, <2>2
<1>2. ASSUME NEW T \in SUBSET R, T # {}, \A y \in T : T \ {y} \in G PROVE T \in G
  <2>1. PICK y : y \in T
    BY <1>2
  <2>2. sum(S) = sum(T \ {y}) + sum(S \ (T \ {y}))
    BY <1>2, <2>1
  <2>3. sum(T) = f[y] + sum(T \ {y})
    BY <1>b, <2>1
  <2>4. sum(S \ (T \ {y})) = f[y] + sum(S \ T)
    <3>1. (S \ (T \ {y})) \ {y} = S \ T /\ y \in S \ (T \ {y})
      BY <2>1
    <3> HIDE DEF sum
    <3>2. S \ (T \ {y}) \in SUBSET S
      OBVIOUS
    <3> QED BY <1>b, <3>1, <3>2
  <2>5. f[y] \in Int /\ sum(T \ {y}) \in Int /\ sum(S \ T) \in Int
    <3>1. f[y] \in Int
      BY <2>1 DEF IntegersOn
    <3> QED BY <1>a, <3>1
  <2> HIDE DEF sum
  <2> QED BY <2>2, <2>3, <2>4, <2>5
<1> HIDE DEF G
<1>3. R \in G
  BY <1>0, <1>1, <1>2, SubsetsByElement
<1> QED BY <1>3 DEF G

-----------------------------------------------------------------------------
(* Remainders. *)

(* A number is a multiple of the divisor and a remainder. *)
LEMMA Divide ==
  ASSUME NEW x \in Int, NEW n \in Nat \ {0}
  PROVE  \E q \in Int, r \in 0 .. n - 1 : r = x % n /\ x = n * q + r
<1>1. /\ x \div n \in Int
      /\ x % n \in 0 .. n - 1
      /\ x = n * (x \div n) + (x % n)
  OBVIOUS
<1> QED BY <1>1

LEMMA AtLeast ==
  ASSUME NEW n \in Nat, NEW k \in Int, k >= 1
  PROVE  n * k >= n
<1>1. n * k = n * (k - 1) + n
  OBVIOUS
<1>2. n * (k - 1) >= 0
  OBVIOUS
<1> QED BY <1>1, <1>2

(* The remainder is unique. *)
LEMMA DivideOnce ==
  ASSUME NEW n \in Nat \ {0}, NEW q \in Int, NEW r \in 0 .. n - 1,
         NEW p \in Int, NEW s \in 0 .. n - 1, n * q + r = n * p + s
  PROVE  r = s
<1>1. n * (q - p) = s - r
  OBVIOUS
<1>1a. n * (p - q) = r - s
  OBVIOUS
<1>2. CASE q - p >= 1
  BY <1>1, <1>2, AtLeast
<1>3. CASE p - q >= 1
  BY <1>1a, <1>3, AtLeast
<1>4. CASE q = p
  BY <1>4
<1> QED BY <1>2, <1>3, <1>4

(* A sum that was reduced and counted on from is the sum, reduced. *)
LEMMA ModuloOfSum ==
  ASSUME NEW n \in Nat \ {0}, NEW x \in Int, NEW d \in Int
  PROVE  ((x % n) + d) % n = (x + d) % n
<1>1. PICK c \in Int, m \in 0 .. n - 1 : m = x % n /\ x = n * c + m
  BY Divide
<1>2. PICK a \in Int, r \in 0 .. n - 1 : r = (m + d) % n /\ m + d = n * a + r
  <2>1. m + d \in Int
    OBVIOUS
  <2> QED BY <2>1, Divide
<1>3. PICK b \in Int, s \in 0 .. n - 1 : s = (x + d) % n /\ x + d = n * b + s
  <2>1. x + d \in Int
    OBVIOUS
  <2> QED BY <2>1, Divide
<1>4. x = n * c + m /\ m + d = n * a + r /\ x + d = n * b + s
  BY <1>1, <1>2, <1>3
<1>5. n * (a + c) + r = n * b + s
  <2>1. n * (a + c) = n * a + n * c
    OBVIOUS
  <2> QED BY <1>4, <2>1
<1>6. r = s
  <2>1. a + c \in Int
    OBVIOUS
  <2> QED BY <1>5, <2>1, DivideOnce
<1> QED BY <1>1, <1>2, <1>3, <1>6

LEMMA ModuloOfSmall ==
  ASSUME NEW n \in Nat \ {0}, NEW x \in 0 .. n - 1
  PROVE  x % n = x
  OBVIOUS
=============================================================================
