----------------------------- MODULE SetInduction -----------------------------
(***************************************************************************)
(* Induction on natural numbers, stated of sets instead of predicates:     *)
(* proofs about definitions that recur over an index instantiate S with    *)
(* the set of indices for which their claim holds.  And recursion: what    *)
(* is defined step by step from a first value exists.                      *)
(***************************************************************************)
EXTENDS Integers, FiniteSetTheorems, TLAPS

\* The intervals 1 .. n are well-founded by inclusion, so numbers are by size.
LEMMA LeastNatural ==
  ASSUME NEW T \in SUBSET Nat, T # {}
  PROVE  \E x \in T : \A y \in T : x <= y
<1>. DEFINE U == {1 .. n : n \in T}
<1>1. U \subseteq FiniteSubsetsOf(Nat) /\ U # {}
  <2>1. ASSUME NEW n \in T PROVE 1 .. n \in FiniteSubsetsOf(Nat)
    <3>1. IsFiniteSet(1 .. n) /\ 1 .. n \subseteq Nat
      BY FS_Interval
    <3>. QED
      BY <3>1 DEF FiniteSubsetsOf
  <2>. QED
    BY <2>1
<1>2. PICK x \in T : \A y \in T : <<1 .. y, 1 .. x>> \notin StrictSubsetOrdering(Nat)
  <2>1. \E u \in U : \A v \in U : ~ (<<v, u>> \in StrictSubsetOrdering(Nat))
    <3>. HIDE DEF U
    <3>. QED
      BY <1>1, FS_StrictSubsetOrderingWellFounded, WFMin
  <2>. QED
    BY <2>1
<1>3. ASSUME NEW y \in T, y < x PROVE FALSE
  <2>1. 1 .. y \subseteq 1 .. x /\ x \in 1 .. x /\ x \notin 1 .. y
    BY <1>3
  <2>2. 1 .. y \subseteq Nat /\ 1 .. x \subseteq Nat
    OBVIOUS
  <2>3. <<1 .. y, 1 .. x>> \in StrictSubsetOrdering(Nat)
    BY <2>1, <2>2 DEF StrictSubsetOrdering
  <2>. QED
    BY <2>3, <1>2
<1>. QED
  BY <1>3

\* A set with 0 that holds the successor of every element below n holds 0 .. n.
THEOREM UpTo ==
  ASSUME NEW n \in Nat, NEW S, 0 \in S,
         \A i \in 0 .. n : i \in S /\ i < n => i + 1 \in S
  PROVE  0 .. n \subseteq S
<1>. DEFINE T == {i \in 0 .. n : i \notin S}
<1>1. CASE T # {}
  <2>1. T \in SUBSET Nat
    OBVIOUS
  <2>2. PICK x \in T : \A y \in T : x <= y
    <3>. HIDE DEF T
    <3>. QED
      BY <1>1, <2>1, LeastNatural
  <2>3. x \in 0 .. n /\ x # 0 /\ x \notin S
    OBVIOUS
  <2>4. x - 1 \in 0 .. n /\ x - 1 < n /\ x - 1 \notin T
    BY <2>2, <2>3
  <2>5. x - 1 \in S
    BY <2>4
  <2>6. (x - 1) + 1 \in S
    BY <2>4, <2>5
  <2>. QED
    BY <2>3, <2>6
<1>. QED
  BY <1>1

\* A set with 0 and all successors holds every natural number.
THEOREM AllNaturals ==
  ASSUME NEW S, 0 \in S, \A i \in Nat : i \in S => i + 1 \in S
  PROVE  Nat \subseteq S
<1>. SUFFICES ASSUME NEW n \in Nat PROVE n \in S
  OBVIOUS
<1>1. 0 .. n \subseteq S
  BY UpTo
<1>. QED
  BY <1>1

\* The values from V that f takes: a first, then each by a step of G from the last.
Iterates(f, n, V, a, G) == /\ f \in [0 .. n -> V] /\ f[0] = a
                           /\ \A i \in 1 .. n : f[i] = G[i][f[i - 1]]

\* They exist: recursion, as induction above, for data instead of an operator.
THEOREM Iteration ==
  ASSUME NEW n \in Nat, NEW V, NEW a \in V, NEW G \in [1 .. n -> [V -> V]]
  PROVE  \E f : Iterates(f, n, V, a, G)
<1>. DEFINE Upto(m, f) == Iterates(f, m, V, a, G)
            S == {m \in 0 .. n : \E f : Upto(m, f)}
<1>1. 0 \in S
  <2>. DEFINE f == [i \in 0 .. 0 |-> a]
  <2>1. Upto(0, f)
    BY DEF Iterates
  <2>2. \E h : Upto(0, h)
    <3>. HIDE DEF Upto, f
    <3>. QED
      BY <2>1
  <2>. QED
    BY <2>2
<1>2. ASSUME NEW m \in 0 .. n, m \in S, m < n PROVE m + 1 \in S
  <2>0. PICK f : Upto(m, f)
    BY <1>2
  <2>1. /\ f \in [0 .. m -> V] /\ f[0] = a
        /\ \A i \in 1 .. m : f[i] = G[i][f[i - 1]]
    BY <2>0 DEF Iterates
  <2>. DEFINE g == [i \in 0 .. m + 1 |-> IF i <= m THEN f[i] ELSE G[m + 1][f[m]]]
  <2>2. m \in 0 .. m /\ m + 1 \in 1 .. n /\ m + 1 \in 0 .. n /\ (m + 1) - 1 = m
    BY <1>2
  <2>3. f[m] \in V /\ G[m + 1][f[m]] \in V
    BY <2>1, <2>2
  <2>4. g \in [0 .. m + 1 -> V] /\ g[0] = a
    <3>1. \A i \in 0 .. m + 1 : (IF i <= m THEN f[i] ELSE G[m + 1][f[m]]) \in V
      <4>. HIDE DEF g
      <4>. QED
        BY <2>1, <2>2, <2>3
    <3>. QED
      BY <2>1, <2>2, <3>1
  <2>5. ASSUME NEW i \in 1 .. m + 1 PROVE g[i] = G[i][g[i - 1]]
    <3>1. CASE i <= m
      <4>1. i \in 1 .. m /\ i - 1 \in 0 .. m /\ i - 1 <= m /\ i \in 0 .. m + 1
            /\ i - 1 \in 0 .. m + 1
        BY <2>2, <3>1
      <4>2. g[i] = f[i] /\ g[i - 1] = f[i - 1]
        BY <3>1, <4>1
      <4>. QED
        BY <2>1, <4>1, <4>2
    <3>2. CASE i = m + 1
      <4>1. i \in 0 .. m + 1 /\ m \in 0 .. m + 1 /\ m <= m /\ ~ (i <= m)
        BY <2>2, <3>2
      <4>2. g[i] = G[m + 1][f[m]] /\ g[m] = f[m]
        BY <4>1
      <4>. QED
        BY <2>2, <3>2, <4>2
    <3>. QED
      BY <2>2, <3>1, <3>2
  <2>6. Upto(m + 1, g)
    <3>. HIDE DEF g
    <3>. QED
      BY <2>4, <2>5 DEF Iterates
  <2>7. \E h : Upto(m + 1, h)
    <3>. HIDE DEF Upto, g
    <3>. QED
      BY <2>6
  <2>. QED
    BY <2>2, <2>7
<1>3. n \in S
  <2>. HIDE DEF S
  <2>1. \A i \in 0 .. n : i \in S /\ i < n => i + 1 \in S
    BY <1>2
  <2>. QED
    <3>1. 0 .. n \subseteq S
      BY <1>1, <2>1, UpTo
    <3>. QED
      BY <3>1
<1>. QED
  BY <1>3
===============================================================================
