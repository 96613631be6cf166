---------------------------- MODULE SetInduction ----------------------------
(***************************************************************************)
(* Induction over the natural numbers, and functions defined by recursion  *)
(* over them, stated about sets: the theorems of NaturalsInduction take an *)
(* operator as a parameter, which SMT and Zenon cannot instantiate.  They  *)
(* follow from the fact that < is well founded.                            *)
(***************************************************************************)
EXTENDS Integers, WellFoundedInduction, TLAPS

\* < on the natural numbers, as a set of pairs.
LessThan == {p \in Nat \X Nat : p[1] < p[2]}

LEMMA LessThanWellFounded == IsWellFoundedOn(LessThan, Nat)
  BY NatLessThanWellFounded DEF OpToRel, LessThan

\* A set that has 0 and with each natural number the next has them all.
THEOREM NatSetInduction ==
    ASSUME NEW S, 0 \in S, \A n \in Nat : n \in S => n + 1 \in S
    PROVE  Nat \subseteq S
<1>. DEFINE T == Nat \ S
<1>. SUFFICES ASSUME T # {} PROVE FALSE
  OBVIOUS
<1>1. PICK x \in T : \A y \in T : <<y, x>> \notin LessThan
  <2>1. T \subseteq Nat
    OBVIOUS
  <2>. HIDE DEF T
  <2>. QED
    BY <2>1, WFMin, LessThanWellFounded
<1>2. x \in Nat /\ x # 0
  BY <1>1
<1>3. x - 1 \in Nat /\ x - 1 < x
  BY <1>2
<1>4. x - 1 \notin T
  BY <1>1, <1>2, <1>3 DEF LessThan
<1>. QED
  BY <1>1, <1>2, <1>3, <1>4

\* The same up to a bound.
THEOREM UpToSetInduction ==
    ASSUME NEW n \in Nat, NEW S, 0 \in S, \A i \in 1 .. n : i - 1 \in S => i \in S
    PROVE  0 .. n \subseteq S
<1>. DEFINE T == {i \in Nat : i <= n => i \in S}
<1>1. 0 \in T
  OBVIOUS
<1>2. \A i \in Nat : i \in T => i + 1 \in T
  <2>1. ASSUME NEW i \in Nat, i \in T, i + 1 <= n PROVE i + 1 \in S
    <3>1. i + 1 \in 1 .. n /\ (i + 1) - 1 = i
      BY <2>1
    <3>2. i \in S
      BY <2>1
    <3>. QED
      BY <3>1, <3>2
  <2>. QED
    BY <2>1
<1>3. Nat \subseteq T
  <2>. HIDE DEF T
  <2>. QED
    BY <1>1, <1>2, NatSetInduction
<1>. QED
  BY <1>3

\* The functions on 0 .. n that start with base and go on by Step, which takes the
\* last value and the next argument.
Steps(n, U) == [U \X (1 .. n) -> U]

Unfolds(g, n, U, base, Step) ==
    /\ g \in [0 .. n -> U]
    /\ g[0] = base
    /\ \A i \in 1 .. n : g[i] = Step[<<g[i - 1], i>>]

\* There is such a function, for every step within a set.
THEOREM RecursiveFunction ==
    ASSUME NEW n \in Nat, NEW U, NEW base \in U, NEW Step \in Steps(n, U)
    PROVE  \E g : Unfolds(g, n, U, base, Step)
<1>. USE DEF Steps, Unfolds
<1>. DEFINE Goes(g, m) == /\ g \in [0 .. n -> U] /\ g[0] = base
                          /\ \A i \in 1 .. n : i <= m => g[i] = Step[<<g[i - 1], i>>]
            S == {m \in 0 .. n : \E g : Goes(g, m)}
<1>1. 0 \in S
  <2>1. Goes([i \in 0 .. n |-> base], 0)
    OBVIOUS
  <2>. QED
    BY <2>1
<1>2. ASSUME NEW m \in 1 .. n, m - 1 \in S PROVE m \in S
  <2>1. PICK g : Goes(g, m - 1)
    BY <1>2
  <2>. DEFINE h == [g EXCEPT ![m] = Step[<<g[m - 1], m>>]]
  <2>2. m - 1 \in 0 .. n /\ m \in 0 .. n
    OBVIOUS
  <2>3. <<g[m - 1], m>> \in U \X (1 .. n)
    BY <2>1, <2>2
  <2>4. Step[<<g[m - 1], m>>] \in U
    BY <2>3
  <2>5. h \in [0 .. n -> U] /\ h[m] = Step[<<g[m - 1], m>>]
        /\ \A i \in 0 .. n : i # m => h[i] = g[i]
    BY <2>1, <2>2, <2>4
  <2>. HIDE DEF h
  <2>6. h[0] = base
    BY <2>1, <2>5
  <2>7. ASSUME NEW i \in 1 .. n, i <= m PROVE h[i] = Step[<<h[i - 1], i>>]
    <3>1. i - 1 \in 0 .. n /\ i - 1 # m
      BY <2>7
    <3>2. h[i - 1] = g[i - 1]
      BY <2>5, <3>1
    <3>3. CASE i = m
      BY <2>5, <3>2, <3>3
    <3>4. CASE i # m
      <4>1. i <= m - 1
        BY <2>7, <3>4
      <4>2. h[i] = g[i] /\ g[i] = Step[<<g[i - 1], i>>]
        BY <2>1, <2>5, <3>4, <4>1
      <4>. QED
        BY <3>2, <4>2
    <3>. QED
      BY <3>3, <3>4
  <2>8. Goes(h, m)
    BY <2>5, <2>6, <2>7
  <2>. QED
    BY <2>2, <2>8
<1>3. n \in S
  <2>. HIDE DEF S
  <2>1. 0 .. n \subseteq S
    BY <1>1, <1>2, UpToSetInduction
  <2>. QED
    BY <2>1
<1>. QED
  BY <1>3
=============================================================================
