--------------------------- MODULE InductionLemmas ---------------------------
(***************************************************************************)
(* Induction by the least counterexample, for sets of numbers and for      *)
(* functions that are defined by recursion over their argument.            *)
(***************************************************************************)
EXTENDS Integers, TLAPS, WellFoundedInduction

\* A set of numbers has a least element.
LEMMA LeastElement ==
  ASSUME NEW T, T \subseteq Nat, T # {}
  PROVE  \E x \in T : \A y \in T : x <= y
<1> DEFINE R == OpToRel(<, Nat)
<1>1. IsWellFoundedOn(R, Nat)
  BY NatLessThanWellFounded
<1>2. \A x, y \in Nat : <<y, x>> \in R <=> y < x
  BY DEF OpToRel
<1> HIDE DEF R
<1>3. PICK x \in T : \A y \in T : ~ (<<y, x>> \in R)
  BY <1>1, WFMin
<1>4. \A y \in T : x <= y
  <2> SUFFICES ASSUME NEW y \in T PROVE x <= y
    OBVIOUS
  <2>1. ~ (y < x)
    BY <1>2, <1>3
  <2> QED BY <2>1
<1> QED BY <1>4

\* Induction, with a set for the induction hypothesis.
LEMMA SetInduction ==
  ASSUME NEW T, 0 \in T, \A i \in Nat : i \in T => i + 1 \in T
  PROVE  Nat \subseteq T
<1> SUFFICES ASSUME Nat \ T # {} PROVE FALSE
  OBVIOUS
<1>1. PICK m \in Nat \ T : \A y \in Nat \ T : m <= y
  BY LeastElement
<1>2. m # 0
  OBVIOUS
<1>3. m - 1 \in Nat /\ ~(m <= m - 1) /\ (m - 1) + 1 = m
  BY <1>2
<1>4. m - 1 \in T
  BY <1>1, <1>3
<1> QED BY <1>3, <1>4

\* Functions that start with a and go on by the steps given.
StepsOn(S, n) == [1 .. n -> [S -> S]]
Runs(S, n, a, step) ==
  {f \in [0 .. n -> S] : f[0] = a /\ \A k \in 1 .. n : f[k] = step[k][f[k - 1]]}

\* A recursive function whose steps stay in a set exists.
LEMMA Recursion ==
  ASSUME NEW n \in Nat, NEW S, NEW a \in S, NEW step \in StepsOn(S, n)
  PROVE  Runs(S, n, a, step) # {}
<1>0. step \in [1 .. n -> [S -> S]] BY DEF StepsOn
<1> DEFINE IsUpTo(f, m) == /\ f \in [0 .. m -> S] /\ f[0] = a
                           /\ \A k \in 1 .. m : f[k] = step[k][f[k - 1]]
           T == {m \in Nat : m <= n => \E f : IsUpTo(f, m)}
<1>1. 0 \in T
  <2>1. IsUpTo([k \in 0 .. 0 |-> a], 0) OBVIOUS
  <2> QED BY <2>1
<1>2. ASSUME NEW m \in Nat, m \in T PROVE m + 1 \in T
  <2> SUFFICES ASSUME m + 1 <= n PROVE \E f : IsUpTo(f, m + 1) OBVIOUS
  <2>1. PICK f : IsUpTo(f, m)
    <3>1. m <= n OBVIOUS
    <3> QED BY <1>2, <3>1
  <2> DEFINE g == [k \in 0 .. m + 1 |-> IF k <= m THEN f[k] ELSE step[m + 1][f[m]]]
  <2>2. step[m + 1][f[m]] \in S
    <3>1. m + 1 \in 1 .. n /\ m \in 0 .. m OBVIOUS
    <3>2. f[m] \in S BY <2>1, <3>1
    <3> QED BY <1>0, <3>1, <3>2
  <2>3. g \in [0 .. m + 1 -> S]
    <3>1. \A k \in 0 .. m + 1 : k <= m => k \in 0 .. m OBVIOUS
    <3> QED BY <2>1, <2>2, <3>1
  <2>4. g[0] = a BY <2>1
  <2>5. ASSUME NEW k \in 1 .. m + 1 PROVE g[k] = step[k][g[k - 1]]
    <3>1. k - 1 \in 0 .. m + 1 /\ k - 1 <= m /\ k \in 0 .. m + 1 OBVIOUS
    <3>2. g[k - 1] = f[k - 1] BY <3>1
    <3>3. CASE k <= m
      <4>1. g[k] = f[k] /\ k \in 1 .. m BY <3>1, <3>3
      <4> QED BY <2>1, <3>2, <4>1
    <3>4. CASE ~ (k <= m)
      <4>1. k = m + 1 /\ k - 1 = m BY <3>4
      <4>2. g[k] = step[m + 1][f[m]] BY <3>1, <3>4
      <4> QED BY <3>2, <4>1, <4>2
    <3> QED BY <3>3, <3>4
  <2> HIDE DEF g
  <2>6. IsUpTo(g, m + 1) BY <2>3, <2>4, <2>5
  <2> QED BY <2>6
<1>3. Nat \subseteq T
  <2> HIDE DEF T
  <2> QED BY <1>1, <1>2, SetInduction
<1>4. PICK f : IsUpTo(f, n)
  <2>1. n \in T BY <1>3
  <2> QED BY <2>1
<1> QED BY <1>4 DEF Runs

\* ... and every function with these equations stays in it.
LEMMA RecursionType ==
  ASSUME NEW n \in Nat, NEW S, NEW f, f[0] \in S,
         \A k \in 1 .. n : f[k - 1] \in S => f[k] \in S
  PROVE  \A k \in 0 .. n : f[k] \in S
<1> DEFINE T == {k \in Nat : k <= n => f[k] \in S}
<1>1. 0 \in T OBVIOUS
<1>2. ASSUME NEW k \in Nat, k \in T PROVE k + 1 \in T
  <2> SUFFICES ASSUME k + 1 <= n PROVE f[k + 1] \in S OBVIOUS
  <2>1. PICK j \in 1 .. n : j = k + 1 OBVIOUS
  <2>2. j - 1 = k /\ k <= n BY <2>1
  <2>3. f[k] \in S BY <1>2, <2>2
  <2>4. f[j] \in S BY <2>2, <2>3
  <2> QED BY <2>1, <2>4
<1>3. Nat \subseteq T
  <2> HIDE DEF T
  <2> QED BY <1>1, <1>2, SetInduction
<1> QED BY <1>3
=============================================================================
