--------------------------- MODULE InductionLemmas ---------------------------
(***************************************************************************)
(* Induction and recursion as facts about sets.  The theorems of the       *)
(* library take a predicate, which no backend can instantiate; a set of    *)
(* numbers that is closed under successor, and a function that gives the   *)
(* result of each turn of a loop, are ordinary constants.                  *)
(***************************************************************************)
EXTENDS Integers, WellFoundedInduction, TLAPS

\* A set of numbers that holds zero and, with each, its successor holds them all:
\* the least number outside it would have a predecessor.
LEMMA Induction ==
  ASSUME NEW S \in SUBSET Nat, 0 \in S, \A n \in S : n + 1 \in S
  PROVE  S = Nat
<1> SUFFICES ASSUME Nat \ S # {} PROVE FALSE
  OBVIOUS
<1> DEFINE R == OpToRel(<, Nat)
<1>1. PICK x \in Nat \ S : \A y \in Nat \ S : ~(<<y, x>> \in R)
  <2>1. IsWellFoundedOn(R, Nat)
    BY NatLessThanWellFounded
  <2> HIDE DEF R
  <2> QED BY <2>1, WFMin
<1>2. x - 1 \in Nat \ S /\ x - 1 < x
  OBVIOUS
<1>3. <<x - 1, x>> \in R
  BY <1>2 DEF OpToRel
<1> QED BY <1>1, <1>2, <1>3

\* The same up to a bound: what holds before a loop and is kept by each of its n
\* turns holds after any number of them.
LEMMA InductionUpTo ==
  ASSUME NEW n \in Nat, NEW S, 0 \in S, \A i \in 0..n - 1 : i \in S => i + 1 \in S
  PROVE  \A i \in 0..n : i \in S
<1> DEFINE T == {i \in Nat : i <= n => i \in S}
<1>1. T \in SUBSET Nat /\ 0 \in T
  OBVIOUS
<1>2. ASSUME NEW i \in T PROVE i + 1 \in T
  <2>1. i \in Nat /\ (i <= n => i \in S)
    BY <1>2
  <2> QED BY <2>1
<1>3. T = Nat
  <2> HIDE DEF T
  <2> QED BY <1>1, <1>2, Induction
<1> QED BY <1>3

\* A non-empty bounded set of numbers has a greatest element.
LEMMA Greatest ==
  ASSUME NEW n \in Nat, NEW S \in SUBSET (0..n), S # {}
  PROVE  \E x \in S : \A y \in S : x >= y
<1> DEFINE T == {i \in 0..n : (\E x \in S : x <= i) => \E x \in S : x <= i /\ \A y \in S : y <= i => x >= y}
<1>1. 0 \in T
  OBVIOUS
<1>2. ASSUME NEW i \in 0..n - 1, i \in T PROVE i + 1 \in T
  <2>1. CASE i + 1 \in S
    BY <2>1
  <2>2. CASE i + 1 \notin S
    <3>1. \A x \in S : x <= i + 1 => x <= i
      BY <2>2
    <3> QED BY <1>2, <3>1
  <2> QED BY <2>1, <2>2
<1>3. n \in T
  <2> HIDE DEF T
  <2> QED BY <1>1, <1>2, InductionUpTo, n \in 0..n
<1>4. \A x \in S : x \in 0..n
  OBVIOUS
<1>5. (\E x \in S : x <= n) => \E x \in S : x <= n /\ \A y \in S : y <= n => x >= y
  BY <1>3, Zenon
<1>6. PICK x : x \in S
  OBVIOUS
<1>7. x \in S /\ x <= n
  BY <1>4, <1>6
<1> HIDE DEF T
<1> QED BY <1>4, <1>5, <1>7

-----------------------------------------------------------------------------
\* The turns of a loop over states in A, and its states before turn 1 and after
\* each of n turns.
Turns(A, n) == [1..n -> [A -> A]]
Courses(A, n, base, F) ==
  {h \in [0..n -> A] : h[0] = base /\ \A i \in 1..n : h[i] = F[i][h[i - 1]]}

\* Every loop has a course.
LEMMA Recursion ==
  ASSUME NEW A, NEW n \in Nat, NEW base \in A, NEW F \in Turns(A, n)
  PROVE  \E h : h \in Courses(A, n, base, F)
<1> USE DEF Turns
<1> SUFFICES \E h \in [0..n -> A] : h[0] = base /\ \A i \in 1..n : h[i] = F[i][h[i - 1]]
  BY DEF Courses
<1> DEFINE Upto(m, h) == h[0] = base /\ \A i \in 1..m : h[i] = F[i][h[i - 1]]
           S == {m \in 0..n : \E h \in [0..m -> A] : Upto(m, h)}
<1>1. 0 \in S
  <2> DEFINE g == [i \in 0..0 |-> base]
  <2>1. g \in [0..0 -> A] /\ Upto(0, g)
    OBVIOUS
  <2> HIDE DEF g
  <2> QED BY <2>1
<1>2. ASSUME NEW m \in 0..n - 1, m \in S PROVE m + 1 \in S
  <2>1. PICK h \in [0..m -> A] : Upto(m, h)
    BY <1>2
  <2> DEFINE g == [i \in 0..m + 1 |-> IF i <= m THEN h[i] ELSE F[m + 1][h[m]]]
  <2>2. g \in [0..m + 1 -> A]
    OBVIOUS
  <2>3. Upto(m + 1, g)
    BY <2>1
  <2> HIDE DEF g
  <2>4. \E x \in [0..m + 1 -> A] : Upto(m + 1, x)
    BY <2>2, <2>3
  <2> QED BY <2>4
<1>3. n \in S
  <2> HIDE DEF S
  <2> QED BY <1>1, <1>2, InductionUpTo, n \in 0..n
<1> QED BY <1>3

\* A function that starts as the loop does, and makes its turns as long as it is
\* at a state, is a course of the loop.
LEMMA CourseUnique ==
  ASSUME NEW A, NEW n \in Nat, NEW base \in A, NEW F \in Turns(A, n), NEW f,
         f = [i \in 0..n |-> f[i]], f[0] = base,
         \A i \in 1..n : f[i - 1] \in A => f[i] = F[i][f[i - 1]]
  PROVE  f \in Courses(A, n, base, F)
<1> DEFINE S == {i \in 0..n : f[i] \in A}
<1>1. 0 \in S
  OBVIOUS
<1>2. ASSUME NEW i \in 0..n - 1, i \in S PROVE i + 1 \in S
  <2>1. i + 1 \in 1..n /\ f[(i + 1) - 1] \in A
    BY <1>2
  <2>2. f[i + 1] = F[i + 1][f[(i + 1) - 1]] /\ F[i + 1] \in [A -> A]
    BY <2>1 DEF Turns
  <2> QED BY <2>1, <2>2
<1>3. \A i \in 0..n : i \in S
  <2> HIDE DEF S
  <2> QED BY <1>1, <1>2, InductionUpTo
<1>4. f \in [0..n -> A]
  BY <1>3
<1> QED BY <1>3, <1>4 DEF Courses
=============================================================================
