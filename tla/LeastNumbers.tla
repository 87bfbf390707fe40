---------------------------- MODULE LeastNumbers ----------------------------
(***************************************************************************)
(* Induction and recursion over the natural numbers in a form the provers  *)
(* can use: a set of numbers in the place of a predicate, a function in    *)
(* the place of an operator. Both rest on the least number of a set.       *)
(***************************************************************************)
EXTENDS Integers, WellFoundedInduction, TLAPS

Precedes == {pair \in Nat \X Nat : pair[1] < pair[2]}

LEMMA PrecedesWellFounded == IsWellFoundedOn(Precedes, Nat)
  BY NatLessThanWellFounded, Zenon DEF OpToRel, Precedes

\* A set of natural numbers that is not empty has a least element.
LEMMA LeastNatural ==
  ASSUME NEW T \in SUBSET Nat, T # {}
  PROVE  \E x \in T : \A y \in T : x <= y
  <1>1. PICK x \in T : \A y \in T : <<y, x>> \notin Precedes
    BY PrecedesWellFounded, WFMin, Zenon
  <1>2. \A y \in T : ~(y < x)
    BY <1>1 DEF Precedes
  <1>. QED
    BY <1>2

\* Induction: a set that has 0 and the successor of each of its numbers has all.
LEMMA InductiveSet ==
  ASSUME NEW T \in SUBSET Nat, 0 \in T, \A n \in T : n + 1 \in T
  PROVE  T = Nat
  <1>. DEFINE Missed == Nat \ T
  <1>1. ASSUME Missed # {} PROVE FALSE
    <2>1. PICK m \in Missed : \A k \in Missed : m <= k
      BY <1>1, LeastNatural
    <2>2. m \in Nat /\ m # 0 /\ m \notin T
      BY <2>1
    <2>3. m - 1 \in Nat /\ ~(m <= m - 1) /\ (m - 1) + 1 = m
      BY <2>2
    <2>4. m - 1 \in T
      BY <2>1, <2>3
    <2>. QED
      BY <2>2, <2>3, <2>4
  <1>. QED
    BY <1>1

-----------------------------------------------------------------------------
\* The first k + 1 values of a recursion that goes on with next.
Begins(k, f, S, base, next) ==
  /\ f \in [0..k -> S]
  /\ f[0] = base
  /\ \A n \in 1..k : f[n] = next[n][f[n - 1]]

\* A recursion can begin with any number of values,
LEMMA BeginningExists ==
  ASSUME NEW S, NEW base \in S, NEW next \in [Nat -> [S -> S]], NEW k \in Nat
  PROVE  \E f : Begins(k, f, S, base, next)
  <1>. DEFINE T == {n \in Nat : \E f : Begins(n, f, S, base, next)}
  <1>1. 0 \in T
    <2>1. Begins(0, [i \in 0..0 |-> base], S, base, next)
      BY DEF Begins
    <2>. QED
      BY <2>1
  <1>2. ASSUME NEW n \in T PROVE n + 1 \in T
    <2>1. PICK f : Begins(n, f, S, base, next)
      OBVIOUS
    <2>. DEFINE value == next[n + 1][f[n]]
                g == [i \in 0..(n + 1) |-> IF i = n + 1 THEN value ELSE f[i]]
    <2>2. n \in Nat /\ f[n] \in S /\ value \in S
      BY <2>1 DEF Begins
    <2>3. \A i \in 0..(n + 1) : i = n + 1 \/ i \in 0..n
      BY <2>2
    <2>4. g \in [0..(n + 1) -> S]
      BY <2>1, <2>2, <2>3 DEF Begins
    <2>5. g[0] = base
      BY <2>1, <2>2 DEF Begins
    <2>6. ASSUME NEW i \in 1..(n + 1) PROVE g[i] = next[i][g[i - 1]]
      <3>1. i - 1 \in 0..n /\ i - 1 # n + 1 /\ i - 1 \in 0..(n + 1) /\ i \in 0..(n + 1)
        BY <2>2
      <3>2. g[i - 1] = f[i - 1]
        BY <3>1
      <3>3. CASE i = n + 1
        BY <2>2, <3>1, <3>2, <3>3
      <3>4. CASE i # n + 1
        <4>1. i \in 1..n /\ g[i] = f[i]
          BY <2>2, <3>1, <3>4
        <4>. QED
          BY <2>1, <3>2, <4>1 DEF Begins
      <3>. QED
        BY <3>3, <3>4
    <2>7. Begins(n + 1, g, S, base, next)
      BY <2>4, <2>5, <2>6 DEF Begins
    <2>. QED
      BY <2>2, <2>7
  <1>. HIDE DEF T
  <1>3. T = Nat
    <2>1. T \in SUBSET Nat
      BY DEF T
    <2>. QED
      BY <1>1, <1>2, <2>1, InductiveSet
  <1>. QED
    BY <1>3 DEF T

\* in one way only,
LEMMA BeginningUnique ==
  ASSUME NEW S, NEW base \in S, NEW next \in [Nat -> [S -> S]],
         NEW k \in Nat, NEW f, Begins(k, f, S, base, next),
         NEW m \in Nat, NEW g, Begins(m, g, S, base, next), k <= m
  PROVE  \A n \in 0..k : f[n] = g[n]
  <1>. DEFINE T == {n \in Nat : n \in 0..k => f[n] = g[n]}
  <1>1. 0 \in T
    BY DEF Begins
  <1>2. ASSUME NEW n \in T PROVE n + 1 \in T
    <2>1. CASE n + 1 \in 0..k
      <3>1. n \in 0..k /\ n + 1 \in 1..k /\ n + 1 \in 1..m /\ (n + 1) - 1 = n
        BY <2>1
      <3>2. f[n + 1] = next[n + 1][f[n]] /\ g[n + 1] = next[n + 1][g[n]] /\ f[n] = g[n]
        BY <3>1 DEF Begins
      <3>. QED
        BY <3>2
    <2>. QED
      BY <2>1
  <1>. HIDE DEF T
  <1>3. T = Nat
    <2>1. T \in SUBSET Nat
      BY DEF T
    <2>. QED
      BY <1>1, <1>2, <2>1, InductiveSet
  <1>. QED
    BY <1>3 DEF T

\* and so there is a function that has the values of all beginnings.
Recurs(f, S, base, next) ==
  /\ f \in [Nat -> S]
  /\ f[0] = base
  /\ \A n \in Nat : n # 0 => f[n] = next[n][f[n - 1]]

LEMMA RecursionExists ==
  ASSUME NEW S, NEW base \in S, NEW next \in [Nat -> [S -> S]]
  PROVE  \E f : Recurs(f, S, base, next)
  <1>. DEFINE beginning[k \in Nat] == CHOOSE f : Begins(k, f, S, base, next)
              value == [k \in Nat |-> beginning[k][k]]
  <1>1. ASSUME NEW k \in Nat PROVE Begins(k, beginning[k], S, base, next)
    BY BeginningExists, Zenon
  <1>. HIDE DEF beginning
  <1>2. value \in [Nat -> S]
    BY <1>1 DEF Begins
  <1>3. value[0] = base
    BY <1>1 DEF Begins
  <1>4. ASSUME NEW n \in Nat, n # 0 PROVE value[n] = next[n][value[n - 1]]
    <2>1. n - 1 \in Nat /\ n - 1 <= n /\ n \in 1..n /\ n - 1 \in 0..(n - 1)
      BY <1>4
    <2>2. beginning[n][n] = next[n][beginning[n][n - 1]]
      BY <1>1, <2>1 DEF Begins
    <2>3. beginning[n - 1][n - 1] = beginning[n][n - 1]
      BY <1>1, <2>1, BeginningUnique
    <2>. QED
      BY <2>1, <2>2, <2>3
  <1>. HIDE DEF value
  <1>. QED
    BY <1>2, <1>3, <1>4 DEF Recurs
=============================================================================
