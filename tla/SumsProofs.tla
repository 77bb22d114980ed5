----------------------------- MODULE SumsProofs -----------------------------
(***************************************************************************)
(* Induction over the natural numbers, for a set of numbers instead of a   *)
(* predicate, and what follows from it about sums.                         *)
(***************************************************************************)
EXTENDS Sums, WellFoundedInduction, TLAPS

-----------------------------------------------------------------------------
(* Induction. *)

\* A set of natural numbers has a least element.
LEMMA Least ==
    ASSUME NEW T \in SUBSET Nat, T # {}
    PROVE  \E x \in T : \A y \in T : x <= y
<1> DEFINE R == OpToRel(<, Nat)
<1>1. IsWellFoundedOn(R, Nat)
  BY NatLessThanWellFounded
<1>2. \A i, j \in Nat : i < j => <<i, j>> \in R
  BY DEF OpToRel
<1> HIDE DEF R
<1>3. PICK x \in T : \A y \in T : ~ (<<y, x>> \in R)
  BY <1>1, WFMin
<1>4. ASSUME NEW y \in T
      PROVE  x <= y
  <2>1. x \in Nat /\ y \in Nat /\ ~(y < x)
    BY <1>2, <1>3
  <2> QED
    BY <2>1
<1> QED
  BY <1>4

\* Induction, for the numbers of a set.
LEMMA SetInduction ==
    ASSUME NEW S, 0 \in S, \A n \in Nat : n \in S => n + 1 \in S
    PROVE  \A n \in Nat : n \in S
<1> SUFFICES ASSUME \E n \in Nat : n \notin S PROVE FALSE
  OBVIOUS
<1> DEFINE T == {n \in Nat : n \notin S}
<1>1. PICK x \in T : \A y \in T : x <= y
  BY Least
<1>2. x # 0
  OBVIOUS
<1>3. x - 1 \in Nat /\ x - 1 < x
  BY <1>2
<1>4. x - 1 \in S
  BY <1>1, <1>3
<1> QED
  BY <1>3, <1>4

-----------------------------------------------------------------------------
(* What SumTo computes. *)

\* g is the function of partial sums that SumTo(f, n) is defined with.
IsSums(g, f, n) == g = [i \in 0 .. n |-> IF i = 0 THEN 0 ELSE g[i - 1] + f[i]]

\* SumTo chooses such a function.
LEMMA SumToDef ==
    ASSUME NEW f, NEW n
    PROVE  SumTo(f, n) = (CHOOSE g : IsSums(g, f, n))[n]
BY DEF SumTo, IsSums

\* The terms of the sum are natural numbers.
Terms(f, n) == \A i \in 1 .. n : f[i] \in Nat

\* Partial sums exist.
LEMMA SumsExist ==
    ASSUME NEW f, NEW n \in Nat, Terms(f, n)
    PROVE  \E g \in [0 .. n -> Nat] : IsSums(g, f, n)
<1> DEFINE S == {k \in Nat : k <= n => \E g \in [0 .. k -> Nat] : IsSums(g, f, k)}
<1>1. 0 \in S
  <2> DEFINE g == [i \in 0 .. 0 |-> 0]
  <2>1. g \in [0 .. 0 -> Nat] /\ IsSums(g, f, 0)
    BY DEF IsSums
  <2> QED
    BY <2>1
<1>2. ASSUME NEW k \in Nat, k \in S, k + 1 <= n
      PROVE  \E g \in [0 .. k + 1 -> Nat] : IsSums(g, f, k + 1)
  <2>1. PICK g \in [0 .. k -> Nat] : IsSums(g, f, k)
    BY <1>2
  <2>2. f[k + 1] \in Nat
    BY <1>2 DEF Terms
  <2>3. g[k] \in Nat
    OBVIOUS
  <2> DEFINE h == [i \in 0 .. k + 1 |-> IF i = k + 1 THEN g[k] + f[k + 1] ELSE g[i]]
  <2>4. h \in [0 .. k + 1 -> Nat]
    BY <2>2, <2>3
  <2>5. ASSUME NEW i \in 0 .. k + 1
        PROVE  h[i] = IF i = 0 THEN 0 ELSE h[i - 1] + f[i]
    <3>1. CASE i = k + 1
      <4>1. i - 1 \in 0 .. k + 1 /\ i - 1 = k /\ i # 0 /\ h[i - 1] = g[k]
        BY <3>1
      <4> QED
        BY <3>1, <4>1
    <3>2. CASE i \in 1 .. k
      <4>1. i - 1 \in 0 .. k /\ i \in 0 .. k /\ i # 0 /\ i # k + 1 /\ i - 1 # k + 1
        BY <3>2
      <4>2. h[i] = g[i] /\ h[i - 1] = g[i - 1]
        BY <4>1
      <4>3. g[i] = g[i - 1] + f[i]
        BY <2>1, <4>1 DEF IsSums
      <4> QED
        BY <4>1, <4>2, <4>3
    <3>3. CASE i = 0
      <4>1. h[i] = g[0] /\ g[0] = 0
        BY <2>1, <3>3 DEF IsSums
      <4> QED
        BY <3>3, <4>1
    <3> QED
      BY <3>1, <3>2, <3>3
  <2> HIDE DEF h
  <2>6. IsSums(h, f, k + 1)
    BY <2>4, <2>5 DEF IsSums
  <2> QED
    BY <2>4, <2>6
<1>3. ASSUME NEW k \in Nat, k \in S
      PROVE  k + 1 \in S
  <2>1. k + 1 <= n => \E g \in [0 .. k + 1 -> Nat] : IsSums(g, f, k + 1)
    BY <1>2, <1>3
  <2> QED
    BY <2>1
<1> HIDE DEF S
<1>4. n \in S
  BY <1>1, <1>3, SetInduction
<1> QED
  BY <1>4 DEF S

\* They agree wherever both are defined.
LEMMA SumsAgree ==
    ASSUME NEW f, NEW n \in Nat, NEW m \in Nat, n <= m, NEW g, NEW h, IsSums(g, f, n), IsSums(h, f, m)
    PROVE  \A i \in 0 .. n : g[i] = h[i]
<1> DEFINE S == {k \in Nat : k <= n => g[k] = h[k]}
<1>1. 0 \in S
  BY DEF IsSums
<1>2. ASSUME NEW k \in Nat, k \in S, k + 1 <= n
      PROVE  g[k + 1] = h[k + 1]
  <2>1. k + 1 \in 0 .. n /\ k + 1 \in 0 .. m /\ k + 1 # 0 /\ (k + 1) - 1 = k
    BY <1>2
  <2>2. g[k + 1] = g[k] + f[k + 1]
    BY <2>1 DEF IsSums
  <2>3. h[k + 1] = h[k] + f[k + 1]
    BY <2>1 DEF IsSums
  <2>4. g[k] = h[k]
    BY <1>2
  <2> QED
    BY <2>2, <2>3, <2>4
<1>3. \A k \in Nat : k \in S => k + 1 \in S
  BY <1>2
<1> HIDE DEF S
<1>4. \A k \in Nat : k \in S
  BY <1>1, <1>3, SetInduction
<1> QED
  BY <1>4 DEF S

\* A sum is the sum without its last term plus that term.
LEMMA SumToStep ==
    ASSUME NEW f, NEW n \in Nat, Terms(f, n)
    PROVE  /\ SumTo(f, n) \in Nat
           /\ SumTo(f, 0) = 0
           /\ n > 0 => SumTo(f, n) = SumTo(f, n - 1) + f[n]
<1>1. ASSUME NEW k \in 0 .. n
      PROVE  \E g \in [0 .. k -> Nat] : IsSums(g, f, k) /\ SumTo(f, k) = g[k]
  <2>1. Terms(f, k) /\ k \in Nat
    BY DEF Terms
  <2>2. PICK g \in [0 .. k -> Nat] : IsSums(g, f, k)
    BY <2>1, SumsExist
  <2> DEFINE h == CHOOSE g_1 : IsSums(g_1, f, k)
  <2>3. IsSums(h, f, k)
    BY <2>2
  <2>4. SumTo(f, k) = h[k]
    BY SumToDef
  <2> HIDE DEF h
  <2>5. g[k] = h[k]
    BY <2>1, <2>2, <2>3, SumsAgree
  <2> QED
    BY <2>2, <2>4, <2>5
<1>2. PICK g \in [0 .. n -> Nat] : IsSums(g, f, n) /\ SumTo(f, n) = g[n]
  BY <1>1
<1>3. SumTo(f, n) \in Nat
  BY <1>2
<1>4. SumTo(f, 0) = 0
  <2>1. PICK h \in [0 .. 0 -> Nat] : IsSums(h, f, 0) /\ SumTo(f, 0) = h[0]
    <3>1. 0 \in 0 .. n
      OBVIOUS
    <3> QED
      BY <1>1, <3>1
  <2> QED
    BY <2>1 DEF IsSums
<1>5. ASSUME n > 0
      PROVE  SumTo(f, n) = SumTo(f, n - 1) + f[n]
  <2>1. n - 1 \in 0 .. n /\ n - 1 \in Nat
    BY <1>5
  <2>2. PICK h \in [0 .. n - 1 -> Nat] : IsSums(h, f, n - 1) /\ SumTo(f, n - 1) = h[n - 1]
    BY <1>1, <2>1
  <2>3. h[n - 1] = g[n - 1]
    BY <1>2, <2>1, <2>2, SumsAgree
  <2>4. g[n] = g[n - 1] + f[n]
    BY <1>2, <1>5 DEF IsSums
  <2> QED
    BY <1>2, <2>2, <2>3, <2>4
<1> QED
  BY <1>3, <1>4, <1>5

-----------------------------------------------------------------------------
(* Facts about sums. *)

\* The sum depends on the terms only.
LEMMA SumSame ==
    ASSUME NEW n \in Nat, NEW f, NEW g, Terms(f, n), \A i \in 1 .. n : f[i] = g[i]
    PROVE  SumTo(f, n) = SumTo(g, n)
<1> DEFINE S == {k \in Nat : k <= n => SumTo(f, k) = SumTo(g, k)}
<1>1. Terms(g, n)
  BY DEF Terms
<1>2. 0 \in S
  BY <1>1, SumToStep
<1>3. ASSUME NEW k \in Nat, k \in S, k + 1 <= n
      PROVE  SumTo(f, k + 1) = SumTo(g, k + 1)
  <2>1. Terms(f, k + 1) /\ Terms(g, k + 1) /\ k + 1 \in Nat /\ k + 1 > 0 /\ (k + 1) - 1 = k
    BY <1>1, <1>3 DEF Terms
  <2>2. SumTo(f, k + 1) = SumTo(f, k) + f[k + 1]
    BY <2>1, SumToStep
  <2>3. SumTo(g, k + 1) = SumTo(g, k) + g[k + 1]
    BY <2>1, SumToStep
  <2>4. SumTo(f, k) = SumTo(g, k) /\ f[k + 1] = g[k + 1]
    BY <1>3
  <2> QED
    BY <2>2, <2>3, <2>4
<1>4. \A k \in Nat : k \in S => k + 1 \in S
  BY <1>3
<1> HIDE DEF S
<1>5. \A k \in Nat : k \in S
  BY <1>2, <1>4, SetInduction
<1> QED
  BY <1>5 DEF S

\* Nothing but zeros.
LEMMA SumZero ==
    ASSUME NEW n \in Nat, NEW f, \A i \in 1 .. n : f[i] = 0
    PROVE  SumTo(f, n) = 0
<1> DEFINE S == {k \in Nat : k <= n => SumTo(f, k) = 0}
<1>1. Terms(f, n)
  BY DEF Terms
<1>2. 0 \in S
  BY <1>1, SumToStep
<1>3. ASSUME NEW k \in Nat, k \in S, k + 1 <= n
      PROVE  SumTo(f, k + 1) = 0
  <2>1. Terms(f, k + 1) /\ k + 1 \in Nat /\ k + 1 > 0 /\ (k + 1) - 1 = k /\ f[k + 1] = 0
    BY <1>1, <1>3 DEF Terms
  <2>2. SumTo(f, k + 1) = SumTo(f, k) + f[k + 1]
    BY <2>1, SumToStep
  <2> QED
    BY <1>3, <2>1, <2>2
<1>4. \A k \in Nat : k \in S => k + 1 \in S
  BY <1>3
<1> HIDE DEF S
<1>5. n \in S
  BY <1>2, <1>4, SetInduction
<1> QED
  BY <1>5 DEF S

\* Sums of more terms are not smaller, and hold each term.
LEMMA SumGrows ==
    ASSUME NEW n \in Nat, NEW f, Terms(f, n), NEW i \in 0 .. n, NEW j \in i .. n
    PROVE  /\ SumTo(f, i) \in Nat /\ SumTo(f, j) \in Nat
           /\ SumTo(f, i) <= SumTo(f, j)
           /\ i < j => f[i + 1] \in Nat /\ SumTo(f, i) + f[i + 1] <= SumTo(f, j)
<1>0. \A k \in 0 .. n : Terms(f, k) /\ k \in Nat
  BY DEF Terms
<1>1. \A k \in 0 .. n : SumTo(f, k) \in Nat
  BY <1>0, SumToStep
<1>2. ASSUME NEW k \in Nat, k + 1 <= n
      PROVE  SumTo(f, k + 1) = SumTo(f, k) + f[k + 1] /\ f[k + 1] \in Nat
  <2>1. k + 1 \in 0 .. n /\ k + 1 > 0 /\ (k + 1) - 1 = k /\ k + 1 \in 1 .. n
    BY <1>2
  <2>2. f[k + 1] \in Nat
    BY <2>1 DEF Terms
  <2>3. SumTo(f, k + 1) = SumTo(f, k) + f[k + 1]
    BY <1>0, <2>1, SumToStep
  <2> QED
    BY <2>2, <2>3
<1> DEFINE S(m) == {k \in Nat : m <= k /\ k <= n => SumTo(f, m) <= SumTo(f, k)}
<1>3. ASSUME NEW m \in 0 .. n
      PROVE  \A k \in m .. n : SumTo(f, m) <= SumTo(f, k)
  <2>1. 0 \in S(m)
    BY <1>1
  <2>2. ASSUME NEW k \in Nat, k \in S(m), m <= k + 1, k + 1 <= n
        PROVE  SumTo(f, m) <= SumTo(f, k + 1)
    <3>1. CASE m = k + 1
      BY <1>1, <3>1
    <3>2. CASE m <= k
      <4>1. SumTo(f, m) <= SumTo(f, k) /\ k \in 0 .. n
        BY <2>2, <3>2
      <4>2. SumTo(f, k + 1) = SumTo(f, k) + f[k + 1] /\ f[k + 1] \in Nat
        BY <1>2, <2>2
      <4>3. SumTo(f, m) \in Nat /\ SumTo(f, k) \in Nat
        BY <1>1, <4>1
      <4> QED
        BY <4>1, <4>2, <4>3
    <3> QED
      BY <2>2, <3>1, <3>2
  <2>3. \A k \in Nat : k \in S(m) => k + 1 \in S(m)
    BY <2>2
  <2> HIDE DEF S
  <2>4. \A k \in Nat : k \in S(m)
    BY <2>1, <2>3, SetInduction
  <2> QED
    BY <2>4 DEF S
<1>4. ASSUME i < j
      PROVE  f[i + 1] \in Nat /\ SumTo(f, i) + f[i + 1] <= SumTo(f, j)
  <2>1. i \in Nat /\ i + 1 <= n /\ i + 1 \in 0 .. n /\ j \in i + 1 .. n
    BY <1>4
  <2>2. SumTo(f, i + 1) <= SumTo(f, j)
    BY <1>3, <2>1
  <2> QED
    BY <1>2, <2>1, <2>2
<1>5. SumTo(f, i) \in Nat /\ SumTo(f, j) \in Nat
  BY <1>1
<1> QED
  BY <1>3, <1>4, <1>5

\* Changing one term by d changes the sum by d.
LEMMA SumChange ==
    ASSUME NEW n \in Nat, NEW f, NEW g, Terms(f, n), Terms(g, n), NEW k \in 1 .. n, NEW d \in Int,
           g[k] = f[k] + d, \A i \in 1 .. n : i # k => g[i] = f[i]
    PROVE  SumTo(g, n) = SumTo(f, n) + d
<1> DEFINE S == {m \in Nat : m <= n => SumTo(g, m) = SumTo(f, m) + (IF m < k THEN 0 ELSE d)}
<1>1. 0 \in S
  <2>1. SumTo(f, 0) = 0 /\ SumTo(g, 0) = 0
    BY SumToStep
  <2> QED
    BY <2>1
<1>2. ASSUME NEW m \in Nat, m \in S, m + 1 <= n
      PROVE  SumTo(g, m + 1) = SumTo(f, m + 1) + (IF m + 1 < k THEN 0 ELSE d)
  <2>1. /\ Terms(f, m + 1) /\ Terms(g, m + 1) /\ m + 1 \in Nat /\ m + 1 > 0 /\ (m + 1) - 1 = m
        /\ Terms(f, m) /\ m + 1 \in 1 .. n /\ f[m + 1] \in Nat /\ g[m + 1] \in Nat
    BY <1>2 DEF Terms
  <2>2. SumTo(f, m + 1) = SumTo(f, m) + f[m + 1] /\ SumTo(f, m) \in Nat
    BY <2>1, SumToStep
  <2>3. SumTo(g, m + 1) = SumTo(g, m) + g[m + 1]
    BY <2>1, SumToStep
  <2>4. SumTo(g, m) = SumTo(f, m) + (IF m < k THEN 0 ELSE d)
    BY <1>2
  <2>5. g[m + 1] = f[m + 1] + (IF m + 1 = k THEN d ELSE 0)
    BY <2>1
  <2>6. CASE m + 1 < k
    BY <2>1, <2>2, <2>3, <2>4, <2>5, <2>6
  <2>7. CASE m + 1 = k
    BY <2>1, <2>2, <2>3, <2>4, <2>5, <2>7
  <2>8. CASE m + 1 > k
    BY <2>1, <2>2, <2>3, <2>4, <2>5, <2>8
  <2> QED
    BY <2>1, <2>6, <2>7, <2>8
<1>3. \A m \in Nat : m \in S => m + 1 \in S
  BY <1>2
<1> HIDE DEF S
<1>4. n \in S
  BY <1>1, <1>3, SetInduction
<1> QED
  BY <1>4 DEF S
=============================================================================
