------------------------------ MODULE Induction ------------------------------
(***************************************************************************)
(* Induction over the natural numbers with a set in the place of the        *)
(* predicate, and the existence of functions that are defined by recursion. *)
(* The recursive definitions of the model are bounded: each is a function   *)
(* on an interval, so these facts are enough to reason about them.          *)
(***************************************************************************)
EXTENDS Integers, WellFoundedInduction, TLAPS

\* A set of natural numbers has a least element.
LEMMA LeastNatural ==
    ASSUME NEW T, T \subseteq Nat, T # {}
    PROVE  \E x \in T : \A y \in T : x <= y
<1> DEFINE Less == {q \in Nat \X Nat : q[1] < q[2]}
<1>1. IsWellFoundedOn(Less, Nat)
    BY NatLessThanWellFounded, Zenon DEF OpToRel
<1>2. PICK x \in T : \A y \in T : <<y, x>> \notin Less
    BY <1>1, WFMin
<1>3. ASSUME NEW y \in T
      PROVE  x <= y
    <2>1. x \in Nat /\ y \in Nat /\ <<y, x>> \in Nat \X Nat
        OBVIOUS
    <2>2. ~(y < x)
        BY <2>1, <1>2
    <2> QED BY <2>1, <2>2
<1> QED BY <1>3

\* Induction, as a fact about the set for which the claim holds.
LEMMA SetInduction ==
    ASSUME NEW S, S \subseteq Nat, 0 \in S, \A n \in S : n + 1 \in S
    PROVE  S = Nat
<1> SUFFICES ASSUME Nat \ S # {}
             PROVE  FALSE
    OBVIOUS
<1>1. PICK x \in Nat \ S : \A y \in Nat \ S : x <= y
    BY LeastNatural
<1>2. x # 0 /\ x - 1 \in Nat
    BY <1>1
<1>3. x - 1 \in S
    BY <1>1, <1>2
<1> QED BY <1>1, <1>3

\* Induction up to a bound.
LEMMA BoundedInduction ==
    ASSUME NEW n \in Nat, NEW S, 0 \in S, \A i \in 1..n : i - 1 \in S => i \in S
    PROVE  0..n \subseteq S
<1> DEFINE G == {m \in Nat : m > n \/ m \in S}
<1>1. G \subseteq Nat /\ 0 \in G
    OBVIOUS
<1>2. ASSUME NEW m \in G
      PROVE  m + 1 \in G
    <2>1. CASE m + 1 > n
        BY <2>1
    <2>2. CASE m + 1 <= n
        <3>1. m + 1 \in 1..n /\ (m + 1) - 1 = m /\ m \in S
            BY <2>2
        <3> QED BY <3>1
    <2> QED BY <2>1, <2>2
<1>3. G = Nat
    <2> HIDE DEF G
    <2> QED BY <1>1, <1>2, SetInduction
<1>4. ASSUME NEW i \in 0..n
      PROVE  i \in S
    <2>1. i \in G /\ ~(i > n)
        BY <1>3
    <2> QED BY <2>1
<1> QED BY <1>4

\* Induction down from a bound.
LEMMA DownwardInduction ==
    ASSUME NEW n \in Nat, NEW S, n \in S, \A i \in 1..n : i \in S => i - 1 \in S
    PROVE  0..n \subseteq S
<1> DEFINE D == {i \in 0..n : n - i \in S}
<1>1. 0 \in D
    OBVIOUS
<1>2. ASSUME NEW i \in 1..n, i - 1 \in D
      PROVE  i \in D
    <2>1. n - (i - 1) \in S /\ n - (i - 1) \in 1..n /\ (n - (i - 1)) - 1 = n - i
        BY <1>2
    <2> QED BY <2>1
<1>3. 0..n \subseteq D
    <2> HIDE DEF D
    <2> QED BY <1>1, <1>2, BoundedInduction
<1>4. ASSUME NEW i \in 0..n
      PROVE  i \in S
    <2>1. n - i \in D /\ n - (n - i) = i
        BY <1>3
    <2> QED BY <2>1
<1> QED BY <1>4

\* A function is defined by its first value and by what makes each value out of the
\* one before it.
LEMMA PrimitiveRecursion ==
    ASSUME NEW S, NEW a \in S, NEW n \in Nat, NEW step \in [1..n -> [S -> S]]
    PROVE  \E f \in [0..n -> S] : f[0] = a /\ \A i \in 1..n : f[i] = step[i][f[i - 1]]
<1> DEFINE Upto(m, f) == f[0] = a /\ \A i \in 1..m : f[i] = step[i][f[i - 1]]
           G == {m \in 0..n : \E f \in [0..m -> S] : Upto(m, f)}
<1>1. 0 \in G
    <2> DEFINE g == [x \in 0..0 |-> a]
    <2>1. g \in [0..0 -> S] /\ Upto(0, g)
        OBVIOUS
    <2> HIDE DEF g
    <2>2. \E f \in [0..0 -> S] : Upto(0, f)
        BY <2>1
    <2> QED BY <2>2
<1>2. ASSUME NEW m \in 1..n, m - 1 \in G
      PROVE  m \in G
    <2>1. PICK f \in [0..(m - 1) -> S] : Upto(m - 1, f)
        BY <1>2
    <2> DEFINE g == [x \in 0..m |-> IF x = m THEN step[m][f[m - 1]] ELSE f[x]]
    <2>2. m - 1 \in 0..(m - 1) /\ f[m - 1] \in S /\ step[m] \in [S -> S]
        OBVIOUS
    <2>3. g \in [0..m -> S]
        BY <2>2
    <2>4. ASSUME NEW i \in 1..m
          PROVE  g[i] = step[i][g[i - 1]]
        <3>1. g[i - 1] = f[i - 1]
            OBVIOUS
        <3>2. CASE i = m
            BY <3>1, <3>2
        <3>3. CASE i # m
            <4>1. i \in 1..(m - 1) /\ g[i] = f[i]
                BY <3>3
            <4> QED BY <4>1, <3>1, <2>1
        <3> QED BY <3>2, <3>3
    <2>5. g[0] = a
        BY <2>1
    <2> HIDE DEF g
    <2>6. \E h \in [0..m -> S] : Upto(m, h)
        BY <2>3, <2>4, <2>5
    <2>7. m \in 0..n
        OBVIOUS
    <2> QED BY <2>6, <2>7
<1>3. n \in G
    <2> HIDE DEF G
    <2>1. 0..n \subseteq G
        BY <1>1, <1>2, BoundedInduction
    <2> QED BY <2>1
<1> QED BY <1>3
=============================================================================
