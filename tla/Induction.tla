------------------------------ MODULE Induction ------------------------------
(***************************************************************************)
(* Induction without operators as parameters, from the library's theorem   *)
(* that inclusion of finite sets is well founded: the least element of a   *)
(* set of naturals, induction with the property as a set, and the greatest *)
(* element of a bounded set.                                               *)
(***************************************************************************)
EXTENDS Integers, FiniteSetTheorems, WellFoundedInduction, TLAPS

\* A set of naturals that is not empty has a least element.
LEMMA Least ==
  ASSUME NEW T \in SUBSET Nat, T # {}
  PROVE  \E m \in T : \A n \in T : m <= n
<1> DEFINE Below == {0..n : n \in T}
<1>1. \A n \in T : IsFiniteSet(0..n) /\ 0..n \in SUBSET Nat
  BY FS_Interval
<1>2. Below \subseteq FiniteSubsetsOf(Nat) /\ Below # {}
  BY <1>1 DEF FiniteSubsetsOf
<1> HIDE DEF Below
<1>3. PICK X \in Below : \A Y \in Below : <<Y, X>> \notin StrictSubsetOrdering(Nat)
  BY <1>2, FS_StrictSubsetOrderingWellFounded, WFMin
<1>4. PICK m \in T : X = 0..m
  BY <1>3 DEF Below
<1>5. ASSUME NEW n \in T, n < m
      PROVE  FALSE
  <2>1. 0..n \in SUBSET Nat /\ 0..m \in SUBSET Nat /\ 0..n \in Below
    BY <1>1 DEF Below
  <2>2. 0..n \subseteq 0..m /\ 0..n # 0..m
    BY <1>5
  <2>3. <<0..n, X>> \in StrictSubsetOrdering(Nat)
    BY <2>1, <2>2, <1>4 DEF StrictSubsetOrdering
  <2> QED BY <2>1, <2>3, <1>3
<1> QED BY <1>5

\* Induction: a set with 0 and with the successor of each of its naturals has
\* every natural.
LEMMA Induction ==
  ASSUME NEW A, 0 \in A, \A n \in Nat : n \in A => n + 1 \in A
  PROVE  Nat \subseteq A
<1> DEFINE T == {n \in Nat : n \notin A}
<1>1. SUFFICES ASSUME T # {} PROVE FALSE
  OBVIOUS
<1>2. PICK m \in T : \A n \in T : m <= n
  BY <1>1, Least
<1>3. m # 0 /\ m - 1 \in Nat /\ m - 1 \notin T
  BY <1>2
<1>4. m - 1 \in A /\ (m - 1) + 1 = m
  BY <1>2, <1>3
<1> QED BY <1>2, <1>3, <1>4

\* Induction up to a bound.
LEMMA InductionUpTo ==
  ASSUME NEW N \in Nat, NEW A, 0 \in A,
         \A n \in 1..N : n - 1 \in A => n \in A
  PROVE  0..N \subseteq A
<1> DEFINE B == {n \in Nat : n <= N => n \in A}
<1>1. ASSUME NEW n \in Nat, n \in B PROVE n + 1 \in B
  BY <1>1
<1>2. Nat \subseteq B
  <2> HIDE DEF B
  <2>1. 0 \in B
    BY DEF B
  <2> QED BY <1>1, <2>1, Induction
<1> QED BY <1>2

\* A function to the naturals on a finite set has a greatest value.
LEMMA Greatest ==
  ASSUME NEW S, IsFiniteSet(S), S # {}, NEW f \in [S -> Nat]
  PROVE  \E x \in S : \A y \in S : f[y] <= f[x]
<1> DEFINE above == [x \in S |-> {y \in S : f[y] > f[x]}]
           Aboves == {above[x] : x \in S}
<1>1. \A x \in S : above[x] \in SUBSET S /\ IsFiniteSet(above[x])
  BY FS_Subset
<1>2. Aboves \subseteq FiniteSubsetsOf(S) /\ Aboves # {}
  BY <1>1 DEF FiniteSubsetsOf
<1> HIDE DEF Aboves
<1>3. PICK X \in Aboves : \A Y \in Aboves : <<Y, X>> \notin StrictSubsetOrdering(S)
  BY <1>2, FS_StrictSubsetOrderingWellFounded, WFMin
<1>4. PICK x \in S : X = above[x]
  BY <1>3 DEF Aboves
<1>5. ASSUME NEW y \in S, f[y] > f[x]
      PROVE  FALSE
  <2>1. above[y] \in SUBSET S /\ above[x] \in SUBSET S /\ above[y] \in Aboves
    BY <1>1 DEF Aboves
  <2>2. above[y] \subseteq above[x] /\ y \in above[x] /\ y \notin above[y]
    BY <1>5
  <2>3. <<above[y], X>> \in StrictSubsetOrdering(S)
    BY <2>1, <2>2, <1>4 DEF StrictSubsetOrdering
  <2> QED BY <2>1, <2>3, <1>3
<1>6. \A y \in S : f[y] \in Nat /\ f[x] \in Nat
  OBVIOUS
<1> QED BY <1>5, <1>6
=============================================================================
