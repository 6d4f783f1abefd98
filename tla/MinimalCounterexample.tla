----------------------- MODULE MinimalCounterexample -----------------------
(***************************************************************************)
(* Induction for the proofs of this project.  An induction theorem that    *)
(* takes the formula as a parameter cannot be used here; that a set of     *)
(* counterexamples, if not empty, has a minimal one can.                   *)
(***************************************************************************)
EXTENDS Naturals, Sequences, FiniteSetTheorems, TLAPS

(* Among sets of subsets of a finite set there is a smallest one.          *)
LEMMA MinimalSubset ==
  ASSUME NEW S, IsFiniteSet(S), NEW X \in SUBSET (SUBSET S), X # {}
  PROVE  \E T \in X : \A U \in X : U \subseteq T => U = T
<1> DEFINE R == StrictSubsetOrdering(S)
<1>1. IsWellFoundedOn(R, SUBSET S)
  BY FS_StrictSubsetOrderingWellFounded, FS_FiniteSubsetsOfFinite
<1>2. \E T \in X : \A U \in X : ~ (<<U, T>> \in R)
  <2> HIDE DEF R
  <2> QED BY <1>1, WFMin
<1>3. PICK T \in X : \A U \in X : ~ (<<U, T>> \in R)
  BY <1>2
<1>4. ASSUME NEW U \in X, U \subseteq T PROVE U = T
  BY <1>3, <1>4 DEF StrictSubsetOrdering
<1> QED BY <1>4

(* The least of some natural numbers.                                      *)
LEMMA LeastNat ==
  ASSUME NEW X \in SUBSET Nat, X # {}
  PROVE  \E n \in X : \A m \in X : n <= m
<1> DEFINE R == OpToRel(<, Nat)
<1>1. IsWellFoundedOn(R, Nat) BY NatLessThanWellFounded
<1>2. \E n \in X : \A m \in X : ~(<<m, n>> \in R)
  <2> HIDE DEF R
  <2> QED BY <1>1, WFMin
<1>3. PICK n \in X : \A m \in X : ~(<<m, n>> \in R) BY <1>2
<1>4. \A m \in X : ~(m < n) BY <1>3 DEF OpToRel
<1>5. \A m \in X : m \in Nat /\ n \in Nat OBVIOUS
<1> QED BY <1>4, <1>5

(* The greatest of some numbers up to N.                                   *)
LEMMA GreatestNat ==
  ASSUME NEW N \in Nat, NEW S \in SUBSET (0 .. N), S # {}
  PROVE  \E x \in S : \A y \in S : x >= y
<1> DEFINE X == {n \in Nat : \E x \in S : n = N - x}
<1>1. X \in SUBSET Nat /\ X # {}
  <2>1. PICK x \in S : TRUE OBVIOUS
  <2>2. N - x \in X BY <2>1
  <2> QED BY <2>2
<1>2. PICK n \in X : \A m \in X : n <= m
  <2> HIDE DEF X
  <2> QED BY <1>1, LeastNat
<1>3. PICK x \in S : n = N - x BY <1>2
<1>4. ASSUME NEW y \in S PROVE x >= y
  <2>1. N - y \in X /\ x \in 0 .. N /\ y \in 0 .. N OBVIOUS
  <2>2. n <= N - y
    <3> HIDE DEF X
    <3> QED BY <2>1, <1>2
  <2> HIDE DEF X
  <2> QED BY <2>1, <2>2, <1>3
<1> QED BY <1>4

-----------------------------------------------------------------------------
(* Listing a finite set in order, an example of such an induction that     *)
(* more than one component needs.  R is the order as a set of pairs.       *)

Orders(R, S) ==
  /\ \A e \in S : <<e, e>> \notin R
  /\ \A e, f \in S : e # f => <<e, f>> \in R \/ <<f, e>> \in R
  /\ \A e, f, g \in S : <<e, f>> \in R /\ <<f, g>> \in R => <<e, g>> \in R

Lists(s, R, S) ==
  /\ s \in [1 .. Cardinality(S) -> S]
  /\ \A i, j \in DOMAIN s : i < j => <<s[i], s[j]>> \in R

LEMMA LastExists ==
  ASSUME NEW S, IsFiniteSet(S), S # {}, NEW R, Orders(R, S)
  PROVE  \E e \in S : \A f \in S \ {e} : <<f, e>> \in R
<1> DEFINE IsLast(T, e) == e \in T /\ \A f \in T \ {e} : <<f, e>> \in R
           X == {T \in SUBSET S : T # {} /\ ~\E e : IsLast(T, e)}
<1> SUFFICES ASSUME X # {} PROVE FALSE
  OBVIOUS
<1>1. PICK T \in X : \A U \in X : U \subseteq T => U = T
  <2>1. X \in SUBSET (SUBSET S) OBVIOUS
  <2> HIDE DEF X
  <2> QED BY <2>1, MinimalSubset
<1>2. PICK e \in T : TRUE BY <1>1
<1> DEFINE U == T \ {e}
<1>3. CASE U = {}
  <2>1. IsLast(T, e) BY <1>3
  <2> QED BY <1>1, <2>1
<1>4. CASE U # {}
  <2>1. U \notin X BY <1>1, <1>2
  <2>2. PICK f : IsLast(U, f) BY <1>1, <1>4, <2>1
  <2>3. e \in S /\ f \in S /\ e # f /\ f \in T BY <1>1, <2>2
  <2>4. IsLast(T, e) \/ IsLast(T, f)
    <3>1. CASE <<e, f>> \in R BY <1>2, <2>2, <2>3, <3>1
    <3>2. CASE <<f, e>> \in R
      <4>1. \A g \in T \ {e} : <<g, e>> \in R
        BY <1>1, <2>2, <2>3, <3>2 DEF Orders
      <4> QED BY <4>1
    <3> QED BY <2>3, <3>1, <3>2 DEF Orders
  <2> QED BY <1>1, <2>4
<1> QED BY <1>3, <1>4

LEMMA ListExists ==
  ASSUME NEW S, IsFiniteSet(S), NEW R, Orders(R, S)
  PROVE  \E s : Lists(s, R, S)
<1> DEFINE X == {T \in SUBSET S : ~\E s : Lists(s, R, T)}
<1> SUFFICES ASSUME X # {} PROVE FALSE
  OBVIOUS
<1>1. PICK T \in X : \A U \in X : U \subseteq T => U = T
  <2>1. X \in SUBSET (SUBSET S) OBVIOUS
  <2> HIDE DEF X
  <2> QED BY <2>1, MinimalSubset
<1>2. T \subseteq S /\ IsFiniteSet(T) /\ Orders(R, T) BY <1>1, FS_Subset DEF Orders
<1>3. CASE T = {}
  <2>1. Cardinality(T) = 0 BY <1>3, FS_EmptySet
  <2>2. Lists([i \in 1 .. 0 |-> i], R, T) BY <2>1 DEF Lists
  <2> QED BY <1>1, <2>2
<1>4. CASE T # {}
  <2>1. PICK e \in T : \A f \in T \ {e} : <<f, e>> \in R BY <1>2, <1>4, LastExists
  <2> DEFINE U == T \ {e}
             n == Cardinality(U)
  <2>2. IsFiniteSet(U) /\ n \in Nat /\ Cardinality(T) = n + 1
    <3>1. IsFiniteSet(U) /\ Cardinality(U) = Cardinality(T) - 1
      BY <1>2, FS_RemoveElement
    <3>2. Cardinality(T) \in Nat /\ Cardinality(U) \in Nat
      BY <1>2, <3>1, FS_CardinalityType
    <3> QED BY <3>1, <3>2
  <2>3. U \notin X BY <1>1, <2>1
  <2>4. PICK s : Lists(s, R, U) BY <1>2, <2>3
  <2> DEFINE t == [i \in 1 .. (n + 1) |-> IF i <= n THEN s[i] ELSE e]
  <2> HIDE DEF n
  <2>5. s \in [1 .. n -> U] BY <2>4 DEF Lists, n
  <2>6. t \in [1 .. (n + 1) -> T] BY <2>1, <2>2, <2>5
  <2>7. ASSUME NEW i \in 1 .. (n + 1), NEW j \in 1 .. (n + 1), i < j
        PROVE  <<t[i], t[j]>> \in R
    <3>1. i \in 1 .. n BY <2>2, <2>7
    <3>2. CASE j <= n
      <4>1. t[i] = s[i] /\ t[j] = s[j] /\ i \in DOMAIN s /\ j \in DOMAIN s
        BY <2>2, <2>5, <3>1, <3>2
      <4> QED BY <2>4, <2>7, <4>1 DEF Lists
    <3>3. CASE ~(j <= n)
      <4>1. t[i] = s[i] /\ t[j] = e /\ s[i] \in U BY <2>2, <2>5, <3>1, <3>3
      <4> QED BY <2>1, <4>1
    <3> QED BY <3>2, <3>3
  <2> HIDE DEF t
  <2>8. Lists(t, R, T) BY <2>2, <2>6, <2>7 DEF Lists
  <2> QED BY <1>1, <2>8
<1> QED BY <1>3, <1>4

(* Such a list has every element once.                                     *)
LEMMA ListedOnce ==
  ASSUME NEW S, IsFiniteSet(S), NEW R, Orders(R, S), NEW s, Lists(s, R, S)
  PROVE  /\ s \in Seq(S) /\ Len(s) = Cardinality(S)
         /\ \A e \in S : \E i \in DOMAIN s : s[i] = e
         /\ \A i, j \in DOMAIN s : s[i] = s[j] => i = j
<1> DEFINE n == Cardinality(S)
<1>1. s \in [1 .. n -> S] /\ DOMAIN s = 1 .. n BY DEF Lists
<1>2. n \in Nat BY FS_CardinalityType
<1> HIDE DEF n
<1>3. ASSUME NEW i \in 1 .. n, NEW j \in 1 .. n, s[i] = s[j] PROVE i = j
  <2>1. i \in Nat /\ j \in Nat BY <1>2
  <2>2. ~(i < j) /\ ~(j < i) BY <1>1, <1>3 DEF Lists, Orders
  <2> QED BY <2>1, <2>2
<1>4. s \in Injection(1 .. n, S) BY <1>1, <1>3 DEF Injection, IsInjective
<1>5. Cardinality(1 .. n) = n BY <1>2, FS_Interval
<1>6. s \in Surjection(1 .. n, S) BY <1>2, <1>4, <1>5, FS_Injection DEF n
<1>7. s \in Seq(S) /\ Len(s) = n BY <1>1, <1>2
<1> QED BY <1>1, <1>3, <1>6, <1>7 DEF n, Surjection
=============================================================================
