------------------------- MODULE SpendBalanceProofs -------------------------
(***************************************************************************)
(* The money of SpendCalls: what is signed, shown and stored is an amount, *)
(* and the stored balance follows the outputs.                             *)
(*                                                                         *)
(* SumOf is a fold, a recursive function over subsets.  That the function  *)
(* exists, and what it returns, is induction over finite sets, done here   *)
(* by way of a minimal counterexample.                                     *)
(***************************************************************************)
EXTENDS SpendCallsProofs, MinimalCounterexample

-----------------------------------------------------------------------------
(* The fold behind SumOf.                                                  *)

Pick(s) == CHOOSE x \in s : TRUE

FoldStep(g, s, tt) ==
  IF s = {} THEN 0 ELSE AmountOf(Pick(s), tt) + g[s \ {Pick(s)}]

Folds(g, S, tt) == g = [s \in SUBSET S |-> FoldStep(g, s, tt)]

SumFcn(S, tt) == CHOOSE g : Folds(g, S, tt)

LEMMA SumOfFcn == \A S, tt : SumOf(S, tt) = SumFcn(S, tt)[S]
BY DEF SumOf, SumFcn, Folds, FoldStep, Pick, MapThenSumSet, MapThenFoldSet

LEMMA PickIn == \A s : s # {} => Pick(s) \in s
BY DEF Pick

(* Folds over different sets agree on what is in both.                     *)
LEMMA FoldsUnique ==
  ASSUME NEW S, IsFiniteSet(S), NEW T, NEW tt, NEW g, NEW h,
         Folds(g, S, tt), Folds(h, T, tt)
  PROVE  \A s \in SUBSET S : s \subseteq T => g[s] = h[s]
<1> DEFINE X == {s \in SUBSET S : s \subseteq T /\ g[s] # h[s]}
<1> SUFFICES ASSUME X # {} PROVE FALSE
  OBVIOUS
<1>1. PICK s \in X : \A u \in X : u \subseteq s => u = s
  <2>1. X \in SUBSET (SUBSET S) OBVIOUS
  <2> HIDE DEF X
  <2> QED BY <2>1, MinimalSubset
<1>2. s \subseteq S /\ s \subseteq T /\ g[s] # h[s]
  BY <1>1
<1>3. g[s] = FoldStep(g, s, tt) /\ h[s] = FoldStep(h, s, tt)
  BY <1>2 DEF Folds
<1>4. s # {} BY <1>2, <1>3 DEF FoldStep
<1> DEFINE u == s \ {Pick(s)}
<1>5. u \subseteq s /\ u # s BY <1>4, PickIn
<1>6. u \notin X BY <1>1, <1>5
<1>7. g[u] = h[u] BY <1>2, <1>5, <1>6
<1> QED BY <1>2, <1>3, <1>7 DEF FoldStep

LEMMA FoldsExist ==
  ASSUME NEW S, IsFiniteSet(S), NEW tt
  PROVE  Folds(SumFcn(S, tt), S, tt)
<1> DEFINE X == {T \in SUBSET S : ~\E g : Folds(g, T, tt)}
<1>1. SUFFICES ASSUME X # {} PROVE FALSE
  BY DEF SumFcn
<1>2. PICK T \in X : \A U \in X : U \subseteq T => U = T
  <2>1. X \in SUBSET (SUBSET S) OBVIOUS
  <2> HIDE DEF X
  <2> QED BY <1>1, <2>1, MinimalSubset
<1>3. \A U \in SUBSET T : U # T => Folds(SumFcn(U, tt), U, tt) /\ IsFiniteSet(U)
  BY <1>2, FS_Subset DEF SumFcn
<1> DEFINE Less(s) == s \ {Pick(s)}
           g == [s \in SUBSET T |-> FoldStep(SumFcn(Less(s), tt), s, tt)]
<1>4. ASSUME NEW s \in SUBSET T PROVE g[s] = FoldStep(g, s, tt)
  <2>1. CASE s = {} BY <2>1 DEF FoldStep
  <2>2. CASE s # {}
    <3> DEFINE u == Less(s)
    <3>1. u \subseteq T /\ u # T BY <2>2, PickIn
    <3>2. Folds(SumFcn(u, tt), u, tt) /\ IsFiniteSet(u) BY <1>3, <3>1
    <3>3. SumFcn(u, tt)[u] = FoldStep(SumFcn(u, tt), u, tt)
      BY <3>2 DEF Folds
    <3>4. FoldStep(SumFcn(u, tt), u, tt) = FoldStep(SumFcn(Less(u), tt), u, tt)
      <4>1. CASE u = {} BY <4>1 DEF FoldStep
      <4>2. CASE u # {}
        <5> DEFINE v == Less(u)
        <5>1. v \subseteq u /\ v # T BY <3>1
        <5>2. Folds(SumFcn(v, tt), v, tt) BY <1>3, <3>1, <5>1
        <5>3. SumFcn(u, tt)[v] = SumFcn(v, tt)[v]
          <6> HIDE DEF u, v
          <6> QED BY <3>2, <5>1, <5>2, FoldsUnique
        <5> QED BY <5>3 DEF FoldStep
      <4> QED BY <4>1, <4>2
    <3>5. SumFcn(u, tt)[u] = g[u] BY <3>1, <3>3, <3>4
    <3> QED BY <3>5, <2>2 DEF FoldStep
  <2> QED BY <2>1, <2>2
<1>5. Folds(g, T, tt)
  <2>1. g = [s \in SUBSET T |-> g[s]] OBVIOUS
  <2> HIDE DEF g
  <2> QED BY <1>4, <2>1 DEF Folds
<1> QED BY <1>2, <1>5

-----------------------------------------------------------------------------
(* What sums are.                                                          *)

LEMMA SumOfStep ==
  ASSUME NEW S, IsFiniteSet(S), NEW tt
  PROVE  SumOf(S, tt) = IF S = {} THEN 0
                        ELSE AmountOf(Pick(S), tt) + SumOf(S \ {Pick(S)}, tt)
<1> DEFINE U == S \ {Pick(S)}
<1>1. Folds(SumFcn(S, tt), S, tt) BY FoldsExist
<1>2. IsFiniteSet(U) BY FS_RemoveElement
<1>3. Folds(SumFcn(U, tt), U, tt) BY <1>2, FoldsExist
<1>4. SumFcn(S, tt)[S] = FoldStep(SumFcn(S, tt), S, tt) BY <1>1 DEF Folds
<1>5. U \in SUBSET S OBVIOUS
<1>6. SumFcn(S, tt)[U] = SumFcn(U, tt)[U]
  <2> HIDE DEF U
  <2> QED BY <1>1, <1>3, <1>5, FoldsUnique
<1> QED BY <1>4, <1>6, SumOfFcn DEF FoldStep

(* The sum over nothing is nothing.                                        *)
LEMMA SumOfNone == \A tt : SumOf({}, tt) = 0
BY SumOfStep, FS_EmptySet

LEMMA SumOfNat ==
  ASSUME NEW S, IsFiniteSet(S), NEW tt, \A o \in S : AmountOf(o, tt) \in Nat
  PROVE  SumOf(S, tt) \in Nat
<1> DEFINE X == {T \in SUBSET S : SumOf(T, tt) \notin Nat}
<1> SUFFICES ASSUME X # {} PROVE FALSE
  OBVIOUS
<1>1. PICK T \in X : \A U \in X : U \subseteq T => U = T
  <2>1. X \in SUBSET (SUBSET S) OBVIOUS
  <2> HIDE DEF X
  <2> QED BY <2>1, MinimalSubset
<1>2. T \subseteq S /\ IsFiniteSet(T) BY <1>1, FS_Subset
<1>0. SumOf(T, tt) \notin Nat BY <1>1
<1>3. T # {} BY <1>0, SumOfNone
<1>4. Pick(T) \in T BY <1>3, PickIn
<1>5. SumOf(T \ {Pick(T)}, tt) \in Nat BY <1>1, <1>2, <1>4
<1>6. AmountOf(Pick(T), tt) \in Nat BY <1>2, <1>4
<1>7. SumOf(T, tt) = AmountOf(Pick(T), tt) + SumOf(T \ {Pick(T)}, tt)
  BY <1>2, <1>3, SumOfStep
<1> QED BY <1>1, <1>5, <1>6, <1>7

(* Any element may be counted first.                                       *)
LEMMA SumOfRemove ==
  ASSUME NEW S, IsFiniteSet(S), NEW tt, \A o \in S : AmountOf(o, tt) \in Nat,
         NEW x \in S
  PROVE  SumOf(S, tt) = AmountOf(x, tt) + SumOf(S \ {x}, tt)
<1> DEFINE X == {T \in SUBSET S :
                   \E y \in T : SumOf(T, tt) # AmountOf(y, tt) + SumOf(T \ {y}, tt)}
<1> SUFFICES ASSUME X # {} PROVE FALSE
  OBVIOUS
<1>1. PICK T \in X : \A U \in X : U \subseteq T => U = T
  <2>1. X \in SUBSET (SUBSET S) OBVIOUS
  <2> HIDE DEF X
  <2> QED BY <2>1, MinimalSubset
<1>2. PICK y \in T : SumOf(T, tt) # AmountOf(y, tt) + SumOf(T \ {y}, tt)
  BY <1>1
<1> DEFINE p == Pick(T)
<1>3. T \subseteq S /\ p \in T BY <1>1, <1>2, PickIn
<1>4. IsFiniteSet(T) /\ IsFiniteSet(T \ {p}) /\ IsFiniteSet(T \ {y})
      /\ IsFiniteSet((T \ {p}) \ {y})
  BY <1>3, FS_Subset
<1>5. SumOf(T, tt) = AmountOf(p, tt) + SumOf(T \ {p}, tt)
  BY <1>2, <1>4, SumOfStep
<1>6. p # y BY <1>2, <1>5
<1>7. T \ {p} \notin X /\ T \ {y} \notin X
  BY <1>1, <1>2, <1>3
<1>8. /\ SumOf(T \ {p}, tt) = AmountOf(y, tt) + SumOf((T \ {p}) \ {y}, tt)
      /\ SumOf(T \ {y}, tt) = AmountOf(p, tt) + SumOf((T \ {y}) \ {p}, tt)
  BY <1>2, <1>3, <1>6, <1>7
<1>9. (T \ {p}) \ {y} = (T \ {y}) \ {p} OBVIOUS
<1>10. SumOf((T \ {p}) \ {y}, tt) \in Nat
  <2> DEFINE U == (T \ {p}) \ {y}
  <2>1. IsFiniteSet(U) /\ \A o \in U : AmountOf(o, tt) \in Nat BY <1>3, <1>4
  <2> HIDE DEF U
  <2>2. SumOf(U, tt) \in Nat BY <2>1, SumOfNat
  <2> QED BY <2>2 DEF U
<1>11. AmountOf(p, tt) \in Nat /\ AmountOf(y, tt) \in Nat BY <1>3
<1> QED BY <1>2, <1>5, <1>8, <1>9, <1>10, <1>11

LEMMA SumOfAdd ==
  ASSUME NEW S, IsFiniteSet(S), NEW tt, \A o \in S : AmountOf(o, tt) \in Nat,
         NEW x, x \notin S, AmountOf(x, tt) \in Nat
  PROVE  SumOf(S \cup {x}, tt) = SumOf(S, tt) + AmountOf(x, tt)
<1>1. IsFiniteSet(S \cup {x}) BY FS_AddElement
<1>2. (S \cup {x}) \ {x} = S OBVIOUS
<1>3. SumOf(S \cup {x}, tt) = AmountOf(x, tt) + SumOf(S, tt)
  <2> DEFINE T == S \cup {x}
  <2>1. IsFiniteSet(T) /\ x \in T /\ \A o \in T : AmountOf(o, tt) \in Nat BY <1>1
  <2>2. T \ {x} = S BY <1>2
  <2> HIDE DEF T
  <2>3. SumOf(T, tt) = AmountOf(x, tt) + SumOf(T \ {x}, tt) BY <2>1, SumOfRemove
  <2> QED BY <2>2, <2>3 DEF T
<1> QED BY <1>3, SumOfNat

(* A part and the rest.                                                    *)
LEMMA SumOfSplit ==
  ASSUME NEW S, IsFiniteSet(S), NEW tt, \A o \in S : AmountOf(o, tt) \in Nat,
         NEW T \in SUBSET S
  PROVE  SumOf(S, tt) = SumOf(T, tt) + SumOf(S \ T, tt)
<1> DEFINE X == {U \in SUBSET T : SumOf(S, tt) # SumOf(U, tt) + SumOf(S \ U, tt)}
<1>0. IsFiniteSet(T) BY FS_Subset
<1>1. ASSUME NEW U \in SUBSET S, NEW x \in U, U # {}
      PROVE  SumOf(U, tt) + SumOf(S \ U, tt)
                = SumOf(U \ {x}, tt) + SumOf(S \ (U \ {x}), tt)
  <2> DEFINE V == U \ {x}
             R == S \ U
             Q == S \ V
  <2>1. /\ IsFiniteSet(U) /\ IsFiniteSet(V) /\ IsFiniteSet(R) /\ IsFiniteSet(Q)
    BY FS_Subset
  <2>2. /\ \A o \in U : AmountOf(o, tt) \in Nat
        /\ \A o \in V : AmountOf(o, tt) \in Nat
        /\ \A o \in R : AmountOf(o, tt) \in Nat
        /\ \A o \in Q : AmountOf(o, tt) \in Nat
        /\ x \in Q /\ Q \ {x} = R
    OBVIOUS
  <2>3. SumOf(U, tt) = AmountOf(x, tt) + SumOf(V, tt)
    BY <2>1, <2>2, SumOfRemove
  <2> HIDE DEF V, Q, R
  <2>4. SumOf(Q, tt) = AmountOf(x, tt) + SumOf(R, tt)
    BY <2>1, <2>2, SumOfRemove
  <2>5. SumOf(V, tt) \in Nat /\ SumOf(R, tt) \in Nat /\ AmountOf(x, tt) \in Nat
    BY <2>1, <2>2, SumOfNat
  <2> QED BY <2>3, <2>4, <2>5 DEF V, R, Q
<1> SUFFICES ASSUME X # {} PROVE FALSE
  OBVIOUS
<1>2. PICK U \in X : \A V \in X : V \subseteq U => V = U
  <2>1. X \in SUBSET (SUBSET T) OBVIOUS
  <2> HIDE DEF X
  <2> QED BY <1>0, <2>1, MinimalSubset
<1>3. U \subseteq T /\ U \subseteq S BY <1>2
<1>4. CASE U = {}
  <2>1. SumOf(S, tt) \in Nat /\ S \ {} = S BY SumOfNat
  <2> QED BY <1>2, <1>4, <2>1, SumOfNone
<1>5. CASE U # {}
  <2>1. Pick(U) \in U BY <1>5, PickIn
  <2>2. U \ {Pick(U)} \notin X BY <1>2, <2>1
  <2> QED BY <1>1, <1>2, <1>3, <1>5, <2>1, <2>2
<1> QED BY <1>4, <1>5

LEMMA SumOfSubset ==
  ASSUME NEW S, IsFiniteSet(S), NEW tt, \A o \in S : AmountOf(o, tt) \in Nat,
         NEW T \in SUBSET S
  PROVE  SumOf(T, tt) <= SumOf(S, tt)
<1>1. IsFiniteSet(T) /\ IsFiniteSet(S \ T) BY FS_Subset
<1>2. SumOf(T, tt) \in Nat BY <1>1, SumOfNat
<1>3. SumOf(S \ T, tt) \in Nat
  <2> DEFINE R == S \ T
  <2>1. \A o \in R : AmountOf(o, tt) \in Nat OBVIOUS
  <2> HIDE DEF R
  <2> QED BY <1>1, <2>1, SumOfNat DEF R
<1> QED BY <1>2, <1>3, SumOfSplit

(* Only the amounts of the outputs summed matter.                          *)
LEMMA SumOfSame ==
  ASSUME NEW S, IsFiniteSet(S), NEW tt, NEW ty,
         \A o \in S : AmountOf(o, tt) = AmountOf(o, ty)
  PROVE  SumOf(S, tt) = SumOf(S, ty)
<1> DEFINE X == {T \in SUBSET S : SumOf(T, tt) # SumOf(T, ty)}
<1> SUFFICES ASSUME X # {} PROVE FALSE
  OBVIOUS
<1>1. PICK T \in X : \A U \in X : U \subseteq T => U = T
  <2>1. X \in SUBSET (SUBSET S) OBVIOUS
  <2> HIDE DEF X
  <2> QED BY <2>1, MinimalSubset
<1>2. T \subseteq S /\ IsFiniteSet(T) BY <1>1, FS_Subset
<1>3. T # {} BY <1>1, SumOfNone
<1>4. Pick(T) \in T BY <1>3, PickIn
<1>5. T \ {Pick(T)} \notin X BY <1>1, <1>4
<1>6. SumOf(T \ {Pick(T)}, tt) = SumOf(T \ {Pick(T)}, ty) BY <1>2, <1>5
<1>7. AmountOf(Pick(T), tt) = AmountOf(Pick(T), ty) BY <1>2, <1>4
<1>8. /\ SumOf(T, tt) = AmountOf(Pick(T), tt) + SumOf(T \ {Pick(T)}, tt)
      /\ SumOf(T, ty) = AmountOf(Pick(T), ty) + SumOf(T \ {Pick(T)}, ty)
  BY <1>2, <1>3, SumOfStep
<1>9. SumOf(T, tt) # SumOf(T, ty) BY <1>1
<1> QED BY <1>6, <1>7, <1>8, <1>9

-----------------------------------------------------------------------------
(* Highest: the greatest of some heights.                                  *)

LEMMA HighestType ==
  ASSUME NEW N \in Nat, NEW S \in SUBSET (0 .. N)
  PROVE  Highest(S) \in 0 .. N
<1>1. CASE S = {} BY <1>1 DEF Highest
<1>2. CASE S # {}
  <2>1. \E x \in S : \A y \in S : x >= y BY <1>2, GreatestNat
  <2>2. Max(S) \in S BY <2>1 DEF Max
  <2> QED BY <1>2, <2>2 DEF Highest
<1> QED BY <1>1, <1>2

-----------------------------------------------------------------------------
(* The fee search of a sweep, a recursive function over its attempts.      *)

Tried(sum, fee, s) ==
  LET amount == Minus(sum, s.guess)
  IN IF s.done THEN s
     ELSE IF sum < amount + fee
          THEN [s EXCEPT !.guess = s.guess + FeeStep]
          ELSE [guess |-> fee, paid |-> amount, found |-> TRUE, done |-> fee = s.guess]

Searches(g, sum, fee, n) ==
  g = [i \in 0 .. n |->
         IF i = 0 THEN [guess |-> 0, paid |-> 0, found |-> FALSE, done |-> FALSE]
         ELSE Tried(sum, fee, g[i - 1])]

LEMMA SearchFcn ==
  \A sum, fee : SweepSearch(sum, fee)
                  = (CHOOSE g : Searches(g, sum, fee, SweepIterations))[SweepIterations]
BY DEF SweepSearch, Searches, Tried

SearchState == [guess : Nat, paid : Nat, found : BOOLEAN, done : BOOLEAN]

LEMMA SearchExists ==
  ASSUME NEW sum, NEW fee, NEW n \in Nat
  PROVE  \E g : Searches(g, sum, fee, n)
<1> DEFINE X == {m \in Nat : ~\E g : Searches(g, sum, fee, m)}
<1> SUFFICES ASSUME X # {} PROVE FALSE
  OBVIOUS
<1>1. PICK m \in X : \A k \in X : m <= k
  <2>1. X \in SUBSET Nat OBVIOUS
  <2> HIDE DEF X
  <2> QED BY <2>1, LeastNat
<1>2. CASE m = 0
  <2> DEFINE h == [i \in 0 .. 0 |-> [guess |-> 0, paid |-> 0, found |-> FALSE, done |-> FALSE]]
  <2>1. Searches(h, sum, fee, 0) BY DEF Searches
  <2> QED BY <1>1, <1>2, <2>1
<1>3. CASE m # 0
  <2>1. m \in Nat /\ m - 1 \in Nat /\ m - 1 \notin X BY <1>1, <1>3
  <2>2. PICK g : Searches(g, sum, fee, m - 1) BY <2>1
  <2> DEFINE h == [i \in 0 .. m |-> IF i < m THEN g[i] ELSE Tried(sum, fee, g[m - 1])]
  <2>3. ASSUME NEW i \in 0 .. m
        PROVE  h[i] = IF i = 0 THEN [guess |-> 0, paid |-> 0, found |-> FALSE, done |-> FALSE]
                      ELSE Tried(sum, fee, h[i - 1])
    <3>1. CASE i = m
      BY <1>3, <2>1, <3>1
    <3>2. CASE i # m
      <4>1. i \in 0 .. (m - 1) /\ h[i] = g[i] /\ (i # 0 => h[i - 1] = g[i - 1])
        BY <2>1, <3>2
      <4> HIDE DEF h
      <4> QED BY <2>2, <4>1 DEF Searches
    <3> QED BY <3>1, <3>2
  <2>4. h = [i \in 0 .. m |-> h[i]] OBVIOUS
  <2> HIDE DEF h
  <2>5. Searches(h, sum, fee, m) BY <2>3, <2>4 DEF Searches
  <2> QED BY <1>1, <2>5
<1> QED BY <1>2, <1>3

LEMMA SweepSearchType ==
  ASSUME NEW sum \in Nat, NEW fee \in Nat
  PROVE  SweepSearch(sum, fee) \in SearchState
<1> DEFINE g == CHOOSE f : Searches(f, sum, fee, SweepIterations)
           X == {i \in 0 .. SweepIterations : g[i] \notin SearchState}
<1>1. SweepIterations \in Nat BY DEF SweepIterations
<1>2. Searches(g, sum, fee, SweepIterations)
  BY <1>1, SearchExists
<1>3. SweepSearch(sum, fee) = g[SweepIterations] BY SearchFcn
<1> HIDE DEF g
<1>4. SUFFICES ASSUME X # {} PROVE FALSE
  BY <1>1, <1>3
<1>5. PICK i \in X : \A k \in X : i <= k
  <2>1. X \in SUBSET Nat BY <1>1
  <2> HIDE DEF X
  <2> QED BY <1>4, <2>1, LeastNat
<1>6. i \in 0 .. SweepIterations /\ g[i] \notin SearchState BY <1>5
<1>7. CASE i = 0 BY <1>1, <1>2, <1>6, <1>7 DEF Searches, SearchState
<1>8. CASE i # 0
  <2> DEFINE s == g[i - 1]
  <2>1. s \in SearchState BY <1>1, <1>5, <1>6, <1>8
  <2>2. g[i] = Tried(sum, fee, s) BY <1>1, <1>2, <1>6, <1>8 DEF Searches
  <2> HIDE DEF s
  <2>3. Minus(sum, s.guess) \in Nat BY <2>1 DEF SearchState, Minus
  <2>4. Tried(sum, fee, s) \in SearchState
    BY <2>1, <2>3, AmountsAssumption DEF Tried, SearchState
  <2> QED BY <1>6, <2>2, <2>4
<1> QED BY <1>7, <1>8

-----------------------------------------------------------------------------
(* The inductive invariant, for a wallet under some transactions.          *)

Flagged(out) == {o \in SpentOuts(out) : out[o].by = NoTx /\ out[o].at = 0}

(* An unspent output carries no trace of a spend; marking it later, without*)
(* transaction or height, makes it flagged.                                *)
Clean(out) == \A o \in Out : ~out[o].spent => out[o].by = NoTx /\ out[o].at = 0

(* A change output is tracked only after its transaction has been signed,  *)
(* so that signing moves no amount of a wallet or a blob.                  *)
Known(out, ty) == \A t \in OwnTx : out[t].recv # 0 => ty[t] # Unsigned

Balanced(w, ty) ==
  /\ w.total \in Nat
  /\ SumOf(Unspent(w.out), ty) <= w.total
  /\ w.total <= SumOf(Unspent(w.out), ty) + SumOf(Flagged(w.out), ty)

Sound(w, ty) ==
  /\ w.rows \in [Txid -> Row]
  /\ Clean(w.out)
  /\ Known(w.out, ty)
  /\ Balanced(w, ty)

(* The inputs of a transaction on its way are unspent until it is answered.*)
MoneyInv ==
  /\ tx \in [OwnTx -> Signed]
  /\ Sound(wallet, tx)
  /\ \A w \in blob : Sound(w, tx)
  /\ call.pc = "broadcast" => tx[call.tx].ins \subseteq Unspent(wallet.out)

-----------------------------------------------------------------------------
(* Amounts.                                                                *)

LEMMA AmountType ==
  ASSUME NEW ty \in [OwnTx -> Signed]
  PROVE  \A o \in Out : AmountOf(o, ty) \in Nat
BY AmountsAssumption DEF AmountOf, Out, Signed

LEMMA SumType ==
  ASSUME NEW ty \in [OwnTx -> Signed], NEW S \in SUBSET Out
  PROVE  IsFiniteSet(S) /\ SumOf(S, ty) \in Nat
<1>1. IsFiniteSet(S) BY OutFacts, FS_Subset
<1>2. \A o \in S : AmountOf(o, ty) \in Nat BY AmountType
<1> QED BY <1>1, <1>2, SumOfNat

(* SumOfSplit over outputs.                                                *)
LEMMA SumSplit ==
  ASSUME NEW ty \in [OwnTx -> Signed], NEW S \in SUBSET Out, NEW T \in SUBSET S
  PROVE  SumOf(S, ty) = SumOf(T, ty) + SumOf(S \ T, ty)
BY SumType, AmountType, SumOfSplit

LEMMA SetTypes ==
  ASSUME NEW out
  PROVE  /\ Tracked(out) \in SUBSET Out /\ Unspent(out) \in SUBSET Out
         /\ SpentOuts(out) \in SUBSET Out /\ Flagged(out) \in SUBSET Out
BY DEF Tracked, Unspent, SpentOuts, Flagged

LEMMA MinusType == \A a, b \in Nat : Minus(a, b) \in Nat
BY DEF Minus

LEMMA FeeType ==
  ASSUME NEW S \in SUBSET Out, S # {}
  PROVE  NecessaryFee[Cardinality(S)] \in Nat
<1>1. Cardinality(S) \in Nat /\ Cardinality(S) # 0 /\ Cardinality(S) <= Cardinality(Out)
      /\ Cardinality(Out) \in Nat
  BY OutFacts, FS_Subset, FS_CardinalityType, FS_EmptySet
<1> QED BY <1>1, AmountsAssumption

LEMMA PaymentType ==
  ASSUME NEW ty \in [OwnTx -> Signed], NEW S \in SUBSET Out, S # {}
  PROVE  Payment(S, Pay, ty) \in Signed
<1> DEFINE fee == NecessaryFee[Cardinality(S)]
           sum == SumOf(S, ty)
<1>1. fee \in Nat /\ sum \in Nat /\ Pay \in Nat
  BY FeeType, SumType, SpendAssumption
<1>2. Payment(S, Pay, ty) = [ins |-> S, pay |-> Pay, fee |-> fee,
                             chg |-> Minus(sum, Pay + fee)]
  BY DEF Payment
<1> HIDE DEF fee, sum
<1>3. Minus(sum, Pay + fee) \in Nat BY <1>1, MinusType
<1> QED BY <1>1, <1>2, <1>3 DEF Signed

LEMMA SweepPaymentType ==
  ASSUME NEW ty \in [OwnTx -> Signed], NEW S \in SUBSET Out, S # {}
  PROVE  SweepPayment(S, ty) \in Signed
<1> DEFINE fee == NecessaryFee[Cardinality(S)]
           sum == SumOf(S, ty)
           paid == SweepSearch(sum, fee).paid
<1>1. fee \in Nat /\ sum \in Nat
  BY FeeType, SumType
<1>2. SweepPayment(S, ty) = [ins |-> S, pay |-> Minus(sum, fee), fee |-> fee,
                             chg |-> Minus(sum, paid + fee)]
  BY DEF SweepPayment
<1>3. paid \in Nat
  <2> HIDE DEF fee, sum
  <2> QED BY <1>1, SweepSearchType DEF SearchState
<1> HIDE DEF fee, sum, paid
<1>4. Minus(sum, fee) \in Nat /\ Minus(sum, paid + fee) \in Nat
  <2>1. paid + fee \in Nat BY <1>1, <1>3
  <2> QED BY <1>1, <2>1, MinusType
<1> QED BY <1>1, <1>2, <1>4 DEF Signed

(* The rows of a rebuilt ledger.                                           *)
LEMMA HighestHeight ==
  ASSUME NEW S \in SUBSET HeightOrNone
  PROVE  Highest(S) \in HeightOrNone
BY BoundsAssumption, HighestType DEF HeightOrNone

LEMMA SourcesType ==
  ASSUME NEW x, NEW out, NEW ty
  PROVE  Sources(x, out, ty) \in SUBSET Out
BY SetTypes DEF Sources, SpentBy, Attached, UnattributedAt, Unattributed

LEMMA OutputRowType ==
  ASSUME NEW ty \in [OwnTx -> Signed], NEW out \in [Out -> TrackedOutput],
         NEW x \in Txid
  PROVE  OutputRow(x, out, ty) \in Row
<1> DEFINE incoming == Incoming(x, out, ty)
           sources  == Sources(x, out, ty)
           spent    == SumOf(sources, ty)
           spentAt  == Highest({out[o].at : o \in sources})
           recvAt   == IF x \in Out THEN out[x].recv ELSE 0
<1>1. sources \in SUBSET Out BY SourcesType
<1>2. incoming \in Nat BY SetTypes, AmountType DEF Incoming
<1>3. spent \in Nat
  <2> HIDE DEF sources
  <2> QED BY <1>1, SumType
<1>4. spentAt \in HeightOrNone
  <2> DEFINE S == {out[o].at : o \in sources}
  <2>1. S \in SUBSET HeightOrNone
    <3> HIDE DEF sources
    <3> QED BY <1>1 DEF TrackedOutput
  <2> HIDE DEF S
  <2>2. Highest(S) \in HeightOrNone BY <2>1, HighestHeight
  <2> QED BY <2>2 DEF S
<1>5. recvAt \in HeightOrNone BY OutFacts DEF TrackedOutput
<1>6. OutputRow(x, out, ty) =
        IF spent > 0
        THEN [dir |-> "out", amt |-> Minus(spent, incoming),
              at |-> IF spentAt > 0 THEN spentAt ELSE recvAt, pending |-> FALSE]
        ELSE IF incoming > 0
             THEN [dir |-> "in", amt |-> incoming, at |-> recvAt, pending |-> FALSE]
             ELSE NoRow
  BY DEF OutputRow
<1> HIDE DEF incoming, sources, spent, spentAt, recvAt
<1>7. Minus(spent, incoming) \in Nat BY <1>2, <1>3, MinusType
<1> QED BY <1>2, <1>4, <1>5, <1>6, <1>7, OutFacts DEF Row, NoRow

LEMMA PendingRowType ==
  ASSUME NEW r \in Signed
  PROVE  OutgoingAmount(r) \in Nat /\ PendingRow(r) \in Row
BY OutFacts DEF PendingRow, OutgoingAmount, Row, Signed

LEMMA LedgerType ==
  ASSUME NEW ty \in [OwnTx -> Signed], NEW out \in [Out -> TrackedOutput],
         NEW pend \in SUBSET OwnTx
  PROVE  Ledger(out, pend, ty) \in [Txid -> Row]
<1>1. ASSUME NEW x \in pend PROVE WithPending(OutputRow(x, out, ty), ty[x]) \in Row
  <2>1. OutputRow(x, out, ty) \in Row BY OutFacts, OutputRowType
  <2>2. OutgoingAmount(ty[x]) \in Nat /\ PendingRow(ty[x]) \in Row BY PendingRowType
  <2> QED BY <2>1, <2>2 DEF WithPending, Row
<1> QED BY <1>1, OutputRowType DEF Ledger

-----------------------------------------------------------------------------
(* The operations on a wallet keep it sound.                               *)

LEMMA EmptySound == ASSUME NEW ty PROVE Sound(EmptyWallet, ty)
<1> DEFINE out == EmptyWallet.out
<1>1. \A o \in Out : out[o] = Untracked BY DEF EmptyWallet
<1>2. Unspent(out) = {} /\ Flagged(out) = {}
  BY <1>1 DEF Unspent, Flagged, SpentOuts, Tracked, Untracked
<1>3. Clean(out) BY <1>1 DEF Clean, Untracked
<1>4. Known(out, ty) BY <1>1, OutFacts DEF Known, Untracked
<1>5. EmptyWallet.rows \in [Txid -> Row]
  BY OutFacts DEF EmptyWallet, NoRows, NoRow, Row
<1>6. EmptyWallet.total = 0 BY DEF EmptyWallet
<1>7. Balanced(EmptyWallet, ty) BY <1>2, <1>6, SumOfNone DEF Balanced
<1> QED BY <1>3, <1>4, <1>5, <1>7 DEF Sound

(* A rebuilt balance is exact.                                             *)
LEMMA RebuiltSound ==
  ASSUME tx \in [OwnTx -> Signed], NEW w, WalletTyped(w),
         NEW out \in [Out -> TrackedOutput], NEW c, Clean(out), Known(out, tx)
  PROVE  Sound(Rebuilt(w, out, c), tx)
<1> DEFINE v == Rebuilt(w, out, c)
<1>1. /\ v.rows = Ledger(out, w.pend, tx) /\ v.out = out
      /\ v.total = SumOf(Unspent(out), tx)
  BY DEF Rebuilt, WalletTyped, UnspentSum
<1>2. w.pend \in SUBSET OwnTx BY DEF WalletTyped
<1>3. v.rows \in [Txid -> Row] BY <1>1, <1>2, LedgerType
<1>4. SumOf(Unspent(out), tx) \in Nat /\ SumOf(Flagged(out), tx) \in Nat
  BY SetTypes, SumType
<1> HIDE DEF v
<1>5. Balanced(v, tx) BY <1>1, <1>4 DEF Balanced
<1>6. Sound(v, tx) BY <1>1, <1>3, <1>5 DEF Sound
<1> QED BY <1>6 DEF v

(* Soundness is about outputs, rows and balance.                           *)
LEMMA SameSound ==
  ASSUME NEW w, NEW v, NEW ty, Sound(w, ty),
         v.out = w.out, v.rows = w.rows, v.total = w.total
  PROVE  Sound(v, ty)
BY DEF Sound, Balanced

LEMMA CheckpointSound ==
  ASSUME tx \in [OwnTx -> Signed], NEW w, WalletTyped(w),
         NEW out \in [Out -> TrackedOutput], NEW c \in HeightOrNone, Clean(out), Known(out, tx)
  PROVE  Sound(Checkpoint(w, out, c), tx) /\ Checkpoint(w, out, c).out = out
<1> DEFINE r == Rebuilt(w, out, c)
           pend == Retained(r.pend, Ledger(out, r.pend, tx))
<1>1. Sound(r, tx) BY RebuiltSound
<1>2. WalletOK(r) BY RebuiltOK
<1>3. r.out = out BY DEF Rebuilt, WalletTyped
<1>4. Checkpoint(w, out, c) = [r EXCEPT !.pend = pend] BY DEF Checkpoint
<1> HIDE DEF r, pend
<1>5. LET v == [r EXCEPT !.pend = pend]
      IN v.out = r.out /\ v.rows = r.rows /\ v.total = r.total
  BY <1>2 DEF WalletOK, WalletTyped
<1> QED BY <1>1, <1>3, <1>4, <1>5, SameSound

LEMMA RewoundSound ==
  ASSUME NEW out \in [Out -> TrackedOutput], NEW h, NEW ty, Clean(out), Known(out, ty)
  PROVE  Clean(RewoundTo(h, out)) /\ Known(RewoundTo(h, out), ty)
<1> DEFINE r == RewoundTo(h, out)
<1>1. ASSUME NEW o \in Out
      PROVE  \/ r[o] = Untracked
             \/ r[o] = [out[o] EXCEPT !.spent = FALSE, !.by = NoTx, !.at = 0]
             \/ r[o] = out[o]
  BY DEF RewoundTo
<1>2. ASSUME NEW o \in Out
      PROVE  /\ ~r[o].spent => r[o].by = NoTx /\ r[o].at = 0
             /\ r[o].recv # 0 => out[o].recv # 0
  <2>1. out[o] \in TrackedOutput OBVIOUS
  <2>2. CASE r[o] = Untracked BY <2>2 DEF Untracked
  <2>3. CASE r[o] = [out[o] EXCEPT !.spent = FALSE, !.by = NoTx, !.at = 0]
    BY <2>1, <2>3 DEF TrackedOutput
  <2>4. CASE r[o] = out[o] BY <2>4 DEF Clean
  <2> QED BY <1>1, <2>2, <2>3, <2>4
<1> HIDE DEF r
<1>3. Clean(r) BY <1>2 DEF Clean
<1>4. Known(r, ty) BY <1>2, OutFacts DEF Known
<1> QED BY <1>3, <1>4 DEF r

(* A scan finds change of signed transactions only.                        *)
LEMMA ScannedSound ==
  ASSUME NetTyped, NEW out \in [Out -> TrackedOutput], NEW lo, NEW hi, NEW named,
         Clean(out), Known(out, tx)
  PROVE  LET v == Scanned(out, lo, hi, named) IN Clean(v) /\ Known(v, tx)
<1> DEFINE have == [o \in Out |->
                      IF o \in Found(lo, hi) /\ out[o].recv = 0
                      THEN [Untracked EXCEPT !.recv = net.at[o]] ELSE out[o]]
           by(o) == Spender(o, have, lo, hi, named)
           at(o) == net.at[CHOOSE y \in SpendersIn(o, lo, hi) : TRUE]
           v == Scanned(out, lo, hi, named)
<1>1. ASSUME NEW o \in Out
      PROVE  /\ ~have[o].spent => have[o].by = NoTx /\ have[o].at = 0
             /\ have[o].recv # 0 => out[o].recv # 0 \/ AmountOf(o, tx) > 0
             /\ have[o] = [recv |-> have[o].recv, spent |-> have[o].spent,
                           by |-> have[o].by, at |-> have[o].at]
  <2>1. CASE have[o] = out[o] BY <2>1 DEF Clean, TrackedOutput
  <2>2. CASE have[o] = [Untracked EXCEPT !.recv = net.at[o]] /\ o \in Found(lo, hi)
    BY <2>2 DEF Untracked, Found
  <2> QED BY <2>1, <2>2
<1>2. v = [o \in Out |->
             IF have[o].recv = 0 \/ SpendersIn(o, lo, hi) = {} THEN have[o]
             ELSE [have[o] EXCEPT !.spent = TRUE, !.by = by(o), !.at = at(o)]]
  BY DEF Scanned
<1> HIDE DEF have, by, at, v
<1>3. ASSUME NEW o \in Out
      PROVE  /\ ~v[o].spent => v[o].by = NoTx /\ v[o].at = 0
             /\ v[o].recv # 0 => out[o].recv # 0 \/ AmountOf(o, tx) > 0
  <2>1. CASE v[o] = have[o] BY <1>1, <2>1
  <2>2. CASE v[o] = [have[o] EXCEPT !.spent = TRUE, !.by = by(o), !.at = at(o)]
    <3>1. v[o].spent = TRUE /\ v[o].recv = have[o].recv BY <1>1, <2>2
    <3> QED BY <1>1, <3>1
  <2> QED BY <1>2, <2>1, <2>2
<1>4. Clean(v) BY <1>3 DEF Clean
<1>5. \A t \in OwnTx : AmountOf(t, tx) > 0 => tx[t] # Unsigned
  BY NamesAssumption DEF AmountOf, Unsigned
<1>6. Known(v, tx) BY <1>3, <1>5, OutFacts DEF Known
<1> QED BY <1>4, <1>6 DEF v

(* Unspent outputs that a transaction takes leave the balance with it.     *)
LEMMA MarkedSets ==
  ASSUME NEW out \in [Out -> TrackedOutput], Clean(out), NEW S \in SUBSET Unspent(out),
         NEW t \in Txid, NEW ty, Known(out, ty)
  PROVE  LET v == MarkSpent(out, S, t)
         IN /\ Clean(v) /\ Known(v, ty)
            /\ Unspent(v) = Unspent(out) \ S
            /\ Flagged(v) = Flagged(out)
<1> DEFINE v == MarkSpent(out, S, t)
<1>1. ASSUME NEW o \in Out
      PROVE  IF o \in S THEN v[o] = [out[o] EXCEPT !.spent = TRUE, !.by = t]
                        ELSE v[o] = out[o]
  BY DEF MarkSpent, Clean, Unspent
<1>2. v \in [Out -> TrackedOutput] BY MarkSpentType
<1> HIDE DEF v
<1>3. ASSUME NEW o \in S
      PROVE  /\ o \in Out /\ v[o].spent /\ v[o].by = t /\ v[o].recv = out[o].recv
             /\ ~out[o].spent
  <2>1. o \in Out /\ ~out[o].spent BY DEF Unspent, Tracked
  <2>2. out[o] \in TrackedOutput BY <2>1
  <2> QED BY <1>1, <2>1, <2>2 DEF TrackedOutput
<1>4. t # NoTx BY NamesAssumption
<1>5. \A o \in Out : v[o].recv = out[o].recv /\ (o \notin S => v[o] = out[o])
  BY <1>1, <1>3
<1>6. Clean(v) BY <1>3, <1>5 DEF Clean
<1>7. Known(v, ty) BY <1>5, OutFacts DEF Known
<1>8. Unspent(v) = Unspent(out) \ S BY <1>3, <1>5 DEF Unspent, Tracked
<1>9. Flagged(v) = Flagged(out) BY <1>3, <1>4, <1>5 DEF Flagged, SpentOuts, Tracked
<1> QED BY <1>6, <1>7, <1>8, <1>9 DEF v

LEMMA PaidSound ==
  ASSUME NEW ty \in [OwnTx -> Signed], NEW w, WalletTyped(w), Sound(w, ty),
         NEW S \in SUBSET Unspent(w.out), NEW t \in Txid, NEW v,
         v.out = MarkSpent(w.out, S, t), v.total = Minus(w.total, SumOf(S, ty)),
         v.rows \in [Txid -> Row]
  PROVE  Sound(v, ty)
<1>1. w.out \in [Out -> TrackedOutput] BY DEF WalletTyped
<1>2. /\ Clean(v.out) /\ Known(v.out, ty)
      /\ Unspent(v.out) = Unspent(w.out) \ S
      /\ Flagged(v.out) = Flagged(w.out)
  <2> DEFINE out == w.out
  <2>1. out \in [Out -> TrackedOutput] /\ Clean(out) /\ Known(out, ty)
        /\ S \in SUBSET Unspent(out) /\ v.out = MarkSpent(out, S, t)
    BY <1>1 DEF Sound
  <2> HIDE DEF out
  <2>2. /\ Clean(MarkSpent(out, S, t)) /\ Known(MarkSpent(out, S, t), ty)
        /\ Unspent(MarkSpent(out, S, t)) = Unspent(out) \ S
        /\ Flagged(MarkSpent(out, S, t)) = Flagged(out)
    BY <2>1, MarkedSets
  <2> QED BY <2>1, <2>2 DEF out
<1> DEFINE all == SumOf(Unspent(w.out), ty)
           part == SumOf(S, ty)
           rest == SumOf(Unspent(v.out), ty)
           flag == SumOf(Flagged(w.out), ty)
<1>3. all = part + rest BY <1>2, SetTypes, SumSplit
<1>4. part \in Nat /\ rest \in Nat /\ flag \in Nat
  <2>1. S \in SUBSET Out BY SetTypes
  <2> QED BY <2>1, SetTypes, SumType
<1>5. w.total \in Nat /\ all <= w.total /\ w.total <= all + flag
  BY DEF Sound, Balanced
<1>6. Balanced(v, ty)
  <2>1. v.total = Minus(w.total, part) BY DEF part
  <2>2. SumOf(Flagged(v.out), ty) = flag BY <1>2
  <2> HIDE DEF all, part, flag
  <2>3. v.total \in Nat /\ v.total = w.total - part
    BY <1>3, <1>4, <1>5, <2>1 DEF Minus
  <2> QED BY <1>3, <1>4, <1>5, <2>2, <2>3 DEF Balanced
<1> QED BY <1>2, <1>6 DEF Sound

LEMMA SpendInputsSound ==
  ASSUME tx \in [OwnTx -> Signed], NEW w, WalletTyped(w), Sound(w, tx), NEW t \in OwnTx,
         tx[t].ins \subseteq Unspent(w.out)
  PROVE  Sound(SpendInputs(w, t), tx)
<1> DEFINE v == SpendInputs(w, t)
<1>1. /\ v.out = MarkSpent(w.out, tx[t].ins, t)
      /\ v.total = Minus(w.total, SumOf(tx[t].ins, tx))
      /\ v.rows = w.rows
  BY DEF SpendInputs, WalletTyped
<1> HIDE DEF v
<1>2. Sound(v, tx) BY <1>1, PaidSound, OutFacts DEF Sound
<1> QED BY <1>2 DEF v

LEMMA RecordSound ==
  ASSUME NEW ty, NEW w, WalletTyped(w), Sound(w, ty), NEW t \in OwnTx, NEW row \in Row,
         NEW pend
  PROVE  Sound([w EXCEPT !.pend = pend, !.rows[t] = row], ty)
<1> DEFINE v == [w EXCEPT !.pend = pend, !.rows[t] = row]
<1>1. v.out = w.out /\ v.total = w.total /\ v.rows = [w.rows EXCEPT ![t] = row]
  BY DEF WalletTyped
<1> HIDE DEF v
<1>2. v.rows \in [Txid -> Row] BY <1>1, OutFacts DEF Sound
<1>3. Sound(v, ty) BY <1>1, <1>2 DEF Sound, Balanced
<1> QED BY <1>3 DEF v

LEMMA RecordedSound ==
  ASSUME tx \in [OwnTx -> Signed], NEW w, WalletOK(w), Sound(w, tx), NEW t \in OwnTx,
         tx[t].ins \subseteq Unspent(w.out)
  PROVE  Sound(Recorded(w, t), tx)
<1> DEFINE v == SpendInputs(w, t)
           row == PendingRow(tx[t])
           pend == v.pend \cup {t}
<1>1. WalletTyped(v) /\ Sound(v, tx)
  BY SpendInputsOK, SpendInputsSound DEF WalletOK
<1>2. row \in Row BY PendingRowType
<1>3. Recorded(w, t) = [v EXCEPT !.pend = pend, !.rows[t] = row]
  BY DEF Recorded
<1> HIDE DEF v, row, pend
<1>4. Sound([v EXCEPT !.pend = pend, !.rows[t] = row], tx) BY <1>1, <1>2, RecordSound
<1> QED BY <1>3, <1>4

LEMMA AppliedSound ==
  ASSUME tx \in [OwnTx -> Signed], NEW w, WalletOK(w), Sound(w, tx), NEW t \in OwnTx
  PROVE  Sound(Applied(w, t), tx)
<1> DEFINE S == NewlySpent(w, t)
           row == IF w.rows[t] = NoRow THEN PendingRow(tx[t]) ELSE w.rows[t]
           v == Applied(w, t)
<1>1. S \in SUBSET Unspent(w.out) BY DEF NewlySpent
<1>2. row \in Row BY PendingRowType, OutFacts DEF Sound
<1>3. /\ v.out = MarkSpent(w.out, S, t)
      /\ v.total = Minus(w.total, SumOf(S, tx))
      /\ v.rows = [w.rows EXCEPT ![t] = row]
  BY DEF Applied, WalletOK, WalletTyped
<1> HIDE DEF S, row, v
<1>4. v.rows \in [Txid -> Row] BY <1>2, <1>3 DEF Sound
<1>5. Sound(v, tx) BY <1>1, <1>3, <1>4, PaidSound, OutFacts DEF WalletOK
<1> QED BY <1>5 DEF v

(* Outputs marked spent by a double-spend answer move from unspent to      *)
(* flagged and leave the balance as it is.                                 *)
LEMMA SweptSound ==
  ASSUME tx \in [OwnTx -> Signed], NEW w, WalletTyped(w), Sound(w, tx), NEW S \in SUBSET Out
  PROVE  Sound(Swept(w, S), tx)
<1> DEFINE v == Swept(w, S)
           M == {o \in S : Status[o] = 1}
           X == M \cap Unspent(w.out)
<1>1. w.out \in [Out -> TrackedOutput] /\ Clean(w.out) /\ Known(w.out, tx)
  BY DEF WalletTyped, Sound
<1>2. /\ v.rows = w.rows /\ v.total = w.total
      /\ v.out = [o \in Out |-> IF o \in M THEN [w.out[o] EXCEPT !.spent = TRUE]
                                           ELSE w.out[o]]
  BY DEF Swept, WalletTyped
<1> HIDE DEF v, M
<1>3. ASSUME NEW o \in Out
      PROVE  /\ v.out[o].recv = w.out[o].recv /\ v.out[o].by = w.out[o].by
             /\ v.out[o].at = w.out[o].at
             /\ v.out[o].spent <=> (w.out[o].spent \/ o \in M)
  <2>1. w.out[o] \in TrackedOutput BY <1>1
  <2>2. CASE o \in M BY <1>2, <2>1, <2>2 DEF TrackedOutput
  <2>3. CASE o \notin M BY <1>2, <2>3
  <2> QED BY <2>2, <2>3
<1>4. Clean(v.out) /\ Known(v.out, tx)
  BY <1>1, <1>3, OutFacts DEF Clean, Known
<1>5. /\ Unspent(v.out) = Unspent(w.out) \ X
      /\ Flagged(v.out) = Flagged(w.out) \cup X
      /\ Flagged(v.out) \ Flagged(w.out) = X
  BY <1>1, <1>3 DEF Unspent, Flagged, SpentOuts, Tracked, Clean
<1> DEFINE all == SumOf(Unspent(w.out), tx)
           part == SumOf(X, tx)
           rest == SumOf(Unspent(v.out), tx)
           flag == SumOf(Flagged(w.out), tx)
           more == SumOf(Flagged(v.out), tx)
<1>6. all = part + rest
  <2>1. X \in SUBSET Unspent(w.out) OBVIOUS
  <2> HIDE DEF X
  <2> QED BY <1>5, <2>1, SetTypes, SumSplit
<1>7. more = flag + part
  <2>1. Flagged(w.out) \in SUBSET Flagged(v.out) BY <1>5
  <2> HIDE DEF X
  <2> QED BY <1>5, <2>1, SetTypes, SumSplit
<1>8. part \in Nat /\ rest \in Nat /\ flag \in Nat
  <2>1. X \in SUBSET Out BY SetTypes
  <2> HIDE DEF X
  <2> QED BY <2>1, SetTypes, SumType
<1>9. w.total \in Nat /\ all <= w.total /\ w.total <= all + flag
  BY DEF Sound, Balanced
<1>10. Balanced(v, tx)
  <2> HIDE DEF all, part, flag
  <2> QED BY <1>2, <1>6, <1>7, <1>8, <1>9 DEF Balanced
<1>11. Sound(v, tx) BY <1>2, <1>4, <1>10 DEF Sound
<1> QED BY <1>11 DEF v

(* Signing under a name that was free moves no amount of a wallet.         *)
LEMMA SignedSound ==
  ASSUME NEW ty \in [OwnTx -> Signed], NEW w, WalletTyped(w), Sound(w, ty),
         NEW t \in OwnTx, ty[t] = Unsigned, NEW p \in Signed
  PROVE  Sound(w, [ty EXCEPT ![t] = p])
<1> DEFINE tz == [ty EXCEPT ![t] = p]
<1>1. tz \in [OwnTx -> Signed] OBVIOUS
<1>2. w.out[t].recv = 0 BY DEF Sound, Known
<1>3. \A o \in Tracked(w.out) : AmountOf(o, ty) = AmountOf(o, tz)
  BY <1>2, OutFacts DEF Tracked, AmountOf, Out
<1> HIDE DEF tz
<1>4. SumOf(Unspent(w.out), ty) = SumOf(Unspent(w.out), tz)
  BY <1>3, SetTypes, SumType, SumOfSame DEF Unspent
<1>5. SumOf(Flagged(w.out), ty) = SumOf(Flagged(w.out), tz)
  BY <1>3, SetTypes, SumType, SumOfSame DEF Flagged, SpentOuts
<1>6. Balanced(w, tz) BY <1>4, <1>5 DEF Sound, Balanced
<1>7. Known(w.out, tz) BY <1>2 DEF Sound, Known, tz
<1>8. Sound(w, tz) BY <1>6, <1>7 DEF Sound
<1> QED BY <1>8 DEF tz

-----------------------------------------------------------------------------
(* Steps.                                                                  *)

LEMMA MoneyInit == Init => MoneyInv
<1> SUFFICES ASSUME Init PROVE MoneyInv
  OBVIOUS
<1> DEFINE out == [o \in Out |-> IF o \in Coin THEN [Untracked EXCEPT !.recv = 1]
                                               ELSE Untracked]
<1>1. 0 \in HeightOrNone /\ 1 \in HeightOrNone /\ 2 \in HeightOrNone
  BY StartAssumption, BoundsAssumption DEF HeightOrNone
<1>2. out \in [Out -> TrackedOutput]
  BY <1>1 DEF Untracked, TrackedOutput
<1>3. Clean(out) BY DEF Clean, Untracked
<1>4. Known(out, tx)
  <2>1. \A t \in OwnTx : out[t] = Untracked BY NamesAssumption, OutFacts
  <2> HIDE DEF out
  <2> QED BY <2>1 DEF Known, Untracked
<1>5. tx \in [OwnTx -> Signed] BY DEF Init, Unsigned, Signed
<1> HIDE DEF out
<1>6. WalletTyped(EmptyWallet) BY EmptyWalletOK DEF WalletOK
<1>7. Sound(Rebuilt(EmptyWallet, out, 2), tx)
  BY <1>2, <1>3, <1>4, <1>5, <1>6, RebuiltSound
<1>8. wallet = Rebuilt(EmptyWallet, out, 2) BY DEF Init, out
<1> QED BY <1>5, <1>7, <1>8 DEF Init, MoneyInv, Idle

(* What MoneyInv and Inv give to every step.                               *)
LEMMA Money ==
  ASSUME Inv, MoneyInv
  PROVE  /\ tx \in [OwnTx -> Signed] /\ Sound(wallet, tx) /\ \A w \in blob : Sound(w, tx)
         /\ NetTyped /\ WalletOK(wallet) /\ WalletTyped(wallet) /\ call \in Call
         /\ wallet.out \in [Out -> TrackedOutput]
BY Standing DEF MoneyInv, WalletOK, WalletTyped

(* A step that signs nothing.                                              *)
LEMMA MoneyMoves ==
  ASSUME Inv, MoneyInv, UNCHANGED <<tx, blob>>, Sound(wallet', tx), call'.pc # "broadcast"
  PROVE  MoneyInv'
BY DEF MoneyInv

(* A step that changes neither wallet nor transactions.                    *)
LEMMA MoneyRests ==
  ASSUME Inv, MoneyInv, UNCHANGED <<tx, blob, wallet>>,
         call'.pc = "broadcast" => call' = call
  PROVE  MoneyInv'
BY DEF MoneyInv

(* Quarantine.                                                             *)
LEMMA QuarantineSound ==
  ASSUME NEW w, WalletTyped(w), NEW ty, Sound(w, ty), NEW quar
  PROVE  Sound([w EXCEPT !.quar = quar], ty)
<1> DEFINE v == [w EXCEPT !.quar = quar]
<1>1. v.out = w.out /\ v.rows = w.rows /\ v.total = w.total BY DEF WalletTyped
<1> HIDE DEF v
<1>2. Sound(v, ty) BY <1>1, SameSound
<1> QED BY <1>2 DEF v

LEMMA RefreshMoney ==
  ASSUME Inv, MoneyInv, NEW u \in Height, NEW named \in BOOLEAN, NEW answered \in BOOLEAN,
         Refresh(u, named, answered)
  PROVE  MoneyInv'
<1> DEFINE out == Scanned(Base(wallet), Unscanned(wallet) - 1, u, named)
           v   == Checkpoint(wallet, out, u)
           first == [v EXCEPT !.seen = net.fork]
           last == Again(first, out, u)
<1>0. /\ NetTyped /\ WalletTyped(wallet) /\ u \in HeightOrNone /\ net.fork \in HeightOrNone
      /\ wallet.out \in [Out -> TrackedOutput] /\ tx \in [OwnTx -> Signed]
      /\ Clean(wallet.out) /\ Known(wallet.out, tx)
  BY Money, OutFacts DEF NetTyped, Sound
<1>1. /\ Base(wallet) \in [Out -> TrackedOutput]
      /\ Clean(Base(wallet)) /\ Known(Base(wallet), tx)
  BY <1>0, RewoundType, RewoundSound DEF Base
<1>2. out \in [Out -> TrackedOutput] /\ Clean(out) /\ Known(out, tx)
  BY <1>0, <1>1, ScannedType, ScannedSound
<1> HIDE DEF out
<1>3. WalletOK(v) /\ Sound(v, tx) BY <1>0, <1>2, CheckpointOK, CheckpointSound
<1> HIDE DEF v
<1>4. /\ first.rows = v.rows /\ first.total = v.total /\ first.out = v.out
      /\ first.pend = v.pend
  BY <1>3 DEF WalletOK, WalletTyped
<1>5. WalletTyped(first) BY <1>0, <1>3, <1>4 DEF WalletOK, WalletTyped
<1> HIDE DEF first
<1>6. Sound(first, tx) BY <1>3, <1>4, SameSound
<1>7. WalletOK(Checkpoint(first, out, u)) /\ Sound(Checkpoint(first, out, u), tx)
  BY <1>0, <1>2, <1>5, CheckpointOK, CheckpointSound
<1>8. WalletTyped(last) /\ Sound(last, tx) BY <1>5, <1>6, <1>7 DEF Again, WalletOK
<1> HIDE DEF last
<1>9. Sound(Revalidate(last), tx) BY <1>8, QuarantineSound DEF Revalidate
<1>10. wallet' = IF u = net.height /\ answered THEN Revalidate(last) ELSE last
  BY DEF Refresh, out, v, first, last
<1>11. Sound(wallet', tx) BY <1>8, <1>9, <1>10
<1> QED BY <1>11, MoneyMoves DEF Refresh, host

LEMMA HostMoney == ASSUME Inv, MoneyInv, HostCall PROVE MoneyInv'
<1>1. ASSUME NEW prep \in BOOLEAN, NEW kind, NEW only, Begin(kind, prep, only)
      PROVE  MoneyInv'
  <2>1. call'.pc = "preflight" BY <1>1 DEF Begin, Idle
  <2> QED BY <1>1, <2>1, MoneyRests DEF Begin, host
<1>2. ASSUME NEW answered \in BOOLEAN, Previews(answered) PROVE MoneyInv'
  <2>1. Sound(wallet', tx) BY <1>2, Money, QuarantineSound DEF Previews, QuarantineTo
  <2> QED BY <1>2, <2>1, MoneyMoves DEF Previews, host
<1>3. ASSUME NEW t \in OwnTx, RelayKnown(t) \/ RelayAccepted(t) PROVE MoneyInv'
  <2>1. Sound(wallet', tx) BY <1>3, Money, AppliedSound DEF RelayKnown, RelayAccepted, Applies
  <2> QED BY <1>3, <2>1, MoneyMoves DEF RelayKnown, RelayAccepted, host
<1>4. ASSUME NEW t \in OwnTx, RelayUnanswered(t) PROVE MoneyInv'
  BY <1>4, MoneyRests DEF RelayUnanswered, host
<1>5. ASSUME NEW h \in Height, RewindCursor(h) PROVE MoneyInv'
  <2> DEFINE v == Rebuilt(wallet, RewoundTo(h, wallet.out), h - 1)
  <2>1. Clean(wallet.out) /\ Known(wallet.out, tx) BY Money DEF Sound
  <2>2. /\ RewoundTo(h, wallet.out) \in [Out -> TrackedOutput]
        /\ Clean(RewoundTo(h, wallet.out)) /\ Known(RewoundTo(h, wallet.out), tx)
    BY <2>1, Money, RewoundType, RewoundSound
  <2>3. h - 1 \in HeightOrNone BY BoundsAssumption DEF Height, HeightOrNone
  <2>4. WalletTyped(v) /\ Sound(v, tx)
    BY <2>2, <2>3, Money, RebuiltOK, RebuiltSound DEF WalletOK
  <2>5. wallet' = [v EXCEPT !.quar = {}] BY <1>5 DEF RewindCursor
  <2> HIDE DEF v
  <2>6. Sound(wallet', tx) BY <2>4, <2>5, QuarantineSound
  <2> QED BY <1>5, <2>6, MoneyMoves DEF RewindCursor, host
<1>6. ASSUME ForceRescan PROVE MoneyInv'
  BY <1>6, EmptySound, MoneyMoves DEF ForceRescan, host
<1>7. ASSUME Export PROVE MoneyInv'
  BY <1>7 DEF Export, MoneyInv
<1>8. ASSUME Restart PROVE MoneyInv'
  <2>1. blob # {} => (CHOOSE w \in blob : TRUE) \in blob OBVIOUS
  <2>2. Sound(wallet', tx) BY <1>8, <2>1, Money, EmptySound DEF Restart
  <2> QED BY <1>8, <2>2, MoneyMoves, IdleCall DEF Restart, host
<1> QED
  BY <1>1, <1>2, <1>3, <1>4, <1>5, <1>6, <1>7, <1>8, RefreshMoney
  DEF HostCall, SendBegins, FilterBegins, SweepBegins

(* There is one selection at most.                                         *)
LEMMA OneSelection ==
  ASSUME NEW avail, NEW S \in Selections(avail, Pay, tx)
  PROVE  Selections(avail, Pay, tx) = {S}
<1>1. \A R \in Selections(avail, Pay, tx) : R \subseteq S /\ S \subseteq R
  BY DEF Selections
<1> QED BY <1>1

LEMMA ChosenTaken ==
  ASSUME NEW answered \in BOOLEAN, Compares, CanPay(answered)
  PROVE  /\ Selections(Available(answered), Pay, tx) = {Chosen(answered)}
         /\ Chosen(answered) \in Covering(Available(answered), Pay, tx)
         /\ Chosen(answered) \in Taken(Available(answered), tx)
<1> DEFINE sel == Selections(Available(answered), Pay, tx)
<1>1. PICK S \in sel : TRUE BY DEF CanPay
<1>2. sel = {S} BY <1>1, OneSelection
<1>3. Chosen(answered) = UNION sel BY DEF Chosen
<1>4. sel \subseteq Covering(Available(answered), Pay, tx) BY DEF Selections
<1>5. Covering(Available(answered), Pay, tx) \subseteq Taken(Available(answered), tx)
  BY DEF Covering
<1> HIDE DEF sel
<1>6. Chosen(answered) = S BY <1>2, <1>3
<1>7. sel = {Chosen(answered)} BY <1>2, <1>6
<1> QED BY <1>1, <1>4, <1>5, <1>6, <1>7 DEF sel

(* What is signed pays out of outputs that were unspent and on offer.      *)
LEMMA OfferedInputs ==
  ASSUME Inv, NEW answered \in BOOLEAN, CanPay(answered)
  PROVE  /\ Chosen(answered) \in SUBSET Unspent(wallet.out)
         /\ Chosen(answered) \in SUBSET Out
         /\ Chosen(answered) # {}
<1> DEFINE S == Chosen(answered)
           avail == Available(answered)
<1>1. S \subseteq avail /\ avail \subseteq Asked BY ChosenOffered
<1>2. Asked \subseteq Unspent(wallet.out) BY DEF Asked, Unlocked
<1>3. S # {}
  <2>1. CASE Compares
    <3>1. S \in Taken(avail, tx) BY <2>1, ChosenTaken
    <3> HIDE DEF S, avail
    <3> QED BY <3>1 DEF Taken
  <2>2. CASE ~Compares
    <3>1. Sweepable(S, tx) BY <2>2 DEF CanPay
    <3> HIDE DEF S
    <3> QED BY <3>1 DEF Sweepable
  <2> QED BY <2>1, <2>2
<1> HIDE DEF S, avail
<1>4. S \in SUBSET Unspent(wallet.out) /\ S \in SUBSET Out BY <1>1, <1>2, SetTypes
<1> QED BY <1>3, <1>4 DEF S

(* Signing under a free name, and an answer to the preflight.              *)
LEMMA SigningMoney ==
  ASSUME Inv, MoneyInv, NEW t \in Fresh, NEW p \in Signed, tx' = [tx EXCEPT ![t] = p],
         UNCHANGED blob, wallet'.out = wallet.out, wallet'.rows = wallet.rows,
         wallet'.total = wallet.total,
         call'.pc = "broadcast" => call'.tx = t /\ p.ins \subseteq Unspent(wallet.out)
  PROVE  MoneyInv'
<1>1. t \in OwnTx /\ tx[t] = Unsigned /\ tx \in [OwnTx -> Signed]
  BY Money DEF Fresh
<1>2. tx' \in [OwnTx -> Signed] /\ tx'[t] = p BY <1>1
<1>3. Sound(wallet, tx') BY <1>1, Money, SignedSound
<1>4. Sound(wallet', tx') BY <1>3, SameSound
<1>5. ASSUME NEW w \in blob PROVE Sound(w, tx')
  <2>1. WalletTyped(w) /\ Sound(w, tx) BY <1>5, Money DEF Inv, Typed
  <2> QED BY <1>1, <2>1, SignedSound
<1> QED BY <1>2, <1>4, <1>5 DEF MoneyInv

LEMMA SignsMoney ==
  ASSUME Inv, MoneyInv, NEW answered \in BOOLEAN, Signs(answered)
  PROVE  MoneyInv'
<1> DEFINE S == Chosen(answered)
           t == CHOOSE u \in Fresh : TRUE
<1>1. t \in Fresh /\ UNCHANGED blob BY DEF Signs
<1>2. S \in SUBSET Unspent(wallet.out) /\ S \in SUBSET Out /\ S # {}
  BY OfferedInputs DEF Signs
<1>3. PICK p : p \in {Payment(S, Pay, tx), SweepPayment(S, tx)} /\ Emits(t, p, answered)
  BY DEF Signs, SendSigns, FilterSigns, SweepSigns
<1>4. QuarantineTo(Quarantine(answered) \cup Mismatching(answered)) BY DEF Signs
<1> HIDE DEF S, t
<1>5. p \in Signed /\ p.ins = S
  BY <1>2, <1>3, Money, PaymentType, SweepPaymentType DEF Payment, SweepPayment
<1>6. /\ wallet'.out = wallet.out /\ wallet'.rows = wallet.rows
      /\ wallet'.total = wallet.total
  BY <1>4, Money DEF QuarantineTo, WalletTyped
<1>7. call'.pc = "broadcast" => call'.tx = t
  BY <1>3, Money, IdleCall DEF Emits, Call
<1> QED BY <1>1, <1>2, <1>3, <1>5, <1>6, <1>7, SigningMoney DEF Emits

LEMMA ProbeAcceptedMoney == ASSUME Inv, MoneyInv, ProbeAccepted PROVE MoneyInv'
<1>1. PICK t \in Fresh : /\ tx' = [tx EXCEPT ![t] = Payment(Subset, Pay, tx)]
                         /\ call' = [call EXCEPT !.lo = Mid, !.sent = call.sent \cup {t}]
  BY DEF ProbeAccepted
<1>2. Subset \in SUBSET Out /\ Subset # {}
  BY SubsetType DEF ProbeAccepted, Affordable
<1>3. Payment(Subset, Pay, tx) \in Signed BY <1>2, Money, PaymentType
<1>4. call'.pc = "bisect" BY <1>1, Money DEF ProbeAccepted, Call
<1> QED BY <1>1, <1>3, <1>4, SigningMoney DEF ProbeAccepted, host

LEMMA CallMoney == ASSUME Inv, MoneyInv, CallStep PROVE MoneyInv'
<1>1. ASSUME SendFails \/ FilterFails \/ SweepFails PROVE MoneyInv'
  BY <1>1, MoneyRests, IdleCall DEF SendFails, FilterFails, SweepFails, Fails, host
<1>2. ASSUME NEW answered \in BOOLEAN,
             \/ Insufficient(answered)
             \/ SendBreaksOff(answered) \/ FilterBreaksOff(answered) \/ SweepBreaksOff(answered)
      PROVE  MoneyInv'
  <2>1. /\ QuarantineTo(Quarantine(answered)) /\ call' = Idle
        /\ UNCHANGED <<net, tx, host, events>>
    BY <1>2
    DEF Insufficient, SendBreaksOff, FilterBreaksOff, SweepBreaksOff, BreaksOff
  <2>2. Sound(wallet', tx) BY <2>1, Money, QuarantineSound DEF QuarantineTo
  <2> QED BY <2>1, <2>2, MoneyMoves, IdleCall DEF host
<1>3. ASSUME NEW answered \in BOOLEAN, MismatchFound(answered) PROVE MoneyInv'
  <2>1. PICK o \in Mismatching(answered) :
             /\ QuarantineTo(Quarantine(answered) \cup {o})
             /\ SendMismatch(o, answered) \/ FilterMismatch
    BY <1>3 DEF MismatchFound
  <2>2. Sound(wallet', tx) BY <2>1, Money, QuarantineSound DEF QuarantineTo
  <2>3. call'.pc # "broadcast"
    BY <1>3, <2>1, Money, IdleCall DEF SendMismatch, FilterMismatch, MismatchFound, Call
  <2> QED BY <1>3, <2>2, <2>3, MoneyMoves DEF MismatchFound, host
<1>4. ASSUME BroadcastAccepted PROVE MoneyInv'
  <2>1. call.tx \in OwnTx /\ tx[call.tx].ins \subseteq Unspent(wallet.out)
    BY <1>4, Standing DEF BroadcastAccepted, CallInv, MoneyInv
  <2>2. Sound(wallet', tx)
    BY <1>4, <2>1, Money, RecordedSound, SpendInputsSound
    DEF BroadcastAccepted, SendRecords, SweepRecords, FilterRecords
  <2> QED BY <1>4, <2>2, MoneyMoves, IdleCall DEF BroadcastAccepted, host
<1>5. ASSUME BroadcastUnanswered PROVE MoneyInv'
  BY <1>5, MoneyRests, IdleCall DEF BroadcastUnanswered, AfterError, host
<1>6. ASSUME NEW answered \in BOOLEAN, NEW err, BroadcastRefused(err, answered)
      PROVE  MoneyInv'
  <2>1. call.tx \in OwnTx /\ tx[call.tx].ins \in SUBSET Out
    BY <1>6, Standing DEF BroadcastRefused, CallInv, TxTyped
  <2>2. Sound(wallet', tx)
    <3>1. CASE UNCHANGED wallet BY <3>1, Money
    <3>2. CASE SendRefused(err, answered)
      <4> DEFINE S == IF err = "double" THEN Shown(tx[call.tx].ins, answered) ELSE {}
      <4>1. S \in SUBSET Out BY <2>1, ShownType
      <4>2. wallet' = Swept(wallet, S) BY <3>2 DEF SendRefused
      <4> HIDE DEF S
      <4> QED BY <4>1, <4>2, Money, SweptSound
    <3> QED BY <1>6, <3>1, <3>2 DEF BroadcastRefused, FilterRefused, SweepRefused
  <2>3. call'.pc # "broadcast"
    <3>1. call' = Idle \/ \E kicked : call' = Hunt(kicked)
      BY <1>6 DEF BroadcastRefused, SendRefused, FilterRefused, SweepRefused
    <3> QED BY <3>1, Money, IdleCall DEF Hunt, Call
  <2> QED BY <1>6, <2>2, <2>3, MoneyMoves DEF BroadcastRefused, host
<1>7. ASSUME NEW answered \in BOOLEAN, NEW err, ProbeRefused(err, answered)
      PROVE  MoneyInv'
  <2>1. call.pc = "bisect" /\ Subset \in SUBSET Out BY <1>7, SubsetType DEF ProbeRefused
  <2>2. Sound(wallet', tx)
    <3>1. CASE UNCHANGED wallet BY <3>1, Money
    <3>2. CASE SendProbeRefused(err, answered)
      <4> DEFINE S == IF err = "double" THEN Shown(Subset, answered) ELSE {}
      <4>1. S \in SUBSET Out BY <2>1, ShownType
      <4>2. wallet' = Swept(wallet, S) BY <3>2 DEF SendProbeRefused
      <4> HIDE DEF S
      <4> QED BY <4>1, <4>2, Money, SweptSound
    <3> QED BY <1>7, <3>1, <3>2 DEF ProbeRefused, FilterProbeRefused
  <2>3. call'.pc = "bisect"
    BY <1>7, <2>1, Money DEF ProbeRefused, SendProbeRefused, FilterProbeRefused, Call
  <2> QED BY <1>7, <2>2, <2>3, MoneyMoves DEF ProbeRefused, host
<1>8. ASSUME ProbePassed PROVE MoneyInv'
  <2>1. call'.pc = "bisect" BY <1>8, Money DEF ProbePassed, Call
  <2> QED BY <1>8, <2>1, MoneyRests DEF ProbePassed, host
<1>9. ASSUME NEW answered \in BOOLEAN, BisectEnds(answered) PROVE MoneyInv'
  <2>1. \E q : QuarantineTo(q) BY <1>9 DEF BisectEnds
  <2>2. Sound(wallet', tx) BY <2>1, Money, QuarantineSound DEF QuarantineTo
  <2>3. call'.pc # "broadcast" BY <1>9, Money, IdleCall DEF BisectEnds, Call
  <2> QED BY <1>9, <2>2, <2>3, MoneyMoves DEF BisectEnds, host
<1> QED
  BY <1>1, <1>2, <1>3, <1>4, <1>5, <1>6, <1>7, <1>8, <1>9, SignsMoney, ProbeAcceptedMoney
  DEF CallStep

LEMMA NetworkMoney == ASSUME Inv, MoneyInv, Network PROVE MoneyInv'
BY DEF Network, ForeignSpend, Mine, PoolDrop, Reorg, Unspendable, MoneyInv, host

LEMMA MoneyStep == Inv /\ MoneyInv /\ [Next]_vars => MoneyInv'
<1>1. UNCHANGED vars /\ MoneyInv => MoneyInv' BY DEF vars, host, MoneyInv
<1> QED BY <1>1, NetworkMoney, CallMoney, HostMoney DEF Next

-----------------------------------------------------------------------------
(* The theorems.                                                           *)

LEMMA MoneyInvariance == Spec => [](Inv /\ MoneyInv)
<1>1. Init => Inv /\ MoneyInv BY InvInit, MoneyInit
<1>2. Inv /\ MoneyInv /\ [Next]_vars => (Inv /\ MoneyInv)' BY InvStep, MoneyStep
<1> QED BY <1>1, <1>2, PTL DEF Spec

(* Every amount is one: balance, rows and signed transactions never leave  *)
(* their types, however sends, sweeps, relays, refreshes, rewinds and      *)
(* restored blobs follow each other.                                       *)
THEOREM TypeOKHolds == Spec => []TypeOK
<1>1. Inv /\ MoneyInv => TypeOK
  <2>1. ASSUME NEW w, WalletTyped(w), Sound(w, tx) PROVE w \in Wallet
    BY <2>1 DEF WalletTyped, Sound, Balanced, Wallet
  <2> QED BY <2>1 DEF Inv, Typed, NetTyped, MoneyInv, TypeOK
<1> QED BY <1>1, MoneyInvariance, PTL

(* The stored balance is that of the unspent outputs, up to those a        *)
(* double-spend answer marked before a block did, and what is offered for  *)
(* spending never exceeds it.                                              *)
THEOREM BalanceMatchesOutputsHolds == Spec => []BalanceMatchesOutputs
<1>1. Inv /\ MoneyInv => BalanceMatchesOutputs
  <2> SUFFICES ASSUME Inv, MoneyInv PROVE BalanceMatchesOutputs
    OBVIOUS
  <2> DEFINE out == wallet.out
             all == SumOf(Unspent(out), tx)
             flag == SumOf(Flagged(out), tx)
  <2>1. /\ wallet.total \in Nat /\ all <= wallet.total /\ wallet.total <= all + flag
        /\ tx \in [OwnTx -> Signed]
    BY Money DEF Sound, Balanced
  <2>2. all \in Nat /\ flag \in Nat BY <2>1, SetTypes, SumType
  <2>3. wallet.total \in all .. (all + flag)
    <3> HIDE DEF all, flag
    <3> QED BY <2>1, <2>2
  <2>4. ASSUME NEW h \in Height
        PROVE  UnlockedBalance(out, wallet.quar, tx, h) <= wallet.total
    <3> DEFINE S == Unlocked(out, h) \ wallet.quar
               part == SumOf(S, tx)
    <3>1. S \in SUBSET Unspent(out) /\ S \in SUBSET Out BY SetTypes DEF Unlocked
    <3>2. Unspent(out) \ S \in SUBSET Out BY SetTypes
    <3>3. all = part + SumOf(Unspent(out) \ S, tx) BY <2>1, <3>1, SetTypes, SumSplit
    <3>4. part \in Nat /\ SumOf(Unspent(out) \ S, tx) \in Nat
      BY <2>1, <3>1, <3>2, SumType
    <3>5. UnlockedBalance(out, wallet.quar, tx, h) = part BY DEF UnlockedBalance
    <3> HIDE DEF all, part, S
    <3> QED BY <2>1, <3>3, <3>4, <3>5
  <2> QED BY <2>3, <2>4 DEF BalanceMatchesOutputs, UnspentSum, Flagged
<1> QED BY <1>1, MoneyInvariance, PTL

(* A payload relayed again takes nothing and rewrites nothing.             *)
THEOREM RelayIdempotentHolds == Spec => RelayIdempotent
<1>1. ASSUME Inv, MoneyInv, NEW t \in OwnTx, RelaysAgain(t)
      PROVE  /\ wallet'.total = wallet.total
             /\ wallet.rows[t] # NoRow => wallet'.rows = wallet.rows
  <2>1. wallet' = Applied(wallet, t)
    BY <1>1 DEF RelaysAgain, Relays, RelayKnown, RelayAccepted, Applies
  <2>2. NewlySpent(wallet, t) = {}
    BY <1>1 DEF RelaysAgain, NewlySpent, SpentOuts, Unspent
  <2>3. /\ wallet'.total = Minus(wallet.total, 0)
        /\ wallet'.rows = [wallet.rows EXCEPT ![t] = IF wallet.rows[t] = NoRow
                                                     THEN PendingRow(tx[t])
                                                     ELSE wallet.rows[t]]
    BY <1>1, <2>1, <2>2, Money, SumOfNone DEF Applied, WalletTyped
  <2>4. wallet.total \in Nat /\ wallet.rows \in [Txid -> Row]
    BY <1>1, Money DEF Sound, Balanced
  <2>5. Minus(wallet.total, 0) = wallet.total BY <2>4 DEF Minus
  <2> QED BY <2>3, <2>4, <2>5
<1>2. Inv /\ MoneyInv /\ [Next]_vars =>
        [\A t \in OwnTx : RelaysAgain(t) =>
           /\ wallet'.total = wallet.total
           /\ wallet.rows[t] # NoRow => wallet'.rows = wallet.rows]_vars
  BY <1>1
<1> QED BY <1>2, MoneyInvariance, PTL DEF Spec, RelayIdempotent
=============================================================================
