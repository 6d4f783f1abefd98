------------------------- MODULE SpendReportsProofs -------------------------
(***************************************************************************)
(* What the wallet tells its user: the amount a payment delivers, the      *)
(* history it shows of payments that are in the chain, and its quotes.     *)
(***************************************************************************)
EXTENDS SpendBalanceProofs, SpendQuotes

-----------------------------------------------------------------------------
(* What the recipient gets.                                                *)

(* What a search knows after i attempts: all its guesses were below the    *)
(* fee; or the last one was the first above it; or it pays the rest.       *)
SearchKnows(sum, fee, i, s) ==
  /\ s \in SearchState
  /\ \/ ~s.found /\ ~s.done /\ s.guess = i * FeeStep /\ (i # 0 => (i - 1) * FeeStep < fee)
     \/ /\ s.found /\ ~s.done /\ s.guess = fee
        /\ i >= 2 /\ (i - 2) * FeeStep < fee /\ fee < (i - 1) * FeeStep
     \/ s.found /\ s.guess = fee /\ s.paid = sum - fee

LEMMA TriedKnows ==
  ASSUME NEW sum \in Nat, NEW fee \in Nat, fee < sum, NEW i \in Nat, NEW s,
         SearchKnows(sum, fee, i, s)
  PROVE  SearchKnows(sum, fee, i + 1, Tried(sum, fee, s))
<1> DEFINE amount == Minus(sum, s.guess)
           r == Tried(sum, fee, s)
<1>1. s \in SearchState /\ FeeStep \in Nat BY AmountsAssumption DEF SearchKnows
<1>2. amount \in Nat /\ amount = IF sum > s.guess THEN sum - s.guess ELSE 0
  BY <1>1 DEF Minus, SearchState
<1>3. /\ s.done => r = s
      /\ ~s.done /\ sum < amount + fee => r = [s EXCEPT !.guess = s.guess + FeeStep]
      /\ ~s.done /\ ~(sum < amount + fee)
           => r = [guess |-> fee, paid |-> amount, found |-> TRUE, done |-> fee = s.guess]
  BY DEF Tried
<1>4. r \in SearchState BY <1>1, <1>2, AmountsAssumption DEF Tried, SearchState
<1>5. /\ (i + 1) * FeeStep = i * FeeStep + FeeStep
      /\ (i + 1) - 1 = i /\ (i + 1) - 2 = i - 1 /\ i * FeeStep \in Nat
  BY <1>1
<1> HIDE DEF amount, r
<1>6. CASE ~s.found /\ ~s.done /\ s.guess = i * FeeStep /\ (i # 0 => (i - 1) * FeeStep < fee)
  <2>1. CASE sum < amount + fee
    <3>1. r.guess = (i + 1) * FeeStep /\ ~r.found /\ ~r.done
      BY <1>1, <1>3, <1>5, <1>6, <2>1 DEF SearchState
    <3>2. i * FeeStep < fee BY <1>2, <1>5, <1>6, <2>1
    <3> QED BY <1>4, <1>5, <3>1, <3>2 DEF SearchKnows, r
  <2>2. CASE ~(sum < amount + fee)
    <3>1. r.found /\ r.guess = fee /\ r.paid = amount /\ r.done = (fee = s.guess)
      BY <1>3, <1>6, <2>2
    <3>2. fee <= i * FeeStep BY <1>2, <1>5, <1>6, <2>2
    <3>3. CASE fee = i * FeeStep
      <4>1. r.paid = sum - fee BY <1>2, <1>6, <3>1, <3>3
      <4> QED BY <1>4, <3>1, <4>1 DEF SearchKnows, r
    <3>4. CASE fee # i * FeeStep
      <4>1. i # 0 BY <1>5, <3>2, <3>4, <1>1
      <4>2. (i - 1) * FeeStep < fee /\ fee < i * FeeStep /\ i + 1 >= 2
        BY <1>5, <1>6, <3>2, <3>4, <4>1
      <4>3. ~r.done BY <1>6, <3>1, <3>4
      <4> QED BY <1>4, <1>5, <3>1, <4>2, <4>3 DEF SearchKnows, r
    <3> QED BY <3>3, <3>4
  <2> QED BY <2>1, <2>2
<1>7. CASE s.found /\ s.guess = fee
  <2>1. amount = sum - fee BY <1>2, <1>7
  <2>2. r.found /\ r.guess = fee /\ (s.done => r = s) /\ (~s.done => r.paid = sum - fee)
    BY <1>3, <1>7, <2>1
  <2>3. r.paid = sum - fee BY <2>2, <1>7 DEF SearchKnows
  <2> QED BY <1>4, <2>2, <2>3 DEF SearchKnows, r
<1> QED BY <1>6, <1>7 DEF SearchKnows

(* The one range of fees in which the last attempt is the first that can   *)
(* be signed, and guesses too much.                                        *)
Settles(fee) ==
  ~((SweepIterations - 2) * FeeStep < fee /\ fee < (SweepIterations - 1) * FeeStep)

LEMMA SearchEnds ==
  ASSUME NEW sum \in Nat, NEW fee \in Nat, fee < sum
  PROVE  SearchKnows(sum, fee, SweepIterations, SweepSearch(sum, fee))
<1> DEFINE g == CHOOSE f : Searches(f, sum, fee, SweepIterations)
           X == {i \in 0 .. SweepIterations : ~SearchKnows(sum, fee, i, g[i])}
<1>1. SweepIterations \in Nat BY DEF SweepIterations
<1>2. Searches(g, sum, fee, SweepIterations) BY <1>1, SearchExists
<1>3. SweepSearch(sum, fee) = g[SweepIterations] BY SearchFcn
<1> HIDE DEF g
<1>4. SUFFICES ASSUME X # {} PROVE FALSE
  BY <1>1, <1>3
<1>5. PICK i \in X : \A k \in X : i <= k
  <2>1. X \in SUBSET Nat BY <1>1
  <2> HIDE DEF X
  <2> QED BY <1>4, <2>1, LeastNat
<1>6. i \in 0 .. SweepIterations /\ ~SearchKnows(sum, fee, i, g[i]) BY <1>5
<1>7. CASE i = 0
  BY <1>1, <1>2, <1>6, <1>7, AmountsAssumption DEF Searches, SearchKnows, SearchState
<1>8. CASE i # 0
  <2>1. i - 1 \in Nat /\ i - 1 \in 0 .. SweepIterations /\ (i - 1) + 1 = i BY <1>1, <1>6, <1>8
  <2>2. SearchKnows(sum, fee, i - 1, g[i - 1]) BY <1>1, <1>5, <2>1
  <2>3. g[i] = Tried(sum, fee, g[i - 1]) BY <1>1, <1>2, <1>6, <1>8 DEF Searches
  <2>4. SearchKnows(sum, fee, (i - 1) + 1, Tried(sum, fee, g[i - 1]))
    BY <2>1, <2>2, TriedKnows
  <2> QED BY <1>6, <2>1, <2>3, <2>4
<1> QED BY <1>7, <1>8

(* Otherwise a search that finds a transaction ends with one that pays the *)
(* sum less the fee.                                                       *)
LEMMA SearchPays ==
  ASSUME NEW sum \in Nat, NEW fee \in Nat, fee < sum, Settles(fee),
         SweepSearch(sum, fee).found
  PROVE  SweepSearch(sum, fee).paid = sum - fee
BY SearchEnds DEF SearchKnows, Settles, SweepIterations

Even(ty) == \A t \in OwnTx : SumOf(ty[t].ins, ty) = ty[t].pay + ty[t].fee + ty[t].chg

(* A transaction spends the change of signed ones, so that signing one     *)
(* leaves the inputs of the others worth what they were.                   *)
Grounded(ty) == \A t \in OwnTx : \A u \in ty[t].ins \cap OwnTx : ty[u] # Unsigned

(* No fee lies between the last two guesses of a sweep.                    *)
FeesSettle == \A n \in 1 .. Cardinality(Out) : Settles(NecessaryFee[n])

LEMMA SignedEven ==
  ASSUME NEW ty \in [OwnTx -> Signed], Even(ty), Grounded(ty),
         NEW t \in OwnTx, ty[t] = Unsigned, NEW p \in Signed,
         SumOf(p.ins, ty) = p.pay + p.fee + p.chg,
         \A u \in p.ins \cap OwnTx : ty[u] # Unsigned
  PROVE  Even([ty EXCEPT ![t] = p]) /\ Grounded([ty EXCEPT ![t] = p])
<1> DEFINE tz == [ty EXCEPT ![t] = p]
<1>1. tz[t] = p /\ \A u \in OwnTx : u # t => tz[u] = ty[u] OBVIOUS
<1>2. \A u \in OwnTx : tz[u] \in Signed /\ tz[u].ins \in SUBSET Out
  BY <1>1 DEF Signed
<1> HIDE DEF tz
<1>3. ASSUME NEW u \in OwnTx PROVE t \notin tz[u].ins
  BY <1>1, <1>3 DEF Grounded
<1>4. ASSUME NEW u \in OwnTx
      PROVE  SumOf(tz[u].ins, tz) = tz[u].pay + tz[u].fee + tz[u].chg
  <2> DEFINE S == tz[u].ins
  <2>1. IsFiniteSet(S) /\ t \notin S /\ S \in SUBSET Out BY <1>2, <1>3, SumType
  <2>2. \A o \in S : AmountOf(o, ty) = AmountOf(o, tz)
    <3> HIDE DEF S
    <3> QED BY <1>1, <2>1 DEF AmountOf, Out
  <2> HIDE DEF S
  <2>3. SumOf(S, ty) = SumOf(S, tz) BY <2>1, <2>2, SumOfSame
  <2> QED BY <1>1, <2>3 DEF S, Even
<1>5. ASSUME NEW u \in OwnTx, NEW v \in tz[u].ins \cap OwnTx PROVE tz[v] # Unsigned
  <2>1. v # t BY <1>3
  <2>2. ty[v] # Unsigned BY <1>1 DEF Grounded
  <2> QED BY <1>1, <2>1, <2>2
<1>6. Even(tz) BY <1>4 DEF Even
<1>7. Grounded(tz) BY <1>5 DEF Grounded
<1> QED BY <1>6, <1>7 DEF tz

LEMMA PaymentEven ==
  ASSUME NEW ty \in [OwnTx -> Signed], NEW S \in SUBSET Out, S # {},
         SumOf(S, ty) >= Pay + NecessaryFee[Cardinality(S)], NEW p, p = Payment(S, Pay, ty)
  PROVE  SumOf(p.ins, ty) = p.pay + p.fee + p.chg
<1> DEFINE fee == NecessaryFee[Cardinality(S)]
           sum == SumOf(S, ty)
<1>1. fee \in Nat /\ sum \in Nat /\ Pay \in Nat /\ sum >= Pay + fee
  BY FeeType, SumType, SpendAssumption
<1>2. p.ins = S /\ p.pay = Pay /\ p.fee = fee /\ p.chg = Minus(sum, Pay + fee)
  BY DEF Payment
<1> HIDE DEF fee
<1>3. sum = Pay + fee + Minus(sum, Pay + fee)
  <2> HIDE DEF sum
  <2> QED BY <1>1 DEF Minus
<1> QED BY <1>2, <1>3

LEMMA SweepEven ==
  ASSUME FeesSettle, NEW ty \in [OwnTx -> Signed], NEW S \in SUBSET Out, Sweepable(S, ty),
         NEW p, p = SweepPayment(S, ty)
  PROVE  SumOf(p.ins, ty) = p.pay + p.fee + p.chg
<1> DEFINE fee == NecessaryFee[Cardinality(S)]
           sum == SumOf(S, ty)
           paid == SweepSearch(sum, fee).paid
<1>1. S # {} /\ fee < sum /\ SweepSearch(sum, fee).found BY DEF Sweepable
<1>2. fee \in Nat /\ sum \in Nat BY <1>1, FeeType, SumType
<1>3. Cardinality(S) \in 1 .. Cardinality(Out)
  BY <1>1, OutFacts, FS_Subset, FS_CardinalityType, FS_EmptySet
<1>4. Settles(fee) BY <1>3 DEF FeesSettle
<1>5. p.ins = S /\ p.pay = Minus(sum, fee) /\ p.fee = fee /\ p.chg = Minus(sum, paid + fee)
  BY DEF SweepPayment
<1>6. paid = sum - fee
  <2> HIDE DEF fee, sum
  <2> QED BY <1>1, <1>2, <1>4, SearchPays
<1> HIDE DEF fee, paid
<1>7. sum = Minus(sum, fee) + fee + Minus(sum, paid + fee)
  <2> HIDE DEF sum
  <2> QED BY <1>1, <1>2, <1>6 DEF Minus
<1> QED BY <1>5, <1>7

Delivers == Even(tx) /\ Grounded(tx)

(* What a call may sign, and under which name.                             *)
Signature(t, p) ==
  /\ t \in OwnTx /\ tx[t] = Unsigned
  /\ p \in Signed /\ p.ins # {}
  /\ p.fee = NecessaryFee[Cardinality(p.ins)]
  /\ SumOf(p.ins, tx) = p.pay + p.fee + p.chg
  /\ \A u \in p.ins \cap OwnTx : tx[u] # Unsigned

LEMMA SignsSignature ==
  ASSUME FeesSettle, Inv, MoneyInv, NEW answered \in BOOLEAN, Signs(answered)
  PROVE  \E t, p : Signature(t, p) /\ Emits(t, p, answered)
<1> DEFINE S == Chosen(answered)
           t == CHOOSE u \in Fresh : TRUE
<1>1. t \in OwnTx /\ tx[t] = Unsigned BY DEF Signs, Fresh
<1>2. S \in SUBSET Unspent(wallet.out) /\ S \in SUBSET Out /\ S # {}
  BY OfferedInputs DEF Signs
<1>3. \A u \in S \cap OwnTx : tx[u] # Unsigned
  BY <1>2, Money DEF Sound, Known, Unspent, Tracked
<1>4. PICK p : /\ \/ p = Payment(S, Pay, tx) /\ Compares
                  \/ p = SweepPayment(S, tx) /\ ~Compares
               /\ Emits(t, p, answered)
  BY DEF Signs, SendSigns, FilterSigns, SweepSigns, Compares
<1>5. IF Compares THEN SumOf(S, tx) >= Pay + NecessaryFee[Cardinality(S)]
                  ELSE Sweepable(S, tx)
  BY ChosenTaken DEF Signs, CanPay, Covering
<1> HIDE DEF S, t
<1>6. p \in Signed /\ p.ins = S /\ p.fee = NecessaryFee[Cardinality(S)]
  BY <1>2, <1>4, Money, PaymentType, SweepPaymentType DEF Payment, SweepPayment
<1>7. SumOf(p.ins, tx) = p.pay + p.fee + p.chg
  BY <1>2, <1>4, <1>5, Money, PaymentEven, SweepEven
<1>8. Signature(t, p) BY <1>1, <1>2, <1>3, <1>6, <1>7 DEF Signature
<1> QED BY <1>4, <1>8

LEMMA ProbeSignature ==
  ASSUME Inv, MoneyInv, Delivers, ProbeAccepted
  PROVE  \E t \in Fresh :
           /\ Signature(t, Payment(Subset, Pay, tx))
           /\ tx' = [tx EXCEPT ![t] = Payment(Subset, Pay, tx)]
           /\ Relayed(t)
<1>1. PICK t \in Fresh : /\ tx' = [tx EXCEPT ![t] = Payment(Subset, Pay, tx)]
                         /\ Relayed(t)
  BY DEF ProbeAccepted
<1> DEFINE p == Payment(Subset, Pay, tx)
<1>2. /\ Subset \in SUBSET Out /\ Subset # {}
      /\ SumOf(Subset, tx) >= Pay + NecessaryFee[Cardinality(Subset)]
  BY SubsetType DEF ProbeAccepted, Affordable
<1>3. p \in Signed /\ p.ins = Subset /\ p.fee = NecessaryFee[Cardinality(Subset)]
  BY <1>2, Money, PaymentType DEF Payment
<1>4. \A u \in Subset \cap OwnTx : tx[u] # Unsigned
  <2>1. call.tx \in OwnTx BY Standing DEF ProbeAccepted, CallInv
  <2>2. Subset \subseteq tx[call.tx].ins BY DEF Subset, Slice
  <2> QED BY <2>1, <2>2 DEF Delivers, Grounded
<1>5. SumOf(p.ins, tx) = p.pay + p.fee + p.chg BY <1>2, Money, PaymentEven
<1>6. t \in OwnTx /\ tx[t] = Unsigned BY DEF Fresh
<1> HIDE DEF p
<1>7. Signature(t, p) BY <1>2, <1>3, <1>4, <1>5, <1>6 DEF Signature
<1> QED BY <1>1, <1>7 DEF p

LEMMA SignatureDelivers ==
  ASSUME Inv, MoneyInv, Delivers, NEW t, NEW p, Signature(t, p), tx' = [tx EXCEPT ![t] = p]
  PROVE  Delivers'
BY Money, SignedEven DEF Signature, Delivers

(* Nothing else signs.                                                     *)
LEMMA SignsOrProbes ==
  ASSUME Next, \A answered \in BOOLEAN : ~Signs(answered), ~ProbeAccepted
  PROVE  UNCHANGED tx
<1>1. CASE Network
  BY <1>1 DEF Network, ForeignSpend, Mine, PoolDrop, Reorg, Unspendable
<1>2. CASE HostCall
  BY <1>2 DEF HostCall, SendBegins, FilterBegins, SweepBegins, Begin, Previews, RelayKnown,
     RelayAccepted, RelayUnanswered, Refresh, RewindCursor, ForceRescan, Export, Restart
<1>3. CASE CallStep
  BY <1>3
  DEF CallStep, SendFails, FilterFails, SweepFails, Fails, SendBreaksOff,
      FilterBreaksOff, SweepBreaksOff, BreaksOff, Insufficient, MismatchFound, BisectEnds,
      BroadcastRefused, ProbeRefused, BroadcastAccepted,
      BroadcastUnanswered, ProbePassed
<1> QED BY <1>1, <1>2, <1>3 DEF Next

LEMMA DeliversStep ==
  ASSUME FeesSettle
  PROVE  Inv /\ MoneyInv /\ Delivers /\ [Next]_vars => Delivers'
<1> SUFFICES ASSUME Inv, MoneyInv, Delivers, [Next]_vars PROVE Delivers'
  OBVIOUS
<1>1. ASSUME UNCHANGED tx PROVE Delivers'
  BY <1>1 DEF Delivers, Even, Grounded
<1>2. ASSUME NEW answered \in BOOLEAN, Signs(answered) PROVE Delivers'
  BY <1>2, SignsSignature, SignatureDelivers DEF Emits
<1>3. CASE ProbeAccepted BY <1>3, ProbeSignature, SignatureDelivers
<1> QED BY <1>1, <1>2, <1>3, SignsOrProbes DEF vars

(* Sends, sweeps and the transactions of a bisect pay the recipient what   *)
(* they report, whatever they are made of, as long as no fee falls between *)
(* six and seven steps of the fee search, where the run sweep_shortfall    *)
(* shows a sweep that does not.                                            *)
THEOREM RecipientGetsAmountHolds ==
  ASSUME FeesSettle
  PROVE  Spec => []RecipientGetsAmount
<1>1. Init => Delivers
  <2> SUFFICES ASSUME Init PROVE Delivers
    OBVIOUS
  <2>1. \A t \in OwnTx : tx[t] = Unsigned BY DEF Init
  <2> QED BY <2>1, SumOfNone DEF Delivers, Even, Grounded, Unsigned
<1>2. Inv /\ MoneyInv /\ Delivers /\ [Next]_vars => (Inv /\ MoneyInv /\ Delivers)'
  BY InvStep, MoneyStep, DeliversStep
<1>3. Init => Inv /\ MoneyInv BY InvInit, MoneyInit
<1>4. Delivers => RecipientGetsAmount BY DEF Delivers, Even, RecipientGetsAmount
<1> QED BY <1>1, <1>2, <1>3, <1>4, PTL DEF Spec

-----------------------------------------------------------------------------
(* The chain, and what a wallet knows of it.  Everything is said of a      *)
(* network n and of transactions ty, which are those of one state or of    *)
(* the next.                                                               *)

Payments == OwnTx \cup Foreign

InsOf(x, ty) == IF x \in OwnTx THEN ty[x].ins ELSE ForeignIns[x]

LiveIn(n) == n.pool \cup {x \in Payments : n.at[x] # 0}

NetType(n) ==
  n \in [at : [Txid -> HeightOrNone], pool : SUBSET Payments, height : Height,
         fork : HeightOrNone]

(* What the wallet had received is in the first block; no two transactions *)
(* share an input; the inputs of a mined one are in the chain before it;   *)
(* and those of the wallet are signed.                                     *)
NetSound(n, ty) ==
  /\ \A x \in Txid : n.at[x] <= n.height
  /\ \A c \in Coin : n.at[c] = 1
  /\ \A x \in n.pool : n.at[x] = 0
  /\ \A x, y \in LiveIn(n) : x # y => InsOf(x, ty) \cap InsOf(y, ty) = {}
  /\ \A x \in LiveIn(n) : n.at[x] # 0 =>
       \A o \in InsOf(x, ty) : n.at[o] # 0 /\ n.at[o] <= n.at[x]
  /\ \A t \in LiveIn(n) \cap OwnTx : ty[t] # Unsigned

(* Outputs as a scan of the chain up to block v leaves them.               *)
ScanOf(out, v, n, ty) ==
  /\ \A o \in Out : out[o].recv # 0 => out[o].recv <= v /\ n.at[o] = out[o].recv
  /\ \A o \in Out : n.at[o] \in 1 .. v /\ AmountOf(o, ty) > 0 => out[o].recv = n.at[o]
  /\ \A x \in LiveIn(n) : n.at[x] \in 1 .. v =>
       \A o \in InsOf(x, ty) \ Bad :
         out[o].recv # 0 => out[o].spent /\ out[o].at = n.at[x]

(* A wallet, or a blob of it, is such a scan up to its cursor, or will be  *)
(* once it has unwound the blocks that were replaced.                      *)
ForkedIn(w, n) == n.fork # w.seen /\ n.fork <= w.cursor

ValidTo(w, n) == IF ForkedIn(w, n) THEN n.fork - 1 ELSE w.cursor

ValidOut(w, n) == IF ForkedIn(w, n) THEN RewoundTo(n.fork, w.out) ELSE w.out

Faithful(w, n, ty) ==
  /\ w.cursor <= n.height
  /\ w.seen \in {0, n.fork}
  /\ ScanOf(ValidOut(w, n), ValidTo(w, n), n, ty)

ChainRow(t, n, ty) ==
  [dir |-> "out", amt |-> OutgoingAmount(ty[t]), at |-> n.at[t], pending |-> FALSE]

(* LedgerTellsChain of a wallet or a blob.                                 *)
Tells(w, n, ty) ==
  w.cursor = n.height /\ ~ForkedIn(w, n) =>
    \A t \in OwnTx :
      n.at[t] # 0 /\ SpentBy(t, w.out) = ty[t].ins /\ ty[t].ins \cap Bad = {}
        => w.rows[t] = ChainRow(t, n, ty)

True(w, n, ty) == Faithful(w, n, ty) /\ Tells(w, n, ty)

-----------------------------------------------------------------------------
(* The network moves.                                                      *)

LEMMA InsType ==
  ASSUME NEW ty \in [OwnTx -> Signed], NEW x \in Payments
  PROVE  InsOf(x, ty) \in SUBSET Out /\ x \in Txid
BY SpendAssumption, OutFacts DEF InsOf, Payments, Signed, Out

(* What holds of a scan up to v depends on the blocks up to v.             *)
Agree(v, n, ty, m, tz) ==
  /\ \A x \in Txid : n.at[x] \in 1 .. v \/ m.at[x] \in 1 .. v => m.at[x] = n.at[x]
  /\ \A x \in LiveIn(m) : m.at[x] \in 1 .. v => x \in LiveIn(n) /\ InsOf(x, tz) = InsOf(x, ty)
  /\ \A o \in Out : m.at[o] \in 1 .. v => AmountOf(o, tz) = AmountOf(o, ty)

LEMMA AgreeScan ==
  ASSUME NEW n, NetType(n), NEW ty, NEW m, NetType(m), NEW tz, NEW v \in Nat,
         Agree(v, n, ty, m, tz), NEW out \in [Out -> TrackedOutput], ScanOf(out, v, n, ty)
  PROVE  ScanOf(out, v, m, tz)
<1>1. \A o \in Out : o \in Txid /\ out[o].recv \in Nat /\ (out[o].recv # 0 => out[o].recv >= 1)
  BY OutFacts DEF TrackedOutput, HeightOrNone
<1>2. \A x \in LiveIn(m) : x \in Txid BY OutFacts DEF LiveIn, Payments, NetType
<1>3. ASSUME NEW o \in Out, out[o].recv # 0
      PROVE  out[o].recv <= v /\ m.at[o] = out[o].recv
  BY <1>1, <1>3 DEF ScanOf, Agree
<1>4. ASSUME NEW o \in Out, m.at[o] \in 1 .. v, AmountOf(o, tz) > 0
      PROVE  out[o].recv = m.at[o]
  BY <1>1, <1>4 DEF ScanOf, Agree
<1>5. ASSUME NEW x \in LiveIn(m), m.at[x] \in 1 .. v, NEW o \in InsOf(x, tz) \ Bad,
             out[o].recv # 0
      PROVE  out[o].spent /\ out[o].at = m.at[x]
  BY <1>2, <1>5 DEF ScanOf, Agree
<1> QED BY <1>3, <1>4, <1>5 DEF ScanOf

(* A wallet as of the network before stays true of the network after: ...  *)
LEMMA ValidType ==
  ASSUME NEW w, WalletTyped(w), NEW n, NetType(n), w.seen \in {0, n.fork}
  PROVE  /\ ValidTo(w, n) \in Nat /\ ValidTo(w, n) <= w.cursor
         /\ ValidOut(w, n) \in [Out -> TrackedOutput]
         /\ w.cursor \in Nat /\ n.fork \in Nat /\ n.height \in Nat /\ n.height >= 1
         /\ ForkedIn(w, n) => n.fork >= 1 /\ w.seen = 0
         /\ w.out \in [Out -> TrackedOutput]
BY RewoundType DEF ValidTo, ValidOut, ForkedIn, WalletTyped, NetType, HeightOrNone, Height

(* ... when no block is replaced.                                          *)
LEMMA GrownFaithful ==
  ASSUME NEW n, NetType(n), NEW ty, NEW m, NetType(m), NEW tz,
         m.fork = n.fork, n.height <= m.height,
         \A v \in Nat : v <= n.height => Agree(v, n, ty, m, tz),
         NEW w, WalletTyped(w), Faithful(w, n, ty)
  PROVE  Faithful(w, m, tz)
<1>1. w.cursor <= n.height /\ w.seen \in {0, n.fork} BY DEF Faithful
<1>2. /\ ValidTo(w, n) \in Nat /\ ValidTo(w, n) <= w.cursor
      /\ ValidOut(w, n) \in [Out -> TrackedOutput]
      /\ w.cursor \in Nat /\ n.height \in Nat /\ m.height \in Nat
  BY <1>1, ValidType DEF NetType, Height
<1>3. ValidTo(w, m) = ValidTo(w, n) /\ ValidOut(w, m) = ValidOut(w, n)
  BY DEF ValidTo, ValidOut, ForkedIn
<1>4. ScanOf(ValidOut(w, n), ValidTo(w, n), m, tz)
  BY <1>1, <1>2, AgreeScan DEF Faithful
<1> QED BY <1>1, <1>2, <1>3, <1>4 DEF Faithful

LEMMA GrownTells ==
  ASSUME NEW n, NEW ty, NEW m, NEW tz, m.fork = n.fork, NEW w, Tells(w, n, ty),
         \/ n.height \in Nat /\ m.height > n.height /\ w.cursor <= n.height /\ w.cursor \in Nat
         \/ /\ m.height = n.height /\ m.at = n.at
            /\ \A t \in OwnTx : n.at[t] # 0 => tz[t] = ty[t]
  PROVE  Tells(w, m, tz)
<1>1. ForkedIn(w, m) = ForkedIn(w, n) BY DEF ForkedIn
<1>2. ASSUME m.height = n.height, m.at = n.at, \A t \in OwnTx : n.at[t] # 0 => tz[t] = ty[t]
      PROVE  Tells(w, m, tz)
  BY <1>1, <1>2 DEF Tells, ChainRow
<1>3. ASSUME n.height \in Nat, m.height > n.height, w.cursor <= n.height, w.cursor \in Nat,
             w.cursor = m.height
      PROVE  FALSE
  BY <1>3
<1> QED BY <1>2, <1>3 DEF Tells

(* A block.                                                                *)
LEMMA MinedChain ==
  ASSUME NEW n, NetType(n), NEW ty \in [OwnTx -> Signed], NetSound(n, ty),
         NEW S \in SUBSET n.pool, n.height < MaxHeight,
         \A x \in S : \A o \in InsOf(x, ty) : n.at[o] # 0,
         NEW m,
         m = [n EXCEPT !.at = [x \in Txid |-> IF x \in S THEN n.height + 1 ELSE n.at[x]],
                       !.pool = n.pool \ S, !.height = n.height + 1]
  PROVE  /\ NetType(m) /\ NetSound(m, ty) /\ LiveIn(m) = LiveIn(n)
         /\ \A v \in Nat : v <= n.height => Agree(v, n, ty, m, ty)
<1>1. /\ n.height \in Height /\ n.height + 1 \in Height /\ Height \subseteq HeightOrNone
      /\ n.height \in Nat /\ n.pool \in SUBSET Payments /\ Payments \subseteq Txid
      /\ n.at \in [Txid -> HeightOrNone] /\ HeightOrNone \subseteq Nat
  BY BoundsAssumption, OutFacts DEF NetType, Height, HeightOrNone, Payments
<1>2. /\ m.height = n.height + 1 /\ m.pool = n.pool \ S /\ m.fork = n.fork
      /\ m.at = [x \in Txid |-> IF x \in S THEN n.height + 1 ELSE n.at[x]]
  BY DEF NetType
<1>3. NetType(m)
  <2>1. m.at \in [Txid -> HeightOrNone] BY <1>1, <1>2
  <2> QED BY <1>1, <1>2, <2>1 DEF NetType
<1>4. \A x \in S : n.at[x] = 0 /\ x \in Txid BY <1>1 DEF NetSound
<1>5. \A x \in Txid : /\ x \notin S => m.at[x] = n.at[x]
                      /\ x \in S => m.at[x] = n.height + 1 /\ n.at[x] = 0
                      /\ m.at[x] = 0 <=> n.at[x] = 0 /\ x \notin S
                      /\ n.at[x] \in Nat /\ n.at[x] <= n.height
  BY <1>1, <1>2, <1>4 DEF NetSound
<1>6. LiveIn(m) = LiveIn(n)
  BY <1>1, <1>2, <1>5 DEF LiveIn
<1>7. ASSUME NEW v \in Nat, v <= n.height PROVE Agree(v, n, ty, m, ty)
  <2>1. \A x \in Txid : n.at[x] \in 1 .. v \/ m.at[x] \in 1 .. v => m.at[x] = n.at[x]
    BY <1>1, <1>5, <1>7
  <2> QED BY <1>6, <2>1 DEF Agree
<1>8. NetSound(m, ty)
  <2>1. \A x \in Txid : m.at[x] <= m.height BY <1>1, <1>2, <1>5
  <2>2. \A x \in m.pool : m.at[x] = 0 BY <1>1, <1>2, <1>5 DEF NetSound
  <2>3. ASSUME NEW x \in LiveIn(m), m.at[x] # 0, NEW o \in InsOf(x, ty)
        PROVE  m.at[o] # 0 /\ m.at[o] <= m.at[x]
    <3>1. x \in Payments /\ x \in Txid BY <1>1, <2>3, <1>6 DEF LiveIn
    <3>2. o \in Txid BY <3>1, InsType, OutFacts
    <3>3. n.at[o] # 0 /\ (x \notin S => n.at[o] <= n.at[x])
      BY <1>5, <1>6, <2>3, <3>1 DEF NetSound
    <3>4. o \notin S BY <1>4, <3>3
    <3> QED BY <1>1, <1>5, <3>1, <3>2, <3>3, <3>4
  <2>4. ASSUME NEW c \in Coin PROVE m.at[c] = 1
    <3>1. c \in Txid /\ c \notin Payments BY NamesAssumption, OutFacts DEF Payments, Out
    <3> QED BY <1>1, <1>5, <3>1 DEF NetSound
  <2> QED BY <1>6, <2>1, <2>2, <2>3, <2>4 DEF NetSound
<1> QED BY <1>3, <1>6, <1>7, <1>8

(* A change of the pool, by a transaction or without some.                 *)
LEMMA PooledChain ==
  ASSUME NEW n, NetType(n), NEW ty \in [OwnTx -> Signed], NetSound(n, ty),
         NEW P \in SUBSET Payments, NEW m, m = [n EXCEPT !.pool = P],
         \A x \in P : \/ x \in n.pool
                      \/ /\ x \notin LiveIn(n) /\ P = n.pool \cup {x}
                         /\ \A y \in LiveIn(n) : InsOf(x, ty) \cap InsOf(y, ty) = {}
                         /\ x \in OwnTx => ty[x] # Unsigned
  PROVE  /\ NetType(m) /\ NetSound(m, ty)
         /\ m.at = n.at /\ m.height = n.height /\ m.fork = n.fork
         /\ \A v \in Nat : Agree(v, n, ty, m, ty)
<1>1. /\ m.at = n.at /\ m.height = n.height /\ m.fork = n.fork /\ m.pool = P
      /\ NetType(m)
  BY DEF NetType
<1>2. \A x \in Payments : x \in Txid BY OutFacts DEF Payments
<1>3. \A x \in LiveIn(m) : /\ x \in Payments
                           /\ x \in LiveIn(n) \/ (x \in P /\ x \notin LiveIn(n) /\ n.at[x] = 0)
  BY <1>1, <1>2 DEF LiveIn
<1>4. ASSUME NEW v \in Nat PROVE Agree(v, n, ty, m, ty)
  BY <1>1, <1>3 DEF Agree
<1>5. \A x \in m.pool : m.at[x] = 0 BY <1>1, <1>3 DEF NetSound, LiveIn
<1>6. ASSUME NEW x \in LiveIn(m), NEW y \in LiveIn(m), x # y
      PROVE  InsOf(x, ty) \cap InsOf(y, ty) = {}
  <2>1. CASE x \in LiveIn(n) /\ y \in LiveIn(n) BY <1>6, <2>1 DEF NetSound
  <2>2. CASE x \notin LiveIn(n)
    <3>1. P = n.pool \cup {x} /\ \A z \in LiveIn(n) : InsOf(x, ty) \cap InsOf(z, ty) = {}
      BY <1>3, <2>2 DEF LiveIn
    <3>2. y \in LiveIn(n) BY <1>3, <1>6, <3>1 DEF LiveIn
    <3> QED BY <3>1, <3>2
  <2>3. CASE y \notin LiveIn(n)
    <3>1. P = n.pool \cup {y} /\ \A z \in LiveIn(n) : InsOf(y, ty) \cap InsOf(z, ty) = {}
      BY <1>3, <2>3 DEF LiveIn
    <3>2. x \in LiveIn(n) BY <1>3, <1>6, <3>1 DEF LiveIn
    <3> QED BY <3>1, <3>2
  <2> QED BY <2>1, <2>2, <2>3
<1>7. ASSUME NEW x \in LiveIn(m), m.at[x] # 0, NEW o \in InsOf(x, ty)
      PROVE  m.at[o] # 0 /\ m.at[o] <= m.at[x]
  BY <1>1, <1>3, <1>7 DEF NetSound
<1>8. ASSUME NEW t \in LiveIn(m) \cap OwnTx PROVE ty[t] # Unsigned
  <2>1. CASE t \in LiveIn(n) BY <2>1 DEF NetSound
  <2>2. CASE t \notin LiveIn(n) BY <1>3, <2>2 DEF LiveIn
  <2> QED BY <2>1, <2>2
<1>9. NetSound(m, ty) BY <1>1, <1>5, <1>6, <1>7, <1>8 DEF NetSound
<1> QED BY <1>1, <1>4, <1>9

(* The blocks from h on are replaced.                                      *)
LEMMA ReplacedChain ==
  ASSUME NEW n, NetType(n), NEW ty \in [OwnTx -> Signed], NetSound(n, ty), n.fork = 0,
         n.height < MaxHeight, NEW h \in 2 .. n.height, NEW B,
         B = {x \in Payments : n.at[x] >= h}, NEW m,
         m = [at |-> [x \in Txid |-> IF x \in B THEN 0 ELSE n.at[x]],
              pool |-> n.pool \cup B, height |-> n.height + 1, fork |-> h]
  PROVE  /\ NetType(m) /\ NetSound(m, ty) /\ LiveIn(m) = LiveIn(n)
         /\ \A v \in Nat : v < h => Agree(v, n, ty, m, ty)
<1>1. /\ n.height \in Height /\ n.height + 1 \in Height /\ Height \subseteq HeightOrNone
      /\ n.height \in Nat /\ n.pool \in SUBSET Payments /\ Payments \subseteq Txid
      /\ n.at \in [Txid -> HeightOrNone] /\ HeightOrNone \subseteq Nat
      /\ h \in HeightOrNone /\ 0 \in HeightOrNone
  BY BoundsAssumption, OutFacts DEF NetType, Height, HeightOrNone, Payments
<1>2. /\ m.height = n.height + 1 /\ m.pool = n.pool \cup B /\ m.fork = h
      /\ m.at = [x \in Txid |-> IF x \in B THEN 0 ELSE n.at[x]]
  OBVIOUS
<1>3. NetType(m)
  <2>1. m.at \in [Txid -> HeightOrNone] BY <1>1, <1>2
  <2> QED BY <1>1, <1>2, <2>1 DEF NetType
<1>4. ASSUME NEW x \in Txid, x \notin B PROVE n.at[x] < h
  <2>1. n.at[x] \in Nat BY <1>1
  <2>2. CASE x \in Payments BY <1>4, <2>1, <2>2
  <2>3. CASE x \in Coin BY <2>3 DEF NetSound
  <2> QED BY <2>2, <2>3 DEF Txid, Out, Payments
<1>5. \A x \in Txid : /\ x \in B => m.at[x] = 0 /\ n.at[x] >= h /\ n.at[x] # 0
                      /\ x \notin B => m.at[x] = n.at[x] /\ n.at[x] < h
                      /\ n.at[x] \in Nat /\ n.at[x] <= n.height
  <2> SUFFICES ASSUME NEW x \in Txid
               PROVE  /\ x \in B => m.at[x] = 0 /\ n.at[x] >= h /\ n.at[x] # 0
                      /\ x \notin B => m.at[x] = n.at[x] /\ n.at[x] < h
                      /\ n.at[x] \in Nat /\ n.at[x] <= n.height
    OBVIOUS
  <2>1. n.at[x] \in Nat /\ n.at[x] <= n.height BY <1>1 DEF NetSound
  <2>2. m.at[x] = IF x \in B THEN 0 ELSE n.at[x] BY <1>2
  <2>3. x \in B => n.at[x] >= h OBVIOUS
  <2>4. h \in Nat /\ h >= 2 BY <1>1
  <2> QED BY <1>4, <2>1, <2>2, <2>3, <2>4
<1>6. LiveIn(m) = LiveIn(n)
  BY <1>1, <1>2, <1>5 DEF LiveIn
<1>7. ASSUME NEW v \in Nat, v < h PROVE Agree(v, n, ty, m, ty)
  <2>1. \A x \in Txid : n.at[x] \in 1 .. v \/ m.at[x] \in 1 .. v => m.at[x] = n.at[x]
    BY <1>1, <1>5, <1>7
  <2> QED BY <1>6, <2>1 DEF Agree
<1>8. NetSound(m, ty)
  <2>1. \A x \in Txid : m.at[x] <= m.height BY <1>1, <1>2, <1>5
  <2>2. \A x \in m.pool : m.at[x] = 0 BY <1>1, <1>2, <1>5 DEF NetSound
  <2>3. ASSUME NEW x \in LiveIn(m), m.at[x] # 0, NEW o \in InsOf(x, ty)
        PROVE  m.at[o] # 0 /\ m.at[o] <= m.at[x]
    <3>1. x \in Payments /\ x \in Txid BY <1>1, <2>3, <1>6 DEF LiveIn
    <3>2. o \in Txid BY <3>1, InsType, OutFacts
    <3>3. n.at[x] # 0 /\ m.at[x] = n.at[x] /\ n.at[x] < h BY <1>5, <2>3, <3>1
    <3>4. n.at[o] # 0 /\ n.at[o] <= n.at[x] BY <1>6, <2>3, <3>3 DEF NetSound
    <3>5. o \notin B BY <1>1, <1>5, <3>1, <3>2, <3>3, <3>4
    <3> QED BY <1>5, <3>2, <3>3, <3>4, <3>5
  <2>4. ASSUME NEW c \in Coin PROVE m.at[c] = 1
    <3>1. c \in Txid /\ c \notin Payments BY NamesAssumption, OutFacts DEF Payments, Out
    <3> QED BY <1>5, <3>1 DEF NetSound
  <2> QED BY <1>6, <2>1, <2>2, <2>3, <2>4 DEF NetSound
<1> QED BY <1>3, <1>6, <1>7, <1>8

(* A signature, under a name the network does not know.                    *)
LEMMA SignedChain ==
  ASSUME NEW n, NetType(n), NEW ty \in [OwnTx -> Signed], NetSound(n, ty),
         NEW t \in OwnTx, ty[t] = Unsigned, NEW p \in Signed, NEW tz, tz = [ty EXCEPT ![t] = p]
  PROVE  /\ NetSound(n, tz) /\ t \notin LiveIn(n) /\ n.at[t] = 0
         /\ \A u \in OwnTx : n.at[u] # 0 => tz[u] = ty[u]
         /\ \A v \in Nat : Agree(v, n, ty, n, tz)
<1>1. t \notin LiveIn(n) /\ n.at[t] = 0 BY DEF NetSound, LiveIn, Payments
<1>2. \A u \in OwnTx : u # t => tz[u] = ty[u] OBVIOUS
<1>3. \A x \in LiveIn(n) : InsOf(x, tz) = InsOf(x, ty) BY <1>1, <1>2 DEF InsOf
<1>4. NetSound(n, tz) BY <1>1, <1>2, <1>3 DEF NetSound
<1>5. \A o \in Out : n.at[o] # 0 => AmountOf(o, tz) = AmountOf(o, ty)
  BY <1>1, <1>2 DEF AmountOf, Out
<1>6. ASSUME NEW v \in Nat PROVE Agree(v, n, ty, n, tz)
  <2>1. \A x : n.at[x] \in 1 .. v => n.at[x] # 0 OBVIOUS
  <2>2. \A o \in Out : n.at[o] \in 1 .. v => AmountOf(o, tz) = AmountOf(o, ty)
    BY <1>5, <2>1
  <2> QED BY <1>3, <2>2 DEF Agree
<1> QED BY <1>1, <1>2, <1>4, <1>6

-----------------------------------------------------------------------------
(* What the operations on a wallet make of a scan.                         *)

(* Unwinding leaves the scan of what is left, ...                          *)
LEMMA RewoundScan ==
  ASSUME NEW n, NetType(n), NEW ty \in [OwnTx -> Signed], NEW out \in [Out -> TrackedOutput],
         NEW v \in Nat, ScanOf(out, v, n, ty), NEW h \in Nat, h >= 1, h - 1 <= v
  PROVE  ScanOf(RewoundTo(h, out), h - 1, n, ty)
<1> DEFINE r == RewoundTo(h, out)
<1>1. ASSUME NEW o \in Out
      PROVE  /\ out[o].recv \in Nat /\ out[o].at \in Nat
             /\ out[o].recv >= h => r[o].recv = 0
             /\ out[o].recv < h => r[o].recv = out[o].recv
             /\ out[o].recv < h /\ out[o].at < h => r[o] = out[o]
  <2>1. out[o] \in TrackedOutput /\ out[o].recv \in Nat /\ out[o].at \in Nat
    BY DEF TrackedOutput, HeightOrNone
  <2>2. out[o].recv >= h => r[o] = Untracked BY DEF RewoundTo
  <2>3. out[o].recv < h /\ out[o].at >= h
          => r[o] = [out[o] EXCEPT !.spent = FALSE, !.by = NoTx, !.at = 0]
    BY <2>1 DEF RewoundTo
  <2>4. out[o].recv < h /\ out[o].at < h => r[o] = out[o] BY <2>1 DEF RewoundTo
  <2> HIDE DEF r
  <2>5. CASE out[o].recv >= h
    BY <2>1, <2>2, <2>5 DEF Untracked
  <2>6. CASE out[o].recv < h /\ out[o].at >= h
    <3>1. r[o].recv = out[o].recv BY <2>1, <2>3, <2>6 DEF TrackedOutput
    <3> QED BY <2>1, <2>6, <3>1
  <2>7. CASE out[o].recv < h /\ out[o].at < h
    BY <2>1, <2>4, <2>7
  <2> QED BY <2>1, <2>5, <2>6, <2>7
<1>2. \A x \in LiveIn(n) : x \in Txid BY OutFacts DEF LiveIn, Payments, NetType
<1>3. \A x \in Txid : n.at[x] \in Nat BY DEF NetType, HeightOrNone
<1> HIDE DEF r
<1>4. ASSUME NEW o \in Out, r[o].recv # 0 PROVE r[o].recv <= h - 1 /\ n.at[o] = r[o].recv
  BY <1>1, <1>4 DEF ScanOf
<1>5. ASSUME NEW o \in Out, n.at[o] \in 1 .. (h - 1), AmountOf(o, ty) > 0
      PROVE  r[o].recv = n.at[o]
  <2>1. out[o].recv = n.at[o] BY <1>5 DEF ScanOf
  <2> QED BY <1>1, <1>5, <2>1
<1>6. ASSUME NEW x \in LiveIn(n), n.at[x] \in 1 .. (h - 1), NEW o \in InsOf(x, ty) \ Bad,
             o \in Out, r[o].recv # 0
      PROVE  r[o].spent /\ r[o].at = n.at[x]
  <2>1. out[o].recv < h /\ out[o].recv # 0 BY <1>1, <1>6
  <2>2. n.at[x] \in 1 .. v BY <1>6
  <2>3. out[o].spent /\ out[o].at = n.at[x] BY <1>6, <2>1, <2>2 DEF ScanOf
  <2> QED BY <1>1, <1>6, <2>1, <2>3
<1>7. \A x \in LiveIn(n) : InsOf(x, ty) \subseteq Out
  BY InsType DEF LiveIn, NetType
<1> QED BY <1>4, <1>5, <1>6, <1>7 DEF ScanOf, r

(* ... the shorter one of two.                                             *)
LEMMA RewoundTwice ==
  ASSUME NEW out \in [Out -> TrackedOutput], NEW a \in Nat, a >= 1, NEW b \in Nat, a <= b
  PROVE  RewoundTo(a, RewoundTo(b, out)) = RewoundTo(a, out)
<1> DEFINE r == RewoundTo(b, out)
<1>1. ASSUME NEW o \in Out PROVE RewoundTo(a, r)[o] = RewoundTo(a, out)[o]
  <2>1. out[o] \in TrackedOutput /\ out[o].recv \in Nat /\ out[o].at \in Nat
    BY DEF TrackedOutput, HeightOrNone
  <2>2. CASE out[o].recv >= b
    <3>1. r[o] = Untracked BY <2>2 DEF RewoundTo
    <3>2. RewoundTo(a, r)[o] = Untracked BY <3>1 DEF RewoundTo, Untracked
    <3> QED BY <2>1, <2>2, <3>2 DEF RewoundTo
  <2>3. CASE out[o].recv < b /\ out[o].at >= b
    <3>1. r[o] = [out[o] EXCEPT !.spent = FALSE, !.by = NoTx, !.at = 0]
      BY <2>1, <2>3 DEF RewoundTo
    <3>2. r[o].recv = out[o].recv /\ r[o].at = 0 BY <2>1, <3>1 DEF TrackedOutput
    <3> HIDE DEF r
    <3>3. CASE out[o].recv >= a BY <3>2, <3>3 DEF RewoundTo
    <3>4. CASE out[o].recv < a
      <4>1. RewoundTo(a, r)[o] = r[o] BY <2>1, <3>2, <3>4 DEF RewoundTo
      <4>2. RewoundTo(a, out)[o] = [out[o] EXCEPT !.spent = FALSE, !.by = NoTx, !.at = 0]
        BY <2>1, <2>3, <3>4 DEF RewoundTo
      <4> QED BY <3>1, <4>1, <4>2
    <3> QED BY <2>1, <3>3, <3>4
  <2>4. CASE out[o].recv < b /\ out[o].at < b
    <3>1. r[o] = out[o] BY <2>1, <2>4 DEF RewoundTo
    <3> QED BY <3>1 DEF RewoundTo
  <2> QED BY <2>1, <2>2, <2>3, <2>4
<1> QED BY <1>1 DEF RewoundTo

(* A wallet on a branch that is replaced stays true: it will unwind.       *)
LEMMA ReplacedFaithful ==
  ASSUME NEW n, NetType(n), n.fork = 0, NEW ty \in [OwnTx -> Signed], NEW m, NetType(m),
         NEW h \in 2 .. n.height, m.fork = h, m.height = n.height + 1,
         \A v \in Nat : v < h => Agree(v, n, ty, m, ty),
         NEW w, WalletTyped(w), Faithful(w, n, ty)
  PROVE  Faithful(w, m, ty)
<1>1. w.cursor <= n.height /\ w.seen = 0 /\ w.seen \in {0, n.fork} BY DEF Faithful
<1>2. /\ w.cursor \in Nat /\ n.height \in Nat /\ h \in Nat /\ h >= 2
      /\ w.out \in [Out -> TrackedOutput]
  BY <1>1, ValidType
<1>3. ~ForkedIn(w, n) BY <1>1 DEF ForkedIn
<1>4. ScanOf(w.out, w.cursor, n, ty) BY <1>3 DEF Faithful, ValidTo, ValidOut
<1>5. CASE h <= w.cursor
  <2>1. ForkedIn(w, m) BY <1>1, <1>2, <1>5 DEF ForkedIn
  <2>2. ScanOf(RewoundTo(h, w.out), h - 1, n, ty) BY <1>2, <1>4, <1>5, RewoundScan
  <2>3. RewoundTo(h, w.out) \in [Out -> TrackedOutput] BY <1>2, RewoundType
  <2>4. h - 1 \in Nat /\ h - 1 < h BY <1>2
  <2>5. ScanOf(RewoundTo(h, w.out), h - 1, m, ty) BY <2>2, <2>3, <2>4, AgreeScan
  <2> QED BY <1>1, <1>2, <2>1, <2>5 DEF Faithful, ValidTo, ValidOut
<1>6. CASE ~(h <= w.cursor)
  <2>1. ~ForkedIn(w, m) BY <1>6 DEF ForkedIn
  <2>2. w.cursor < h BY <1>2, <1>6
  <2>3. ScanOf(w.out, w.cursor, m, ty) BY <1>2, <1>4, <2>2, AgreeScan
  <2> QED BY <1>1, <1>2, <2>1, <2>3 DEF Faithful, ValidTo, ValidOut
<1> QED BY <1>5, <1>6

(* Marking outputs spent takes nothing from a scan.                        *)
LEMMA MarkedFaithful ==
  ASSUME NEW n, NetType(n), NEW ty \in [OwnTx -> Signed], NEW w, WalletTyped(w),
         Faithful(w, n, ty),
         NEW v, WalletTyped(v), v.cursor = w.cursor, v.seen = w.seen,
         \A o \in Out : /\ v.out[o].recv = w.out[o].recv /\ v.out[o].at = w.out[o].at
                        /\ w.out[o].spent => v.out[o].spent
  PROVE  Faithful(v, n, ty)
<1>0. w.seen \in {0, n.fork} BY DEF Faithful
<1>1. /\ ForkedIn(v, n) = ForkedIn(w, n) /\ ValidTo(v, n) = ValidTo(w, n)
      /\ n.fork \in Nat /\ ValidTo(w, n) \in Nat
      /\ v.out \in [Out -> TrackedOutput] /\ w.out \in [Out -> TrackedOutput]
  BY <1>0, ValidType DEF ForkedIn, ValidTo, WalletTyped
<1>2. \A x \in LiveIn(n) : x \in Payments BY DEF LiveIn, NetType
<1> DEFINE f == ValidTo(w, n)
           old == ValidOut(w, n)
           new == ValidOut(v, n)
<1>3. ASSUME NEW o \in Out
      PROVE  new[o].recv = old[o].recv /\ new[o].at = old[o].at
             /\ (old[o].spent => new[o].spent)
  <2>1. v.out[o] \in TrackedOutput /\ w.out[o] \in TrackedOutput BY <1>1
  <2>2. CASE ~ForkedIn(w, n) BY <1>1, <2>2 DEF ValidOut
  <2>3. CASE ForkedIn(w, n)
    <3> DEFINE h == n.fork
               reset(r) == [r EXCEPT !.spent = FALSE, !.by = NoTx, !.at = 0]
    <3>1. /\ new[o] = IF v.out[o].recv >= h THEN Untracked
                      ELSE IF v.out[o].at >= h THEN reset(v.out[o]) ELSE v.out[o]
          /\ old[o] = IF w.out[o].recv >= h THEN Untracked
                      ELSE IF w.out[o].at >= h THEN reset(w.out[o]) ELSE w.out[o]
      BY <1>1, <2>3 DEF ValidOut, RewoundTo
    <3> HIDE DEF new, old, h
    <3>2. CASE w.out[o].recv >= h BY <3>1, <3>2
    <3>3. CASE ~(w.out[o].recv >= h) /\ w.out[o].at >= h
      <4>1. new[o] = reset(v.out[o]) /\ old[o] = reset(w.out[o]) BY <3>1, <3>3
      <4> QED BY <2>1, <4>1 DEF TrackedOutput
    <3>4. CASE ~(w.out[o].recv >= h) /\ ~(w.out[o].at >= h)
      BY <3>1, <3>4
    <3> QED BY <3>2, <3>3, <3>4
  <2> QED BY <2>2, <2>3
<1> HIDE DEF old, new, f
<1>4. ScanOf(old, f, n, ty) BY DEF Faithful, old, f
<1>5. \A x \in LiveIn(n) : InsOf(x, ty) \in SUBSET Out BY <1>2, InsType
<1>6. ScanOf(new, f, n, ty)
  <2>1. ASSUME NEW x \in LiveIn(n), n.at[x] \in 1 .. f, NEW o \in InsOf(x, ty) \ Bad,
               new[o].recv # 0
        PROVE  new[o].spent /\ new[o].at = n.at[x]
    <3>1. o \in Out BY <1>5
    <3>2. old[o].spent /\ old[o].at = n.at[x] BY <1>3, <1>4, <2>1, <3>1 DEF ScanOf
    <3> QED BY <1>3, <3>1, <3>2
  <2> QED BY <1>3, <1>4, <2>1 DEF ScanOf
<1> QED BY <1>1, <1>6 DEF Faithful, new, f

(* A scan goes on where it ended.  No two transactions that the network    *)
(* knows spend one output, so whichever the block loop finds is the one.   *)
LEMMA ScannedScan ==
  ASSUME NetType(net), tx \in [OwnTx -> Signed], NetSound(net, tx),
         NEW out \in [Out -> TrackedOutput], NEW lo \in Nat, NEW hi \in Nat, lo <= hi,
         NEW named, ScanOf(out, lo, net, tx)
  PROVE  ScanOf(Scanned(out, lo, hi, named), hi, net, tx)
<1> DEFINE have == [o \in Out |->
                      IF o \in Found(lo, hi) /\ out[o].recv = 0
                      THEN [Untracked EXCEPT !.recv = net.at[o]] ELSE out[o]]
           by(o) == Spender(o, have, lo, hi, named)
           at(o) == net.at[CHOOSE y \in SpendersIn(o, lo, hi) : TRUE]
           v == Scanned(out, lo, hi, named)
<1>0. /\ \A x \in Txid : net.at[x] \in Nat
      /\ \A o \in Out : o \in Txid /\ out[o].recv \in Nat /\ net.at[o] \in Nat
      /\ \A x \in LiveIn(net) : x \in Payments /\ x \in Txid
      /\ LiveIn(net) = Live
  BY OutFacts DEF NetType, HeightOrNone, TrackedOutput, LiveIn, Live, Payments
<1>1. \A x \in Live : InsOf(x, tx) = Ins(x) /\ Ins(x) \in SUBSET Out
  BY <1>0, InsType DEF InsOf, Ins
<1>2. ASSUME NEW o \in Out
      PROVE  /\ o \in Found(lo, hi) /\ out[o].recv = 0 => have[o].recv = net.at[o]
             /\ ~(o \in Found(lo, hi) /\ out[o].recv = 0) => have[o] = out[o]
             /\ have[o] = [recv |-> have[o].recv, spent |-> have[o].spent,
                           by |-> have[o].by, at |-> have[o].at]
  <2>1. out[o] \in TrackedOutput OBVIOUS
  <2>2. CASE o \in Found(lo, hi) /\ out[o].recv = 0
    <3>1. have[o] = [Untracked EXCEPT !.recv = net.at[o]] BY <2>2
    <3> HIDE DEF have
    <3> QED BY <2>2, <3>1 DEF Untracked
  <2>3. CASE ~(o \in Found(lo, hi) /\ out[o].recv = 0)
    <3>1. have[o] = out[o] BY <2>3
    <3> HIDE DEF have
    <3> QED BY <2>1, <2>3, <3>1 DEF TrackedOutput
  <2> QED BY <2>2, <2>3
<1>3. v = [o \in Out |->
             IF have[o].recv = 0 \/ SpendersIn(o, lo, hi) = {} THEN have[o]
             ELSE [have[o] EXCEPT !.spent = TRUE, !.by = by(o), !.at = at(o)]]
  BY DEF Scanned
<1> HIDE DEF have, v, by
<1>4. ASSUME NEW o \in Out
      PROVE  /\ v[o].recv = have[o].recv
             /\ SpendersIn(o, lo, hi) = {} => v[o] = have[o]
             /\ have[o].recv # 0 /\ SpendersIn(o, lo, hi) # {} => v[o].spent /\ v[o].at = at(o)
  <2>1. CASE have[o].recv = 0 \/ SpendersIn(o, lo, hi) = {} BY <1>3, <2>1
  <2>2. CASE ~(have[o].recv = 0 \/ SpendersIn(o, lo, hi) = {})
    <3>1. v[o] = [have[o] EXCEPT !.spent = TRUE, !.by = by(o), !.at = at(o)]
      BY <1>3, <2>2
    <3> HIDE DEF at
    <3> QED BY <1>2, <2>2, <3>1
  <2> QED BY <2>1, <2>2
<1>5. ASSUME NEW o \in Out
      PROVE  o \in Found(lo, hi) <=>
               lo + 1 <= net.at[o] /\ net.at[o] <= hi /\ AmountOf(o, tx) > 0
  BY <1>0 DEF Found
<1>6. ASSUME NEW o \in Out, v[o].recv # 0 PROVE v[o].recv <= hi /\ net.at[o] = v[o].recv
  <2>1. CASE o \in Found(lo, hi) /\ out[o].recv = 0 BY <1>0, <1>2, <1>4, <1>5, <2>1
  <2>2. CASE ~(o \in Found(lo, hi) /\ out[o].recv = 0)
    <3>1. v[o].recv = out[o].recv BY <1>2, <1>4, <2>2
    <3>2. out[o].recv <= lo /\ net.at[o] = out[o].recv BY <1>6, <3>1 DEF ScanOf
    <3> QED BY <1>0, <3>1, <3>2
  <2> QED BY <2>1, <2>2
<1>7. ASSUME NEW o \in Out, net.at[o] \in 1 .. hi, AmountOf(o, tx) > 0
      PROVE  v[o].recv = net.at[o]
  <2>1. CASE out[o].recv # 0
    <3>1. net.at[o] = out[o].recv BY <2>1 DEF ScanOf
    <3> QED BY <1>2, <1>4, <2>1, <3>1
  <2>2. CASE out[o].recv = 0
    <3>1. ~(net.at[o] \in 1 .. lo) BY <1>7, <2>2 DEF ScanOf
    <3>2. o \in Found(lo, hi) BY <1>0, <1>5, <1>7, <3>1
    <3> QED BY <1>2, <1>4, <2>2, <3>2
  <2> QED BY <2>1, <2>2
<1>8. ASSUME NEW x \in Live, net.at[x] \in 1 .. hi, NEW o \in Ins(x) \ Bad, v[o].recv # 0
      PROVE  v[o].spent /\ v[o].at = net.at[x]
  <2>1. o \in Out /\ x \in LiveIn(net) BY <1>0, <1>1
  <2>2. ASSUME NEW y \in SpendersIn(o, lo, hi) PROVE y = x
    <3>1. y \in LiveIn(net) /\ o \in InsOf(y, tx) /\ o \in InsOf(x, tx)
      BY <1>0, <1>1 DEF SpendersIn
    <3> QED BY <2>1, <3>1 DEF NetSound
  <2>3. have[o].recv # 0 BY <1>4, <1>8, <2>1
  <2>4. CASE lo + 1 <= net.at[x]
    <3>1. x \in SpendersIn(o, lo, hi) BY <1>0, <1>8, <2>1, <2>4 DEF SpendersIn
    <3>2. at(o) = net.at[x] BY <2>2, <3>1
    <3> HIDE DEF at
    <3> QED BY <1>4, <2>1, <2>3, <3>1, <3>2
  <2>5. CASE ~(lo + 1 <= net.at[x])
    <3>1. SpendersIn(o, lo, hi) = {}
      <4>1. x \notin SpendersIn(o, lo, hi) BY <1>0, <2>1, <2>5 DEF SpendersIn
      <4> QED BY <2>2, <4>1
    <3>2. net.at[o] <= net.at[x] BY <1>1, <1>8, <2>1 DEF NetSound
    <3>3. o \notin Found(lo, hi) BY <1>0, <1>5, <2>1, <2>5, <3>2
    <3>4. v[o] = out[o] BY <1>2, <1>4, <2>1, <3>1, <3>3
    <3>5. net.at[x] \in 1 .. lo BY <1>0, <1>8, <2>1, <2>5
    <3> QED BY <1>1, <1>8, <2>1, <3>4, <3>5 DEF ScanOf
  <2> QED BY <2>4, <2>5
<1>9. \A o \in Out : v[o].recv # 0 => v[o].recv <= hi /\ net.at[o] = v[o].recv BY <1>6
<1>10. \A x \in LiveIn(net) : net.at[x] \in 1 .. hi =>
         \A o \in InsOf(x, tx) \ Bad : v[o].recv # 0 => v[o].spent /\ v[o].at = net.at[x]
  BY <1>0, <1>1, <1>8
<1>11. ScanOf(v, hi, net, tx) BY <1>7, <1>9, <1>10 DEF ScanOf
<1> QED BY <1>11 DEF v

(* A signed transaction costs something.                                   *)
Charged(ty) ==
  \A t \in OwnTx : ty[t] # Unsigned => ty[t].fee > 0

(* The ledger of a scan up to the tip shows a payment whose inputs it      *)
(* attributes to it: the sum of the inputs is positive, so nothing else is *)
(* attached to them, and its change is in the scan.                        *)
LEMMA LedgerRow ==
  ASSUME NEW n, NetType(n), NEW ty \in [OwnTx -> Signed], NetSound(n, ty),
         Even(ty), Charged(ty), NEW out \in [Out -> TrackedOutput], ScanOf(out, n.height, n, ty),
         NEW t \in OwnTx, n.at[t] # 0, SpentBy(t, out) = ty[t].ins, ty[t].ins \cap Bad = {},
         NEW pend
  PROVE  Ledger(out, pend, ty)[t] = ChainRow(t, n, ty)
<1> DEFINE r == ty[t]
           spent == SumOf(r.ins, ty)
           incoming == Incoming(t, out, ty)
<1>1. /\ t \in Payments /\ t \in Txid /\ t \in Out /\ t \in LiveIn(n) /\ t \notin Coin
      /\ r \in Signed /\ r.ins \in SUBSET Out
      /\ n.at[t] \in Nat /\ n.at[t] \in 1 .. n.height
  <2>1. t \in Payments /\ t \in Txid /\ t \in Out BY OutFacts DEF Payments
  <2>2. n.at[t] \in Nat /\ n.at[t] <= n.height /\ n.height \in Nat
    BY <2>1 DEF NetType, NetSound, HeightOrNone, Height
  <2> QED BY <2>1, <2>2, NamesAssumption DEF LiveIn, Signed
<1>2. r # Unsigned /\ r.fee > 0 BY <1>1 DEF NetSound, Charged
<1>3. r.pay \in Nat /\ r.fee \in Nat /\ r.chg \in Nat BY <1>1 DEF Signed
<1>4. spent = r.pay + r.fee + r.chg BY DEF Even
<1>5. incoming = r.chg
  <2>1. AmountOf(t, ty) = r.chg BY <1>1 DEF AmountOf
  <2>2. CASE t \in Tracked(out) BY <2>1, <2>2 DEF Incoming
  <2>3. CASE t \notin Tracked(out)
    <3>1. out[t].recv = 0 BY <1>1, <2>3 DEF Tracked
    <3>2. ~(AmountOf(t, ty) > 0) BY <1>1, <3>1 DEF ScanOf
    <3>3. r.chg = 0 BY <1>3, <2>1, <3>2
    <3> QED BY <2>3, <3>3 DEF Incoming
  <2> QED BY <2>2, <2>3
<1> HIDE DEF spent, incoming
<1>6. spent > 0 /\ spent # 0 /\ Minus(spent, incoming) = r.pay + r.fee
  BY <1>2, <1>3, <1>4, <1>5 DEF Minus
<1>7. r.ins # {}
  BY <1>6, SumOfNone DEF spent
<1>8. Attached(t, out, ty) = {}
  <2>1. \A k : t \notin ChangeAt(k, out, ty) BY <1>6 DEF ChangeAt, spent
  <2> QED BY <2>1 DEF Attached
<1>9. Sources(t, out, ty) = r.ins BY <1>8 DEF Sources
<1>10. \A o \in r.ins : out[o].at = n.at[t]
  <2> SUFFICES ASSUME NEW o \in r.ins PROVE out[o].at = n.at[t]
    OBVIOUS
  <2>1. o \in Out /\ out[o].recv # 0 BY <1>1 DEF SpentBy, SpentOuts, Tracked
  <2>2. InsOf(t, ty) = r.ins BY DEF InsOf
  <2>3. o \in InsOf(t, ty) \ Bad BY <2>2
  <2> QED BY <1>1, <2>1, <2>3 DEF ScanOf
<1>11. {out[o].at : o \in r.ins} = {n.at[t]} BY <1>7, <1>10
<1>12. Highest({n.at[t]}) = n.at[t]
  <2>1. \A x \in {n.at[t]} : x = n.at[t] OBVIOUS
  <2> QED BY <1>1 DEF Highest, Max
<1>13. OutputRow(t, out, ty) = ChainRow(t, n, ty)
  <2> DEFINE s == Sources(t, out, ty)
             i == Incoming(t, out, ty)
             h == Highest({out[o].at : o \in s})
  <2>1. SumOf(s, ty) = spent /\ i = incoming /\ h = n.at[t]
    BY <1>9, <1>11, <1>12 DEF spent, incoming
  <2>2. OutputRow(t, out, ty) =
          IF SumOf(s, ty) > 0
          THEN [dir |-> "out", amt |-> Minus(SumOf(s, ty), i),
                at |-> IF h > 0 THEN h ELSE IF t \in Out THEN out[t].recv ELSE 0,
                pending |-> FALSE]
          ELSE IF i > 0
               THEN [dir |-> "in", amt |-> i, at |-> IF t \in Out THEN out[t].recv ELSE 0,
                     pending |-> FALSE]
               ELSE NoRow
    BY DEF OutputRow
  <2> HIDE DEF s, i, h, r
  <2>3. OutputRow(t, out, ty) =
          [dir |-> "out", amt |-> r.pay + r.fee, at |-> n.at[t], pending |-> FALSE]
    <3>1. n.at[t] > 0 BY <1>1
    <3>2. SumOf(s, ty) > 0 /\ h > 0 /\ Minus(SumOf(s, ty), i) = r.pay + r.fee /\ h = n.at[t]
      BY <1>6, <2>1, <3>1
    <3> QED BY <2>2, <3>2, Zenon
  <2> QED BY <2>3 DEF ChainRow, OutgoingAmount, r
<1>14. WithPending(ChainRow(t, n, ty), r) = ChainRow(t, n, ty)
  BY DEF WithPending, ChainRow
<1> QED BY <1>1, <1>13, <1>14 DEF Ledger
-----------------------------------------------------------------------------
(* What was true of wallets before a step of the network, or a signature,  *)
(* is true of them after it.                                               *)
Carries(n, ty, m, tz) ==
  /\ NetSound(m, tz)
  /\ \A w : WalletTyped(w) /\ True(w, n, ty) => True(w, m, tz)

LEMMA GrownCarries ==
  ASSUME NEW n, NetType(n), NEW ty, NEW m, NetType(m), NEW tz, NetSound(m, tz),
         m.fork = n.fork, \A v \in Nat : v <= n.height => Agree(v, n, ty, m, tz),
         \/ m.height = n.height + 1
         \/ /\ m.height = n.height /\ m.at = n.at
            /\ \A t \in OwnTx : n.at[t] # 0 => tz[t] = ty[t]
  PROVE  Carries(n, ty, m, tz)
<1>1. n.height \in Nat /\ m.height \in Nat /\ n.height <= m.height
  BY DEF NetType, Height
<1>2. ASSUME NEW w, WalletTyped(w), True(w, n, ty) PROVE True(w, m, tz)
  <2>1. Faithful(w, n, ty) /\ Tells(w, n, ty) BY <1>2 DEF True
  <2>2. w.cursor <= n.height /\ w.cursor \in Nat
    BY <1>2, <2>1 DEF Faithful, WalletTyped, HeightOrNone
  <2>3. Faithful(w, m, tz) BY <1>1, <1>2, <2>1, GrownFaithful
  <2>4. CASE m.height = n.height + 1
    <3>1. m.height > n.height BY <1>1, <2>4
    <3>2. Tells(w, m, tz) BY <1>1, <2>1, <2>2, <3>1, GrownTells
    <3> QED BY <2>3, <3>2 DEF True
  <2>5. CASE /\ m.height = n.height /\ m.at = n.at
             /\ \A t \in OwnTx : n.at[t] # 0 => tz[t] = ty[t]
    <3>1. Tells(w, m, tz) BY <2>1, <2>5, GrownTells
    <3> QED BY <2>3, <3>1 DEF True
  <2> QED BY <2>4, <2>5
<1> QED BY <1>2 DEF Carries

LEMMA MinedCarries ==
  ASSUME NEW n, NetType(n), NEW ty \in [OwnTx -> Signed], NetSound(n, ty),
         NEW S \in SUBSET n.pool, n.height < MaxHeight,
         \A x \in S : \A o \in InsOf(x, ty) : n.at[o] # 0,
         NEW m,
         m = [n EXCEPT !.at = [x \in Txid |-> IF x \in S THEN n.height + 1 ELSE n.at[x]],
                       !.pool = n.pool \ S, !.height = n.height + 1]
  PROVE  Carries(n, ty, m, ty)
<1>1. /\ NetType(m) /\ NetSound(m, ty)
      /\ \A v \in Nat : v <= n.height => Agree(v, n, ty, m, ty)
  BY MinedChain
<1>2. m.fork = n.fork /\ m.height = n.height + 1 BY DEF NetType
<1> QED BY <1>1, <1>2, GrownCarries

LEMMA PooledCarries ==
  ASSUME NEW n, NetType(n), NEW ty \in [OwnTx -> Signed], NetSound(n, ty),
         NEW P \in SUBSET Payments, NEW m, m = [n EXCEPT !.pool = P],
         \A x \in P : \/ x \in n.pool
                      \/ /\ x \notin LiveIn(n) /\ P = n.pool \cup {x}
                         /\ \A y \in LiveIn(n) : InsOf(x, ty) \cap InsOf(y, ty) = {}
                         /\ x \in OwnTx => ty[x] # Unsigned
  PROVE  Carries(n, ty, m, ty)
<1>1. /\ NetType(m) /\ NetSound(m, ty)
      /\ m.at = n.at /\ m.height = n.height /\ m.fork = n.fork
      /\ \A v \in Nat : Agree(v, n, ty, m, ty)
  BY PooledChain
<1> QED BY <1>1, GrownCarries

LEMMA ReplacedTrue ==
  ASSUME NEW n, NetType(n), n.fork = 0, NEW ty \in [OwnTx -> Signed], NEW m, NetType(m),
         NEW h \in 2 .. n.height, m.fork = h, m.height = n.height + 1,
         \A v \in Nat : v < h => Agree(v, n, ty, m, ty),
         NEW w, WalletTyped(w), True(w, n, ty)
  PROVE  True(w, m, ty)
<1>1. Faithful(w, n, ty) BY DEF True
<1>2. w.cursor <= n.height /\ w.cursor \in Nat /\ n.height \in Nat
  BY <1>1 DEF Faithful, WalletTyped, HeightOrNone, NetType, Height
<1>3. Faithful(w, m, ty) BY <1>1, ReplacedFaithful
<1>4. w.cursor # m.height BY <1>2
<1>5. Tells(w, m, ty) BY <1>4 DEF Tells
<1> QED BY <1>3, <1>5 DEF True

LEMMA ReplacedCarries ==
  ASSUME NEW n, NetType(n), NEW ty \in [OwnTx -> Signed], NetSound(n, ty), n.fork = 0,
         n.height < MaxHeight, NEW h \in 2 .. n.height, NEW B,
         B = {x \in Payments : n.at[x] >= h}, NEW m,
         m = [at |-> [x \in Txid |-> IF x \in B THEN 0 ELSE n.at[x]],
              pool |-> n.pool \cup B, height |-> n.height + 1, fork |-> h]
  PROVE  Carries(n, ty, m, ty)
<1>1. /\ NetType(m) /\ NetSound(m, ty)
      /\ \A v \in Nat : v < h => Agree(v, n, ty, m, ty)
  BY ReplacedChain
<1>2. m.fork = h /\ m.height = n.height + 1 OBVIOUS
<1> QED BY <1>1, <1>2, ReplacedTrue DEF Carries

LEMMA SignedCarries ==
  ASSUME NEW n, NetType(n), NEW ty \in [OwnTx -> Signed], NetSound(n, ty),
         NEW t \in OwnTx, ty[t] = Unsigned, NEW p \in Signed, NEW tz, tz = [ty EXCEPT ![t] = p]
  PROVE  Carries(n, ty, n, tz)
<1>1. /\ NetSound(n, tz)
      /\ \A u \in OwnTx : n.at[u] # 0 => tz[u] = ty[u]
      /\ \A v \in Nat : Agree(v, n, ty, n, tz)
  BY SignedChain
<1> QED BY <1>1, GrownCarries

-----------------------------------------------------------------------------
(* What the operations make of a true wallet.                              *)

(* A ledger that was rebuilt from a scan tells the chain; ...              *)
LEMMA LedgerTells ==
  ASSUME NEW n, NetType(n), NEW ty \in [OwnTx -> Signed], NetSound(n, ty),
         Even(ty), Charged(ty), NEW v, WalletTyped(v), Faithful(v, n, ty),
         NEW pend, v.rows = Ledger(v.out, pend, ty)
  PROVE  True(v, n, ty)
<1> SUFFICES ASSUME v.cursor = n.height, ~ForkedIn(v, n), NEW t \in OwnTx,
                    n.at[t] # 0, SpentBy(t, v.out) = ty[t].ins, ty[t].ins \cap Bad = {}
             PROVE  v.rows[t] = ChainRow(t, n, ty)
  BY DEF True, Tells
<1>1. v.out \in [Out -> TrackedOutput] BY DEF WalletTyped
<1>2. ScanOf(v.out, n.height, n, ty) BY DEF Faithful, ValidOut, ValidTo
<1> DEFINE out == v.out
<1> HIDE DEF out
<1>3. Ledger(out, pend, ty)[t] = ChainRow(t, n, ty)
  BY <1>1, <1>2, LedgerRow DEF out
<1> QED BY <1>3 DEF out

(* ... and one that was kept goes on telling it.                           *)
LEMMA KeptTrue ==
  ASSUME NEW n, NEW ty, NEW w, Tells(w, n, ty), NEW v, Faithful(v, n, ty),
         v.cursor = w.cursor, v.seen = w.seen,
         \A t \in OwnTx :
           /\ w.cursor = n.height /\ ~ForkedIn(w, n)
           /\ n.at[t] # 0 /\ SpentBy(t, v.out) = ty[t].ins /\ ty[t].ins \cap Bad = {}
           => SpentBy(t, v.out) = SpentBy(t, w.out) /\ v.rows[t] = w.rows[t]
  PROVE  True(v, n, ty)
<1>1. ForkedIn(v, n) = ForkedIn(w, n) BY DEF ForkedIn
<1> QED BY <1>1 DEF True, Tells

LEMMA QuarantineTrue ==
  ASSUME NEW n, NEW ty, NEW w, WalletTyped(w), True(w, n, ty), NEW quar
  PROVE  True([w EXCEPT !.quar = quar], n, ty)
<1> DEFINE v == [w EXCEPT !.quar = quar]
<1>1. v.out = w.out /\ v.rows = w.rows /\ v.cursor = w.cursor /\ v.seen = w.seen
  BY DEF WalletTyped
<1> HIDE DEF v
<1>2. True(v, n, ty)
  BY <1>1 DEF True, Faithful, Tells, ForkedIn, ValidTo, ValidOut
<1> QED BY <1>2 DEF v

LEMMA EmptyTrue ==
  ASSUME NEW n, NetType(n), NEW ty
  PROVE  True(EmptyWallet, n, ty)
<1> DEFINE w == EmptyWallet
<1>1. /\ w.cursor = 0 /\ w.seen = 0 /\ w.out = [o \in Out |-> Untracked]
      /\ n.height \in Nat /\ n.height >= 1 /\ n.fork \in Nat
  BY DEF EmptyWallet, NetType, Height, HeightOrNone
<1> HIDE DEF w
<1>2. ~ForkedIn(w, n) BY <1>1 DEF ForkedIn
<1>3. \A o \in Out : w.out[o].recv = 0 BY <1>1 DEF Untracked
<1>4. ScanOf(w.out, 0, n, ty)
  <2>1. \A x \in LiveIn(n) : ~(n.at[x] \in 1 .. 0) OBVIOUS
  <2>2. \A o \in Out : ~(n.at[o] \in 1 .. 0) OBVIOUS
  <2> QED BY <1>3, <2>1, <2>2 DEF ScanOf
<1>5. Faithful(w, n, ty) BY <1>1, <1>2, <1>4 DEF Faithful, ValidTo, ValidOut
<1>6. Tells(w, n, ty) BY <1>1 DEF Tells
<1> QED BY <1>5, <1>6 DEF True, w

(* The cursor rewind, on the branch the wallet knows.                      *)
LEMMA RewoundFaithful ==
  ASSUME NEW n, NetType(n), NEW ty \in [OwnTx -> Signed], NEW w, WalletTyped(w),
         Faithful(w, n, ty), NEW h \in Height, h <= w.cursor + 1,
         NEW v, v.out = RewoundTo(h, w.out), v.cursor = h - 1, v.seen = w.seen
  PROVE  Faithful(v, n, ty)
<1> DEFINE out == w.out
<1>0. w.seen \in {0, n.fork} /\ w.cursor <= n.height BY DEF Faithful
<1>1. /\ w.cursor \in Nat /\ n.height \in Nat /\ n.fork \in Nat /\ h \in Nat /\ h >= 1
      /\ out \in [Out -> TrackedOutput] /\ (ForkedIn(w, n) => n.fork >= 1)
      /\ h - 1 \in Nat /\ h - 1 <= w.cursor
  BY <1>0, ValidType DEF Height
<1>2. v.cursor <= n.height /\ v.seen \in {0, n.fork} BY <1>0, <1>1
<1> HIDE DEF out
<1>3. CASE ~ForkedIn(w, n)
  <2>1. ScanOf(out, w.cursor, n, ty) BY <1>3 DEF Faithful, ValidTo, ValidOut, out
  <2>2. ~ForkedIn(v, n) BY <1>1, <1>3 DEF ForkedIn
  <2>3. ScanOf(RewoundTo(h, out), h - 1, n, ty) BY <1>1, <2>1, RewoundScan
  <2> QED BY <1>2, <2>2, <2>3 DEF Faithful, ValidTo, ValidOut, out
<1>4. CASE ForkedIn(w, n)
  <2> DEFINE f == n.fork
             base == RewoundTo(f, out)
  <2>1. ScanOf(base, f - 1, n, ty) BY <1>4 DEF Faithful, ValidTo, ValidOut, out
  <2>2. base \in [Out -> TrackedOutput] BY <1>1, RewoundType
  <2>3. f \in Nat /\ f >= 1 /\ f - 1 \in Nat BY <1>1, <1>4
  <2>4. CASE f <= h - 1
    <3>1. ForkedIn(v, n) BY <1>4, <2>4 DEF ForkedIn
    <3>2. RewoundTo(f, RewoundTo(h, out)) = base BY <1>1, <2>3, <2>4, RewoundTwice
    <3> QED BY <1>2, <2>1, <3>1, <3>2 DEF Faithful, ValidTo, ValidOut, out
  <2>5. CASE ~(f <= h - 1)
    <3>1. ~ForkedIn(v, n) BY <2>5 DEF ForkedIn
    <3>2. RewoundTo(h, base) = RewoundTo(h, out) BY <1>1, <2>3, <2>5, RewoundTwice
    <3>3. h - 1 <= f - 1 BY <1>1, <2>3, <2>5
    <3> HIDE DEF base, f
    <3>4. ScanOf(RewoundTo(h, base), h - 1, n, ty)
      BY <1>1, <2>1, <2>2, <2>3, <3>3, RewoundScan
    <3> QED BY <1>2, <3>1, <3>2, <3>4 DEF Faithful, ValidTo, ValidOut, out
  <2> QED BY <2>4, <2>5
<1> QED BY <1>3, <1>4

(* Inputs that a payment takes for the first time.  A payment that is in   *)
(* the chain takes nothing any more from a wallet that has caught up.      *)
LEMMA PaidTrue ==
  ASSUME NEW n, NetType(n), NEW ty \in [OwnTx -> Signed], NetSound(n, ty),
         Even(ty), Charged(ty),
         NEW w, WalletTyped(w), True(w, n, ty), Clean(w.out), NEW u \in OwnTx,
         NEW S \in SUBSET Unspent(w.out), S \subseteq ty[u].ins,
         NEW v, WalletTyped(v), v.out = MarkSpent(w.out, S, u),
         v.cursor = w.cursor, v.seen = w.seen,
         \A t \in OwnTx : t # u => v.rows[t] = w.rows[t],
         S = ty[u].ins \/ v.rows[u] = w.rows[u] \/ w.rows[u] = NoRow
  PROVE  True(v, n, ty)
<1>1. w.out \in [Out -> TrackedOutput] /\ Faithful(w, n, ty) /\ Tells(w, n, ty)
  BY DEF WalletTyped, True
<1>2. ASSUME NEW o \in Out
      PROVE  /\ v.out[o].recv = w.out[o].recv /\ v.out[o].at = w.out[o].at
             /\ w.out[o].spent => v.out[o].spent
             /\ o \in S => ~w.out[o].spent /\ v.out[o].by = u
             /\ o \notin S => v.out[o] = w.out[o]
  <2>1. w.out[o] \in TrackedOutput BY <1>1
  <2>2. CASE o \in S
    <3>1. ~w.out[o].spent /\ w.out[o].by = NoTx BY <2>2 DEF Unspent, Clean
    <3>2. v.out[o] = [w.out[o] EXCEPT !.spent = TRUE, !.by = u]
      BY <2>2, <3>1 DEF MarkSpent
    <3> QED BY <2>1, <2>2, <3>1, <3>2 DEF TrackedOutput
  <2>3. CASE o \notin S BY <2>3 DEF MarkSpent
  <2> QED BY <2>2, <2>3
<1>3. Faithful(v, n, ty) BY <1>1, <1>2, MarkedFaithful
<1>4. ASSUME NEW t \in OwnTx, t # u PROVE SpentBy(t, v.out) = SpentBy(t, w.out)
  BY <1>2, <1>4 DEF SpentBy, SpentOuts, Tracked
<1>5. ASSUME w.cursor = n.height, ~ForkedIn(w, n), n.at[u] # 0,
             SpentBy(u, v.out) = ty[u].ins, ty[u].ins \cap Bad = {}
      PROVE  SpentBy(u, v.out) = SpentBy(u, w.out) /\ v.rows[u] = w.rows[u]
  <2>1. ScanOf(w.out, n.height, n, ty) BY <1>1, <1>5 DEF Faithful, ValidTo, ValidOut
  <2>2. /\ u \in LiveIn(n) /\ InsOf(u, ty) = ty[u].ins
        /\ n.at[u] \in 1 .. n.height
    <3>1. u \in Txid BY OutFacts
    <3> QED BY <1>5, <3>1 DEF LiveIn, Payments, InsOf, NetType, NetSound, HeightOrNone, Height
  <2>3. S = {}
    <3> SUFFICES ASSUME NEW o \in S PROVE FALSE
      OBVIOUS
    <3>1. o \in Out /\ w.out[o].recv # 0 /\ ~w.out[o].spent BY DEF Unspent, Tracked
    <3>2. o \in InsOf(u, ty) \ Bad BY <1>5, <2>2
    <3> QED BY <2>1, <2>2, <3>1, <3>2 DEF ScanOf
  <2>4. SpentBy(u, v.out) = SpentBy(u, w.out)
    BY <1>2, <2>3 DEF SpentBy, SpentOuts, Tracked
  <2>5. w.rows[u] # NoRow
    <3>1. w.rows[u] = ChainRow(u, n, ty) BY <1>1, <1>5, <2>4 DEF Tells
    <3> QED BY <3>1 DEF ChainRow, NoRow
  <2>6. ty[u].ins # {}
    <3>1. ty[u] # Unsigned BY <2>2 DEF NetSound
    <3>2. ty[u].fee > 0 BY <3>1 DEF Charged
    <3>3. ty[u] \in Signed OBVIOUS
    <3>4. ty[u].pay \in Nat /\ ty[u].fee \in Nat /\ ty[u].chg \in Nat BY <3>3 DEF Signed
    <3>5. SumOf(ty[u].ins, ty) = ty[u].pay + ty[u].fee + ty[u].chg BY DEF Even
    <3>6. ty[u].pay + ty[u].fee + ty[u].chg # 0 BY <3>2, <3>4
    <3> QED BY <3>5, <3>6, SumOfNone, Zenon
  <2> QED BY <2>3, <2>4, <2>5, <2>6
<1>6. \A t \in OwnTx :
        /\ w.cursor = n.height /\ ~ForkedIn(w, n)
        /\ n.at[t] # 0 /\ SpentBy(t, v.out) = ty[t].ins /\ ty[t].ins \cap Bad = {}
        => SpentBy(t, v.out) = SpentBy(t, w.out) /\ v.rows[t] = w.rows[t]
  BY <1>4, <1>5
<1> QED BY <1>1, <1>3, <1>6, KeptTrue

LEMMA SpendInputsTrue ==
  ASSUME tx \in [OwnTx -> Signed], NEW n, NetType(n), NetSound(n, tx), Even(tx), Charged(tx),
         NEW w, WalletOK(w), True(w, n, tx), Clean(w.out), NEW u \in OwnTx,
         tx[u].ins \subseteq Unspent(w.out)
  PROVE  True(SpendInputs(w, u), n, tx)
<1> DEFINE v == SpendInputs(w, u)
<1>1. /\ v.out = MarkSpent(w.out, tx[u].ins, u) /\ v.rows = w.rows
      /\ v.cursor = w.cursor /\ v.seen = w.seen
  BY DEF SpendInputs, WalletOK, WalletTyped
<1>2. WalletTyped(v) /\ WalletTyped(w) BY SpendInputsOK DEF WalletOK
<1> HIDE DEF v
<1>3. True(v, n, tx) BY <1>1, <1>2, PaidTrue
<1> QED BY <1>3 DEF v

LEMMA RecordedTrue ==
  ASSUME tx \in [OwnTx -> Signed], NEW n, NetType(n), NetSound(n, tx), Even(tx), Charged(tx),
         NEW w, WalletOK(w), True(w, n, tx), Clean(w.out), NEW u \in OwnTx,
         tx[u].ins \subseteq Unspent(w.out)
  PROVE  True(Recorded(w, u), n, tx)
<1> DEFINE s == SpendInputs(w, u)
           row == PendingRow(tx[u])
           v == Recorded(w, u)
<1>1. /\ s.out = MarkSpent(w.out, tx[u].ins, u) /\ s.rows = w.rows
      /\ s.cursor = w.cursor /\ s.seen = w.seen
  BY DEF SpendInputs, WalletOK, WalletTyped
<1>2. WalletTyped(s) /\ WalletTyped(v) /\ WalletTyped(w)
  BY SpendInputsOK, RecordedOK DEF WalletOK
<1>3. v = [s EXCEPT !.pend = s.pend \cup {u}, !.rows[u] = row]
  BY DEF Recorded
<1> HIDE DEF s, row
<1>4. v.out = s.out /\ v.cursor = s.cursor /\ v.seen = s.seen
      /\ v.rows = [s.rows EXCEPT ![u] = row]
  BY <1>2, <1>3 DEF WalletTyped
<1> HIDE DEF v
<1>5. \A t \in OwnTx : t # u => v.rows[t] = w.rows[t]
  BY <1>1, <1>2, <1>4, OutFacts
<1>6. /\ v.out = MarkSpent(w.out, tx[u].ins, u)
      /\ v.cursor = w.cursor /\ v.seen = w.seen
  BY <1>1, <1>4
<1>7. True(v, n, tx) BY <1>2, <1>5, <1>6, PaidTrue
<1> QED BY <1>7 DEF v

LEMMA AppliedTrue ==
  ASSUME tx \in [OwnTx -> Signed], NEW n, NetType(n), NetSound(n, tx), Even(tx), Charged(tx),
         NEW w, WalletOK(w), True(w, n, tx), Clean(w.out), NEW u \in OwnTx
  PROVE  True(Applied(w, u), n, tx)
<1> DEFINE S == NewlySpent(w, u)
           row == IF w.rows[u] = NoRow THEN PendingRow(tx[u]) ELSE w.rows[u]
           v == Applied(w, u)
<1>1. S \in SUBSET Unspent(w.out) /\ S \subseteq tx[u].ins BY DEF NewlySpent, Matched
<1>2. /\ v.out = MarkSpent(w.out, S, u)
      /\ v.rows = [w.rows EXCEPT ![u] = row]
      /\ v.cursor = w.cursor /\ v.seen = w.seen
  BY DEF Applied, WalletOK, WalletTyped
<1>3. WalletTyped(v) /\ WalletTyped(w) BY AppliedOK DEF WalletOK
<1>4. w.rows[u] = NoRow \/ row = w.rows[u] OBVIOUS
<1> HIDE DEF S, row, v
<1>5. v.rows[u] = row /\ \A t \in OwnTx : t # u => v.rows[t] = w.rows[t]
  BY <1>2, OutFacts DEF WalletOK, WalletTyped
<1>6. v.rows[u] = w.rows[u] \/ w.rows[u] = NoRow BY <1>4, <1>5
<1>7. v.out = MarkSpent(w.out, S, u) /\ v.cursor = w.cursor /\ v.seen = w.seen
  BY <1>2
<1>8. \A t \in OwnTx : t # u => v.rows[t] = w.rows[t] BY <1>5
<1>9. True(v, n, tx) BY <1>1, <1>3, <1>6, <1>7, <1>8, PaidTrue
<1> QED BY <1>9 DEF v

(* A mark without transaction is attributed to none.                       *)
LEMMA SweptTrue ==
  ASSUME NEW n, NetType(n), NEW ty \in [OwnTx -> Signed],
         NEW w, WalletOK(w), True(w, n, ty), Clean(w.out), NEW S \in SUBSET Out
  PROVE  True(Swept(w, S), n, ty)
<1> DEFINE v == Swept(w, S)
           M == {o \in S : Status[o] = 1}
<1>0. w.out \in [Out -> TrackedOutput] /\ Faithful(w, n, ty) /\ Tells(w, n, ty)
      /\ WalletTyped(w)
  BY DEF WalletOK, WalletTyped, True
<1>1. /\ v.rows = w.rows /\ v.cursor = w.cursor /\ v.seen = w.seen
      /\ v.out = [o \in Out |-> IF o \in M THEN [w.out[o] EXCEPT !.spent = TRUE]
                                           ELSE w.out[o]]
  BY <1>0 DEF Swept, WalletTyped
<1>2. WalletTyped(v) BY SweptOK DEF WalletOK
<1> HIDE DEF v, M
<1>3. ASSUME NEW o \in Out
      PROVE  /\ v.out[o].recv = w.out[o].recv /\ v.out[o].by = w.out[o].by
             /\ v.out[o].at = w.out[o].at
             /\ v.out[o].spent <=> (w.out[o].spent \/ o \in M)
  <2>1. w.out[o] \in TrackedOutput BY <1>0
  <2>2. CASE o \in M BY <1>1, <2>1, <2>2 DEF TrackedOutput
  <2>3. CASE o \notin M BY <1>1, <2>3
  <2> QED BY <2>2, <2>3
<1>4. Faithful(v, n, ty) BY <1>0, <1>1, <1>2, <1>3, MarkedFaithful
<1>5. ASSUME NEW t \in OwnTx PROVE SpentBy(t, v.out) = SpentBy(t, w.out)
  <2>1. t # NoTx BY NamesAssumption, OutFacts
  <2> QED BY <1>3, <2>1 DEF SpentBy, SpentOuts, Tracked, Clean
<1>6. True(v, n, ty) BY <1>0, <1>1, <1>4, <1>5, KeptTrue
<1> QED BY <1>6 DEF v

(* A checkpoint commits a scan and the ledger of it.                       *)
LEMMA CheckpointParts ==
  ASSUME NEW w, WalletTyped(w), NEW out \in [Out -> TrackedOutput], NEW c \in HeightOrNone,
         NEW v, v = Checkpoint(w, out, c)
  PROVE  /\ WalletTyped(v) /\ v.out = out /\ v.cursor = c /\ v.seen = w.seen
         /\ v.rows = Ledger(out, w.pend, tx)
<1> DEFINE r == Rebuilt(w, out, c)
           rows == Ledger(out, w.pend, tx)
           pend == Retained(r.pend, Ledger(out, r.pend, tx))
<1>1. WalletOK(r) /\ WalletOK(v) BY RebuiltOK, CheckpointOK
<1>2. r.out = out /\ r.cursor = c /\ r.seen = w.seen /\ r.rows = rows
  <2>1. r = [w EXCEPT !.out = out, !.cursor = c, !.rows = rows, !.total = UnspentSum(out)]
    BY DEF Rebuilt
  <2> HIDE DEF r, rows
  <2> QED BY <2>1 DEF WalletTyped
<1>3. v = [r EXCEPT !.pend = pend] BY DEF Checkpoint
<1> HIDE DEF r, rows, pend
<1>4. v.out = r.out /\ v.cursor = r.cursor /\ v.seen = r.seen /\ v.rows = r.rows
  BY <1>1, <1>3 DEF WalletOK, WalletTyped
<1> QED BY <1>1, <1>2, <1>4 DEF WalletOK, rows

(* A wallet that has committed the scan up to u on the branch of n.        *)
LEMMA CommittedTrue ==
  ASSUME NEW n, NetType(n), NEW ty \in [OwnTx -> Signed], NetSound(n, ty),
         Even(ty), Charged(ty), NEW v, WalletTyped(v), NEW u \in Height, u <= n.height,
         v.cursor = u, v.seen = n.fork, ScanOf(v.out, u, n, ty),
         NEW pend, v.rows = Ledger(v.out, pend, ty)
  PROVE  True(v, n, ty)
<1>1. ~ForkedIn(v, n) BY DEF ForkedIn
<1>2. Faithful(v, n, ty) BY <1>1 DEF Faithful, ValidTo, ValidOut
<1> QED BY <1>2, LedgerTells

LEMMA RefreshTrue ==
  ASSUME Inv, MoneyInv, NetSound(net, tx), Even(tx), Charged(tx), True(wallet, net, tx),
         NEW u \in Height, NEW named \in BOOLEAN, NEW answered \in BOOLEAN,
         Refresh(u, named, answered)
  PROVE  True(wallet', net, tx)
<1> DEFINE lo == Unscanned(wallet) - 1
           out == Scanned(Base(wallet), lo, u, named)
           v   == Checkpoint(wallet, out, u)
           first == [v EXCEPT !.seen = net.fork]
           last == Again(first, out, u)
<1>0. /\ NetTyped /\ NetType(net) /\ WalletTyped(wallet) /\ u \in HeightOrNone
      /\ net.fork \in HeightOrNone /\ tx \in [OwnTx -> Signed]
      /\ wallet.out \in [Out -> TrackedOutput]
  BY Money, OutFacts DEF NetTyped, NetType, Payments
<1>1. Base(wallet) = ValidOut(wallet, net) /\ lo = ValidTo(wallet, net)
      /\ lo \in Nat /\ lo <= wallet.cursor /\ wallet.cursor \in Nat
      /\ Base(wallet) \in [Out -> TrackedOutput]
      /\ ScanOf(Base(wallet), lo, net, tx) /\ net.height \in Nat
  <2>1. Faithful(wallet, net, tx) BY DEF True
  <2>2. wallet.seen \in {0, net.fork} BY <2>1 DEF Faithful
  <2>3. ForkedIn(wallet, net) = Forked(wallet) BY DEF ForkedIn, Forked
  <2>4. Base(wallet) = ValidOut(wallet, net) BY <2>3 DEF Base, ValidOut
  <2>5. ValidTo(wallet, net) \in Nat /\ ValidTo(wallet, net) <= wallet.cursor
        /\ ValidOut(wallet, net) \in [Out -> TrackedOutput] /\ wallet.cursor \in Nat
        /\ net.height \in Nat
    BY <1>0, <2>2, ValidType
  <2>6. lo = ValidTo(wallet, net)
    <3>1. CASE Forked(wallet) BY <2>3, <3>1 DEF Unscanned, ValidTo
    <3>2. CASE ~Forked(wallet) BY <2>3, <2>5, <3>2 DEF Unscanned, ValidTo
    <3> QED BY <3>1, <3>2
  <2> QED BY <2>1, <2>4, <2>5, <2>6 DEF Faithful
<1>2. u \in Nat /\ lo <= u /\ u <= net.height
  <2>1. u \in Nat BY DEF Height
  <2>2. \/ u \in Unscanned(wallet) .. net.height
        \/ u = wallet.cursor /\ u = net.height
    BY DEF Refresh
  <2>3. Unscanned(wallet) = lo + 1
    <3>1. Unscanned(wallet) \in Int BY <1>0 DEF Unscanned, WalletTyped, HeightOrNone
    <3> QED BY <3>1
  <2> HIDE DEF lo
  <2> QED BY <1>1, <2>1, <2>2, <2>3
<1>3. ScanOf(out, u, net, tx)
  <2> DEFINE b == Base(wallet)
  <2> HIDE DEF lo, b
  <2>1. b \in [Out -> TrackedOutput] /\ ScanOf(b, lo, net, tx) BY <1>1 DEF b
  <2>2. ScanOf(Scanned(b, lo, u, named), u, net, tx)
    BY <1>0, <1>1, <1>2, <2>1, ScannedScan
  <2> QED BY <2>2 DEF b
<1>4. out \in [Out -> TrackedOutput] BY <1>0, <1>1, ScannedType
<1> HIDE DEF out
<1>5. /\ WalletTyped(v) /\ v.out = out /\ v.cursor = u
      /\ v.rows = Ledger(out, wallet.pend, tx)
  BY <1>0, <1>4, CheckpointParts
<1> HIDE DEF v
<1>6. /\ first.out = out /\ first.cursor = u /\ first.seen = net.fork
      /\ first.rows = Ledger(out, wallet.pend, tx) /\ first.pend = v.pend
      /\ first.total = v.total
  BY <1>5 DEF WalletTyped
<1>7. WalletTyped(first)
  <2>1. v.rows = first.rows BY <1>5, <1>6
  <2> QED BY <1>0, <1>5, <1>6, <2>1 DEF WalletTyped
<1> HIDE DEF first
<1>8. True(first, net, tx) BY <1>0, <1>2, <1>3, <1>6, <1>7, CommittedTrue
<1>9. WalletTyped(last) /\ True(last, net, tx)
  <2> DEFINE c == Checkpoint(first, out, u)
  <2>1. /\ WalletTyped(c) /\ c.out = out /\ c.cursor = u /\ c.seen = net.fork
        /\ c.rows = Ledger(out, first.pend, tx)
    BY <1>0, <1>4, <1>6, <1>7, CheckpointParts
  <2>2. last = c \/ last = first BY DEF Again
  <2> HIDE DEF c, last
  <2>3. True(c, net, tx) BY <1>0, <1>2, <1>3, <2>1, CommittedTrue
  <2> QED BY <1>7, <1>8, <2>1, <2>2, <2>3
<1> HIDE DEF last
<1>10. True(Revalidate(last), net, tx) BY <1>9, QuarantineTrue DEF Revalidate
<1>11. wallet' = IF u = net.height /\ answered THEN Revalidate(last) ELSE last
  BY DEF Refresh, lo, out, v, first, last
<1> QED BY <1>9, <1>10, <1>11

LEMMA RewindTrue ==
  ASSUME Inv, MoneyInv, NetSound(net, tx), Even(tx), Charged(tx), True(wallet, net, tx),
         NEW h \in Height, RewindCursor(h)
  PROVE  True(wallet', net, tx)
<1> DEFINE out == RewoundTo(h, wallet.out)
           rows == Ledger(out, wallet.pend, tx)
           v == Rebuilt(wallet, out, h - 1)
<1>0. /\ NetType(net) /\ WalletTyped(wallet) /\ tx \in [OwnTx -> Signed]
      /\ wallet.out \in [Out -> TrackedOutput] /\ h <= wallet.cursor + 1
      /\ wallet' = [v EXCEPT !.quar = {}]
  BY Money DEF NetTyped, NetType, Payments, RewindCursor
<1>1. h - 1 \in HeightOrNone BY BoundsAssumption DEF Height, HeightOrNone
<1>2. out \in [Out -> TrackedOutput] BY <1>0, RewoundType
<1>3. WalletTyped(v) BY <1>0, <1>1, <1>2, RebuiltOK DEF WalletOK
<1>4. v.out = out /\ v.cursor = h - 1 /\ v.seen = wallet.seen /\ v.rows = rows
  <2>1. v = [wallet EXCEPT !.out = out, !.cursor = h - 1, !.rows = rows,
                           !.total = UnspentSum(out)]
    BY DEF Rebuilt
  <2> HIDE DEF v, out, rows
  <2> QED BY <1>0, <2>1 DEF WalletTyped
<1> HIDE DEF v
<1>5. Faithful(v, net, tx)
  <2>1. Faithful(wallet, net, tx) BY DEF True
  <2> QED BY <1>0, <1>4, <2>1, RewoundFaithful
<1>6. v.rows = Ledger(v.out, wallet.pend, tx) BY <1>4
<1> HIDE DEF out, rows
<1>7. True(v, net, tx) BY <1>0, <1>3, <1>5, <1>6, LedgerTells
<1> QED BY <1>0, <1>3, <1>7, QuarantineTrue
-----------------------------------------------------------------------------
(* Steps.                                                                  *)

(* A transaction costs something, whatever the number of its inputs.       *)
FeesPositive == \A n \in 1 .. Cardinality(Out) : NecessaryFee[n] > 0

(* What may yet be relayed is signed.                                      *)
Payable ==
  /\ \A t \in saved : tx[t] # Unsigned
  /\ call.pc = "broadcast" => tx[call.tx] # Unsigned

ChainInv ==
  /\ NetSound(net, tx)
  /\ Charged(tx)
  /\ Payable
  /\ True(wallet, net, tx)
  /\ \A w \in blob : True(w, net, tx)

AllInv == Inv /\ MoneyInv /\ Delivers /\ ChainInv

LEMMA Chain ==
  ASSUME AllInv
  PROVE  /\ Inv /\ MoneyInv /\ Delivers /\ ChainInv
         /\ NetType(net) /\ NetTyped /\ tx \in [OwnTx -> Signed]
         /\ NetSound(net, tx) /\ Even(tx) /\ Charged(tx) /\ True(wallet, net, tx)
         /\ WalletOK(wallet) /\ WalletTyped(wallet) /\ Clean(wallet.out)
         /\ \A w \in blob : WalletTyped(w) /\ True(w, net, tx)
         /\ call \in Call
<1>1. \A w \in blob : WalletTyped(w) BY DEF AllInv, Inv, Typed
<1>2. NetType(net) /\ Clean(wallet.out)
  BY Money DEF AllInv, NetTyped, NetType, Payments, Sound
<1> QED BY <1>1, <1>2, Money DEF AllInv, ChainInv, Delivers

LEMMA CarriesSame ==
  ASSUME NEW n, NEW ty, NetSound(n, ty)
  PROVE  Carries(n, ty, n, ty)
BY DEF Carries

LEMMA CarriesOn ==
  ASSUME NEW n, NEW ty, NEW m, NEW tz, NEW k, NEW tu,
         Carries(n, ty, m, tz), Carries(m, tz, k, tu)
  PROVE  Carries(n, ty, k, tu)
BY DEF Carries

(* A step that signs nothing.                                              *)
LEMMA ChainMoves ==
  ASSUME AllInv, UNCHANGED <<tx, blob, saved>>, Carries(net, tx, net', tx),
         True(wallet', net', tx), call'.pc = "broadcast" => call' = call
  PROVE  ChainInv'
<1>1. NetSound(net, tx)' BY DEF Carries
<1>2. Charged(tx)' /\ Payable' BY DEF AllInv, ChainInv, Charged, Payable
<1>3. \A w \in blob : True(w, net', tx)
  BY Chain DEF Carries
<1>4. (\A w \in blob : True(w, net, tx))' BY <1>3
<1>5. True(wallet, net, tx)' OBVIOUS
<1> QED BY <1>1, <1>2, <1>4, <1>5 DEF ChainInv

(* ... and leaves the network alone.                                       *)
LEMMA ChainRests ==
  ASSUME AllInv, UNCHANGED <<net, tx, blob, saved>>, True(wallet', net, tx),
         call'.pc = "broadcast" => call' = call
  PROVE  ChainInv'
<1>1. Carries(net, tx, net', tx) BY Chain, CarriesSame
<1>2. True(wallet', net', tx) OBVIOUS
<1> QED BY <1>1, <1>2, ChainMoves

(* The network learns of a transaction nobody contradicts.                 *)
LEMMA RelayedCarries ==
  ASSUME AllInv, NEW x \in Payments, Acceptable(x), Relayed(x),
         x \in OwnTx => tx[x] # Unsigned
  PROVE  Carries(net, tx, net', tx) /\ NetType(net') /\ True(wallet, net', tx)
<1>1. LiveIn(net) = Live BY DEF LiveIn, Live, Payments
<1>2. \A y \in Payments : InsOf(y, tx) = Ins(y) /\ Ins(y) \in SUBSET Out
  BY Chain, InsType DEF InsOf, Ins
<1> DEFINE P == IF x \in Live THEN net.pool ELSE net.pool \cup {x}
<1>3. net' = [net EXCEPT !.pool = P] BY DEF Relayed
<1>4. net.pool \in SUBSET Payments /\ P \in SUBSET Payments BY Chain DEF NetType
<1>5. ASSUME NEW z \in P, z \notin net.pool
      PROVE  /\ z \notin LiveIn(net) /\ P = net.pool \cup {z}
             /\ \A y \in LiveIn(net) : InsOf(z, tx) \cap InsOf(y, tx) = {}
             /\ z \in OwnTx => tx[z] # Unsigned
  <2>1. z = x /\ x \notin Live BY <1>5
  <2>2. \A o \in Ins(x) : Spenders(o) = {} BY <2>1 DEF Acceptable
  <2>3. ASSUME NEW y \in LiveIn(net) PROVE InsOf(x, tx) \cap InsOf(y, tx) = {}
    <3>1. y \in Live /\ y \in Payments BY <1>1, <1>4 DEF LiveIn
    <3> QED BY <1>2, <2>2, <3>1 DEF Spenders
  <2> QED BY <1>1, <2>1, <2>3
<1> HIDE DEF P
<1>6. Carries(net, tx, net', tx)
  BY <1>3, <1>4, <1>5, Chain, PooledCarries
<1>7. NetType(net') BY <1>3, <1>4, Chain DEF NetType
<1> QED BY <1>6, <1>7, Chain DEF Carries

LEMMA NetworkChain == ASSUME AllInv, Network PROVE ChainInv'
<1>0. UNCHANGED <<tx, wallet, blob, saved, call>>
  BY DEF Network, ForeignSpend, Mine, PoolDrop, Reorg, Unspendable, host
<1>1. ASSUME NEW f \in Foreign, ForeignSpend(f) PROVE Carries(net, tx, net', tx)
  <2>1. f \in Payments /\ f \notin OwnTx
    BY NamesAssumption, OutFacts DEF Payments, Out
  <2> QED BY <1>1, <2>1, RelayedCarries DEF ForeignSpend
<1>2. ASSUME NEW S \in SUBSET net.pool, Mine(S) PROVE Carries(net, tx, net', tx)
  <2>1. \A x \in S : InsOf(x, tx) = Ins(x) BY DEF InsOf, Ins
  <2>2. \A x \in S : \A o \in InsOf(x, tx) : net.at[o] # 0 BY <1>2, <2>1 DEF Mine
  <2>3. net' = [net EXCEPT !.at = [x \in Txid |-> IF x \in S THEN net.height + 1
                                                  ELSE net.at[x]],
                           !.pool = net.pool \ S, !.height = net.height + 1]
    BY <1>2 DEF Mine
  <2> QED BY <1>2, <2>2, <2>3, Chain, MinedCarries DEF Mine
<1>3. ASSUME NEW x \in net.pool, PoolDrop(x) PROVE Carries(net, tx, net', tx)
  <2> DEFINE P == net.pool \ {x}
  <2>1. net' = [net EXCEPT !.pool = P] BY <1>3 DEF PoolDrop
  <2>2. P \in SUBSET Payments /\ \A z \in P : z \in net.pool BY Chain DEF NetType
  <2> HIDE DEF P
  <2> QED BY <2>1, <2>2, Chain, PooledCarries
<1>4. ASSUME NEW h \in 2 .. net.height, Reorg(h) PROVE Carries(net, tx, net', tx)
  <2> DEFINE B == {x \in Payments : net.at[x] >= h}
  <2>1. net' = [at |-> [x \in Txid |-> IF x \in B THEN 0 ELSE net.at[x]],
                pool |-> net.pool \cup B, height |-> net.height + 1, fork |-> h]
    BY <1>4 DEF Reorg, Payments
  <2>2. net.fork = 0 /\ net.height < MaxHeight BY <1>4 DEF Reorg
  <2>3. B = {x \in Payments : net.at[x] >= h} OBVIOUS
  <2> HIDE DEF B
  <2> QED BY <2>1, <2>2, <2>3, Chain, ReplacedCarries
<1>5. Carries(net, tx, net', tx) BY <1>1, <1>2, <1>3, <1>4 DEF Network
<1>6. True(wallet, net', tx) BY <1>5, Chain DEF Carries
<1> QED BY <1>0, <1>5, <1>6, ChainMoves

LEMMA HostChain == ASSUME AllInv, HostCall PROVE ChainInv'
<1>1. ASSUME NEW prep \in BOOLEAN, NEW kind, NEW only, Begin(kind, prep, only)
      PROVE  ChainInv'
  <2>1. call'.pc = "preflight" BY <1>1 DEF Begin, Idle
  <2> QED BY <1>1, <2>1, Chain, ChainRests DEF Begin, host
<1>2. ASSUME NEW answered \in BOOLEAN, Previews(answered) PROVE ChainInv'
  <2>1. True(wallet', net, tx) BY <1>2, Chain, QuarantineTrue DEF Previews, QuarantineTo
  <2> QED BY <1>2, <2>1, ChainRests DEF Previews, host
<1>3. ASSUME NEW t \in OwnTx, RelayKnown(t) PROVE ChainInv'
  <2>1. True(wallet', net, tx)
    BY <1>3, Chain, AppliedTrue DEF RelayKnown, Applies
  <2> QED BY <1>3, <2>1, ChainRests DEF RelayKnown, host
<1>4. ASSUME NEW t \in OwnTx, RelayAccepted(t) \/ RelayUnanswered(t) PROVE ChainInv'
  <2>1. tx[t] # Unsigned /\ t \in Payments
    BY <1>4 DEF RelayAccepted, RelayUnanswered, AllInv, ChainInv, Payable, Payments
  <2>2. Carries(net, tx, net', tx) /\ NetType(net') /\ True(wallet, net', tx)
    BY <1>4, <2>1, RelayedCarries DEF RelayAccepted, RelayUnanswered
  <2>3. NetSound(net', tx) BY <2>2 DEF Carries
  <2>4. True(wallet', net', tx)
    <3>1. CASE RelayAccepted(t)
      <4>1. True(Applied(wallet, t), net', tx) BY <2>2, <2>3, Chain, AppliedTrue
      <4> QED BY <3>1, <4>1 DEF RelayAccepted, Applies
    <3>2. CASE RelayUnanswered(t) BY <2>2, <3>2 DEF RelayUnanswered
    <3> QED BY <1>4, <3>1, <3>2
  <2> QED BY <1>4, <2>2, <2>4, ChainMoves DEF RelayAccepted, RelayUnanswered, host
<1>5. ASSUME NEW u \in Height, NEW named \in BOOLEAN, NEW answered \in BOOLEAN,
             Refresh(u, named, answered)
      PROVE  ChainInv'
  BY <1>5, Chain, RefreshTrue, ChainRests DEF Refresh, host
<1>6. ASSUME NEW h \in Height, RewindCursor(h) PROVE ChainInv'
  BY <1>6, Chain, RewindTrue, ChainRests DEF RewindCursor, host
<1>7. ASSUME ForceRescan PROVE ChainInv'
  BY <1>7, Chain, EmptyTrue, ChainRests DEF ForceRescan, host
<1>8. ASSUME Export PROVE ChainInv'
  BY <1>8, Chain DEF Export, ChainInv, Payable
<1>9. ASSUME Restart PROVE ChainInv'
  <2>1. blob # {} => (CHOOSE w \in blob : TRUE) \in blob OBVIOUS
  <2>2. True(wallet', net, tx) BY <1>9, <2>1, Chain, EmptyTrue DEF Restart
  <2>3. call'.pc # "broadcast" BY <1>9, IdleCall DEF Restart
  <2> QED BY <1>9, <2>2, <2>3, ChainRests DEF Restart, host
<1> QED
  BY <1>1, <1>2, <1>3, <1>4, <1>5, <1>6, <1>7, <1>8, <1>9
  DEF HostCall, SendBegins, FilterBegins, SweepBegins

(* A signature costs something and has a name.                             *)
LEMMA SignatureCharged ==
  ASSUME FeesPositive, AllInv, NEW t, NEW p, Signature(t, p), tx' = [tx EXCEPT ![t] = p]
  PROVE  /\ Carries(net, tx, net, tx') /\ Charged(tx')
         /\ tx'[t] # Unsigned /\ \A u \in OwnTx : tx[u] # Unsigned => tx'[u] # Unsigned
<1>1. t \in OwnTx /\ tx[t] = Unsigned /\ p \in Signed /\ p.ins # {} BY DEF Signature
<1>2. p.ins \in SUBSET Out BY <1>1 DEF Signed
<1>3. Cardinality(p.ins) \in 1 .. Cardinality(Out)
  BY <1>1, <1>2, OutFacts, FS_Subset, FS_CardinalityType, FS_EmptySet
<1>4. p.fee > 0 BY <1>3 DEF Signature, FeesPositive
<1>5. p # Unsigned BY <1>1 DEF Unsigned
<1>6. tx'[t] = p /\ \A u \in OwnTx : u # t => tx'[u] = tx[u] BY <1>1, Chain
<1>7. Charged(tx') BY <1>4, <1>6, Chain DEF Charged
<1>8. Carries(net, tx, net, tx') BY <1>1, Chain, SignedCarries
<1> QED BY <1>1, <1>5, <1>6, <1>7, <1>8

LEMMA SignsChain ==
  ASSUME FeesSettle, FeesPositive, AllInv, NEW answered \in BOOLEAN, Signs(answered)
  PROVE  ChainInv'
<1>1. PICK t, p : Signature(t, p) /\ Emits(t, p, answered) BY Chain, SignsSignature
<1>2. /\ UNCHANGED <<net, blob>>
      /\ wallet' = [wallet EXCEPT !.quar = Quarantine(answered) \cup Mismatching(answered)]
  BY DEF Signs, QuarantineTo
<1>3. /\ Carries(net, tx, net, tx') /\ Charged(tx') /\ tx'[t] # Unsigned
      /\ \A u \in OwnTx : tx[u] # Unsigned => tx'[u] # Unsigned
  BY <1>1, SignatureCharged DEF Emits
<1>4. /\ \A u \in saved' : u \in saved \/ u = t
      /\ call'.pc = "broadcast" => call'.tx = t
  <2>1. call \in Call BY Chain
  <2>2. CASE call.prep BY <1>1, <2>2, IdleCall DEF Emits
  <2>3. CASE ~call.prep
    <3>1. /\ call' = [call EXCEPT !.pc = "broadcast", !.tx = t,
                                  !.denied = @ \cup Denied(answered)]
          /\ UNCHANGED saved
      BY <1>1, <2>3 DEF Emits
    <3>2. call'.tx = t BY <2>1, <3>1 DEF Call
    <3> QED BY <3>1, <3>2
  <2> QED BY <2>2, <2>3
<1>5. saved \subseteq OwnTx /\ \A u \in saved : tx[u] # Unsigned
  BY DEF AllInv, ChainInv, Payable, Inv, Typed
<1>6. Payable' BY <1>3, <1>4, <1>5 DEF Payable
<1>7. NetSound(net, tx') BY <1>3 DEF Carries
<1>8. True(wallet, net, tx') /\ \A w \in blob : True(w, net, tx')
  BY <1>3, Chain DEF Carries
<1>9. True(wallet', net, tx') BY <1>2, <1>8, Chain, QuarantineTrue
<1>10. NetSound(net, tx)' BY <1>2, <1>7
<1>11. True(wallet, net, tx)' BY <1>2, <1>9
<1>12. (\A w \in blob : True(w, net, tx))' BY <1>2, <1>8
<1>13. Charged(tx)' BY <1>3
<1> QED BY <1>6, <1>10, <1>11, <1>12, <1>13 DEF ChainInv

LEMMA ProbeChain == ASSUME FeesPositive, AllInv, ProbeAccepted PROVE ChainInv'
<1> DEFINE p == Payment(Subset, Pay, tx)
<1>1. PICK t \in Fresh : Signature(t, p) /\ tx' = [tx EXCEPT ![t] = p] /\ Relayed(t)
  BY Chain, ProbeSignature
<1>2. UNCHANGED <<wallet, blob, saved>> /\ call'.pc = "bisect"
      /\ \A o \in Subset : Spenders(o) = {}
  BY Chain DEF ProbeAccepted, host, Call
<1>3. p.ins = Subset BY DEF Payment
<1> HIDE DEF p
<1>4. /\ Carries(net, tx, net, tx') /\ Charged(tx') /\ tx'[t] # Unsigned
      /\ \A u \in OwnTx : tx[u] # Unsigned => tx'[u] # Unsigned
  BY <1>1, SignatureCharged
<1>5. t \in OwnTx /\ tx[t] = Unsigned /\ p \in Signed BY <1>1 DEF Signature
<1>6. t \notin LiveIn(net) /\ tx' \in [OwnTx -> Signed] /\ tx'[t] = p
      /\ \A u \in OwnTx : u # t => tx'[u] = tx[u]
  BY <1>1, <1>5, Chain, SignedChain
<1>7. LiveIn(net) = Live /\ t \in Payments BY <1>5 DEF LiveIn, Live, Payments
<1> DEFINE P == net.pool \cup {t}
<1>8. net' = [net EXCEPT !.pool = P] BY <1>1, <1>6, <1>7 DEF Relayed
<1>9. ASSUME NEW y \in LiveIn(net) PROVE InsOf(t, tx') \cap InsOf(y, tx') = {}
  <2>1. y # t /\ y \in Live BY <1>6, <1>7
  <2>2. InsOf(y, tx') = Ins(y) BY <1>6, <2>1 DEF InsOf, Ins
  <2>3. InsOf(t, tx') = Subset BY <1>3, <1>5, <1>6 DEF InsOf
  <2> QED BY <1>2, <2>1, <2>2, <2>3 DEF Spenders
<1>10. P \in SUBSET Payments /\ \A x \in P : x \in net.pool \/ (x = t /\ P = net.pool \cup {x})
  BY <1>7, Chain DEF NetType
<1> HIDE DEF P
<1>11. NetSound(net, tx') BY <1>4 DEF Carries
<1>12. Carries(net, tx', net', tx')
  <2>1. ASSUME NEW z \in P, z \notin net.pool
        PROVE  /\ z \notin LiveIn(net) /\ P = net.pool \cup {z}
               /\ \A y \in LiveIn(net) : InsOf(z, tx') \cap InsOf(y, tx') = {}
               /\ z \in OwnTx => tx'[z] # Unsigned
    <3>1. z = t /\ P = net.pool \cup {z} BY <1>10, <2>1
    <3> QED BY <1>4, <1>6, <1>9, <3>1
  <2> QED BY <1>6, <1>8, <1>10, <1>11, <2>1, Chain, PooledCarries
<1>13. Carries(net, tx, net', tx') BY <1>4, <1>12, CarriesOn
<1>14. True(wallet, net', tx') /\ \A w \in blob : True(w, net', tx')
  BY <1>13, Chain DEF Carries
<1>15. Payable'
  <2>1. saved \subseteq OwnTx /\ \A u \in saved : tx[u] # Unsigned
    BY DEF AllInv, ChainInv, Payable, Inv, Typed
  <2> QED BY <1>2, <1>4, <2>1 DEF Payable
<1>16. NetSound(net, tx)' BY <1>12 DEF Carries
<1>17. True(wallet, net, tx)' BY <1>2, <1>14
<1>18. (\A w \in blob : True(w, net, tx))' BY <1>2, <1>14
<1>19. Charged(tx)' BY <1>4
<1> QED BY <1>15, <1>16, <1>17, <1>18, <1>19 DEF ChainInv

LEMMA BroadcastChain ==
  ASSUME AllInv, BroadcastAccepted \/ BroadcastUnanswered
  PROVE  ChainInv'
<1>1. call.pc = "broadcast" /\ call' = Idle /\ UNCHANGED <<tx, blob, saved>>
  BY DEF BroadcastAccepted, BroadcastUnanswered, AfterError, host
<1>2. call.tx \in OwnTx /\ tx[call.tx].ins \subseteq Unspent(wallet.out)
  BY <1>1 DEF AllInv, Inv, CallInv, MoneyInv
<1>3. tx[call.tx] # Unsigned /\ call.tx \in Payments
  BY <1>1, <1>2 DEF AllInv, ChainInv, Payable, Payments
<1>4. call'.pc # "broadcast" BY <1>1, IdleCall
<1>5. CASE UNCHANGED <<net, wallet>> BY <1>1, <1>4, <1>5, Chain, ChainRests
<1>6. CASE Acceptable(call.tx) /\ Relayed(call.tx)
  <2>1. Carries(net, tx, net', tx) /\ NetType(net') /\ True(wallet, net', tx)
    BY <1>3, <1>6, RelayedCarries
  <2>2. NetSound(net', tx) BY <2>1 DEF Carries
  <2>3. True(wallet', net', tx)
    <3>1. CASE UNCHANGED wallet BY <2>1, <3>1
    <3>2. CASE wallet' = Recorded(wallet, call.tx)
      BY <1>2, <2>1, <2>2, <3>2, Chain, RecordedTrue
    <3>3. CASE wallet' = SpendInputs(wallet, call.tx)
      BY <1>2, <2>1, <2>2, <3>3, Chain, SpendInputsTrue
    <3> QED
      BY <3>1, <3>2, <3>3
      DEF BroadcastAccepted, BroadcastUnanswered, SendRecords, SweepRecords, FilterRecords
  <2> QED BY <1>1, <1>4, <2>1, <2>3, ChainMoves
<1> QED BY <1>5, <1>6 DEF BroadcastAccepted, BroadcastUnanswered

(* Refusals mark outputs, or the quarantine, or nothing.                   *)
LEMMA RefusedChain ==
  ASSUME AllInv, NEW answered \in BOOLEAN, NEW err,
         BroadcastRefused(err, answered) \/ ProbeRefused(err, answered)
  PROVE  ChainInv'
<1>1. UNCHANGED <<net, tx, blob, saved>> BY DEF BroadcastRefused, ProbeRefused, host
<1>2. call'.pc # "broadcast"
  <2>1. CASE BroadcastRefused(err, answered)
    <3>1. call' = Idle \/ \E kicked : call' = Hunt(kicked)
      BY <2>1 DEF BroadcastRefused, SendRefused, FilterRefused, SweepRefused
    <3> QED BY <3>1, Chain, IdleCall DEF Hunt, Call
  <2>2. CASE ProbeRefused(err, answered)
    BY <2>2, Chain DEF ProbeRefused, SendProbeRefused, FilterProbeRefused, Call
  <2> QED BY <2>1, <2>2
<1>3. UNCHANGED wallet \/ \E S \in SUBSET Out : wallet' = Swept(wallet, S)
  <2>1. CASE BroadcastRefused(err, answered)
    <3>1. call.tx \in OwnTx /\ tx[call.tx].ins \in SUBSET Out
      BY <2>1, Chain, Standing DEF BroadcastRefused, CallInv, TxTyped
    <3>2. CASE UNCHANGED wallet BY <3>2
    <3>3. CASE SendRefused(err, answered)
      <4> DEFINE S == IF err = "double" THEN Shown(tx[call.tx].ins, answered) ELSE {}
      <4>1. S \in SUBSET Out BY <3>1, ShownType
      <4>2. wallet' = Swept(wallet, S) BY <3>3 DEF SendRefused
      <4> QED BY <4>1, <4>2
    <3> QED BY <2>1, <3>2, <3>3 DEF BroadcastRefused, FilterRefused, SweepRefused
  <2>2. CASE ProbeRefused(err, answered)
    <3>1. Subset \in SUBSET Out BY <2>2, Chain, SubsetType DEF ProbeRefused
    <3>2. CASE UNCHANGED wallet BY <3>2
    <3>3. CASE SendProbeRefused(err, answered)
      <4> DEFINE S == IF err = "double" THEN Shown(Subset, answered) ELSE {}
      <4>1. S \in SUBSET Out BY <3>1, ShownType
      <4>2. wallet' = Swept(wallet, S) BY <3>3 DEF SendProbeRefused
      <4> QED BY <4>1, <4>2
    <3> QED BY <2>2, <3>2, <3>3 DEF ProbeRefused, FilterProbeRefused
  <2> QED BY <2>1, <2>2
<1>4. True(wallet', net, tx) BY <1>3, Chain, SweptTrue
<1> QED BY <1>1, <1>2, <1>4, ChainRests

LEMMA CallChain ==
  ASSUME FeesSettle, FeesPositive, AllInv, CallStep
  PROVE  ChainInv'
<1>1. ASSUME SendFails \/ FilterFails \/ SweepFails \/ ProbePassed PROVE ChainInv'
  <2>1. UNCHANGED <<net, tx, blob, saved, wallet>>
    BY <1>1 DEF SendFails, FilterFails, SweepFails, Fails, ProbePassed, host
  <2>2. call'.pc # "broadcast"
    BY <1>1, Chain, IdleCall
    DEF SendFails, FilterFails, SweepFails, Fails, ProbePassed, Call
  <2> QED BY <2>1, <2>2, Chain, ChainRests
<1>2. ASSUME NEW answered \in BOOLEAN,
             \/ SendBreaksOff(answered) \/ FilterBreaksOff(answered) \/ SweepBreaksOff(answered)
             \/ Insufficient(answered) \/ MismatchFound(answered) \/ BisectEnds(answered)
      PROVE  ChainInv'
  <2>1. /\ \E quar : wallet' = [wallet EXCEPT !.quar = quar]
        /\ UNCHANGED <<net, tx, blob, saved>>
    BY <1>2
    DEF SendBreaksOff, FilterBreaksOff, SweepBreaksOff, BreaksOff, Insufficient,
        MismatchFound, BisectEnds, QuarantineTo, host
  <2>2. call'.pc # "broadcast"
    <3>1. CASE Insufficient(answered) BY <3>1, IdleCall DEF Insufficient
    <3>2. CASE MismatchFound(answered)
      BY <3>2, Chain, IdleCall DEF MismatchFound, SendMismatch, FilterMismatch, Call
    <3>3. CASE BisectEnds(answered) BY <3>3, Chain, IdleCall DEF BisectEnds, Call
    <3>4. CASE SendBreaksOff(answered) \/ FilterBreaksOff(answered) \/ SweepBreaksOff(answered)
      BY <3>4, IdleCall DEF SendBreaksOff, FilterBreaksOff, SweepBreaksOff, BreaksOff
    <3> QED BY <1>2, <3>1, <3>2, <3>3, <3>4
  <2>3. True(wallet', net, tx) BY <2>1, Chain, QuarantineTrue
  <2> QED BY <2>1, <2>2, <2>3, ChainRests
<1> QED
  BY <1>1, <1>2, SignsChain, ProbeChain, BroadcastChain, RefusedChain DEF CallStep

LEMMA ChainInit == ASSUME Init PROVE ChainInv
<1> DEFINE out == [o \in Out |-> IF o \in Coin THEN [Untracked EXCEPT !.recv = 1]
                                               ELSE Untracked]
           rows == Ledger(out, EmptyWallet.pend, tx)
<1>1. Inv /\ MoneyInv BY InvInit, MoneyInit
<1>2. NetType(net) /\ tx \in [OwnTx -> Signed] /\ WalletTyped(wallet)
      /\ \A t \in OwnTx : tx[t] = Unsigned
  BY <1>1, Money DEF NetTyped, NetType, Payments, Init
<1>3. /\ net.height = 2 /\ net.fork = 0 /\ net.pool = {}
      /\ \A x \in Txid : net.at[x] = IF x \in Coin THEN 1 ELSE 0
  BY DEF Init
<1>4. \A x \in Payments : x \in Txid /\ x \notin Coin
  BY NamesAssumption, OutFacts DEF Payments, Out
<1>5. LiveIn(net) = {} BY <1>3, <1>4 DEF LiveIn
<1>6. NetSound(net, tx)
  <2>1. \A c \in Coin : net.at[c] = 1 BY <1>3, OutFacts
  <2>2. \A x \in Txid : net.at[x] <= net.height BY <1>3
  <2> QED BY <1>3, <1>5, <2>1, <2>2 DEF NetSound
<1>7. Charged(tx) BY <1>2 DEF Charged
<1>8. Payable BY IdleCall DEF Init, Payable
<1>9. /\ wallet.out = out /\ wallet.rows = rows /\ wallet.cursor = 2 /\ wallet.seen = 0
  <2>1. wallet = [EmptyWallet EXCEPT !.out = out, !.cursor = 2, !.rows = rows,
                                     !.total = UnspentSum(out)]
    BY DEF Init, Rebuilt
  <2> HIDE DEF out, rows
  <2> QED BY <2>1 DEF EmptyWallet
<1>10. \A o \in Out : out[o].recv = IF o \in Coin THEN 1 ELSE 0
  <2>1. \A o \in Out : out[o] = IF o \in Coin THEN [Untracked EXCEPT !.recv = 1] ELSE Untracked
    OBVIOUS
  <2> HIDE DEF out
  <2> QED BY <2>1 DEF Untracked
<1> HIDE DEF out, rows
<1>11. ScanOf(out, 2, net, tx)
  <2>1. \A o \in Out : net.at[o] = out[o].recv BY <1>3, <1>10, OutFacts
  <2> QED BY <1>5, <1>10, <2>1 DEF ScanOf
<1>12. wallet.rows = Ledger(wallet.out, EmptyWallet.pend, tx) BY <1>9 DEF rows
<1>13. Even(tx) BY <1>2, SumOfNone DEF Even, Unsigned
<1>14. 2 \in Height BY StartAssumption, BoundsAssumption DEF Height
<1>15. True(wallet, net, tx)
  <2>1. wallet.cursor = 2 /\ wallet.seen = net.fork /\ ScanOf(wallet.out, 2, net, tx)
        /\ 2 <= net.height
    BY <1>3, <1>9, <1>11
  <2> QED BY <1>2, <1>6, <1>7, <1>12, <1>13, <1>14, <2>1, CommittedTrue
<1> QED BY <1>6, <1>7, <1>8, <1>15 DEF Init, ChainInv

(* A wallet that has scanned the chain shows every payment in it whose     *)
(* inputs it attributes to it as one outgoing row, at its block, of what   *)
(* was paid and the fee, whichever way it learned of it: by sending, by a  *)
(* relay of a payload it had prepared, by a scan, with a record or         *)
(* without, before a reorganisation or after, from a restored blob.        *)
THEOREM LedgerTellsChainHolds ==
  ASSUME FeesSettle, FeesPositive
  PROVE  Spec => []LedgerTellsChain
<1>1. Init => AllInv
  <2>1. Init => Delivers
    <3> SUFFICES ASSUME Init PROVE Delivers
      OBVIOUS
    <3>1. \A t \in OwnTx : tx[t] = Unsigned BY DEF Init
    <3> QED BY <3>1, SumOfNone DEF Delivers, Even, Grounded, Unsigned
  <2> QED BY <2>1, InvInit, MoneyInit, ChainInit DEF AllInv
<1>2. AllInv /\ [Next]_vars => AllInv'
  <2> SUFFICES ASSUME AllInv, [Next]_vars PROVE AllInv'
    OBVIOUS
  <2>1. Inv' /\ MoneyInv' /\ Delivers' BY InvStep, MoneyStep, DeliversStep DEF AllInv
  <2>2. ChainInv'
    <3>1. CASE UNCHANGED vars BY <3>1, Chain, ChainRests DEF vars, host
    <3>2. CASE Next BY <3>2, NetworkChain, HostChain, CallChain DEF Next
    <3> QED BY <3>1, <3>2
  <2> QED BY <2>1, <2>2 DEF AllInv
<1>3. AllInv => LedgerTellsChain
  <2> SUFFICES ASSUME AllInv, NEW t \in OwnTx, CaughtUp(wallet), net.at[t] # 0,
                      SpentBy(t, wallet.out) = tx[t].ins, tx[t].ins \cap Bad = {}
               PROVE  wallet.rows[t] = [dir |-> "out", amt |-> OutgoingAmount(tx[t]),
                                        at |-> net.at[t], pending |-> FALSE]
    BY DEF LedgerTellsChain
  <2>1. Tells(wallet, net, tx) BY Chain DEF True
  <2> QED BY <2>1 DEF Tells, CaughtUp, Forked, ForkedIn, ChainRow
<1> QED BY <1>1, <1>2, <1>3, PTL DEF Spec

-----------------------------------------------------------------------------
(* Quotes.                                                                 *)

(* The rounds of a preview look for the first number from n on that is in  *)
(* G, or stop behind L.                                                    *)
First(L, G, n, m) ==
  /\ m \in n .. (L + 1)
  /\ m > L \/ m \in G
  /\ \A k \in n .. (m - 1) : k \notin G

Seeks(f, L, G, B) ==
  f = [n \in 1 .. (L + 1) |-> IF n > L \/ n \in G THEN B[n] ELSE f[n + 1]]

LEMMA FirstUnique ==
  ASSUME NEW L \in Nat, NEW G, NEW n \in Nat, NEW m, NEW k,
         First(L, G, n, m), First(L, G, n, k)
  PROVE  m = k
<1>1. m \in Nat /\ k \in Nat /\ n <= m /\ n <= k /\ m <= L + 1 /\ k <= L + 1 BY DEF First
<1>2. ~(m < k)
  <2> SUFFICES ASSUME m < k PROVE FALSE
    OBVIOUS
  <2>1. m \in n .. (k - 1) /\ m <= L BY <1>1
  <2> QED BY <1>1, <2>1 DEF First
<1>3. ~(k < m)
  <2> SUFFICES ASSUME k < m PROVE FALSE
    OBVIOUS
  <2>1. k \in n .. (m - 1) /\ k <= L BY <1>1
  <2> QED BY <1>1, <2>1 DEF First
<1> QED BY <1>1, <1>2, <1>3

LEMMA FirstExists ==
  ASSUME NEW L \in Nat, NEW G, NEW n \in 1 .. (L + 1)
  PROVE  \E m \in 1 .. (L + 1) : First(L, G, n, m)
<1> DEFINE X == {m \in n .. (L + 1) : m > L \/ m \in G}
<1>1. X \in SUBSET Nat /\ L + 1 \in X OBVIOUS
<1>2. PICK m \in X : \A k \in X : m <= k
  <2> HIDE DEF X
  <2> QED BY <1>1, LeastNat
<1>3. ASSUME NEW k \in n .. (m - 1) PROVE k \notin G
  <2>1. m \in n .. (L + 1) BY <1>2
  <2>2. k \in n .. (L + 1) /\ ~(m <= k) BY <2>1
  <2> QED BY <1>2, <2>2
<1> QED BY <1>2, <1>3 DEF First

LEMMA SeeksExists ==
  ASSUME NEW L \in Nat, NEW G, NEW B
  PROVE  \E f : Seeks(f, L, G, B)
<1> DEFINE Least(n) == CHOOSE m \in 1 .. (L + 1) : First(L, G, n, m)
           f == [n \in 1 .. (L + 1) |-> B[Least(n)]]
<1>1. ASSUME NEW n \in 1 .. (L + 1) PROVE First(L, G, n, Least(n))
  BY FirstExists
<1> HIDE DEF Least
<1>2. ASSUME NEW n \in 1 .. (L + 1)
      PROVE  f[n] = IF n > L \/ n \in G THEN B[n] ELSE f[n + 1]
  <2>1. CASE n > L \/ n \in G
    <3>1. First(L, G, n, n) BY <2>1 DEF First
    <3>2. Least(n) = n BY <1>1, <3>1, FirstUnique
    <3> QED BY <2>1, <3>2
  <2>2. CASE ~(n > L \/ n \in G)
    <3>1. n + 1 \in 1 .. (L + 1) BY <2>2
    <3>2. First(L, G, n + 1, Least(n + 1)) BY <1>1, <3>1
    <3>3. First(L, G, n, Least(n + 1)) BY <2>2, <3>1, <3>2 DEF First
    <3>4. Least(n) = Least(n + 1) BY <1>1, <3>3, FirstUnique
    <3> QED BY <2>2, <3>1, <3>4
  <2> QED BY <2>1, <2>2
<1>3. f = [n \in 1 .. (L + 1) |-> f[n]] OBVIOUS
<1> HIDE DEF f
<1> QED BY <1>2, <1>3 DEF Seeks

LEMMA SeeksFirst ==
  ASSUME NEW L \in Nat, NEW G, NEW B, NEW f, Seeks(f, L, G, B),
         NEW n \in 1 .. (L + 1), NEW m, First(L, G, n, m)
  PROVE  f[n] = B[m]
<1> DEFINE X == {k \in n .. m : f[k] # B[m]}
<1>1. m \in n .. (L + 1) /\ m \in Nat /\ n \in Nat BY DEF First
<1> SUFFICES ASSUME X # {} PROVE FALSE
  BY <1>1
<1>2. PICK k \in X : \A j \in X : k >= j
  <2>1. X \in SUBSET (0 .. m) BY <1>1
  <2> HIDE DEF X
  <2> QED BY <1>1, <2>1, GreatestNat
<1>3. k \in n .. m /\ f[k] # B[m] BY <1>2
<1>4. k \in 1 .. (L + 1) BY <1>1, <1>3
<1>5. f[k] = IF k > L \/ k \in G THEN B[k] ELSE f[k + 1] BY <1>4 DEF Seeks
<1>6. CASE k = m BY <1>3, <1>5, <1>6 DEF First
<1>7. CASE k # m
  <2>1. k \in n .. (m - 1) /\ ~(k > L) /\ k + 1 \in n .. m BY <1>1, <1>3, <1>7
  <2>2. k \notin G BY <2>1 DEF First
  <2>3. f[k] = f[k + 1] BY <1>5, <2>1, <2>2
  <2>4. k + 1 \notin X BY <1>2, <1>3, <1>1
  <2> QED BY <1>3, <2>1, <2>3, <2>4
<1> QED BY <1>6, <1>7

-----------------------------------------------------------------------------
(* The order of the selection.                                             *)

LEMMA BeforeOrder ==
  ASSUME NEW ty \in [OwnTx -> Signed], NEW S \in SUBSET Out
  PROVE  /\ \A o \in S : ~Before(ty, o, o)
         /\ \A o, p \in S : o # p => Before(ty, o, p) \/ Before(ty, p, o)
         /\ \A o, p, q \in S : Before(ty, o, p) /\ Before(ty, p, q) => Before(ty, o, q)
<1>1. \A o \in S : AmountOf(o, ty) \in Nat /\ Position[o] \in Nat
  BY AmountType, PositionAssumption
<1>2. \A o, p \in S : o # p => Position[o] # Position[p]
  BY PositionAssumption
<1>3. \A o, p \in S : Before(ty, o, p) <=>
        \/ LargestFirst /\ AmountOf(o, ty) > AmountOf(p, ty)
        \/ ~LargestFirst /\ AmountOf(p, ty) > AmountOf(o, ty)
        \/ AmountOf(o, ty) = AmountOf(p, ty) /\ Position[o] < Position[p]
  BY <1>1 DEF Before, Larger
<1> QED BY <1>1, <1>2, <1>3

(* The outputs of the first i in the list.                                 *)
Begins(list, i) == {list[k] : k \in 1 .. i}

LEMMA ListInOrder ==
  ASSUME tx \in [OwnTx -> Signed], NEW S \in SUBSET Out
  PROVE  LET list == InOrder(S)
             n == Cardinality(S)
         IN /\ n \in Nat /\ list \in [1 .. n -> S] /\ Len(list) = n
            /\ \A i, j \in 1 .. n : i < j => Before(tx, list[i], list[j])
            /\ \A o \in S : \E i \in 1 .. n : list[i] = o
            /\ \A i, j \in 1 .. n : list[i] = list[j] => i = j
<1> DEFINE R == {p \in S \X S : Before(tx, p[1], p[2])}
           n == Cardinality(S)
           list == InOrder(S)
<1>1. \A o, p \in S : <<o, p>> \in R <=> Before(tx, o, p) OBVIOUS
<1>2. Orders(R, S)
  <2> HIDE DEF R
  <2> QED BY <1>1, BeforeOrder DEF Orders
<1>3. IsFiniteSet(S) /\ n \in Nat BY SumType, FS_CardinalityType
<1> HIDE DEF R
<1>4. ASSUME NEW s \in [1 .. n -> S]
      PROVE  Lists(s, R, S) <=> \A i, j \in DOMAIN s : i < j => Before(tx, s[i], s[j])
  <2>1. \A i \in DOMAIN s : s[i] \in S OBVIOUS
  <2> HIDE DEF n
  <2>2. Lists(s, R, S) <=> \A i, j \in DOMAIN s : i < j => <<s[i], s[j]>> \in R
    BY DEF Lists, n
  <2> QED BY <1>1, <2>1, <2>2
<1>5. \E s \in [1 .. n -> S] : \A i, j \in DOMAIN s : i < j => Before(tx, s[i], s[j])
  BY <1>2, <1>3, <1>4, ListExists DEF Lists
<1>6. /\ list \in [1 .. n -> S]
      /\ \A i, j \in DOMAIN list : i < j => Before(tx, list[i], list[j])
  BY <1>5 DEF InOrder
<1>7. Lists(list, R, S) BY <1>4, <1>6
<1> HIDE DEF list
<1>8. /\ Len(list) = n
      /\ \A o \in S : \E i \in DOMAIN list : list[i] = o
      /\ \A i, j \in DOMAIN list : list[i] = list[j] => i = j
  BY <1>2, <1>3, <1>7, ListedOnce
<1> HIDE DEF n
<1> QED BY <1>3, <1>6, <1>8 DEF n, list

(* The i-th output and those before it.                                    *)
LEMMA BeginsFacts ==
  ASSUME tx \in [OwnTx -> Signed], NEW S \in SUBSET Out, NEW n, n = Cardinality(S),
         NEW list, list = InOrder(S), NEW i \in 1 .. n
  PROVE  /\ Begins(list, i) \in SUBSET S
         /\ Cardinality(Begins(list, i)) = i
         /\ Begins(list, i) = {p \in S : p = list[i] \/ Before(tx, p, list[i])}
         /\ \A j \in 1 .. n : Begins(list, i) \subseteq Begins(list, j) <=> i <= j
<1>1. /\ n \in Nat /\ list \in [1 .. n -> S]
      /\ \A j, k \in 1 .. n : j < k => Before(tx, list[j], list[k])
      /\ \A o \in S : \E j \in 1 .. n : list[j] = o
      /\ \A j, k \in 1 .. n : list[j] = list[k] => j = k
  BY ListInOrder
<1>2. /\ \A o \in S : ~Before(tx, o, o)
      /\ \A o, p, q \in S : Before(tx, o, p) /\ Before(tx, p, q) => Before(tx, o, q)
  BY BeforeOrder
<1>3. Begins(list, i) \in SUBSET S BY <1>1 DEF Begins
<1>4. ASSUME NEW j \in 1 .. n PROVE list[j] \in Begins(list, i) <=> j <= i
  <2>1. list[j] \in Begins(list, i) <=> \E k \in 1 .. i : list[k] = list[j] BY DEF Begins
  <2>2. \A k \in 1 .. i : k \in 1 .. n BY <1>1
  <2>3. ASSUME NEW k \in 1 .. i, list[k] = list[j] PROVE j <= i
    BY <1>1, <2>2, <2>3
  <2> QED BY <1>1, <2>1, <2>3
<1>5. Cardinality(Begins(list, i)) = i
  <2> DEFINE f == [k \in 1 .. i |-> list[k]]
  <2>1. \A k \in 1 .. i : k \in 1 .. n BY <1>1
  <2>2. \A k, j \in 1 .. i : f[k] = f[j] => k = j BY <1>1, <2>1
  <2>3. f \in [1 .. i -> Begins(list, i)] BY DEF Begins
  <2>4. \A o \in Begins(list, i) : \E k \in 1 .. i : f[k] = o BY DEF Begins
  <2> HIDE DEF f
  <2>5. f \in Bijection(1 .. i, Begins(list, i))
    BY <2>2, <2>3, <2>4 DEF Bijection, Injection, Surjection, IsInjective
  <2>6. IsFiniteSet(1 .. i) /\ Cardinality(1 .. i) = i /\ i \in Nat BY <1>1, FS_Interval
  <2> QED BY <2>5, <2>6, FS_Bijection DEF ExistsBijection
<1>6. ASSUME NEW o \in S
      PROVE  o \in Begins(list, i) <=> o = list[i] \/ Before(tx, o, list[i])
  <2>1. PICK j \in 1 .. n : list[j] = o BY <1>1
  <2>2. j < i => Before(tx, o, list[i]) BY <1>1, <2>1
  <2>3. j = i => o = list[i] BY <2>1
  <2>4. ASSUME i < j PROVE o # list[i] /\ ~Before(tx, o, list[i])
    <3>1. list[i] \in S /\ Before(tx, list[i], o) BY <1>1, <2>1, <2>4
    <3> QED BY <1>2, <3>1
  <2>5. o \in Begins(list, i) <=> j <= i BY <1>4, <2>1
  <2> QED BY <1>1, <2>2, <2>3, <2>4, <2>5
<1>7. ASSUME NEW j \in 1 .. n
      PROVE  Begins(list, i) \subseteq Begins(list, j) <=> i <= j
  <2>1. ASSUME i <= j PROVE Begins(list, i) \subseteq Begins(list, j)
    <3>1. \A k \in 1 .. i : k \in 1 .. j BY <1>1, <2>1
    <3> QED BY <3>1 DEF Begins
  <2>2. ASSUME ~(i <= j) PROVE ~(Begins(list, i) \subseteq Begins(list, j))
    <3>1. list[i] \in Begins(list, i) BY <1>1, <1>4
    <3>2. list[i] \notin Begins(list, j)
      <4>1. list[i] \in Begins(list, j) <=> \E k \in 1 .. j : list[k] = list[i] BY DEF Begins
      <4>2. \A k \in 1 .. j : k \in 1 .. n /\ k # i BY <1>1, <2>2
      <4> QED BY <1>1, <4>1, <4>2
    <3> QED BY <3>1, <3>2
  <2> QED BY <2>1, <2>2
<1> QED BY <1>3, <1>5, <1>6, <1>7

-----------------------------------------------------------------------------
(* The rounds of a preview end at the first number of outputs that cover   *)
(* the amount and the fee of that many inputs, or when they are used up.   *)

TakesFrom(list) ==
  CHOOSE take : take =
    [n \in 1 .. Len(list) + 1 |->
       IF n > Len(list) \/ SumTo(list, n) >= Pay THEN n ELSE take[n + 1]]

RoundsFrom(list, first) ==
  CHOOSE round : round =
    [n \in 1 .. Len(list) + 1 |->
       IF n > Len(list) \/ n >= first + MaxRounds THEN NoQuote
       ELSE IF SumTo(list, n) >= Pay + NecessaryFee[n]
            THEN [pay |-> Pay, fee |-> NecessaryFee[n]]
            ELSE round[n + 1]]

LEMMA RoundsFcn ==
  \A list : /\ FirstPass(list) = TakesFrom(list)[1]
            /\ Rounds(list) = RoundsFrom(list, FirstPass(list))[FirstPass(list)]
BY DEF Rounds, FirstPass, TakesFrom, RoundsFrom

Paying(list) == {n \in 1 .. Len(list) : SumTo(list, n) >= Pay}

Covered(list) == {n \in 1 .. Len(list) : SumTo(list, n) >= Pay + NecessaryFee[n]}

Quote(list) ==
  [n \in 1 .. Len(list) + 1 |->
     IF n > Len(list) THEN NoQuote ELSE [pay |-> Pay, fee |-> NecessaryFee[n]]]

LEMMA FirstPassEnds ==
  ASSUME NEW list, NEW L \in Nat, Len(list) = L, NEW k, First(L, Paying(list), 1, k)
  PROVE  FirstPass(list) = k
<1> DEFINE P == Paying(list)
           I == [n \in 1 .. (L + 1) |-> n]
<1>1. Seeks(TakesFrom(list), L, P, I)
  <2>1. ASSUME NEW f
        PROVE  Seeks(f, L, P, I) <=>
                 f = [n \in 1 .. Len(list) + 1 |->
                        IF n > Len(list) \/ SumTo(list, n) >= Pay THEN n ELSE f[n + 1]]
    <3>1. [n \in 1 .. (L + 1) |-> IF n > L \/ n \in P THEN I[n] ELSE f[n + 1]]
            = [n \in 1 .. Len(list) + 1 |->
                 IF n > Len(list) \/ SumTo(list, n) >= Pay THEN n ELSE f[n + 1]]
      BY DEF Paying
    <3> HIDE DEF P, I
    <3> QED BY <3>1 DEF Seeks
  <2> HIDE DEF P, I
  <2>2. \E f : Seeks(f, L, P, I) BY SeeksExists
  <2> QED BY <2>1, <2>2 DEF TakesFrom
<1>2. I[k] = k /\ 1 \in 1 .. (L + 1) BY DEF First
<1> HIDE DEF P, I
<1>3. TakesFrom(list)[1] = I[k] BY <1>1, <1>2, SeeksFirst DEF P
<1> QED BY <1>2, <1>3, RoundsFcn

LEMMA RoundsEnd ==
  ASSUME NEW list, NEW L \in Nat, Len(list) = L,
         \A n \in 1 .. L : SumTo(list, n) \in Nat /\ NecessaryFee[n] \in Nat,
         NEW k, First(L, Paying(list), 1, k), NEW m, First(L, Covered(list), 1, m)
  PROVE  /\ k \in Nat /\ k <= m
         /\ Rounds(list) = IF m >= k + MaxRounds THEN NoQuote ELSE Quote(list)[m]
<1> DEFINE G == Covered(list) \cup {n \in 1 .. L : n >= k + MaxRounds}
           Q == [n \in 1 .. (L + 1) |->
                   IF n > L \/ n >= k + MaxRounds THEN NoQuote
                   ELSE [pay |-> Pay, fee |-> NecessaryFee[n]]]
<1>1. k \in 1 .. (L + 1) /\ m \in 1 .. (L + 1) /\ MaxRounds \in Nat
  BY BoundsAssumption DEF First
<1>2. Seeks(RoundsFrom(list, k), L, G, Q)
  <2>1. ASSUME NEW f
        PROVE  Seeks(f, L, G, Q) <=>
                 f = [n \in 1 .. Len(list) + 1 |->
                        IF n > Len(list) \/ n >= k + MaxRounds THEN NoQuote
                        ELSE IF SumTo(list, n) >= Pay + NecessaryFee[n]
                             THEN [pay |-> Pay, fee |-> NecessaryFee[n]]
                             ELSE f[n + 1]]
    <3>1. [n \in 1 .. (L + 1) |-> IF n > L \/ n \in G THEN Q[n] ELSE f[n + 1]]
            = [n \in 1 .. Len(list) + 1 |->
                        IF n > Len(list) \/ n >= k + MaxRounds THEN NoQuote
                        ELSE IF SumTo(list, n) >= Pay + NecessaryFee[n]
                             THEN [pay |-> Pay, fee |-> NecessaryFee[n]]
                             ELSE f[n + 1]]
      BY DEF Covered
    <3> HIDE DEF G, Q
    <3> QED BY <3>1 DEF Seeks
  <2> HIDE DEF G, Q
  <2>2. \E f : Seeks(f, L, G, Q) BY SeeksExists
  <2> QED BY <2>1, <2>2 DEF RoundsFrom
<1>3. FirstPass(list) = k BY FirstPassEnds
<1>4. k <= m
  <2> SUFFICES ASSUME m < k PROVE FALSE
    BY <1>1
  <2>1. m \in 1 .. L /\ m \in 1 .. (k - 1) BY <1>1
  <2>2. m \in Covered(list) BY <2>1 DEF First
  <2>3. SumTo(list, m) >= Pay + NecessaryFee[m] BY <2>2 DEF Covered
  <2>4. m \in Paying(list) BY <2>1, <2>3, SpendAssumption DEF Paying
  <2> QED BY <2>1, <2>4 DEF First
<1>5. CASE m < k + MaxRounds
  <2>1. \A j \in k .. (m - 1) : j \in 1 .. (m - 1) /\ j < k + MaxRounds BY <1>1, <1>5
  <2>2. First(L, G, k, m)
    <3>1. \A j \in k .. (m - 1) : j \notin Covered(list) BY <2>1 DEF First
    <3>2. \A j \in k .. (m - 1) : j \notin G BY <1>1, <2>1, <3>1
    <3>3. m \in k .. (L + 1) BY <1>1, <1>4
    <3>4. m > L \/ m \in Covered(list) BY DEF First
    <3>5. m > L \/ m \in G BY <3>4
    <3> HIDE DEF G
    <3> QED BY <3>2, <3>3, <3>5 DEF First
  <2>3. Q[m] = Quote(list)[m] BY <1>1, <1>5 DEF Quote
  <2> HIDE DEF G, Q
  <2>4. RoundsFrom(list, k)[k] = Q[m] BY <1>1, <1>2, <2>2, SeeksFirst
  <2> QED BY <1>1, <1>3, <1>4, <1>5, <2>3, <2>4, RoundsFcn
<1>6. CASE ~(m < k + MaxRounds)
  <2> DEFINE e == k + MaxRounds
  <2>1. e \in k .. (L + 1) BY <1>1, <1>6
  <2>2. \A j \in k .. (e - 1) : j \in 1 .. (m - 1) /\ j < k + MaxRounds BY <1>1, <1>6
  <2>3. First(L, G, k, e)
    <3>0. \A j \in k .. (e - 1) : j \notin Covered(list) BY <2>2 DEF First
    <3>1. \A j \in k .. (e - 1) : j \notin G BY <1>1, <2>2, <3>0
    <3>2. e > L \/ e \in G BY <1>1, <2>1
    <3> HIDE DEF G, e
    <3> QED BY <2>1, <3>1, <3>2 DEF First
  <2>4. Q[e] = NoQuote BY <1>1, <2>1
  <2> HIDE DEF G, Q, e
  <2>5. RoundsFrom(list, k)[k] = Q[e] BY <1>1, <1>2, <2>3, SeeksFirst
  <2> QED BY <1>1, <1>3, <1>4, <1>6, <2>4, <2>5, RoundsFcn
<1> QED BY <1>1, <1>5, <1>6

(* A selection over m outputs is begun in round m - k + 1 if the first     *)
(* round takes k.                                                          *)
LEMMA RoundsCounted ==
  ASSUME tx \in [OwnTx -> Signed], NEW S \in SUBSET Out, NEW n, n = Cardinality(S),
         NEW list, list = InOrder(S), NEW k \in 1 .. n, NEW m \in k .. n
  PROVE  Cardinality({Begins(list, i) : i \in k .. m}) = m - k + 1
<1>0. n \in Nat BY ListInOrder
<1> DEFINE T == {Begins(list, i) : i \in k .. m}
           f == [i \in k .. m |-> Begins(list, i)]
<1>1. \A i \in k .. m : i \in 1 .. n BY <1>0
<1>2. \A i, j \in k .. m : f[i] = f[j] => i = j
  <2> SUFFICES ASSUME NEW i \in k .. m, NEW j \in k .. m, f[i] = f[j] PROVE i = j
    OBVIOUS
  <2>1. i <= j /\ j <= i BY <1>1, BeginsFacts
  <2> QED BY <2>1
<1>3. f \in [k .. m -> T] OBVIOUS
<1>4. \A R \in T : \E i \in k .. m : f[i] = R OBVIOUS
<1> HIDE DEF f, T
<1>5. f \in Bijection(k .. m, T)
  BY <1>2, <1>3, <1>4 DEF Bijection, Injection, Surjection, IsInjective
<1>6. IsFiniteSet(k .. m) /\ Cardinality(k .. m) = m - k + 1 BY <1>0, FS_Interval
<1>7. Cardinality(T) = m - k + 1 BY <1>5, <1>6, FS_Bijection DEF ExistsBijection
<1> QED BY <1>7 DEF T

(* A send with the same outputs selects the same first so many, unless     *)
(* that takes more rounds than there are; in the last of them the preview  *)
(* has given up.                                                           *)
LEMMA RoundsSelect ==
  ASSUME tx \in [OwnTx -> Signed], NEW S \in SUBSET Out
  PROVE  /\ Selections(S, Pay, tx) = {} => Rounds(InOrder(S)) = NoQuote
         /\ \A R \in Selections(S, Pay, tx) :
              Rounds(InOrder(S)) =
                IF RoundOf(R, S, Pay, tx) = MaxRounds + 1 THEN NoQuote
                ELSE [pay |-> Pay, fee |-> NecessaryFee[Cardinality(R)]]
<1> DEFINE list == InOrder(S)
           n == Cardinality(S)
           G == Covered(list)
           P == Paying(list)
           Some(i) == Begins(list, i)
<1>1. n \in Nat /\ Len(list) = n /\ \A o \in S : \E i \in 1 .. n : list[i] = o
  BY ListInOrder
<1>2. n <= Cardinality(Out) BY OutFacts, FS_Subset
<1>3. ASSUME NEW i \in 1 .. n
      PROVE  /\ Some(i) \in SUBSET S /\ Cardinality(Some(i)) = i
             /\ Some(i) = {p \in S : p = list[i] \/ Before(tx, p, list[i])}
             /\ \A j \in 1 .. n : Some(i) \subseteq Some(j) <=> i <= j
  <2> HIDE DEF n, list
  <2> QED BY BeginsFacts DEF n, list
<1> HIDE DEF list, n
<1>4. \A i \in 1 .. n : SumTo(list, i) = SumOf(Some(i), tx) BY DEF SumTo, Begins
<1>5. \A i \in 1 .. n : SumTo(list, i) \in Nat /\ NecessaryFee[i] \in Nat
  <2>1. \A i \in 1 .. n : Some(i) \in SUBSET Out BY <1>3
  <2>2. Cardinality(Out) \in Nat BY OutFacts, FS_CardinalityType
  <2> QED BY <1>1, <1>2, <1>4, <2>1, <2>2, SumType, AmountsAssumption
<1>6. Taken(S, tx) = {Some(i) : i \in 1 .. n}
  <2> DEFINE Upto(o) == {p \in S : p = o \/ Before(tx, p, o)}
  <2>1. \A i \in 1 .. n : list[i] \in S BY ListInOrder DEF list, n
  <2>2. \A i \in 1 .. n : Some(i) = Upto(list[i]) BY <1>3
  <2>3. Taken(S, tx) = {Upto(o) : o \in S} BY DEF Taken
  <2> HIDE DEF Some, Upto
  <2> QED BY <1>1, <2>1, <2>2, <2>3
<1>7. Covering(S, Pay, tx) = {Some(i) : i \in G}
  <2>1. \A i \in 1 .. n : i \in G <=> SumOf(Some(i), tx) >= Pay + NecessaryFee[Cardinality(Some(i))]
    BY <1>1, <1>3, <1>4 DEF Covered
  <2>2. G \subseteq 1 .. n BY <1>1 DEF Covered
  <2> HIDE DEF Some, G
  <2> QED BY <1>6, <2>1, <2>2 DEF Covering
<1>8. PICK m \in 1 .. (n + 1) : First(n, G, 1, m)
  <2>1. 1 \in 1 .. (n + 1) BY <1>1
  <2> HIDE DEF G
  <2> QED BY <1>1, <2>1, FirstExists
<1>9. PICK k \in 1 .. (n + 1) : First(n, P, 1, k)
  <2>1. 1 \in 1 .. (n + 1) BY <1>1
  <2> HIDE DEF P
  <2> QED BY <1>1, <2>1, FirstExists
<1>10. /\ k \in Nat /\ k <= m /\ MaxRounds \in Nat
       /\ Rounds(list) = IF m >= k + MaxRounds THEN NoQuote ELSE Quote(list)[m]
  BY <1>1, <1>5, <1>8, <1>9, RoundsEnd, BoundsAssumption
<1>11. G \subseteq 1 .. n BY <1>1 DEF Covered
<1>12. CASE m > n
  <2> HIDE DEF G, Some, P
  <2>1. G = {} BY <1>1, <1>8, <1>11, <1>12 DEF First
  <2>2. Selections(S, Pay, tx) = {} BY <1>7, <2>1 DEF Selections
  <2>3. Quote(list)[m] = NoQuote BY <1>1, <1>8, <1>12 DEF Quote
  <2> QED BY <1>10, <2>2, <2>3 DEF list
<1>13. CASE ~(m > n)
  <2>1. m \in G /\ m \in 1 .. n BY <1>1, <1>8, <1>13 DEF First
  <2>2. k \in 1 .. n /\ m \in k .. n BY <1>1, <1>9, <1>10, <2>1
  <2>3. \A i \in G : m <= i
    <3> SUFFICES ASSUME NEW i \in G, i < m PROVE FALSE
      BY <1>1, <1>11, <2>1
    <3>1. i \in 1 .. (m - 1) BY <1>11
    <3> HIDE DEF G
    <3> QED BY <1>8, <3>1 DEF First
  <2>4. P = k .. n
    <3>1. ASSUME NEW i \in P PROVE i \in k .. n
      <4>1. i \in 1 .. n /\ i \notin 1 .. (k - 1) BY <1>1, <1>9 DEF First, Paying
      <4> QED BY <2>2, <4>1
    <3>2. ASSUME NEW i \in k .. n PROVE i \in P
      <4>1. i \in 1 .. n /\ k <= i BY <2>2
      <4>2. Some(k) \subseteq Some(i) /\ Some(i) \in SUBSET Out BY <1>3, <2>2, <4>1
      <4>3. SumOf(Some(k), tx) \in Nat /\ SumOf(Some(i), tx) \in Nat
        BY <1>4, <1>5, <2>2, <4>1
      <4>4. SumOf(Some(k), tx) >= Pay
        <5>1. k \in P BY <1>1, <1>9, <2>2 DEF First
        <5> QED BY <1>4, <2>2, <5>1 DEF Paying
      <4>5. SumOf(Some(k), tx) <= SumOf(Some(i), tx)
        <5> HIDE DEF Some
        <5>1. IsFiniteSet(Some(i)) /\ \A o \in Some(i) : AmountOf(o, tx) \in Nat
          BY <4>2, SumType, AmountType
        <5> QED BY <4>2, <5>1, SumOfSubset
      <4>6. SumOf(Some(i), tx) >= Pay BY <4>3, <4>4, <4>5, SpendAssumption
      <4> QED BY <1>1, <1>4, <4>1, <4>6 DEF Paying
    <3> QED BY <3>1, <3>2
  <2>5. {R \in Begun(S, Pay, tx) : R \subseteq Some(m)} = {Some(i) : i \in k .. m}
    <3>1. \A i \in 1 .. n : i \in P <=> SumOf(Some(i), tx) >= Pay
      BY <1>1, <1>4 DEF Paying
    <3>2. \A i \in 1 .. n : i \in k .. m <=> i \in P /\ i <= m BY <2>2, <2>4
    <3>3. k .. m \subseteq 1 .. n BY <1>1, <2>2
    <3>4. \A i \in 1 .. n : Some(i) \subseteq Some(m) <=> i <= m BY <1>3, <2>1
    <3> HIDE DEF Some, P
    <3> QED BY <1>6, <3>1, <3>2, <3>3, <3>4 DEF Begun
  <2>6. RoundOf(Some(m), S, Pay, tx) = m - k + 1
    <3>1. Cardinality({Some(i) : i \in k .. m}) = m - k + 1
      BY <2>2, RoundsCounted DEF list, n
    <3> HIDE DEF Some
    <3> QED BY <2>5, <3>1 DEF RoundOf
  <2>7. Cardinality(Some(m)) = m BY <1>3, <2>1
  <2>8. Quote(list)[m] = [pay |-> Pay, fee |-> NecessaryFee[m]]
    BY <1>1, <1>8, <1>13 DEF Quote
  <2>9. /\ Some(m) \in Covering(S, Pay, tx)
        /\ \A R \in Covering(S, Pay, tx) : Some(m) \subseteq R
    <3>1. \A i \in G : Some(m) \subseteq Some(i) BY <1>3, <1>11, <2>1, <2>3
    <3> HIDE DEF G, Some
    <3> QED BY <1>7, <2>1, <3>1
  <2> HIDE DEF G, Some, P
  <2>10. \A R \in Selections(S, Pay, tx) : R = Some(m) /\ m - k + 1 <= MaxRounds + 1
    BY <2>6, <2>9 DEF Selections
  <2>11. Selections(S, Pay, tx) = {} => ~(m - k + 1 <= MaxRounds + 1)
    BY <2>6, <2>9 DEF Selections
  <2>12. Selections(S, Pay, tx) = {} => m >= k + MaxRounds BY <1>10, <2>1, <2>11
  <2>13. m - k + 1 <= MaxRounds + 1 => (m >= k + MaxRounds <=> m - k + 1 = MaxRounds + 1)
    BY <1>10, <2>1
  <2> QED BY <1>10, <2>6, <2>7, <2>8, <2>10, <2>12, <2>13 DEF list
<1> QED BY <1>12, <1>13

-----------------------------------------------------------------------------
(* The fee a sweep preview ends with.                                      *)

Guesses(g, sum, fee, n) ==
  g = [i \in 0 .. n |->
         IF i = 0 THEN 0
         ELSE IF sum < Minus(sum, g[i - 1]) + fee THEN g[i - 1] + FeeStep ELSE fee]

LEMMA GuessFcn ==
  \A sum, fee : SweepGuess(sum, fee)
                  = (CHOOSE g : Guesses(g, sum, fee, SweepIterations))[SweepIterations]
BY DEF SweepGuess, Guesses

LEMMA GuessesExist ==
  ASSUME NEW sum, NEW fee, NEW n \in Nat
  PROVE  \E g : Guesses(g, sum, fee, n)
<1> DEFINE Raised(x) == IF sum < Minus(sum, x) + fee THEN x + FeeStep ELSE fee
           X == {m \in Nat : ~\E g : Guesses(g, sum, fee, m)}
<1> SUFFICES ASSUME X # {} PROVE FALSE
  OBVIOUS
<1>1. PICK m \in X : \A k \in X : m <= k
  <2>1. X \in SUBSET Nat OBVIOUS
  <2> HIDE DEF X
  <2> QED BY <2>1, LeastNat
<1>2. CASE m = 0
  <2>1. Guesses([i \in 0 .. 0 |-> 0], sum, fee, 0) BY DEF Guesses
  <2> QED BY <1>1, <1>2, <2>1
<1>3. CASE m # 0
  <2>1. m \in Nat /\ m - 1 \in Nat /\ m - 1 \notin X BY <1>1, <1>3
  <2>2. PICK g : Guesses(g, sum, fee, m - 1) BY <2>1
  <2> DEFINE h == [i \in 0 .. m |-> IF i < m THEN g[i] ELSE Raised(g[m - 1])]
  <2>3. ASSUME NEW i \in 0 .. m PROVE h[i] = IF i = 0 THEN 0 ELSE Raised(h[i - 1])
    <3> HIDE DEF Raised
    <3>1. CASE i = m BY <1>3, <2>1, <3>1
    <3>2. CASE i # m
      <4>1. i \in 0 .. (m - 1) /\ h[i] = g[i] /\ (i # 0 => h[i - 1] = g[i - 1])
        BY <2>1, <3>2
      <4>2. g[i] = IF i = 0 THEN 0 ELSE Raised(g[i - 1])
        BY <2>2, <4>1 DEF Guesses, Raised
      <4> HIDE DEF h
      <4> QED BY <4>1, <4>2
    <3> QED BY <3>1, <3>2
  <2>4. h = [i \in 0 .. m |-> h[i]] OBVIOUS
  <2> HIDE DEF h
  <2>5. Guesses(h, sum, fee, m) BY <2>3, <2>4 DEF Guesses
  <2> QED BY <1>1, <2>5
<1> QED BY <1>2, <1>3

(* A fee the sum can pay is found or still above the guesses; if the sum   *)
(* cannot pay it, the guesses rise above the sum and stay there.           *)
GuessKnows(sum, fee, i, x) ==
  /\ x \in Nat
  /\ fee < sum => x = fee \/ (x = i * FeeStep /\ (i # 0 => (i - 1) * FeeStep < fee))
  /\ ~(fee < sum) => x >= sum \/ x = i * FeeStep

LEMMA GuessStep ==
  ASSUME NEW sum \in Nat, NEW fee \in Nat, NEW i \in Nat, NEW x, GuessKnows(sum, fee, i, x)
  PROVE  GuessKnows(sum, fee, i + 1,
                    IF sum < Minus(sum, x) + fee THEN x + FeeStep ELSE fee)
<1>1. FeeStep \in Nat /\ x \in Nat BY AmountsAssumption DEF GuessKnows
<1>2. (i + 1) * FeeStep = i * FeeStep + FeeStep /\ (i + 1) - 1 = i /\ i * FeeStep \in Nat
  BY <1>1
<1>3. Minus(sum, x) = IF sum > x THEN sum - x ELSE 0 BY DEF Minus
<1>4. CASE fee < sum
  <2>1. CASE sum < Minus(sum, x) + fee
    <3>1. x < fee BY <1>1, <1>3, <1>4, <2>1
    <3> QED BY <1>1, <1>2, <1>4, <2>1, <3>1 DEF GuessKnows
  <2>2. CASE ~(sum < Minus(sum, x) + fee)
    BY <1>4, <2>2 DEF GuessKnows
  <2> QED BY <2>1, <2>2
<1>5. CASE ~(fee < sum)
  <2>1. CASE sum < Minus(sum, x) + fee
    BY <1>1, <1>2, <1>5, <2>1 DEF GuessKnows
  <2>2. CASE ~(sum < Minus(sum, x) + fee)
    BY <1>5, <2>2 DEF GuessKnows
  <2> QED BY <2>1, <2>2
<1> QED BY <1>4, <1>5

LEMMA GuessEnds ==
  ASSUME NEW sum \in Nat, NEW fee \in Nat
  PROVE  GuessKnows(sum, fee, SweepIterations, SweepGuess(sum, fee))
<1> DEFINE g == CHOOSE f : Guesses(f, sum, fee, SweepIterations)
           X == {i \in 0 .. SweepIterations : ~GuessKnows(sum, fee, i, g[i])}
<1>1. SweepIterations \in Nat BY DEF SweepIterations
<1>2. Guesses(g, sum, fee, SweepIterations) BY <1>1, GuessesExist
<1>3. SweepGuess(sum, fee) = g[SweepIterations] BY GuessFcn
<1> HIDE DEF g
<1>4. SUFFICES ASSUME X # {} PROVE FALSE
  BY <1>1, <1>3
<1>5. PICK i \in X : \A k \in X : i <= k
  <2>1. X \in SUBSET Nat BY <1>1
  <2> HIDE DEF X
  <2> QED BY <1>4, <2>1, LeastNat
<1>6. i \in 0 .. SweepIterations /\ ~GuessKnows(sum, fee, i, g[i]) BY <1>5
<1>7. CASE i = 0
  BY <1>1, <1>2, <1>6, <1>7, AmountsAssumption DEF Guesses, GuessKnows
<1>8. CASE i # 0
  <2>1. i - 1 \in Nat /\ i - 1 \in 0 .. SweepIterations /\ (i - 1) + 1 = i BY <1>1, <1>6, <1>8
  <2>2. GuessKnows(sum, fee, i - 1, g[i - 1]) BY <1>1, <1>5, <2>1
  <2>3. g[i] = IF sum < Minus(sum, g[i - 1]) + fee THEN g[i - 1] + FeeStep ELSE fee
    BY <1>1, <1>2, <1>6, <1>8 DEF Guesses
  <2>4. GuessKnows(sum, fee, (i - 1) + 1, g[i]) BY <2>1, <2>2, <2>3, GuessStep
  <2> QED BY <1>6, <2>1, <2>4
<1> QED BY <1>7, <1>8

(* A sweep finds a fee for the same outputs, and the same.                 *)
LEMMA SweepQuoted ==
  ASSUME tx \in [OwnTx -> Signed], NEW answered, NEW only,
         PreviewList(answered, only) \in SUBSET Out,
         Converges(PreviewList(answered, only))
  PROVE  LET S == SweepSelection(PreviewList(answered, only), wallet.pend, tx)
         IN PreviewSweep(answered, only) =
              IF Sweepable(S, tx) THEN Paid(SweepPayment(S, tx)) ELSE NoQuote
<1> DEFINE S == SweepList(answered, only)
           sum == SumOf(S, tx)
           fee == NecessaryFee[Cardinality(S)]
           guess == SweepGuess(sum, fee)
           pays == IF S # {} /\ fee < sum /\ SweepSearch(sum, fee).found
                   THEN [pay |-> Minus(sum, fee), fee |-> fee] ELSE NoQuote
<1>1. S = SweepSelection(PreviewList(answered, only), wallet.pend, tx) /\ S \in SUBSET Out
  BY DEF SweepList, SweepSelection
<1>2. PreviewSweep(answered, only) =
        IF S = {} \/ guess >= sum THEN NoQuote ELSE [pay |-> sum - guess, fee |-> guess]
  BY DEF PreviewSweep
<1>3. pays = IF Sweepable(S, tx) THEN Paid(SweepPayment(S, tx)) ELSE NoQuote
  BY DEF Sweepable, Paid, SweepPayment
<1>4. PreviewSweep(answered, only) = pays
  <2>1. CASE S = {} BY <1>2, <2>1
  <2>2. CASE S # {}
    <3>1. sum \in Nat /\ fee \in Nat BY <1>1, <2>2, SumType, FeeType
    <3>2. fee <= (SweepIterations - 1) * FeeStep BY <1>1, <2>2 DEF Converges
    <3>3. GuessKnows(sum, fee, SweepIterations, guess) BY <3>1, GuessEnds
    <3>4. FeeStep \in Nat /\ SweepIterations = 8 BY AmountsAssumption DEF SweepIterations
    <3> HIDE DEF S, sum, fee, guess
    <3>5. CASE fee < sum
      <4>1. guess = fee BY <3>1, <3>2, <3>3, <3>4, <3>5 DEF GuessKnows
      <4>2. SearchKnows(sum, fee, SweepIterations, SweepSearch(sum, fee))
        BY <3>1, <3>5, SearchEnds
      <4>3. SweepSearch(sum, fee).found
        BY <3>1, <3>2, <3>4, <4>2 DEF SearchKnows
      <4>4. Minus(sum, fee) = sum - fee BY <3>5, <3>1 DEF Minus
      <4> QED BY <1>2, <2>2, <3>1, <3>5, <4>1, <4>3, <4>4
    <3>6. CASE ~(fee < sum)
      <4>1. guess >= sum BY <3>1, <3>2, <3>3, <3>4, <3>6 DEF GuessKnows
      <4> QED BY <1>2, <3>6, <4>1
    <3> QED BY <3>5, <3>6
  <2> QED BY <2>1, <2>2
<1> HIDE DEF S, pays
<1> QED BY <1>1, <1>3, <1>4

(* The call finds what the preview finds.                                  *)
LEMMA SameList ==
  ASSUME NEW answered \in BOOLEAN, Undisturbed
  PROVE  /\ Available(answered) = PreviewList(answered, call.only)
         /\ PreviewList(answered, call.only) \in SUBSET Out
<1>1. Asked = Unlocked(wallet.out, net.height) BY DEF Asked, Undisturbed
<1>2. MayRelease BY DEF MayRelease, Undisturbed
<1>3. Asked \ Quarantine(answered) \subseteq Out BY AskedOut
<1> QED
  BY <1>1, <1>2, <1>3
  DEF Available, PreviewList, Quarantine, Preflight, Undisturbed

(* A call keeps its kind and its filter, and a send has none.              *)
Asks == /\ call.pc # "idle" => call.kind \in CallKinds
        /\ call.kind = "send" => call.only = Out

Kept == call'.kind = call.kind /\ call'.only = call.only /\ call.pc # "idle"

LEMMA CallKeeps == ASSUME call \in Call, CallStep PROVE call' = Idle \/ Kept
<1>1. ASSUME NEW answered \in BOOLEAN, MismatchFound(answered) PROVE call' = Idle \/ Kept
  BY <1>1 DEF MismatchFound, SendMismatch, FilterMismatch, Call, Kept
<1>2. ASSUME NEW answered \in BOOLEAN, Signs(answered) PROVE call' = Idle \/ Kept
  <2>1. PICK t, p : Emits(t, p, answered)
    BY <1>2 DEF Signs, SendSigns, FilterSigns, SweepSigns
  <2> QED BY <1>2, <2>1 DEF Emits, Signs, Call, Kept
<1>3. ASSUME NEW answered \in BOOLEAN, BisectEnds(answered) PROVE call' = Idle \/ Kept
  BY <1>3 DEF BisectEnds, Call, Kept
<1>4. ASSUME NEW answered \in BOOLEAN, NEW err \in {"invalid", "double"},
             BroadcastRefused(err, answered) \/ ProbeRefused(err, answered)
      PROVE  call' = Idle \/ Kept
  <2>1. CASE BroadcastRefused(err, answered)
    BY <2>1
    DEF BroadcastRefused, SendRefused, FilterRefused, SweepRefused, Hunt, Call, Kept
  <2>2. CASE ProbeRefused(err, answered)
    BY <2>2 DEF ProbeRefused, SendProbeRefused, FilterProbeRefused, Call, Kept
  <2> QED BY <1>4, <2>1, <2>2
<1>5. ASSUME ProbeAccepted PROVE call' = Idle \/ Kept
  BY <1>5 DEF ProbeAccepted, Call, Kept
<1>6. ASSUME ProbePassed PROVE call' = Idle \/ Kept
  BY <1>6 DEF ProbePassed, Call, Kept
<1> QED
  BY <1>1, <1>2, <1>3, <1>4, <1>5, <1>6
  DEF CallStep, SendFails, FilterFails, SweepFails, Fails, SendBreaksOff, FilterBreaksOff,
      SweepBreaksOff, BreaksOff, Insufficient, BroadcastAccepted, BroadcastUnanswered,
      AfterError

LEMMA AsksInvariance == Spec => []Asks
<1>1. Init => Asks BY DEF Init, Idle, Asks
<1>2. ASSUME Inv, Asks, [Next]_vars PROVE Asks'
  <2>1. CASE call' = Idle BY <2>1 DEF Idle, Asks
  <2>2. CASE UNCHANGED call BY <1>2, <2>2 DEF Asks
  <2>3. CASE Kept BY <1>2, <2>3 DEF Asks, Kept
  <2>4. ASSUME NEW prep \in BOOLEAN, SendBegins(prep) PROVE Asks'
    BY <2>4 DEF SendBegins, Begin, Idle, Asks, CallKinds
  <2>5. ASSUME NEW prep \in BOOLEAN, NEW only \in Filters,
               FilterBegins(prep, only) \/ SweepBegins(prep, only)
        PROVE  Asks'
    BY <2>5 DEF FilterBegins, SweepBegins, Begin, Idle, Asks, CallKinds
  <2>6. CASE CallStep BY <1>2, <2>1, <2>3, <2>6, CallKeeps, Standing
  <2>7. CASE Network
    BY <2>2, <2>7 DEF Network, ForeignSpend, Mine, PoolDrop, Reorg, Unspendable
  <2>8. CASE HostCall
    BY <2>1, <2>2, <2>4, <2>5, <2>8
    DEF HostCall, Previews, RelayKnown, RelayAccepted, RelayUnanswered, Refresh,
        RewindCursor, ForceRescan, Export, Restart
  <2> QED BY <1>2, <2>2, <2>6, <2>7, <2>8 DEF Next, vars
<1> QED BY <1>1, <1>2, Invariance, PTL DEF Spec

(* A quote is right for the step a call takes.                             *)
QuoteRight(answered) ==
  /\ Signs(answered) =>
       \A t \in OwnTx :
         tx'[t] # tx[t] =>
           QuoteOf(answered) = IF LastRound(answered) THEN NoQuote ELSE Paid(tx'[t])
  /\ Insufficient(answered) => QuoteOf(answered) = NoQuote

LEMMA FeeQuoted ==
  ASSUME MoneyInv, Asks, NEW answered \in BOOLEAN, Undisturbed, Compares,
         call.pc = "preflight"
  PROVE  QuoteRight(answered)
<1> DEFINE avail == Available(answered)
           S == Chosen(answered)
           paid == [pay |-> Pay, fee |-> NecessaryFee[Cardinality(S)]]
<1>1. tx \in [OwnTx -> Signed] BY DEF MoneyInv
<1>2. avail = PreviewList(answered, call.only) /\ avail \in SUBSET Out BY SameList
<1>3. QuoteOf(answered) = Rounds(InOrder(avail))
  <2>1. CASE call.kind = "send"
    BY <1>2, <2>1 DEF QuoteOf, PreviewFee, FeeList, Asks
  <2>2. CASE call.kind = "filter"
    BY <1>2, <2>2 DEF QuoteOf, PreviewFeeWithFilter, FilterList
  <2> QED BY <2>1, <2>2 DEF Compares
<1>4. ASSUME Insufficient(answered) PROVE QuoteOf(answered) = NoQuote
  <2>1. Selections(avail, Pay, tx) = {} BY <1>4 DEF Insufficient, CanPay
  <2> QED BY <1>1, <1>2, <1>3, <2>1, RoundsSelect
<1>5. ASSUME Signs(answered), NEW t \in OwnTx, tx'[t] # tx[t]
      PROVE  QuoteOf(answered) = IF LastRound(answered) THEN NoQuote ELSE Paid(tx'[t])
  <2>1. S \in Selections(avail, Pay, tx) BY <1>5, ChosenTaken DEF Signs
  <2>2. QuoteOf(answered) =
          IF RoundOf(S, avail, Pay, tx) = MaxRounds + 1 THEN NoQuote ELSE paid
    BY <1>1, <1>2, <1>3, <2>1, RoundsSelect
  <2>3. PICK u : Emits(u, Payment(S, Pay, tx), answered)
    BY <1>5 DEF Signs, SendSigns, FilterSigns, SweepSigns, Compares
  <2>4. tx'[t] = Payment(S, Pay, tx) BY <1>1, <1>5, <2>3 DEF Emits
  <2>5. Paid(tx'[t]) = paid BY <2>4 DEF Paid, Payment
  <2> HIDE DEF S, avail, paid
  <2> QED BY <2>2, <2>5 DEF LastRound, S, avail
<1> QED BY <1>4, <1>5 DEF QuoteRight

LEMMA SweepRight ==
  ASSUME MoneyInv, NEW answered \in BOOLEAN, Undisturbed, call.kind = "sweep",
         Converges(Available(answered))
  PROVE  QuoteRight(answered)
<1> DEFINE S == Chosen(answered)
<1>1. tx \in [OwnTx -> Signed] BY DEF MoneyInv
<1>2. ~Compares /\ S = SweepSelection(Available(answered), wallet.pend, tx)
  BY DEF Compares, Chosen
<1>3. QuoteOf(answered) = IF Sweepable(S, tx) THEN Paid(SweepPayment(S, tx)) ELSE NoQuote
  <2>1. QuoteOf(answered) = PreviewSweep(answered, call.only) BY DEF QuoteOf
  <2> HIDE DEF S
  <2> QED BY <1>1, <1>2, <2>1, SameList, SweepQuoted
<1>4. ASSUME Insufficient(answered) PROVE QuoteOf(answered) = NoQuote
  BY <1>2, <1>3, <1>4 DEF Insufficient, CanPay
<1>5. ASSUME Signs(answered), NEW t \in OwnTx, tx'[t] # tx[t]
      PROVE  QuoteOf(answered) = IF LastRound(answered) THEN NoQuote ELSE Paid(tx'[t])
  <2>1. Sweepable(S, tx) BY <1>2, <1>5 DEF Signs, CanPay
  <2>2. PICK u : Emits(u, SweepPayment(S, tx), answered)
    BY <1>5 DEF Signs, SendSigns, FilterSigns, SweepSigns
  <2>3. tx'[t] = SweepPayment(S, tx) BY <1>1, <1>5, <2>2 DEF Emits
  <2> HIDE DEF S
  <2> QED BY <1>2, <1>3, <2>1, <2>3 DEF LastRound
<1> QED BY <1>4, <1>5 DEF QuoteRight

(* Every step of a call that signs, or says that funds are short, is the   *)
(* one its preview foretold, for any outputs, amounts, positions, fees,    *)
(* filters and number of rounds, and in any state a wallet and its network *)
(* can be in: on a first attempt that no block disturbs a preview sees the *)
(* list of the call, the rounds of both end at the same selection, and the *)
(* fee searches of a sweep at the same fee.                                *)
THEOREM QuotesHoldAlways == Spec => QuotesHold
<1>1. MoneyInv /\ Asks =>
        \A answered \in BOOLEAN :
          /\ Undisturbed
          /\ call.kind = "sweep" => Converges(Available(answered))
          => QuoteRight(answered)
  <2> SUFFICES ASSUME MoneyInv, Asks, NEW answered \in BOOLEAN, Undisturbed,
                      call.kind = "sweep" => Converges(Available(answered))
               PROVE  QuoteRight(answered)
    OBVIOUS
  <2>1. CASE call.pc # "preflight" BY <2>1 DEF QuoteRight, Signs, Insufficient
  <2>2. CASE call.pc = "preflight" /\ Compares BY <2>2, FeeQuoted
  <2>3. CASE call.pc = "preflight" /\ ~Compares
    <3>1. call.kind = "sweep" BY <2>3 DEF Asks, CallKinds, Compares
    <3> QED BY <3>1, SweepRight
  <2> QED BY <2>1, <2>2, <2>3
<1>2. (\A answered \in BOOLEAN :
         /\ Undisturbed
         /\ call.kind = "sweep" => Converges(Available(answered))
         => QuoteRight(answered))
        <=> (\A answered \in BOOLEAN :
               /\ Undisturbed
               /\ call.kind = "sweep" => Converges(Available(answered))
               => /\ Signs(answered) =>
                       \A t \in OwnTx :
                         tx'[t] # tx[t] =>
                           QuoteOf(answered) = IF LastRound(answered) THEN NoQuote
                                               ELSE Paid(tx'[t])
                  /\ Insufficient(answered) => QuoteOf(answered) = NoQuote)
  BY DEF QuoteRight
<1> QED BY <1>1, <1>2, MoneyInvariance, AsksInvariance, PTL DEF QuotesHold
=============================================================================
