-------------------------- MODULE SpendCallsProofs --------------------------
(***************************************************************************)
(* What SpendCalls guarantees for every set of outputs and transactions,   *)
(* every fee, lock time and retry limit.  None of it depends on what the   *)
(* sums of amounts are; SpendBalanceProofs is about those.                 *)
(***************************************************************************)
EXTENDS SpendCalls, FiniteSetTheorems, TLAPS

-----------------------------------------------------------------------------
(* Types.  TypeOK but for what is a sum: the amounts of rows, of signed    *)
(* transactions, and the stored balance.                                   *)

WalletTyped(w) ==
  /\ w \in [out : [Out -> TrackedOutput], quar : SUBSET Out, pend : SUBSET OwnTx,
            rows : {w.rows}, total : {w.total}, cursor : HeightOrNone,
            seen : HeightOrNone]
  /\ w.rows = [x \in Txid |-> w.rows[x]]

NetTyped ==
  net \in [at : [Txid -> HeightOrNone], pool : SUBSET (OwnTx \cup Foreign),
           height : Height, fork : HeightOrNone]

TxTyped == /\ tx = [t \in OwnTx |-> tx[t]]
           /\ \A t \in OwnTx : tx[t].ins \subseteq Out

Typed ==
  /\ NetTyped
  /\ TxTyped
  /\ WalletTyped(wallet)
  /\ \A w \in blob : WalletTyped(w)
  /\ saved \subseteq OwnTx
  /\ call \in Call
  /\ bisect \in Bisects
  /\ events \in 0 .. MaxEvents

(* What a call knows it must not spend is in the quarantine, which no step *)
(* of the call but its first may shrink; only the bisect is left with a    *)
(* transaction of its own in the network.                                  *)
CallInv ==
  /\ call.pc \in {"broadcast", "bisect"} => call.tx \in OwnTx
  /\ call.pc # "idle" => call.kicked \cup call.denied \subseteq wallet.quar
  /\ call.pc = "preflight" /\ (call.kind # "send" \/ call.attempt = 0)
       => call.kicked \cup call.denied = {}
  /\ call.pc = "bisect" => bisect
  /\ call.sent # {} => bisect
  /\ RefusedStaysOut

(* PendingRowsBacked of a wallet, and of what the host has saved of it.    *)
Backed(w) ==
  \A t \in OwnTx : /\ w.rows[t].pending => t \in w.pend
                   /\ t \in w.pend => w.rows[t] # NoRow

AllBacked == Backed(wallet) /\ \A w \in blob : Backed(w)

Inv == Typed /\ CallInv /\ AllBacked

-----------------------------------------------------------------------------
(* The functions of SpendPolicy and TransferLedger.                        *)

LEMMA OutFacts ==
  /\ IsFiniteSet(Out) /\ OwnTx \subseteq Out /\ Coin \subseteq Out
  /\ Out \subseteq Txid /\ OwnTx \cup Foreign \subseteq Txid
  /\ 0 \in HeightOrNone /\ Height \subseteq HeightOrNone
<1>1. IsFiniteSet(Out) BY NamesAssumption, FS_Union, Zenon DEF Out
<1>2. 0 \in HeightOrNone /\ Height \subseteq HeightOrNone
  BY BoundsAssumption DEF Height, HeightOrNone
<1> QED BY <1>1, <1>2 DEF Out, Txid

(* A selection takes only what is offered to it.                           *)
LEMMA ChosenOffered ==
  ASSUME NEW answered \in BOOLEAN
  PROVE  /\ Available(answered) \subseteq Asked \ Quarantine(answered)
         /\ Chosen(answered) \subseteq Available(answered)
<1> DEFINE avail == Available(answered)
<1>1. avail \subseteq Asked \ Quarantine(answered)
  BY DEF Available
<1>2. \A S \in Taken(avail, tx) : S \subseteq avail
  BY DEF Taken
<1>3. \A S \in Selections(avail, Pay, tx) : S \subseteq avail
  BY <1>2 DEF Selections, Covering
<1>4. UNION Selections(avail, Pay, tx) \subseteq avail
  BY <1>3
<1>5. SweepSelection(avail, wallet.pend, tx) \subseteq avail
  BY DEF SweepSelection
<1> QED BY <1>1, <1>4, <1>5 DEF Chosen

(* Only outputs whose key image differs are found out.                     *)
LEMMA MismatchingOut ==
  ASSUME NEW answered \in BOOLEAN
  PROVE  Mismatching(answered) \subseteq Out
BY OutFacts, SpendAssumption DEF Mismatching, FirstOf

(* A preflight quarantines what it is told is spent, and a retry releases  *)
(* nothing.                                                                *)
LEMMA QuarantineGrows ==
  ASSUME NEW answered \in BOOLEAN
  PROVE  /\ Denied(answered) \subseteq Quarantine(answered)
         /\ call.kind = "send" /\ call.attempt # 0
              => wallet.quar \subseteq Quarantine(answered)
BY DEF Denied, Quarantine, Preflight, ApplyStatuses, MayRelease

LEMMA AskedOut == Asked \subseteq Out
BY DEF Asked, Unlocked, Unspent, Tracked

LEMMA QuarantineType ==
  ASSUME WalletTyped(wallet), NEW answered \in BOOLEAN
  PROVE  Quarantine(answered) \subseteq Out
BY AskedOut DEF Quarantine, Preflight, ApplyStatuses, WalletTyped

(* The rows of a rebuilt ledger are backed by the records it is built with.*)
LEMMA LedgerBacked ==
  ASSUME NEW out, NEW pend, NEW t \in OwnTx
  PROVE  LET row == Ledger(out, pend, tx)[t]
         IN /\ row.pending => t \in pend
            /\ t \in pend => row # NoRow /\ row.dir = "out"
<1>1. t \in Txid BY OutFacts
<1>2. OutputRow(t, out, tx).pending = FALSE
  BY DEF OutputRow, NoRow
<1>3. ASSUME t \notin pend PROVE ~Ledger(out, pend, tx)[t].pending
  BY <1>1, <1>2, <1>3 DEF Ledger
<1>4. ASSUME t \in pend PROVE Ledger(out, pend, tx)[t].dir = "out"
  BY <1>1, <1>4 DEF Ledger, WithPending, PendingRow, OutputRow, NoRow
<1>5. NoRow.dir = "none" BY DEF NoRow
<1> QED BY <1>3, <1>4, <1>5

LEMMA LedgerDomain ==
  ASSUME NEW out, NEW pend
  PROVE  Ledger(out, pend, tx) = [x \in Txid |-> Ledger(out, pend, tx)[x]]
BY DEF Ledger
-----------------------------------------------------------------------------
(* The operations on a wallet keep its types and its records.              *)

WalletOK(w) == WalletTyped(w) /\ Backed(w)

LEMMA EmptyWalletOK == WalletOK(EmptyWallet)
<1>1. EmptyWallet.rows = [x \in Txid |-> EmptyWallet.rows[x]]
  BY DEF EmptyWallet, NoRows
<1>2. Untracked \in TrackedOutput
  BY OutFacts DEF Untracked, TrackedOutput
<1>3. WalletTyped(EmptyWallet)
  BY <1>1, <1>2, OutFacts DEF WalletTyped, EmptyWallet
<1>4. Backed(EmptyWallet)
  BY OutFacts DEF Backed, EmptyWallet, NoRows, NoRow
<1> QED BY <1>3, <1>4 DEF WalletOK

LEMMA QuarantineOK ==
  ASSUME NEW w, WalletOK(w), NEW quar \in SUBSET Out
  PROVE  WalletOK([w EXCEPT !.quar = quar])
<1> DEFINE v == [w EXCEPT !.quar = quar]
<1>1. v.rows = w.rows /\ v.total = w.total /\ v.pend = w.pend /\ v.quar = quar
  BY DEF WalletOK, WalletTyped
<1>2. WalletTyped(v) BY <1>1 DEF WalletOK, WalletTyped
<1> QED BY <1>1, <1>2 DEF WalletOK, Backed

(* Rebuilding history and balance over other tracked outputs.              *)
LEMMA RebuiltOK ==
  ASSUME NEW w, WalletTyped(w), NEW out \in [Out -> TrackedOutput],
         NEW c \in HeightOrNone
  PROVE  /\ WalletOK(Rebuilt(w, out, c))
         /\ Rebuilt(w, out, c).quar = w.quar
<1> DEFINE v == Rebuilt(w, out, c)
<1>1. /\ v.rows = Ledger(out, w.pend, tx) /\ v.pend = w.pend /\ v.quar = w.quar
      /\ v.total = UnspentSum(out)
  BY DEF Rebuilt, WalletTyped
<1>2. v \in [out : [Out -> TrackedOutput], quar : SUBSET Out, pend : SUBSET OwnTx,
             rows : {v.rows}, total : {v.total}, cursor : HeightOrNone,
             seen : HeightOrNone]
  BY <1>1 DEF Rebuilt, WalletTyped
<1>3. WalletTyped(v) BY <1>1, <1>2, LedgerDomain DEF WalletTyped
<1>4. Backed(v) BY <1>1, LedgerBacked DEF Backed
<1> QED BY <1>1, <1>3, <1>4 DEF WalletOK

(* A checkpoint drops only records whose row is not pending.               *)
LEMMA CheckpointOK ==
  ASSUME NEW w, WalletTyped(w), NEW out \in [Out -> TrackedOutput],
         NEW c \in HeightOrNone
  PROVE  WalletOK(Checkpoint(w, out, c))
<1> DEFINE r == Rebuilt(w, out, c)
           v == Checkpoint(w, out, c)
           rows == Ledger(out, w.pend, tx)
<1>1. WalletOK(r) BY RebuiltOK
<1>2. r.pend = w.pend /\ r.rows = rows
  BY DEF Rebuilt, WalletTyped
<1>3. v = [r EXCEPT !.pend = Retained(w.pend, rows)]
  BY <1>2 DEF Checkpoint
<1> HIDE DEF r
<1>4. /\ v.pend = Retained(w.pend, rows) /\ v.rows = rows /\ v.total = r.total
  BY <1>1, <1>2, <1>3 DEF WalletOK, WalletTyped
<1>5. v.pend \subseteq w.pend /\ w.pend \subseteq OwnTx
  BY <1>4 DEF Retained, WalletTyped
<1>6. WalletTyped(v)
  BY <1>1, <1>2, <1>3, <1>4, <1>5 DEF WalletOK, WalletTyped
<1>7. Backed(v)
  <2> SUFFICES ASSUME NEW t \in OwnTx
               PROVE  /\ rows[t].pending => t \in v.pend
                      /\ t \in v.pend => rows[t] # NoRow
    BY <1>4 DEF Backed
  <2>1. t \in w.pend => rows[t] # NoRow /\ rows[t].dir = "out"
    BY LedgerBacked
  <2>2. rows[t].pending => t \in w.pend
    BY LedgerBacked
  <2> HIDE DEF rows
  <2> QED BY <1>4, <1>5, <2>1, <2>2 DEF Retained
<1> QED BY <1>6, <1>7 DEF WalletOK

LEMMA RewoundType ==
  ASSUME NEW out \in [Out -> TrackedOutput], NEW h
  PROVE  RewoundTo(h, out) \in [Out -> TrackedOutput]
<1>1. Untracked \in TrackedOutput
  BY OutFacts DEF Untracked, TrackedOutput
<1>2. ASSUME NEW o \in Out
      PROVE  [out[o] EXCEPT !.spent = FALSE, !.by = NoTx, !.at = 0] \in TrackedOutput
  BY <1>2, OutFacts DEF TrackedOutput
<1> QED BY <1>1, <1>2 DEF RewoundTo

LEMMA MarkSpentType ==
  ASSUME NEW out \in [Out -> TrackedOutput], NEW S, NEW t \in Txid
  PROVE  MarkSpent(out, S, t) \in [Out -> TrackedOutput]
<1> SUFFICES ASSUME NEW o \in Out
             PROVE  [out[o] EXCEPT !.spent = TRUE, !.by = IF @ = NoTx THEN t ELSE @]
                       \in TrackedOutput
  BY DEF MarkSpent
<1>1. out[o] \in TrackedOutput OBVIOUS
<1> QED BY <1>1 DEF TrackedOutput

(* A scan finds spends of the network only.                                *)
LEMMA ScannedType ==
  ASSUME NetTyped, NEW out \in [Out -> TrackedOutput], NEW lo, NEW hi, NEW named
  PROVE  Scanned(out, lo, hi, named) \in [Out -> TrackedOutput]
<1> DEFINE have == [o \in Out |->
                      IF o \in Found(lo, hi) /\ out[o].recv = 0
                      THEN [Untracked EXCEPT !.recv = net.at[o]] ELSE out[o]]
<1>1. \A x \in Txid : net.at[x] \in HeightOrNone
  BY DEF NetTyped
<1>2. ASSUME NEW o \in Out PROVE have[o] \in TrackedOutput
  <2>1. [Untracked EXCEPT !.recv = net.at[o]] \in TrackedOutput
    BY <1>1, <1>2, OutFacts DEF Untracked, TrackedOutput
  <2> QED BY <2>1
<1> HIDE DEF have
<1>3. ASSUME NEW o \in Out, SpendersIn(o, lo, hi) # {}
      PROVE  /\ Spender(o, have, lo, hi, named) \in Txid \cup {NoTx}
             /\ net.at[CHOOSE y \in SpendersIn(o, lo, hi) : TRUE] \in HeightOrNone
  <2> DEFINE x == CHOOSE y \in SpendersIn(o, lo, hi) : TRUE
             c == LikeChange(net.at[x], have, lo, hi)
  <2>1. x \in SpendersIn(o, lo, hi) BY <1>3
  <2>2. x \in Txid
    BY <2>1, OutFacts DEF SpendersIn, Live, NetTyped
  <2>3. Cardinality(c) = 1 => c # {}
    <3>1. Cardinality({}) = 0 BY FS_EmptySet
    <3> HIDE DEF c
    <3> QED BY <3>1
  <2>4. c \subseteq Txid
    BY OutFacts DEF LikeChange, Found
  <2> HIDE DEF x
  <2>5. Cardinality(c) = 1 => (CHOOSE y \in c : TRUE) \in Txid
    BY <2>3, <2>4
  <2>6. have[o].by \in Txid \cup {NoTx}
    BY <1>2, <1>3 DEF TrackedOutput
  <2>7. Spender(o, have, lo, hi, named) \in Txid \cup {NoTx}
    <3>1. Spender(o, have, lo, hi, named) =
            IF have[o].by # NoTx THEN have[o].by
            ELSE IF named THEN x
            ELSE IF Cardinality(c) = 1 THEN CHOOSE y \in c : TRUE
            ELSE NoTx
      BY DEF Spender, x
    <3> HIDE DEF c
    <3> QED BY <3>1, <2>2, <2>5, <2>6
  <2> QED BY <1>1, <2>2, <2>7 DEF x
<1>4. ASSUME NEW o \in Out, SpendersIn(o, lo, hi) # {}
      PROVE  [have[o] EXCEPT
                !.spent = TRUE,
                !.by = Spender(o, have, lo, hi, named),
                !.at = net.at[CHOOSE y \in SpendersIn(o, lo, hi) : TRUE]] \in TrackedOutput
  BY <1>2, <1>3, <1>4 DEF TrackedOutput
<1>5. Scanned(out, lo, hi, named) =
        [o \in Out |->
          IF have[o].recv = 0 \/ SpendersIn(o, lo, hi) = {} THEN have[o]
          ELSE [have[o] EXCEPT
                  !.spent = TRUE,
                  !.by = Spender(o, have, lo, hi, named),
                  !.at = net.at[CHOOSE y \in SpendersIn(o, lo, hi) : TRUE]]]
  BY DEF Scanned, have
<1> QED BY <1>2, <1>4, <1>5
LEMMA ApplyStatusesType ==
  ASSUME NEW quar \in SUBSET Out, NEW asked \in SUBSET Out, NEW status, NEW release
  PROVE  ApplyStatuses(quar, asked, status, release) \in SUBSET Out
BY DEF ApplyStatuses

LEMMA RevalidateOK ==
  ASSUME NEW w, WalletOK(w)
  PROVE  WalletOK(Revalidate(w))
<1> DEFINE asked == Unspent(w.out) \cap w.quar
<1>1. w.quar \in SUBSET Out /\ asked \in SUBSET Out
  BY DEF WalletOK, WalletTyped
<1>2. ApplyStatuses(w.quar, asked, Status, w.cursor >= net.height) \in SUBSET Out
  BY <1>1, ApplyStatusesType
<1>3. Revalidate(w) = [w EXCEPT !.quar = ApplyStatuses(w.quar, asked, Status,
                                                       w.cursor >= net.height)]
  BY DEF Revalidate
<1> QED BY <1>2, <1>3, QuarantineOK

LEMMA SweptOK ==
  ASSUME NEW w, WalletOK(w), NEW S \in SUBSET Out
  PROVE  WalletOK(Swept(w, S)) /\ Swept(w, S).quar = w.quar \cup S
<1> DEFINE v == Swept(w, S)
           out == [o \in Out |-> IF o \in S /\ Status[o] = 1
                                 THEN [w.out[o] EXCEPT !.spent = TRUE] ELSE w.out[o]]
<1>1. w.out \in [Out -> TrackedOutput] BY DEF WalletOK, WalletTyped
<1>2. out \in [Out -> TrackedOutput]
  <2> SUFFICES ASSUME NEW o \in Out PROVE [w.out[o] EXCEPT !.spent = TRUE] \in TrackedOutput
    BY <1>1
  <2> QED BY <1>1 DEF TrackedOutput
<1>3. v = [w EXCEPT !.quar = w.quar \cup S, !.out = out]
  BY DEF Swept
<1> HIDE DEF v, out
<1>4. /\ v.rows = w.rows /\ v.total = w.total /\ v.pend = w.pend
      /\ v.quar = w.quar \cup S /\ v.out = out
  BY <1>3 DEF WalletOK, WalletTyped
<1>5. WalletTyped(v) BY <1>2, <1>3, <1>4 DEF WalletOK, WalletTyped
<1> QED BY <1>4, <1>5 DEF WalletOK, Backed, v

LEMMA SpendInputsOK ==
  ASSUME NEW w, WalletOK(w), NEW t \in OwnTx
  PROVE  WalletOK(SpendInputs(w, t)) /\ SpendInputs(w, t).quar = w.quar
<1> DEFINE v == SpendInputs(w, t)
           out == MarkSpent(w.out, tx[t].ins, t)
           total == Minus(w.total, SumOf(tx[t].ins, tx))
<1>1. out \in [Out -> TrackedOutput]
  BY MarkSpentType, OutFacts DEF WalletOK, WalletTyped
<1>2. v = [w EXCEPT !.out = out, !.total = total]
  BY DEF SpendInputs
<1> HIDE DEF v, out, total
<1>3. /\ v.rows = w.rows /\ v.total = total /\ v.pend = w.pend
      /\ v.quar = w.quar /\ v.out = out
  BY <1>2 DEF WalletOK, WalletTyped
<1>4. WalletTyped(v) BY <1>1, <1>2, <1>3 DEF WalletOK, WalletTyped
<1> QED BY <1>3, <1>4 DEF WalletOK, Backed, v

(* A record and a row that go together keep a wallet backed.               *)
LEMMA RecordOK ==
  ASSUME NEW w, WalletOK(w), NEW t \in OwnTx, NEW row, row # NoRow
  PROVE  /\ WalletOK([w EXCEPT !.pend = w.pend \cup {t}, !.rows[t] = row])
         /\ [w EXCEPT !.pend = w.pend \cup {t}, !.rows[t] = row].quar = w.quar
<1> DEFINE v == [w EXCEPT !.pend = w.pend \cup {t}, !.rows[t] = row]
           rows == [w.rows EXCEPT ![t] = row]
<1>1. v = [w EXCEPT !.pend = w.pend \cup {t}, !.rows = rows]
  BY DEF WalletOK, WalletTyped
<1>2. rows = [x \in Txid |-> rows[x]] /\ rows[t] = row
  BY OutFacts DEF WalletOK, WalletTyped
<1>3. \A x \in Txid : x # t => rows[x] = w.rows[x]
  BY DEF WalletOK, WalletTyped
<1> HIDE DEF v, rows
<1>4. /\ v.rows = rows /\ v.total = w.total /\ v.pend = w.pend \cup {t}
      /\ v.quar = w.quar
  BY <1>1 DEF WalletOK, WalletTyped
<1>5. WalletTyped(v) BY <1>1, <1>2, <1>4 DEF WalletOK, WalletTyped
<1>6. Backed(v) BY <1>2, <1>3, <1>4, OutFacts DEF WalletOK, Backed
<1> QED BY <1>4, <1>5, <1>6 DEF WalletOK, v

LEMMA PendingRowIsRow == \A r : PendingRow(r) # NoRow /\ PendingRow(r).dir = "out"
BY DEF PendingRow, NoRow

LEMMA RecordedOK ==
  ASSUME NEW w, WalletOK(w), NEW t \in OwnTx
  PROVE  WalletOK(Recorded(w, t)) /\ Recorded(w, t).quar = w.quar
<1> DEFINE v == SpendInputs(w, t)
           row == PendingRow(tx[t])
<1>1. WalletOK(v) /\ v.quar = w.quar BY SpendInputsOK
<1>2. Recorded(w, t) = [v EXCEPT !.pend = v.pend \cup {t}, !.rows[t] = row]
  BY DEF Recorded
<1>3. row # NoRow BY PendingRowIsRow
<1> HIDE DEF v, row
<1>4. /\ WalletOK([v EXCEPT !.pend = v.pend \cup {t}, !.rows[t] = row])
      /\ [v EXCEPT !.pend = v.pend \cup {t}, !.rows[t] = row].quar = v.quar
  BY <1>1, <1>3, RecordOK
<1> QED BY <1>1, <1>2, <1>4, Zenon

LEMMA AppliedOK ==
  ASSUME NEW w, WalletOK(w), NEW t \in OwnTx
  PROVE  WalletOK(Applied(w, t)) /\ Applied(w, t).quar = w.quar
<1> DEFINE out == MarkSpent(w.out, NewlySpent(w, t), t)
           total == Minus(w.total, SumOf(NewlySpent(w, t), tx))
           row == IF w.rows[t] = NoRow THEN PendingRow(tx[t]) ELSE w.rows[t]
           v == [w EXCEPT !.out = out, !.total = total]
<1>1. out \in [Out -> TrackedOutput]
  BY MarkSpentType, OutFacts DEF WalletOK, WalletTyped
<1>2. row # NoRow BY PendingRowIsRow
<1> HIDE DEF out, total
<1>3. /\ v.rows = w.rows /\ v.total = total /\ v.pend = w.pend
      /\ v.quar = w.quar /\ v.out = out
  BY DEF WalletOK, WalletTyped
<1>4. WalletOK(v) BY <1>1, <1>3 DEF WalletOK, WalletTyped, Backed
<1>5. Applied(w, t) = [w EXCEPT !.out = out, !.total = total, !.pend = w.pend \cup {t},
                                !.rows[t] = row]
  BY DEF Applied, out, total
<1> HIDE DEF row
<1>6. Applied(w, t) = [v EXCEPT !.pend = v.pend \cup {t}, !.rows[t] = row]
  BY <1>3, <1>5 DEF WalletOK, WalletTyped
<1> HIDE DEF v
<1>7. row # NoRow BY <1>2 DEF row
<1>8. /\ WalletOK([v EXCEPT !.pend = v.pend \cup {t}, !.rows[t] = row])
      /\ [v EXCEPT !.pend = v.pend \cup {t}, !.rows[t] = row].quar = v.quar
  BY <1>4, <1>7, RecordOK
<1> QED BY <1>3, <1>6, <1>8, Zenon
-----------------------------------------------------------------------------
(* The call record.                                                        *)

LEMMA IdleCall ==
  /\ Idle \in Call /\ Idle.pc = "idle" /\ Idle.sent = {}
  /\ Idle.kicked = {} /\ Idle.denied = {} /\ Idle.kind = "none"
BY OutFacts, SpendAssumption DEF Idle, Call, CallKinds

(* A call at rest satisfies CallInv whatever the wallet is.                *)
LEMMA IdleInv ==
  ASSUME call.pc = "idle", call.sent # {} => bisect
  PROVE  CallInv
BY DEF CallInv, RefusedStaysOut

LEMMA TwoMax ==
  ASSUME NEW a \in Nat, NEW b \in Nat
  PROVE  Max({a, b}) \in Nat
<1>1. \E x \in {a, b} : \A y \in {a, b} : x >= y OBVIOUS
<1> QED BY <1>1 DEF Max

LEMMA MidType == call \in Call => Mid \in Nat
<1> SUFFICES ASSUME call \in Call PROVE Mid \in Nat
  OBVIOUS
<1>1. call.lo \in Nat /\ call.hi \in Nat BY DEF Call
<1>2. (call.lo + call.hi) \div 2 \in Nat /\ call.lo + 1 \in Nat BY <1>1
<1> QED BY <1>2, TwoMax DEF Mid

LEMMA CountType ==
  ASSUME NEW S \in SUBSET Out
  PROVE  Cardinality(S) \in Nat
BY OutFacts, FS_Subset, FS_CardinalityType

LEMMA SliceType == \A S \in SUBSET Out : \A i, j : Slice(S, i, j, tx) \in SUBSET Out
BY DEF Slice

LEMMA ShownType ==
  ASSUME NEW S \in SUBSET Out, NEW answered
  PROVE  Shown(S, answered) \in SUBSET Out
BY DEF Shown

-----------------------------------------------------------------------------
(* Steps.  Network: the calls and the wallet do not move.                  *)

LEMMA RelayedType ==
  ASSUME NetTyped, NEW x \in OwnTx \cup Foreign, Relayed(x)
  PROVE  NetTyped'
BY DEF NetTyped, Relayed

LEMMA EventType ==
  ASSUME events \in 0 .. MaxEvents, Event
  PROVE  events' \in 0 .. MaxEvents
BY SpendAssumption DEF Event

LEMMA Untouched ==
  ASSUME Inv, NetTyped', events' \in 0 .. MaxEvents, UNCHANGED <<tx, wallet, host, call>>
  PROVE  Inv'
BY DEF Inv, Typed, TxTyped, CallInv, RefusedStaysOut, AllBacked, host

LEMMA NetworkStep == Inv /\ Network => Inv'
<1> SUFFICES ASSUME Inv, Network PROVE Inv'
  OBVIOUS
<1>0. NetTyped /\ events \in 0 .. MaxEvents BY DEF Inv, Typed
<1>1. ASSUME NEW f \in Foreign, ForeignSpend(f) PROVE Inv'
  BY <1>0, <1>1, RelayedType, EventType, Untouched DEF ForeignSpend, Unspendable
<1>2. ASSUME NEW S \in SUBSET net.pool, Mine(S) PROVE Inv'
  <2>1. net.height + 1 \in Height /\ net.height + 1 \in HeightOrNone
    BY <1>0, <1>2, BoundsAssumption DEF NetTyped, Mine, Height, HeightOrNone
  <2>2. NetTyped' BY <1>0, <1>2, <2>1 DEF NetTyped, Mine
  <2> QED BY <1>0, <1>2, <2>2, Untouched DEF Mine, Unspendable
<1>3. ASSUME NEW x \in net.pool, PoolDrop(x) PROVE Inv'
  <2>1. NetTyped' BY <1>0, <1>3 DEF NetTyped, PoolDrop
  <2> QED BY <1>0, <1>3, <2>1, EventType, Untouched DEF PoolDrop, Unspendable
<1>4. ASSUME NEW h \in 2 .. net.height, Reorg(h) PROVE Inv'
  <2> DEFINE back == {x \in OwnTx \cup Foreign : net.at[x] >= h}
  <2>1. net.height + 1 \in Height /\ h \in HeightOrNone /\ 0 \in HeightOrNone
    BY <1>0, <1>4, BoundsAssumption DEF NetTyped, Reorg, Height, HeightOrNone
  <2>2. net' = [at |-> [x \in Txid |-> IF x \in back THEN 0 ELSE net.at[x]],
                pool |-> net.pool \cup back, height |-> net.height + 1, fork |-> h]
    BY <1>4 DEF Reorg
  <2>3. back \subseteq OwnTx \cup Foreign OBVIOUS
  <2> HIDE DEF back
  <2>4. NetTyped' BY <1>0, <2>1, <2>2, <2>3 DEF NetTyped
  <2> QED BY <1>0, <1>4, <2>4, EventType, Untouched DEF Reorg, Unspendable
<1> QED BY <1>1, <1>2, <1>3, <1>4 DEF Network

-----------------------------------------------------------------------------
(* Host operations while no call runs.                                     *)

LEMMA WalletMoves ==
  ASSUME Inv, NetTyped', events' \in 0 .. MaxEvents, call.pc = "idle",
         UNCHANGED <<tx, host, call>>, WalletOK(wallet')
  PROVE  Inv'
<1>1. call'.pc = "idle" /\ (call'.sent # {} => bisect')
  BY DEF Inv, CallInv, host
<1>2. CallInv' BY <1>1 DEF CallInv, RefusedStaysOut
<1>3. Typed' BY DEF Inv, Typed, TxTyped, host, WalletOK
<1>4. AllBacked' BY DEF Inv, AllBacked, host, WalletOK
<1> QED BY <1>2, <1>3, <1>4 DEF Inv

LEMMA RewindStep == ASSUME Inv, NEW h \in Height, RewindCursor(h) PROVE Inv'
<1>1. wallet.out \in [Out -> TrackedOutput] /\ WalletTyped(wallet)
  BY DEF Inv, Typed, WalletTyped
<1>2. h - 1 \in HeightOrNone BY BoundsAssumption DEF Height, HeightOrNone
<1> DEFINE v == Rebuilt(wallet, RewoundTo(h, wallet.out), h - 1)
<1>3. WalletOK(v) BY <1>1, <1>2, RewoundType, RebuiltOK
<1>4. wallet' = [v EXCEPT !.quar = {}] BY DEF RewindCursor
<1> HIDE DEF v
<1>5. WalletOK(wallet') BY <1>3, <1>4, QuarantineOK
<1> QED BY <1>5, WalletMoves, EventType DEF RewindCursor, Inv, Typed, NetTyped

LEMMA RefreshStep ==
  ASSUME Inv, NEW u \in Height, NEW named \in BOOLEAN, NEW answered \in BOOLEAN,
         Refresh(u, named, answered)
  PROVE  Inv'
<1> DEFINE out == Scanned(Base(wallet), Unscanned(wallet) - 1, u, named)
           v   == Checkpoint(wallet, out, u)
           first == [v EXCEPT !.seen = net.fork]
           last == Again(first, out, u)
<1>0. /\ NetTyped /\ WalletTyped(wallet) /\ u \in HeightOrNone /\ net.fork \in HeightOrNone
      /\ wallet.out \in [Out -> TrackedOutput]
  BY OutFacts DEF Inv, Typed, NetTyped, WalletTyped
<1>1. Base(wallet) \in [Out -> TrackedOutput]
  BY <1>0, RewoundType DEF Base
<1>2. out \in [Out -> TrackedOutput]
  BY <1>0, <1>1, ScannedType
<1> HIDE DEF out
<1>3. WalletOK(v) BY <1>0, <1>2, CheckpointOK
<1> HIDE DEF v
<1>4. /\ first.rows = v.rows /\ first.total = v.total /\ first.pend = v.pend
  BY <1>3 DEF WalletOK, WalletTyped
<1>5. WalletOK(first) BY <1>0, <1>3, <1>4 DEF WalletOK, WalletTyped, Backed
<1> HIDE DEF first
<1>6. WalletOK(Checkpoint(first, out, u))
  BY <1>0, <1>2, <1>5, CheckpointOK DEF WalletOK
<1>7. WalletOK(last) BY <1>5, <1>6 DEF Again
<1> HIDE DEF last
<1>8. WalletOK(Revalidate(last)) BY <1>7, RevalidateOK
<1>9. wallet' = IF u = net.height /\ answered THEN Revalidate(last) ELSE last
  BY DEF Refresh, out, v, first, last
<1>10. WalletOK(wallet') BY <1>7, <1>8, <1>9
<1> QED BY <1>10, WalletMoves DEF Refresh, Inv, Typed, NetTyped
LEMMA RelayStep ==
  ASSUME Inv, NEW t \in OwnTx,
         RelayKnown(t) \/ RelayAccepted(t) \/ RelayUnanswered(t)
  PROVE  Inv'
<1>0. WalletOK(wallet) /\ NetTyped /\ events \in 0 .. MaxEvents /\ t \in OwnTx \cup Foreign
  BY DEF Inv, Typed, AllBacked, WalletOK
<1>1. WalletOK(Applied(wallet, t)) BY <1>0, AppliedOK
<1>2. CASE RelayKnown(t)
  BY <1>0, <1>1, <1>2, WalletMoves DEF RelayKnown, Applies, NetTyped
<1>3. CASE RelayAccepted(t)
  BY <1>0, <1>1, <1>3, RelayedType, EventType, WalletMoves DEF RelayAccepted, Applies
<1>4. CASE RelayUnanswered(t)
  BY <1>0, <1>4, RelayedType, EventType, Untouched DEF RelayUnanswered
<1> QED BY <1>2, <1>3, <1>4

LEMMA PreviewsStep ==
  ASSUME Inv, NEW answered \in BOOLEAN, Previews(answered)
  PROVE  Inv'
<1> DEFINE asked == Unlocked(wallet.out, net.height)
           q == IF answered
                THEN ApplyStatuses(wallet.quar, asked, Status, wallet.cursor >= net.height)
                ELSE wallet.quar
<1>1. WalletOK(wallet) /\ wallet.quar \in SUBSET Out /\ asked \in SUBSET Out
  BY DEF Inv, Typed, AllBacked, WalletOK, WalletTyped, Unlocked, Unspent, Tracked
<1> HIDE DEF asked
<1>2. q \in SUBSET Out BY <1>1, ApplyStatusesType
<1>3. wallet' = [wallet EXCEPT !.quar = q] BY DEF Previews, QuarantineTo, asked
<1> HIDE DEF q
<1>4. WalletOK(wallet') BY <1>1, <1>2, <1>3, QuarantineOK
<1> QED BY <1>4, EventType, WalletMoves DEF Previews, Inv, Typed, NetTyped

(* A blob is a wallet as it was.                                           *)
LEMMA ExportStep == ASSUME Inv, Export PROVE Inv'
<1>1. events' \in 0 .. MaxEvents BY EventType DEF Export, Inv, Typed
<1>2. Typed' BY <1>1 DEF Export, Inv, Typed, NetTyped, TxTyped
<1>3. CallInv' BY DEF Export, Inv, CallInv, RefusedStaysOut
<1>4. AllBacked' BY DEF Export, Inv, AllBacked
<1> QED BY <1>2, <1>3, <1>4 DEF Inv

LEMMA RestartStep == ASSUME Inv, Restart PROVE Inv'
<1>1. events' \in 0 .. MaxEvents BY EventType DEF Restart, Inv, Typed
<1>2. blob # {} => (CHOOSE w \in blob : TRUE) \in blob OBVIOUS
<1>3. WalletOK(wallet')
  BY <1>2, EmptyWalletOK DEF Restart, Inv, Typed, AllBacked, WalletOK
<1>4. call'.pc = "idle" /\ call'.sent = {} /\ call' \in Call
  BY IdleCall DEF Restart
<1>5. CallInv' BY <1>4 DEF CallInv, RefusedStaysOut
<1>6. Typed' BY <1>1, <1>3, <1>4 DEF Restart, Inv, Typed, NetTyped, TxTyped, host, WalletOK
<1>7. AllBacked' BY <1>3 DEF Restart, Inv, AllBacked, host, WalletOK
<1> QED BY <1>5, <1>6, <1>7 DEF Inv

LEMMA BeginStep ==
  ASSUME Inv, NEW kind \in CallKinds, NEW prep \in BOOLEAN, NEW only \in SUBSET Out,
         Begin(kind, prep, only)
  PROVE  Inv'
<1>1. events' \in 0 .. MaxEvents BY EventType DEF Begin, Inv, Typed
<1>2. net.height \in HeightOrNone BY OutFacts DEF Inv, Typed, NetTyped
<1>3. /\ call' \in Call /\ call'.pc = "preflight" /\ call'.sent = {}
      /\ call'.kicked = {} /\ call'.denied = {}
  <2>1. call' = [pc |-> "preflight", kind |-> kind, prep |-> prep, only |-> only,
                 attempt |-> 0, dh |-> net.height, tx |-> NoTx, kicked |-> {},
                 denied |-> {}, sent |-> {}, lo |-> 0, hi |-> 0, err |-> "none"]
    BY DEF Begin, Idle
  <2>2. 0 \in 0 .. RetryMax BY SpendAssumption
  <2> QED BY <1>2, <2>1, <2>2 DEF Call
<1>4. CallInv' BY <1>3 DEF CallInv, RefusedStaysOut
<1>5. Typed' BY <1>1, <1>3 DEF Begin, Inv, Typed, NetTyped, TxTyped, host
<1>6. AllBacked' BY DEF Begin, Inv, AllBacked, host
<1> QED BY <1>4, <1>5, <1>6 DEF Inv

LEMMA HostStep == Inv /\ HostCall => Inv'
<1> SUFFICES ASSUME Inv, HostCall PROVE Inv'
  OBVIOUS
<1>1. ASSUME NEW prep \in BOOLEAN, SendBegins(prep) PROVE Inv'
  BY <1>1, BeginStep DEF SendBegins, CallKinds
<1>2. ASSUME NEW prep \in BOOLEAN, NEW only \in Filters,
             FilterBegins(prep, only) \/ SweepBegins(prep, only)
      PROVE Inv'
  <2>1. only \in SUBSET Out BY SpendAssumption
  <2> QED BY <1>2, <2>1, BeginStep DEF FilterBegins, SweepBegins, CallKinds
<1>3. ASSUME ForceRescan PROVE Inv'
  BY <1>3, EmptyWalletOK, EventType, WalletMoves DEF ForceRescan, Inv, Typed, NetTyped
<1> QED
  BY <1>1, <1>2, <1>3, PreviewsStep, RelayStep, RefreshStep, RewindStep, ExportStep,
     RestartStep
  DEF HostCall
-----------------------------------------------------------------------------
(* Steps of a call.  Most of them leave the network and the transactions   *)
(* as they are.                                                            *)

LEMMA CallMoves ==
  ASSUME Inv, NetTyped', TxTyped', events' \in 0 .. MaxEvents, call' \in Call,
         WalletOK(wallet'), CallInv', saved' \subseteq OwnTx, UNCHANGED <<blob, bisect>>
  PROVE  Inv'
<1>1. Typed' BY DEF Inv, Typed, WalletOK
<1>2. AllBacked' BY DEF Inv, AllBacked, WalletOK
<1> QED BY <1>1, <1>2 DEF Inv

LEMMA Standing ==
  ASSUME Inv
  PROVE  /\ NetTyped /\ TxTyped /\ events \in 0 .. MaxEvents /\ call \in Call
         /\ WalletOK(wallet) /\ CallInv /\ saved \subseteq OwnTx
         /\ wallet.quar \in SUBSET Out
         /\ UNCHANGED net => NetTyped'
         /\ UNCHANGED tx => TxTyped'
BY DEF Inv, Typed, AllBacked, WalletOK, WalletTyped, NetTyped, TxTyped

LEMMA EndsCall == call' = Idle => call' \in Call /\ CallInv'
BY IdleCall DEF CallInv, RefusedStaysOut

LEMMA FailsStep ==
  ASSUME Inv, SendFails \/ FilterFails \/ SweepFails
  PROVE  Inv'
BY Standing, EndsCall, CallMoves DEF SendFails, FilterFails, SweepFails, Fails, host

LEMMA InsufficientStep ==
  ASSUME Inv, NEW answered \in BOOLEAN, Insufficient(answered)
  PROVE  Inv'
<1>1. WalletOK(wallet')
  BY Standing, QuarantineType, QuarantineOK DEF Insufficient, QuarantineTo, WalletOK
<1> QED BY <1>1, Standing, EndsCall, CallMoves DEF Insufficient, host

LEMMA BreaksOffStep ==
  ASSUME Inv, NEW answered \in BOOLEAN,
         SendBreaksOff(answered) \/ FilterBreaksOff(answered) \/ SweepBreaksOff(answered)
  PROVE  Inv'
<1>1. /\ QuarantineTo(Quarantine(answered)) /\ call' = Idle
      /\ UNCHANGED <<net, tx, host, events>>
  BY DEF SendBreaksOff, FilterBreaksOff, SweepBreaksOff, BreaksOff
<1>2. WalletOK(wallet')
  BY <1>1, Standing, QuarantineType, QuarantineOK DEF QuarantineTo, WalletOK
<1> QED BY <1>1, <1>2, Standing, EndsCall, CallMoves DEF host

LEMMA MismatchStep ==
  ASSUME Inv, NEW answered \in BOOLEAN, MismatchFound(answered)
  PROVE  Inv'
<1> DEFINE q == Quarantine(answered)
<1>1. PICK o \in Mismatching(answered) :
           /\ QuarantineTo(q \cup {o})
           /\ SendMismatch(o, answered) \/ FilterMismatch
  BY DEF MismatchFound
<1>2. o \in Out
  BY <1>1, MismatchingOut
<1>3. q \subseteq Out /\ Denied(answered) \subseteq Out /\ Denied(answered) \subseteq q
  BY Standing, QuarantineType, QuarantineGrows, AskedOut DEF WalletOK, Denied
<1> HIDE DEF q
<1>4. WalletOK(wallet') /\ wallet'.quar = q \cup {o}
  <2>1. WalletOK(wallet) BY Standing
  <2>2. wallet' = [wallet EXCEPT !.quar = q \cup {o}] BY <1>1 DEF QuarantineTo
  <2>3. q \cup {o} \in SUBSET Out BY <1>2, <1>3
  <2>4. wallet'.quar = q \cup {o} BY <2>1, <2>2 DEF WalletOK, WalletTyped
  <2> QED BY <2>1, <2>2, <2>3, <2>4, QuarantineOK
<1>5. CASE call' = Idle
  BY <1>4, <1>5, Standing, EndsCall, CallMoves DEF MismatchFound, host
<1>6. CASE call' # Idle
  <2>1. /\ call.kind = "send" /\ call.attempt < RetryMax /\ call.pc = "preflight"
        /\ call' = [call EXCEPT !.attempt = call.attempt + 1,
                                !.kicked = call.kicked \cup {o},
                                !.denied = call.denied \cup Denied(answered)]
    BY <1>1, <1>6 DEF SendMismatch, FilterMismatch, MismatchFound
  <2>2. call \in Call /\ call.attempt \in Nat /\ RetryMax \in Nat
    BY Standing, SpendAssumption DEF Call
  <2>3. /\ call'.attempt = call.attempt + 1 /\ call'.kind = "send"
        /\ call'.pc = "preflight" /\ call'.sent = call.sent
        /\ call'.kicked = call.kicked \cup {o}
        /\ call'.denied = call.denied \cup Denied(answered)
    BY <2>1, <2>2 DEF Call
  <2>4. call' \in Call
    <3>1. call.attempt + 1 \in 0 .. RetryMax BY <2>1, <2>2
    <3>2. /\ call.kicked \cup {o} \in SUBSET Out
          /\ call.denied \cup Denied(answered) \in SUBSET Out
      BY <1>2, <1>3, <2>2 DEF Call
    <3> QED BY <2>1, <2>2, <3>1, <3>2 DEF Call
  <2>5. call.kicked \cup call.denied \subseteq q
    BY <2>1, Standing, QuarantineGrows DEF CallInv, q
  <2>6. CallInv'
    BY <1>3, <1>4, <2>2, <2>3, <2>5, Standing DEF CallInv, RefusedStaysOut, MismatchFound, host
  <2> QED BY <1>4, <2>4, <2>6, Standing, CallMoves DEF MismatchFound, host
<1> QED BY <1>5, <1>6
(* What a call signs it has been offered: nothing it was denied before.    *)
LEMMA SignsStep ==
  ASSUME Inv, NEW answered \in BOOLEAN, Signs(answered)
  PROVE  Inv'
<1> DEFINE S == Chosen(answered)
           t == CHOOSE u \in Fresh : TRUE
           q == Quarantine(answered)
           m == Mismatching(answered)
<1>1. t \in OwnTx BY DEF Signs, Fresh
<1>2. PICK p : /\ p.ins = S
               /\ Emits(t, p, answered)
  BY DEF Signs, SendSigns, FilterSigns, SweepSigns, Payment, SweepPayment
<1>3. S \subseteq Asked \ q /\ S \subseteq Out
  BY ChosenOffered, AskedOut
<1>4. q \subseteq Out /\ Denied(answered) \subseteq Out /\ Denied(answered) \subseteq q
  BY Standing, QuarantineType, QuarantineGrows, AskedOut DEF WalletOK, Denied
<1>5. call.pc = "preflight" /\ QuarantineTo(q \cup m) /\ UNCHANGED <<net, blob, bisect, events>>
  BY DEF Signs
<1> HIDE DEF S, t, q, m
<1>6. WalletOK(wallet') /\ wallet'.quar = q \cup m
  <2>1. WalletOK(wallet) BY Standing
  <2>2. wallet' = [wallet EXCEPT !.quar = q \cup m] BY <1>5 DEF QuarantineTo
  <2>3. q \cup m \in SUBSET Out BY <1>4, MismatchingOut DEF m
  <2>4. wallet'.quar = q \cup m BY <2>1, <2>2 DEF WalletOK, WalletTyped
  <2> QED BY <2>1, <2>2, <2>3, <2>4, QuarantineOK
<1>7. tx' = [tx EXCEPT ![t] = p] /\ tx'[t] = p /\ TxTyped'
  BY <1>1, <1>2, <1>3, Standing DEF Emits, TxTyped
<1>8. CASE call' = Idle
  BY <1>1, <1>2, <1>5, <1>6, <1>7, <1>8, Standing, EndsCall, CallMoves DEF Emits, Idle
<1>9. CASE call' # Idle
  <2>1. /\ call' = [call EXCEPT !.pc = "broadcast", !.tx = t,
                                !.denied = call.denied \cup Denied(answered)]
        /\ saved' = saved
    BY <1>2, <1>9 DEF Emits
  <2>2. call \in Call BY Standing
  <2>3. /\ call'.pc = "broadcast" /\ call'.tx = t /\ call'.sent = call.sent
        /\ call'.kicked = call.kicked
        /\ call'.denied = call.denied \cup Denied(answered)
    BY <2>1, <2>2 DEF Call
  <2>4. call' \in Call BY <1>1, <1>4, <2>1, <2>2 DEF Call
  <2>5. call.kicked \cup call.denied \subseteq q
    BY <1>5, Standing, QuarantineGrows DEF CallInv, q
  <2>6. RefusedStaysOut'
    BY <1>2, <1>3, <1>4, <1>7, <2>3, <2>5 DEF RefusedStaysOut
  <2>7. CallInv'
    BY <1>1, <1>4, <1>5, <1>6, <2>3, <2>5, <2>6, Standing DEF CallInv
  <2> QED BY <1>5, <1>6, <1>7, <2>1, <2>4, <2>7, Standing, CallMoves
<1> QED BY <1>8, <1>9

LEMMA AcceptedStep == ASSUME Inv, BroadcastAccepted PROVE Inv'
<1>1. call.tx \in OwnTx /\ call.tx \in OwnTx \cup Foreign
  BY Standing DEF BroadcastAccepted, CallInv
<1>2. WalletOK(wallet')
  BY <1>1, Standing, RecordedOK, SpendInputsOK
     DEF BroadcastAccepted, SendRecords, SweepRecords, FilterRecords
<1>3. NetTyped' BY <1>1, Standing, RelayedType DEF BroadcastAccepted
<1> QED BY <1>2, <1>3, Standing, EndsCall, CallMoves DEF BroadcastAccepted, host

LEMMA UnansweredStep == ASSUME Inv, BroadcastUnanswered PROVE Inv'
<1>1. call.tx \in OwnTx \cup Foreign
  BY Standing DEF BroadcastUnanswered, CallInv
<1>2. NetTyped' /\ events' \in 0 .. MaxEvents
  BY <1>1, Standing, RelayedType, EventType DEF BroadcastUnanswered
<1> QED BY <1>2, Standing, EndsCall, CallMoves DEF BroadcastUnanswered, AfterError, host

LEMMA RefusalType ==
  ASSUME Inv, NEW err, NEW x, Refusal(err, x)
  PROVE  events' \in 0 .. MaxEvents
BY Standing, EventType DEF Refusal

(* A hunt keeps what the call knows, and starts only when opted in.        *)
LEMMA HuntStep ==
  ASSUME Inv, NEW kicked, call.pc = "broadcast", call' = Hunt(kicked), kicked = call.kicked,
         wallet.quar \subseteq wallet'.quar, bisect, UNCHANGED bisect
  PROVE  call' \in Call /\ CallInv'
<1>1. call \in Call /\ call.tx \in OwnTx /\ TxTyped
  BY Standing DEF CallInv
<1>2. Cardinality(tx[call.tx].ins) \in Nat BY <1>1, CountType DEF TxTyped
<1>3. call' = [call EXCEPT !.pc = "bisect", !.kicked = call.kicked,
                           !.hi = Cardinality(tx[call.tx].ins)]
  BY DEF Hunt
<1>4. call' \in Call BY <1>1, <1>2, <1>3 DEF Call
<1>5. /\ call'.pc = "bisect" /\ call'.tx = call.tx /\ call'.kicked = call.kicked
      /\ call'.denied = call.denied
  BY <1>1, <1>3 DEF Call
<1>6. CallInv' BY <1>1, <1>5, Standing DEF CallInv, RefusedStaysOut
<1> QED BY <1>4, <1>6

LEMMA RefusedStep ==
  ASSUME Inv, NEW err, NEW answered \in BOOLEAN, BroadcastRefused(err, answered)
  PROVE  Inv'
<1>1. /\ events' \in 0 .. MaxEvents /\ call.tx \in OwnTx
      /\ tx[call.tx].ins \in SUBSET Out
  BY Standing, RefusalType DEF BroadcastRefused, CallInv, TxTyped
<1>2. WalletOK(wallet') /\ wallet.quar \subseteq wallet'.quar
  <2>1. CASE UNCHANGED wallet BY <2>1, Standing
  <2>2. CASE SendRefused(err, answered)
    <3> DEFINE S == IF err = "double" THEN Shown(tx[call.tx].ins, answered) ELSE {}
    <3>1. S \in SUBSET Out BY <1>1, ShownType
    <3>2. wallet' = Swept(wallet, S) BY <2>2 DEF SendRefused
    <3> HIDE DEF S
    <3> QED BY <3>1, <3>2, Standing, SweptOK
  <2> QED BY <2>1, <2>2 DEF BroadcastRefused, FilterRefused, SweepRefused
<1>3. call' \in Call /\ CallInv'
  <2>1. CASE call' = Idle BY <2>1, EndsCall
  <2>2. CASE call' # Idle
    <3>1. /\ bisect /\ UNCHANGED bisect /\ call' = Hunt(call.kicked)
          /\ call.pc = "broadcast"
      BY <2>2 DEF BroadcastRefused, SendRefused, FilterRefused, SweepRefused, SendHunts,
                  FilterHunts, host
    <3> QED BY <1>2, <3>1, HuntStep
  <2> QED BY <2>1, <2>2
<1> QED BY <1>1, <1>2, <1>3, Standing, CallMoves DEF BroadcastRefused, host
(* The bisect moves its bounds and what it has found out.                  *)
LEMMA BisectCall ==
  ASSUME Inv, call.pc = "bisect", call'.pc = "bisect", call'.tx = call.tx,
         call'.kicked = call.kicked, call'.denied = call.denied,
         wallet.quar \subseteq wallet'.quar, UNCHANGED bisect
  PROVE  CallInv'
BY Standing DEF CallInv, RefusedStaysOut

LEMMA SubsetType == Inv /\ call.pc = "bisect" => Subset \in SUBSET Out
BY Standing, SliceType DEF Subset, CallInv, TxTyped

LEMMA ProbeAcceptedStep == ASSUME Inv, ProbeAccepted PROVE Inv'
<1>1. PICK t \in Fresh : /\ tx' = [tx EXCEPT ![t] = Payment(Subset, Pay, tx)]
                         /\ Relayed(t)
                         /\ call' = [call EXCEPT !.lo = Mid, !.sent = call.sent \cup {t}]
  BY DEF ProbeAccepted
<1>2. t \in OwnTx /\ t \in OwnTx \cup Foreign BY DEF Fresh
<1>3. call \in Call /\ Mid \in Nat /\ call.pc = "bisect" /\ Subset \in SUBSET Out
  BY Standing, MidType, SubsetType DEF ProbeAccepted
<1>4. call' \in Call BY <1>1, <1>2, <1>3 DEF Call
<1>5. /\ call'.pc = "bisect" /\ call'.tx = call.tx /\ call'.kicked = call.kicked
      /\ call'.denied = call.denied
  BY <1>1, <1>3 DEF Call
<1>6. CallInv' BY <1>3, <1>5, BisectCall DEF ProbeAccepted, host
<1>7. Payment(Subset, Pay, tx).ins = Subset BY DEF Payment
<1>8. TxTyped' BY <1>1, <1>2, <1>3, <1>7, Standing DEF TxTyped
<1>9. NetTyped' BY <1>1, <1>2, Standing, RelayedType
<1> QED BY <1>4, <1>6, <1>8, <1>9, Standing, CallMoves DEF ProbeAccepted, host

LEMMA ProbeRefusedStep ==
  ASSUME Inv, NEW err \in {"invalid", "double"}, NEW answered \in BOOLEAN,
         ProbeRefused(err, answered)
  PROVE  Inv'
<1>1. call \in Call /\ Mid \in Nat /\ call.pc = "bisect" /\ Subset \in SUBSET Out
  BY Standing, MidType, SubsetType DEF ProbeRefused
<1>2. WalletOK(wallet') /\ wallet.quar \subseteq wallet'.quar
  <2>1. CASE UNCHANGED wallet BY <2>1, Standing
  <2>2. CASE SendProbeRefused(err, answered)
    <3> DEFINE S == IF err = "double" THEN Shown(Subset, answered) ELSE {}
    <3>1. S \in SUBSET Out BY <1>1, ShownType
    <3>2. wallet' = Swept(wallet, S) BY <2>2 DEF SendProbeRefused
    <3> HIDE DEF S
    <3> QED BY <3>1, <3>2, Standing, SweptOK
  <2> QED BY <2>1, <2>2 DEF ProbeRefused, FilterProbeRefused
<1>3. \/ call' = [call EXCEPT !.lo = Mid]
      \/ call' = [call EXCEPT !.hi = Mid, !.err = err]
  BY DEF ProbeRefused, SendProbeRefused, FilterProbeRefused
<1>4. call' \in Call
  <2> DEFINE m == Mid
  <2>1. m \in Nat BY <1>1
  <2>2. \/ call' = [call EXCEPT !.lo = m]
        \/ call' = [call EXCEPT !.hi = m, !.err = err]
    BY <1>3
  <2> HIDE DEF m
  <2>3. CASE call' = [call EXCEPT !.lo = m] BY <1>1, <2>1, <2>3 DEF Call
  <2>4. CASE call' = [call EXCEPT !.hi = m, !.err = err] BY <1>1, <2>1, <2>4 DEF Call
  <2> QED BY <2>2, <2>3, <2>4
<1>5. /\ call'.pc = "bisect" /\ call'.tx = call.tx /\ call'.kicked = call.kicked
      /\ call'.denied = call.denied
  BY <1>1, <1>3 DEF Call
<1>6. CallInv' BY <1>1, <1>2, <1>5, BisectCall DEF ProbeRefused, host
<1> QED BY <1>2, <1>4, <1>6, Standing, CallMoves DEF ProbeRefused, host

LEMMA ProbePassedStep == ASSUME Inv, ProbePassed PROVE Inv'
<1>1. call \in Call /\ Mid \in Nat /\ call.pc = "bisect"
  BY Standing, MidType DEF ProbePassed
<1>2. call' = [call EXCEPT !.lo = Mid] BY DEF ProbePassed
<1>3. call' \in Call BY <1>1, <1>2 DEF Call
<1>4. /\ call'.pc = "bisect" /\ call'.tx = call.tx /\ call'.kicked = call.kicked
      /\ call'.denied = call.denied
  BY <1>1, <1>2 DEF Call
<1>5. CallInv' BY <1>1, <1>4, BisectCall DEF ProbePassed, host
<1> QED BY <1>3, <1>5, Standing, CallMoves DEF ProbePassed, host

LEMMA BisectEndsStep ==
  ASSUME Inv, NEW answered \in BOOLEAN, BisectEnds(answered)
  PROVE  Inv'
<1> DEFINE left == Slice(tx[call.tx].ins, call.hi - 1, call.hi, tx)
           kick == IF call.err = "double" THEN Shown(left, answered) ELSE left
<1>1. call \in Call /\ call.kind = "send" /\ call.pc = "bisect" /\ call.tx \in OwnTx
  BY Standing DEF BisectEnds, CallInv
<1>2. left \in SUBSET Out BY <1>1, Standing, SliceType DEF TxTyped
<1>3. kick \in SUBSET Out BY <1>2, ShownType
<1>4. /\ QuarantineTo(wallet.quar \cup kick)
      /\ \/ call' = Idle
         \/ /\ call.attempt < RetryMax
            /\ call' = [call EXCEPT !.pc = "preflight", !.attempt = call.attempt + 1,
                                    !.tx = NoTx, !.kicked = call.kicked \cup kick,
                                    !.lo = 0, !.hi = 0, !.err = "none"]
  BY DEF BisectEnds
<1> HIDE DEF kick, left
<1>5. WalletOK(wallet') /\ wallet'.quar = wallet.quar \cup kick
  BY <1>3, <1>4, Standing, QuarantineOK DEF QuarantineTo, WalletOK, WalletTyped
<1>6. CASE call' = Idle
  BY <1>5, <1>6, Standing, EndsCall, CallMoves DEF BisectEnds, host
<1>7. CASE call' # Idle
  <2>1. call.attempt \in Nat /\ RetryMax \in Nat /\ call.attempt + 1 \in 0 .. RetryMax
    BY <1>1, <1>4, <1>7, SpendAssumption DEF Call
  <2>2. call.kicked \cup kick \in SUBSET Out BY <1>1, <1>3 DEF Call
  <2>3. call' \in Call
    <3>1. /\ NoTx \in OwnTx \cup {NoTx} /\ "preflight" \in {"idle", "preflight", "broadcast", "bisect"}
          /\ 0 \in Nat /\ "none" \in {"none", "invalid", "double"}
      OBVIOUS
    <3>2. call' = [call EXCEPT !.pc = "preflight", !.attempt = call.attempt + 1,
                               !.tx = NoTx, !.kicked = call.kicked \cup kick,
                               !.lo = 0, !.hi = 0, !.err = "none"]
      BY <1>4, <1>7
    <3> DEFINE a == call.attempt + 1
               k == call.kicked \cup kick
    <3>3. a \in 0 .. RetryMax /\ k \in SUBSET Out BY <2>1, <2>2
    <3>4. call' = [call EXCEPT !.pc = "preflight", !.attempt = a, !.tx = NoTx,
                               !.kicked = k, !.lo = 0, !.hi = 0, !.err = "none"]
      BY <3>2
    <3> HIDE DEF a, k
    <3> QED BY <1>1, <3>1, <3>3, <3>4 DEF Call
  <2>4. /\ call'.pc = "preflight" /\ call'.kind = "send"
        /\ call'.attempt = call.attempt + 1
        /\ call'.kicked = call.kicked \cup kick /\ call'.denied = call.denied
        /\ call'.sent = call.sent
    BY <1>1, <1>4, <1>7 DEF Call
  <2>5. CallInv'
    <3>1. bisect' = bisect BY DEF BisectEnds, host
    <3>2. /\ call.kicked \cup call.denied \subseteq wallet.quar
          /\ call.sent # {} => bisect
      BY <1>1, Standing DEF CallInv
    <3>3. call'.kicked \cup call'.denied \subseteq wallet'.quar
      BY <1>5, <2>4, <3>2
    <3>4. call'.attempt # 0 BY <2>1, <2>4
    <3> QED BY <2>4, <3>1, <3>2, <3>3, <3>4 DEF CallInv, RefusedStaysOut
  <2> QED BY <1>5, <2>3, <2>5, Standing, CallMoves DEF BisectEnds, host
<1> QED BY <1>6, <1>7

LEMMA CallsStep == Inv /\ CallStep => Inv'
BY FailsStep, BreaksOffStep, InsufficientStep, MismatchStep, SignsStep, AcceptedStep,
   UnansweredStep, RefusedStep, ProbeAcceptedStep, ProbeRefusedStep, ProbePassedStep, BisectEndsStep
   DEF CallStep

-----------------------------------------------------------------------------
(* The theorems.                                                           *)

LEMMA InvInit == Init => Inv
<1> SUFFICES ASSUME Init PROVE Inv
  OBVIOUS
<1> DEFINE out == [o \in Out |-> IF o \in Coin THEN [Untracked EXCEPT !.recv = 1]
                                               ELSE Untracked]
<1>1. 0 \in HeightOrNone BY OutFacts
<1>2. 2 \in Height /\ 2 \in HeightOrNone /\ 1 \in HeightOrNone
  BY StartAssumption, BoundsAssumption DEF Height, HeightOrNone
<1>3. Untracked \in TrackedOutput /\ [Untracked EXCEPT !.recv = 1] \in TrackedOutput
  BY <1>1, <1>2 DEF Untracked, TrackedOutput
<1>4. out \in [Out -> TrackedOutput] BY <1>3
<1> HIDE DEF out
<1>5. WalletOK(Rebuilt(EmptyWallet, out, 2))
  BY <1>2, <1>4, EmptyWalletOK, RebuiltOK DEF WalletOK
<1>6. wallet = Rebuilt(EmptyWallet, out, 2) BY DEF Init, out
<1>7. NetTyped BY <1>1, <1>2 DEF Init, NetTyped
<1>8. TxTyped BY DEF Init, TxTyped, Unsigned
<1>9. CallInv BY IdleCall DEF Init, CallInv, RefusedStaysOut
<1> QED
  BY <1>5, <1>6, <1>7, <1>8, <1>9, IdleCall, SpendAssumption
  DEF Init, Inv, Typed, AllBacked, WalletOK

LEMMA InvStep == Inv /\ [Next]_vars => Inv'
<1>1. ASSUME Inv, UNCHANGED vars PROVE Inv'
  <2>1. NetTyped' BY <1>1, Standing DEF vars
  <2> QED BY <1>1, <2>1, Standing, Untouched DEF vars
<1> QED BY <1>1, NetworkStep, CallsStep, HostStep DEF Next

THEOREM Invariance == Spec => []Inv
BY InvInit, InvStep, PTL DEF Spec

(* Every step keeps the types of network, outputs, records, cursors and    *)
(* calls: all of TypeOK that is not a sum of amounts.  The cursor stays a  *)
(* height however refreshes, rewinds and restored blobs follow each other. *)
THEOREM TypesHold == Spec => []Typed
BY Invariance, PTL DEF Inv

(* However many attempts, answers and hunts, a call never broadcasts an    *)
(* output it was shown spent or an earlier attempt of it has quarantined.  *)
THEOREM RefusedStaysOutHolds == Spec => []RefusedStaysOut
<1>1. Inv => RefusedStaysOut BY DEF Inv, CallInv
<1> QED BY <1>1, Invariance, PTL

(* Without the opt-in bisect no call broadcasts after it has paid.         *)
THEOREM OnePaymentPerCallHolds == Spec => []OnePaymentPerCall
<1>1. Inv => OnePaymentPerCall BY DEF Inv, CallInv, OnePaymentPerCall
<1> QED BY <1>1, Invariance, PTL

(* A pending row has its record and a record its row, in the wallet and,   *)
(* after a crash, in the blob it comes back from.                          *)
THEOREM PendingRowsBackedHolds == Spec => []PendingRowsBacked
<1>1. Inv => PendingRowsBacked BY DEF Inv, AllBacked, Backed, PendingRowsBacked
<1> QED BY <1>1, Invariance, PTL
=============================================================================
