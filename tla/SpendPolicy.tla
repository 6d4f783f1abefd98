---------------------------- MODULE SpendPolicy ----------------------------
(***************************************************************************)
(* What send.rs, sweep.rs, preview_fee.rs and input_policy.rs compute from *)
(* the outputs of a wallet: which of them may be spent, which are chosen,  *)
(* and what a transaction over them pays.  A transaction of the wallet     *)
(* makes at most one output it owns, its change, so that output and        *)
(* transaction share a name; Coin are the outputs received before.         *)
(***************************************************************************)
EXTENDS Naturals, FiniteSets, FiniteSetsExt

CONSTANTS
  Coin,          \* outputs received from others, and their transactions
  OwnTx,         \* transactions this wallet signs, and their change
  Foreign,       \* transactions another holder of the seed signs
  NoTx,
  CoinAmount,    \* CoinAmount[c]
  Position,      \* the place of an output in tracked_outputs
  NecessaryFee,  \* NecessaryFee[n]: the fee of a transaction with n inputs
  FeeStep,       \* 50_000_000 piconero
  MinInput,      \* walletcore_sweep_min_input_piconero
  LargestFirst,  \* WALLETCORE_INPUT_SELECT
  MaxRounds,     \* max_selection_rounds
  Lock,          \* blocks before an output can be spent
  MaxHeight

Out  == Coin \cup OwnTx
Txid == Out \cup Foreign

ASSUME NamesAssumption == /\ NoTx \notin Txid
                          /\ Coin \cap OwnTx = {}
                          /\ Foreign \cap Out = {}
                          /\ IsFiniteSet(Coin) /\ IsFiniteSet(OwnTx)
ASSUME BoundsAssumption == /\ MaxHeight \in Nat
                           /\ Lock \in Nat
                           /\ LargestFirst \in BOOLEAN
                           /\ MaxRounds \in Nat \ {0}
ASSUME AmountsAssumption == /\ CoinAmount \in [Coin -> Nat]
                            /\ FeeStep \in Nat
                            /\ \A n \in 1 .. Cardinality(Out) : NecessaryFee[n] \in Nat
ASSUME PositionAssumption ==
  /\ Position \in [Out -> Nat]
  /\ \A o, p \in Out : Position[o] = Position[p] => o = p

Height == 1 .. MaxHeight
HeightOrNone == 0 .. MaxHeight   \* 0: the None of an Option<u64>

(* TrackedOutput: recv is its block (0: not tracked), by and at are        *)
(* spending_txid and spending_height.                                      *)
TrackedOutput == [recv : HeightOrNone, spent : BOOLEAN,
                  by : Txid \cup {NoTx}, at : HeightOrNone]

Untracked == [recv |-> 0, spent |-> FALSE, by |-> NoTx, at |-> 0]

(* A signed transaction: what it reports as paid, its fee and its change.  *)
Signed == [ins : SUBSET Out, pay : Nat, fee : Nat, chg : Nat]

Unsigned == [ins |-> {}, pay |-> 0, fee |-> 0, chg |-> 0]

Minus(a, b) == IF a > b THEN a - b ELSE 0     \* saturating_sub

AmountOf(o, tx) == IF o \in Coin THEN CoinAmount[o] ELSE tx[o].chg

SumOf(S, tx) == LET amount(o) == AmountOf(o, tx) IN MapThenSumSet(amount, S)

Tracked(out)  == {o \in Out : out[o].recv # 0}
Unspent(out)  == {o \in Tracked(out) : ~out[o].spent}
SpentOuts(out) == {o \in Tracked(out) : out[o].spent}

(* mark_tracked_output_spent keeps the first spending_txid.                *)
MarkSpent(out, S, t) ==
  [o \in Out |-> IF o \in S
                 THEN [out[o] EXCEPT !.spent = TRUE,
                                     !.by = IF @ = NoTx THEN t ELSE @]
                 ELSE out[o]]

-----------------------------------------------------------------------------
(* Eligibility.                                                            *)

Unlocked(out, h) == {o \in Unspent(out) : out[o].recv + Lock <= h}

(* unlocked_balance *)
UnlockedBalance(out, quar, tx, h) == SumOf(Unlocked(out, h) \ quar, tx)

(* apply_statuses: the daemon says 0 unspent, 1 spent in a block, 2 spent  *)
(* in its pool, for each output asked about.  Only a wallet that has       *)
(* scanned to the height of the daemon believes a 0.                       *)
ApplyStatuses(quar, asked, status, release) ==
  (quar \ {o \in asked : release /\ status[o] = 0})
    \cup {o \in asked : status[o] # 0}

-----------------------------------------------------------------------------
(* Input selection of sends and fee previews.                              *)

Larger(tx, p, o) ==
  \/ AmountOf(p, tx) > AmountOf(o, tx)
  \/ AmountOf(p, tx) = AmountOf(o, tx) /\ Position[p] < Position[o]

(* walletcore_input_select_mode; the sorts are stable.                     *)
Before(tx, o, p) ==
  IF LargestFirst \/ AmountOf(o, tx) = AmountOf(p, tx) THEN Larger(tx, o, p)
                                                       ELSE Larger(tx, p, o)

(* The first of some outputs.                                              *)
FirstOf(S, tx) == {o \in S : \A p \in S \ {o} : Before(tx, o, p)}

(* The selection takes outputs in that order: in the first round until     *)
(* they cover the amount, in each later one another.                       *)
Taken(avail, tx) ==
  {{p \in avail : p = o \/ Before(tx, p, o)} : o \in avail}

Begun(avail, pay, tx) == {S \in Taken(avail, tx) : SumOf(S, tx) >= pay}

RoundOf(S, avail, pay, tx) == Cardinality({R \in Begun(avail, pay, tx) : R \subseteq S})

Covering(avail, pay, tx) ==
  {S \in Taken(avail, tx) :
     SumOf(S, tx) >= pay + NecessaryFee[Cardinality(S)]}

(* A round rebuilds what is taken and compares its key images, ...         *)
Examined(avail, pay, tx) ==
  UNION {S \in Begun(avail, pay, tx) :
           /\ RoundOf(S, avail, pay, tx) <= MaxRounds
           /\ \A R \in Covering(avail, pay, tx) : R \subseteq S => R = S}

(* ... and the rounds end when it can pay the amount and its fee.  What    *)
(* the last round takes is signed without a look.                          *)
Selections(avail, pay, tx) ==
  {S \in Covering(avail, pay, tx) :
     /\ \A R \in Covering(avail, pay, tx) : S \subseteq R
     /\ RoundOf(S, avail, pay, tx) <= MaxRounds + 1}

(* A filtered send that meets a mismatch in o starts over with the same    *)
(* list, and meets it in the same round again.  If o is what is taken last *)
(* for the selection S, and the rounds are used up just before o is        *)
(* compared once more, S is signed.                                        *)
Slips(S, o, avail, pay, tx) ==
  /\ {R \in Begun(avail, pay, tx) : o \in R /\ R \subseteq S} = {S}
  /\ RoundOf(S, avail, pay, tx) > 1
  /\ (MaxRounds + 1) % RoundOf(S, avail, pay, tx) = 0

Payment(S, pay, tx) ==
  LET fee == NecessaryFee[Cardinality(S)]
  IN [ins |-> S, pay |-> pay, fee |-> fee, chg |-> Minus(SumOf(S, tx), pay + fee)]

(* The outputs from the i-th to the j-th largest of S, counted from 0, j   *)
(* excluded: the slices of the bisect.                                     *)
Slice(S, i, j, tx) ==
  {o \in S : Cardinality({p \in S : Larger(tx, p, o)}) \in i .. (j - 1)}

-----------------------------------------------------------------------------
(* The fee of a sweep: eight attempts at paying the sum less a guess.  Too *)
(* high a payment raises the guess by FeeStep, a signable one sets it to   *)
(* the fee it needs; equal guess and fee end the search.                   *)
(* Mutant: the search is cut short.                                        *)
TwoIterations == 2

SweepIterations == 8

SweepSearch(sum, fee) ==
  LET try[i \in 0 .. SweepIterations] ==
        IF i = 0 THEN [guess |-> 0, paid |-> 0, found |-> FALSE, done |-> FALSE]
        ELSE LET s == try[i - 1]
                 amount == Minus(sum, s.guess)
             IN IF s.done THEN s
                ELSE IF sum < amount + fee
                     THEN [s EXCEPT !.guess = @ + FeeStep]
                     ELSE [guess |-> fee, paid |-> amount, found |-> TRUE,
                           done |-> fee = s.guess]
  IN try[SweepIterations]

(* A sweep that finds a fee below the sum; it reports the sum less the fee *)
(* also when the last transaction it built pays less.                      *)
Sweepable(S, tx) ==
  LET fee == NecessaryFee[Cardinality(S)]
  IN S # {} /\ fee < SumOf(S, tx) /\ SweepSearch(SumOf(S, tx), fee).found

SweepPayment(S, tx) ==
  LET fee == NecessaryFee[Cardinality(S)]
      sum == SumOf(S, tx)
  IN [ins |-> S, pay |-> Minus(sum, fee), fee |-> fee,
      chg |-> Minus(sum, SweepSearch(sum, fee).paid + fee)]

(* What a sweep takes: no output of a pending transaction, no dust.        *)
SweepSelection(avail, pend, tx) ==
  {o \in avail \ pend : AmountOf(o, tx) >= MinInput}
=============================================================================
