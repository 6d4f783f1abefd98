---------------------------- MODULE SpendQuotes ----------------------------
(***************************************************************************)
(* The fees that wallet_preview_fee, wallet_preview_fee_with_filter        *)
(* (preview_fee.rs) and wallet_preview_sweep_with_filter (sweep.rs) quote, *)
(* computed round by round as they do it, next to what the spending calls  *)
(* of SpendCalls sign; and the rounds of a send (send.rs), next to what    *)
(* these calls take them to come to.                                       *)
(***************************************************************************)
EXTENDS SpendCalls, Sequences

NoQuote == [pay |-> 0, fee |-> 0]

(* The list a preview selects from.                                        *)
PreviewList(answered, only) ==
  LET asked == Unlocked(wallet.out, net.height)
      quar  == IF answered
               THEN ApplyStatuses(wallet.quar, asked, Status, wallet.cursor >= net.height)
               ELSE wallet.quar
  IN (asked \ quar) \cap only

(* The list of some outputs in the order of the selection.                 *)
InOrder(avail) ==
  CHOOSE list \in [1 .. Cardinality(avail) -> avail] :
    \A i, j \in DOMAIN list : i < j => Before(tx, list[i], list[j])

(* wallet_preview_fee lists everything, the filtered preview one           *)
(* subaddress.                                                             *)
FeeList(answered) == InOrder(PreviewList(answered, Out))
FilterList(answered, only) == InOrder(PreviewList(answered, only))

SumTo(list, n) == SumOf({list[i] : i \in 1 .. n}, tx)

(* Mutant: until they are worth more than the amount.                      *)
FirstPassBeyond(list) ==
  LET take[n \in 1 .. Len(list) + 1] ==
        IF n > Len(list) \/ SumTo(list, n) > Pay THEN n ELSE take[n + 1]
  IN take[1]

(* First pass: outputs are taken until they cover the amount.              *)
FirstPass(list) ==
  LET take[n \in 1 .. Len(list) + 1] ==
        IF n > Len(list) \/ SumTo(list, n) >= Pay THEN n ELSE take[n + 1]
  IN take[1]

(* Mutant: the fee is the one of the round before.                         *)
EarlyRounds(list) ==
  LET first == FirstPass(list)
      round[n \in 1 .. Len(list) + 1] ==
        IF n > Len(list) \/ n >= first + MaxRounds THEN NoQuote
        ELSE IF SumTo(list, n) >= Pay + NecessaryFee[n]
             THEN [pay |-> Pay, fee |-> NecessaryFee[IF n = 1 THEN 1 ELSE n - 1]]
             ELSE round[n + 1]
  IN round[first]

(* Rounds: a transaction over what is taken says what fee it needs, or     *)
(* that the funds do not suffice; then one output more is taken.  After    *)
(* the last round "fee estimation did not converge".                       *)
Rounds(list) ==
  LET first == FirstPass(list)
      round[n \in 1 .. Len(list) + 1] ==
        IF n > Len(list) \/ n >= first + MaxRounds THEN NoQuote
        ELSE IF SumTo(list, n) >= Pay + NecessaryFee[n]
             THEN [pay |-> Pay, fee |-> NecessaryFee[n]]
             ELSE round[n + 1]
  IN round[first]

PreviewFee(answered) == Rounds(FeeList(answered))
PreviewFeeWithFilter(answered, only) == Rounds(FilterList(answered, only))

(* The outputs a sweep preview counts, from what is not pending, ...       *)
SweepList(answered, only) ==
  {o \in PreviewList(answered, only) \ wallet.pend : AmountOf(o, tx) >= MinInput}

(* ... and its own search for the fee, which keeps nothing but the guess.  *)
SweepGuess(sum, fee) ==
  LET guess[i \in 0 .. SweepIterations] ==
        IF i = 0 THEN 0
        ELSE IF sum < Minus(sum, guess[i - 1]) + fee THEN guess[i - 1] + FeeStep
        ELSE fee
  IN guess[SweepIterations]

PreviewSweep(answered, only) ==
  LET S   == SweepList(answered, only)
      sum == SumOf(S, tx)
      fee == SweepGuess(sum, NecessaryFee[Cardinality(S)])
  IN IF S = {} \/ fee >= sum THEN NoQuote ELSE [pay |-> sum - fee, fee |-> fee]

-----------------------------------------------------------------------------
(* The selection rounds of wallet_send and wallet_send_with_filter.        *)

(* An output that is not what the wallet tracks is quarantined.  The       *)
(* attempt of a send ends with it, a filtered send drops what it has taken *)
(* and goes on, with the list it has.                                      *)
Differs(s, o) ==
  [s EXCEPT !.taken = 0, !.kicked = @ \cup {o},
            !.end = IF call.kind = "send" THEN "again" ELSE @]

CanPayWith(list, n) == n \in 1 .. Len(list) /\ SumTo(list, n) >= Pay + NecessaryFee[n]

(* With nothing taken a round first takes outputs up to the amount.  It    *)
(* compares what is taken, and tries it in a transaction: that ends the    *)
(* rounds, or one output more is taken.                                    *)
SendRounds(list) ==
  LET first == FirstPass(list)
      round[i \in 0 .. MaxRounds] ==
        IF i = 0 THEN [taken |-> 0, kicked |-> {}, end |-> "none"]
        ELSE LET s == round[i - 1]
                 n == IF s.taken = 0 THEN first ELSE s.taken
                 differ == {j \in 1 .. n : j <= Len(list) /\ list[j] \in Bad}
             IN IF s.end # "none" THEN s
                ELSE IF n > Len(list) THEN [s EXCEPT !.end = "short"]
                ELSE IF differ # {} THEN Differs(s, list[Min(differ)])
                ELSE IF CanPayWith(list, n) THEN [s EXCEPT !.taken = n, !.end = "enough"]
                ELSE [s EXCEPT !.taken = n + 1]
  IN round[MaxRounds]

(* The transaction is built again from what is taken, without a look at    *)
(* its key images, also when the rounds are used up.                       *)
FinalBuild(list, s) == s.end \in {"enough", "none"} /\ CanPayWith(list, s.taken)

-----------------------------------------------------------------------------
(* The quote next to the call.                                             *)

(* What the preview that goes with the call under way says of the same     *)
(* wallet, blocks and answers.                                             *)
QuoteOf(answered) ==
  CASE call.kind = "send"   -> PreviewFee(answered)
    [] call.kind = "filter" -> PreviewFeeWithFilter(answered, call.only)
    [] call.kind = "sweep"  -> PreviewSweep(answered, call.only)

Paid(p) == [pay |-> p.pay, fee |-> p.fee]

(* The first attempt of a call during which no block has come in.          *)
Undisturbed == call.attempt = 0 /\ call.dh = net.height

(* The search of a sweep ends: FeeStep seven times is enough.              *)
Converges(avail) ==
  LET S == SweepSelection(avail, wallet.pend, tx)
  IN S # {} => NecessaryFee[Cardinality(S)] <= (SweepIterations - 1) * FeeStep

(* A send takes what it signs only when its rounds are used up.            *)
LastRound(answered) ==
  /\ Compares
  /\ RoundOf(Chosen(answered), Available(answered), Pay, tx) = MaxRounds + 1

(* The user agrees to a quote, and the call made next signs just that      *)
(* payment and fee, or says that funds are short when there was no quote:  *)
(* the rounds of the previews, their order, dust and pending exclusion are *)
(* those of the calls ("match send defaults", preview_fee.rs:244).  Two    *)
(* things part them.  A preview compares no key images, so that a call may *)
(* start over or end at a mismatch where there was a quote (MismatchFound, *)
(* of which nothing is said here); and a preview gives up where a send     *)
(* still signs what its last round took.  Nothing is said either of a      *)
(* later attempt, or of a call during which a block comes in.              *)
QuotesHold ==
  [][\A answered \in BOOLEAN :
       /\ Undisturbed
       /\ call.kind = "sweep" => Converges(Available(answered))
       => /\ Signs(answered) =>
               \A t \in OwnTx :
                 tx'[t] # tx[t] =>
                   QuoteOf(answered) = IF LastRound(answered) THEN NoQuote ELSE Paid(tx'[t])
          /\ Insufficient(answered) => QuoteOf(answered) = NoQuote]_vars

(* What the calls of SpendCalls take the rounds of an attempt to come to   *)
(* is what the loop comes to: the one output it quarantines, whether it    *)
(* signs, and what.  A filtered send meets the same mismatch in every      *)
(* restart, so that none but the round limit ends it, and signs the output *)
(* it has quarantined just when Slips says so.                             *)
RoundsAgree ==
  call.pc = "preflight" /\ Compares =>
    \A answered \in BOOLEAN :
      LET list == InOrder(Available(answered))
          s    == SendRounds(list)
      IN /\ s.kicked = Mismatching(answered)
         /\ FinalBuild(list, s) <=>
               CanPay(answered) /\ (Mismatching(answered) = {} \/ SlipsThrough(answered))
         /\ FinalBuild(list, s) => {list[j] : j \in 1 .. s.taken} = Chosen(answered)
=============================================================================
