--------------------------- MODULE TransferLedger ---------------------------
(***************************************************************************)
(* rebuild_transfer_ledger: the history of a wallet from its tracked       *)
(* outputs and its pending sends.                                          *)
(***************************************************************************)
EXTENDS SpendPolicy

(* LedgerEntry; dir "none" is a txid without a row.                        *)
Row == [dir : {"none", "in", "out"}, amt : Nat, at : HeightOrNone, pending : BOOLEAN]

NoRow == [dir |-> "none", amt |-> 0, at |-> 0, pending |-> FALSE]

NoRows == [x \in Txid |-> NoRow]

Highest(S) == IF S = {} THEN 0 ELSE Max(S)

(* outgoing_ledger_amount: always payment and fee.                         *)
OutgoingAmount(r) == r.pay + r.fee

PendingRow(r) == [dir |-> "out", amt |-> OutgoingAmount(r), at |-> 0, pending |-> TRUE]

Incoming(x, out, tx) == IF x \in Tracked(out) THEN AmountOf(x, tx) ELSE 0

SpentBy(x, out) == {o \in SpentOuts(out) : out[o].by = x}

(* Spent outputs without spending_txid, at one height.                     *)
Unattributed(out) == SpentBy(NoTx, out)
UnattributedAt(h, out) == {o \in Unattributed(out) : out[o].at = h}

(* Transactions of that height that look like the change of such a spend.  *)
ChangeAt(h, out, tx) ==
  {x \in Tracked(out) \ Unattributed(out) :
     /\ out[x].recv = h
     /\ AmountOf(x, tx) > 0
     /\ AmountOf(x, tx) < SumOf(UnattributedAt(h, out), tx)
     /\ SumOf(SpentBy(x, out), tx) = 0}

(* ... attached to it when there is just one.                              *)
SpendHeights(out) == {out[o].at : o \in Unattributed(out)} \ {0}

Attached(x, out, tx) ==
  UNION {UnattributedAt(h, out) :
           h \in {k \in SpendHeights(out) : ChangeAt(k, out, tx) = {x}}}

Sources(x, out, tx) == SpentBy(x, out) \cup Attached(x, out, tx)

(* The row of x from the outputs alone.                                    *)
OutputRow(x, out, tx) ==
  LET incoming == Incoming(x, out, tx)
      sources  == Sources(x, out, tx)
      spent    == SumOf(sources, tx)
      spentAt  == Highest({out[o].at : o \in sources})
      recvAt   == IF x \in Out THEN out[x].recv ELSE 0
  IN IF spent > 0
     THEN [dir |-> "out", amt |-> Minus(spent, incoming),
           at |-> IF spentAt > 0 THEN spentAt ELSE recvAt, pending |-> FALSE]
     ELSE IF incoming > 0
          THEN [dir |-> "in", amt |-> incoming, at |-> recvAt, pending |-> FALSE]
          ELSE NoRow

(* ... and with the pending record of x.                                   *)
WithPending(row, r) ==
  IF row.dir = "none" THEN PendingRow(r)
  ELSE [row EXCEPT !.amt = OutgoingAmount(r), !.dir = "out"]

(* Mutant: the change is not subtracted.                                   *)
GrossLedger(out, pend, tx) ==
  [x \in Txid |->
     LET row == OutputRow(x, out, tx)
         gross == IF row.dir = "out" THEN [row EXCEPT !.amt = @ + Incoming(x, out, tx)]
                                     ELSE row
     IN IF x \in pend THEN WithPending(gross, tx[x]) ELSE gross]

Ledger(out, pend, tx) ==
  [x \in Txid |-> IF x \in pend THEN WithPending(OutputRow(x, out, tx), tx[x])
                                ELSE OutputRow(x, out, tx)]
=============================================================================
