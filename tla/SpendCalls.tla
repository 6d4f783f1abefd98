----------------------------- MODULE SpendCalls -----------------------------
(***************************************************************************)
(* The spending calls of a wallet against a network that mines, drops and  *)
(* reorganises, loses answers, and on which another holder of the seed     *)
(* spends too: wallet_send, wallet_send_with_filter and their prepare      *)
(* forms (send.rs), wallet_sweep_with_filter (sweep.rs), the previews      *)
(* (preview_fee.rs, sweep.rs), wallet_relay_prepared, the refresh and the  *)
(* host operations as far as they touch what the spending calls keep.      *)
(* The registry lets one call of a wallet run at a time                    *)
(* (run_while_refresh_stopped), so between the steps of a call only the    *)
(* network moves, or the process dies.                                     *)
(***************************************************************************)
EXTENDS TransferLedger

CONSTANTS
  Bad,          \* outputs whose tracked key image is not the signer's
  ForeignIns,   \* ForeignIns[f]: what the foreign transaction f spends
  Pay,          \* the amount of a send
  Filters,      \* the sets of outputs a filter may select
  Kinds,        \* the calls the host makes
  Bisects,      \* the values WALLETCORE_SEND_BISECT may have
  RetryMax,     \* walletcore_send_retry_max
  MaxEvents     \* bound on host calls and accidents

ASSUME SpendAssumption == /\ Bad \subseteq Coin
                          /\ ForeignIns \in [Foreign -> SUBSET Coin]
                          /\ Filters \subseteq SUBSET Out
                          /\ Bisects \subseteq BOOLEAN
                          /\ RetryMax \in Nat
                          /\ MaxEvents \in Nat
                          /\ Pay \in Nat

(* The wallet is followed from block 2 on.                                 *)
ASSUME StartAssumption == MaxHeight >= 2

VARIABLES
  net,      \* the network: at[x] the block of x, its pool, its height, and
            \* the lowest block a reorganisation has replaced (0: none yet)
  tx,       \* tx[t]: what the wallet signed under the name t
  wallet,   \* StoredWallet
  blob,     \* the cache blob the host has saved, {} before the first export
  saved,    \* the prepared payloads the host has persisted
  call,     \* the spending call under way
  bisect,   \* the environment variable
  events

host  == <<blob, saved, bisect>>
vars  == <<net, tx, wallet, host, call, events>>

CallKinds == {"send", "filter", "sweep"}

Wallet == [out : [Out -> TrackedOutput], quar : SUBSET Out, pend : SUBSET OwnTx,
           rows : [Txid -> Row], total : Nat, cursor : HeightOrNone,
           seen : HeightOrNone]   \* the reorganisation its block hashes know

Call == [pc : {"idle", "preflight", "broadcast", "bisect"},
         kind : CallKinds \cup {"none"}, prep : BOOLEAN, only : SUBSET Out,
         attempt : 0 .. RetryMax, dh : HeightOrNone,
         tx : OwnTx \cup {NoTx},
         kicked : SUBSET Out,     \* quarantined_this_call
         denied : SUBSET Out,     \* reported spent to this call's preflights
         sent : SUBSET OwnTx,     \* signed by this call, reached the network
         lo : Nat, hi : Nat, err : {"none", "invalid", "double"}]

Idle == [pc |-> "idle", kind |-> "none", prep |-> FALSE, only |-> {},
         attempt |-> 0, dh |-> 0, tx |-> NoTx, kicked |-> {}, denied |-> {},
         sent |-> {}, lo |-> 0, hi |-> 0, err |-> "none"]

EmptyWallet == [out |-> [o \in Out |-> Untracked], quar |-> {}, pend |-> {},
                rows |-> NoRows, total |-> 0, cursor |-> 0, seen |-> 0]

TypeOK ==
  /\ net \in [at : [Txid -> HeightOrNone], pool : SUBSET (OwnTx \cup Foreign),
              height : Height, fork : HeightOrNone]
  /\ tx \in [OwnTx -> Signed]
  /\ wallet \in Wallet
  /\ blob \subseteq Wallet
  /\ saved \subseteq OwnTx
  /\ call \in Call
  /\ bisect \in Bisects
  /\ events \in 0 .. MaxEvents

-----------------------------------------------------------------------------
(* The network.                                                            *)

Ins(x) == IF x \in OwnTx THEN tx[x].ins ELSE ForeignIns[x]

Live == net.pool \cup {x \in OwnTx \cup Foreign : net.at[x] # 0}

Spenders(o) == {x \in Live : o \in Ins(x)}

Acceptable(x) == x \in Live \/ \A o \in Ins(x) : Spenders(o) = {}

(* /is_key_image_spent, for the key image the wallet tracks.               *)
Status == [o \in Out |->
             IF o \in Bad \/ Spenders(o) = {} THEN 0
             ELSE IF \E x \in Spenders(o) : net.at[x] # 0 THEN 1 ELSE 2]

(* /send_raw_transaction: the network has x, whoever learns of it.         *)
Relayed(x) == net' = [net EXCEPT !.pool = IF x \in Live THEN @ ELSE @ \cup {x}]

Event == events < MaxEvents /\ events' = events + 1

Unspendable == UNCHANGED <<tx, wallet, host, call>>

ForeignSpend(f) ==
  /\ Event
  /\ f \notin Live /\ Acceptable(f)
  /\ Relayed(f)
  /\ Unspendable

(* A block takes transactions whose inputs are in earlier blocks.          *)
Mine(S) ==
  /\ net.height < MaxHeight
  /\ \A x \in S : \A o \in Ins(x) : net.at[o] # 0
  /\ net' = [net EXCEPT !.at = [x \in Txid |-> IF x \in S THEN net.height + 1 ELSE @[x]],
                        !.pool = @ \ S, !.height = @ + 1]
  /\ UNCHANGED events /\ Unspendable

(* A pool forgets what nobody mined.                                       *)
PoolDrop(x) ==
  /\ Event
  /\ net' = [net EXCEPT !.pool = @ \ {x}]
  /\ Unspendable

(* The blocks from h on give way to a longer branch without the            *)
(* transactions of the wallet, which wait in the pool again (once).        *)
Reorg(h) ==
  /\ Event
  /\ net.fork = 0 /\ net.height < MaxHeight
  /\ LET back == {x \in OwnTx \cup Foreign : net.at[x] >= h}
     IN net' = [at |-> [x \in Txid |-> IF x \in back THEN 0 ELSE net.at[x]],
                pool |-> net.pool \cup back, height |-> net.height + 1, fork |-> h]
  /\ Unspendable

-----------------------------------------------------------------------------
(* The wallet store.                                                       *)

Fresh == {t \in OwnTx : tx[t] = Unsigned}

UnspentSum(out) == SumOf(Unspent(out), tx)

(* ... with tracked outputs replaced: what rebuilds history and balance.   *)
Rebuilt(w, out, cursor) ==
  [w EXCEPT !.out = out, !.cursor = cursor, !.rows = Ledger(out, w.pend, tx),
            !.total = UnspentSum(out)]

(* Mutant: a record is kept only while the ledger does not show it.        *)
RetainUnlisted(pend, rows) == {t \in pend : rows[t].dir = "none"}

(* retain: a record goes once the ledger shows the transaction otherwise   *)
(* than as pending.                                                        *)
Retained(pend, rows) == {t \in pend : rows[t].dir = "out" /\ rows[t].pending}

(* commit_refresh_checkpoint *)
Checkpoint(w, out, cursor) ==
  [Rebuilt(w, out, cursor) EXCEPT !.pend = Retained(@, Ledger(out, @, tx))]

(* rewind_working_state_to_height: block h is the next one scanned.        *)
RewoundTo(h, out) ==
  [o \in Out |->
     IF out[o].recv >= h THEN Untracked
     ELSE IF out[o].at >= h THEN [out[o] EXCEPT !.spent = FALSE, !.by = NoTx, !.at = 0]
     ELSE out[o]]

(* Blocks lo + 1 .. hi: the outputs they make, the key images they show.   *)
Found(lo, hi) ==
  {o \in Out : net.at[o] \in (lo + 1) .. hi /\ AmountOf(o, tx) > 0}

SpendersIn(o, lo, hi) ==
  {x \in Live : o \in Ins(x) \ Bad /\ net.at[x] \in (lo + 1) .. hi}

(* A spend whose transaction the block data did not name goes to the one   *)
(* output of its block that looks like its change.                         *)
Unnamed(h, out, lo, hi) ==
  {o \in Out : \E x \in SpendersIn(o, lo, hi) : net.at[x] = h /\ out[o].by = NoTx}

LikeChange(h, out, lo, hi) ==
  {x \in Found(lo, hi) : /\ net.at[x] = h
                         /\ AmountOf(x, tx) < SumOf(Unnamed(h, out, lo, hi), tx)}

Spender(o, out, lo, hi, named) ==
  LET x == CHOOSE y \in SpendersIn(o, lo, hi) : TRUE
      c == LikeChange(net.at[x], out, lo, hi)
  IN IF out[o].by # NoTx THEN out[o].by
     ELSE IF named THEN x
     ELSE IF Cardinality(c) = 1 THEN CHOOSE y \in c : TRUE
     ELSE NoTx

(* The block loop of a refresh.  A transaction is found in one block only, *)
(* so an output it tracks already is not found again.                      *)
Scanned(out, lo, hi, named) ==
  LET have == [o \in Out |->
                 IF o \in Found(lo, hi) /\ out[o].recv = 0
                 THEN [Untracked EXCEPT !.recv = net.at[o]] ELSE out[o]]
  IN [o \in Out |->
        IF have[o].recv = 0 \/ SpendersIn(o, lo, hi) = {} THEN have[o]
        ELSE [have[o] EXCEPT
                !.spent = TRUE,
                !.by = Spender(o, have, lo, hi, named),
                !.at = net.at[CHOOSE y \in SpendersIn(o, lo, hi) : TRUE]]]

(* Mutant: the revalidation after a refresh releases nothing.              *)
RevalidateStrictly(w) ==
  [w EXCEPT !.quar = ApplyStatuses(@, Unspent(w.out) \cap @, Status, FALSE)]

(* revalidate_after_refresh, answered.                                     *)
Revalidate(w) ==
  [w EXCEPT !.quar = ApplyStatuses(@, Unspent(w.out) \cap @, Status,
                                   w.cursor >= net.height)]

(* The wallet has scanned blocks that were replaced since.                 *)
Forked(w) == net.fork # w.seen /\ net.fork <= w.cursor

Unscanned(w) == IF Forked(w) THEN net.fork ELSE w.cursor + 1

Base(w) == IF Forked(w) THEN RewoundTo(net.fork, w.out) ELSE w.out

(* A refresh up to block u: the branch it was on is unwound first, the     *)
(* blocks end in a checkpoint, and at the tip there is another one and the *)
(* question about the quarantine.                                          *)
Again(w, out, u) ==
  IF Unscanned(wallet) <= u /\ u = net.height THEN Checkpoint(w, out, u) ELSE w

Refresh(u, named, answered) ==
  /\ call.pc = "idle"
  /\ \/ u \in Unscanned(wallet) .. net.height
     \/ u = wallet.cursor /\ u = net.height
  /\ u < net.height => answered    \* nothing is asked before the tip
  /\ UNCHANGED <<net, tx, host, call, events>>
  /\ \E out \in {Scanned(Base(wallet), Unscanned(wallet) - 1, u, named)} :
     \E first \in {[Checkpoint(wallet, out, u) EXCEPT !.seen = net.fork]} :
     \E last \in {Again(first, out, u)} :
        wallet' = IF u = net.height /\ answered THEN Revalidate(last) ELSE last

-----------------------------------------------------------------------------
(* The host.                                                               *)

Export ==
  /\ Event
  /\ blob' = {wallet}
  /\ UNCHANGED <<net, tx, wallet, saved, call, bisect>>

(* The process dies, also in the middle of a call; the host opens the      *)
(* wallet again and imports what it had saved.                             *)
Restart ==
  /\ Event
  /\ wallet' = IF blob = {} THEN EmptyWallet ELSE CHOOSE w \in blob : TRUE
  /\ call' = Idle
  /\ UNCHANGED <<net, tx, host>>

(* Mutant: the cursor of the store is lowered once more.                   *)
RewindTwice(h) ==
  /\ Event
  /\ call.pc = "idle"
  /\ h <= wallet.cursor + 1         \* last_scanned, the next block
  /\ wallet' = [Rebuilt(wallet, RewoundTo(h, wallet.out), h - 2) EXCEPT !.quar = {}]
  /\ UNCHANGED <<net, tx, host, call>>

(* wallet_rewind_scan_cursor_to_height *)
RewindCursor(h) ==
  /\ Event
  /\ call.pc = "idle"
  /\ h <= wallet.cursor + 1         \* last_scanned, the next block
  /\ wallet' = [Rebuilt(wallet, RewoundTo(h, wallet.out), h - 1) EXCEPT !.quar = {}]
  /\ UNCHANGED <<net, tx, host, call>>

(* wallet_force_rescan_from_height *)
ForceRescan ==
  /\ Event
  /\ call.pc = "idle"
  /\ wallet' = EmptyWallet
  /\ UNCHANGED <<net, tx, host, call>>

-----------------------------------------------------------------------------
(* The preflight of every spending call.                                   *)

(* spendable: what is asked about, and the quarantine after the answer.    *)
Asked == Unlocked(wallet.out, call.dh)

Preflight(answered, release) ==
  IF answered
  THEN ApplyStatuses(wallet.quar, Asked, Status, release /\ wallet.cursor >= call.dh)
  ELSE wallet.quar

Denied(answered) == IF answered THEN {o \in Asked : Status[o] # 0} ELSE {}

(* Mutant: every preflight may release.                                    *)
AlwaysRelease == TRUE

(* wallet_send releases nothing on a retry.                                *)
MayRelease == call.kind = "send" => call.attempt = 0

Quarantine(answered) == Preflight(answered, MayRelease)

Available(answered) == (Asked \ Quarantine(answered)) \cap call.only

Begin(kind, prep, only) ==
  /\ Event
  /\ call.pc = "idle"
  /\ call' = [Idle EXCEPT !.pc = "preflight", !.kind = kind, !.prep = prep,
                          !.only = only, !.dh = net.height]
  /\ UNCHANGED <<net, tx, wallet, host>>

(* wallet_send and wallet_prepare_send up to the preflight.                *)
SendBegins(prep) == "send" \in Kinds /\ Begin("send", prep, Out)

(* wallet_send_with_filter and wallet_prepare_send_with_filter             *)
FilterBegins(prep, only) == "filter" \in Kinds /\ Begin("filter", prep, only)

(* wallet_sweep_with_filter and wallet_prepare_sweep_with_filter           *)
SweepBegins(prep, only) == "sweep" \in Kinds /\ Begin("sweep", prep, only)

Fails(kind) ==
  /\ call.kind = kind
  /\ call' = Idle
  /\ UNCHANGED <<net, tx, wallet, host, events>>

(* Any error before the quarantine is stored: no daemon, no keys, a status *)
(* answer that is malformed.  The bisect of a filtered send ends so too.   *)
SendFails   == call.pc = "preflight" /\ Fails("send")
FilterFails == call.pc \in {"preflight", "bisect"} /\ Fails("filter")
SweepFails  == call.pc = "preflight" /\ Fails("sweep")

QuarantineTo(quar) == wallet' = [wallet EXCEPT !.quar = quar]

BreaksOff(kind, answered) ==
  /\ call.pc = "preflight" /\ call.kind = kind
  /\ QuarantineTo(Quarantine(answered))
  /\ call' = Idle
  /\ UNCHANGED <<net, tx, host, events>>

(* Any error after it: a block or the decoys cannot be fetched, an output  *)
(* is not found in its block again.                                        *)
SendBreaksOff(answered)   == BreaksOff("send", answered)
FilterBreaksOff(answered) == BreaksOff("filter", answered)
SweepBreaksOff(answered)  == BreaksOff("sweep", answered)

(* Sends compare the outputs they rebuild with what the wallet tracks,     *)
(* sweeps do not.                                                          *)
Compares == call.kind \in {"send", "filter"}

(* The first output that turns out to have another key image.              *)
Mismatching(answered) ==
  IF Compares THEN FirstOf(Examined(Available(answered), Pay, tx) \cap Bad, tx) ELSE {}

(* What a call signs, if it can pay.                                       *)
Chosen(answered) ==
  IF Compares THEN UNION Selections(Available(answered), Pay, tx)
  ELSE SweepSelection(Available(answered), wallet.pend, tx)

CanPay(answered) ==
  IF Compares THEN Selections(Available(answered), Pay, tx) # {}
  ELSE Sweepable(Chosen(answered), tx)

(* "insufficient unlocked funds"                                           *)
Insufficient(answered) ==
  /\ call.pc = "preflight"
  /\ Mismatching(answered) = {}
  /\ ~CanPay(answered)
  /\ QuarantineTo(Quarantine(answered))
  /\ call' = Idle
  /\ UNCHANGED <<net, tx, host, events>>

(* A rebuilt output is not what the wallet tracks: it is quarantined, and  *)
(* a send starts over, with a fresh list, ...                              *)
SendMismatch(o, answered) ==
  /\ call.kind = "send"
  /\ call' = IF call.attempt < RetryMax
             THEN [call EXCEPT !.attempt = @ + 1, !.kicked = @ \cup {o},
                               !.denied = @ \cup Denied(answered)]
             ELSE Idle

(* ... while a filtered send chooses from the same list again, until its   *)
(* rounds are used up.  If the output does not slip through then, or what  *)
(* is left cannot pay, that is all.                                        *)
FilterMismatch == call.kind = "filter" /\ call' = Idle

MismatchFound(answered) ==
  /\ call.pc = "preflight"
  /\ \E o \in Mismatching(answered) :
       /\ QuarantineTo(Quarantine(answered) \cup {o})
       /\ SendMismatch(o, answered) \/ FilterMismatch
  /\ UNCHANGED <<net, tx, host, events>>

SlipsThrough(answered) ==
  /\ call.kind = "filter"
  /\ \A o \in Mismatching(answered) :
       Slips(Chosen(answered), o, Available(answered), Pay, tx)

(* The prepare forms end with the payload, which the host persists and the *)
(* wallet keeps no trace of; the others go on to the broadcast.            *)
Emits(t, payment, answered) ==
  /\ tx' = [tx EXCEPT ![t] = payment]
  /\ IF call.prep
     THEN saved' = saved \cup {t} /\ call' = Idle
     ELSE /\ call' = [call EXCEPT !.pc = "broadcast", !.tx = t,
                                  !.denied = @ \cup Denied(answered)]
          /\ UNCHANGED saved

SendSigns(t, S, answered)   == call.kind = "send"   /\ Emits(t, Payment(S, Pay, tx), answered)
FilterSigns(t, S, answered) == call.kind = "filter" /\ Emits(t, Payment(S, Pay, tx), answered)
SweepSigns(t, S, answered)  == call.kind = "sweep"  /\ Emits(t, SweepPayment(S, tx), answered)

(* The signature, over outputs of which one may have been quarantined in   *)
(* an earlier round.                                                       *)
Signs(answered) ==
  /\ call.pc = "preflight"
  /\ Fresh # {}
  /\ Mismatching(answered) = {} \/ SlipsThrough(answered)
  /\ CanPay(answered)
  /\ LET S == Chosen(answered)
         t == CHOOSE u \in Fresh : TRUE
     IN \/ SendSigns(t, S, answered)
        \/ FilterSigns(t, S, answered)
        \/ SweepSigns(t, S, answered)
  /\ QuarantineTo(Quarantine(answered) \cup Mismatching(answered))
  /\ UNCHANGED <<net, blob, bisect, events>>

(* The previews run the same preflight and selection and sign nothing.     *)
Previews(answered) ==
  /\ Event
  /\ "preview" \in Kinds
  /\ call.pc = "idle"
  /\ QuarantineTo(IF answered
                  THEN ApplyStatuses(wallet.quar, Unlocked(wallet.out, net.height),
                                     Status, wallet.cursor >= net.height)
                  ELSE wallet.quar)
  /\ UNCHANGED <<net, tx, host, call>>

-----------------------------------------------------------------------------
(* The broadcast.                                                          *)

(* What an accepted transaction changes, by kind of call.                  *)
SpendInputs(w, t) ==
  [w EXCEPT !.out = MarkSpent(@, tx[t].ins, t), !.total = Minus(@, SumOf(tx[t].ins, tx))]

(* wallet_send and wallet_sweep_with_filter: the inputs, a pending record, *)
(* a row.                                                                  *)
Recorded(w, t) ==
  [SpendInputs(w, t) EXCEPT !.pend = @ \cup {t}, !.rows[t] = PendingRow(tx[t])]

SendRecords(t)  == call.kind = "send"  /\ wallet' = Recorded(wallet, t)
SweepRecords(t) == call.kind = "sweep" /\ wallet' = Recorded(wallet, t)

(* wallet_send_with_filter marks the inputs and records nothing.           *)
FilterRecords(t) == call.kind = "filter" /\ wallet' = SpendInputs(wallet, t)

(* Mutant: any failure of a send is followed by another attempt.           *)
AfterErrorRetry(t) ==
  IF call.kind = "send" /\ call.attempt < RetryMax
  THEN [call EXCEPT !.pc = "preflight", !.attempt = @ + 1, !.tx = NoTx, !.sent = @ \cup {t}]
  ELSE Idle

(* An error of which nobody knows whether t reached the network ends the   *)
(* call.                                                                   *)
AfterError(t) == Idle

BroadcastAccepted ==
  /\ call.pc = "broadcast"
  /\ Acceptable(call.tx)
  /\ Relayed(call.tx)
  /\ SendRecords(call.tx) \/ SweepRecords(call.tx) \/ FilterRecords(call.tx)
  /\ call' = Idle
  /\ UNCHANGED <<tx, host, events>>

(* No answer: the transaction may be in the network all the same.          *)
BroadcastUnanswered ==
  /\ call.pc = "broadcast"
  /\ \/ Acceptable(call.tx) /\ Event /\ Relayed(call.tx)
     \/ UNCHANGED <<net, events>>
  /\ call' = AfterError(call.tx)
  /\ UNCHANGED <<tx, wallet, host>>

(* A refusal: a double spend, or inputs the daemon takes for invalid.      *)
Refusal(err, x) ==
  \/ err = "double" /\ ~Acceptable(x) /\ UNCHANGED events
  \/ err = "invalid" /\ Event

(* The double-spend sweep: the inputs the daemon shows spent.              *)
Shown(S, answered) == IF answered THEN {o \in S : Status[o] # 0} ELSE {}

(* They are quarantined; those spent in a block are marked spent, without  *)
(* transaction, height or effect on the balance.                           *)
Swept(w, S) ==
  [w EXCEPT !.quar = @ \cup S,
            !.out = [o \in Out |-> IF o \in S /\ Status[o] = 1
                                   THEN [@[o] EXCEPT !.spent = TRUE] ELSE @[o]]]

(* should_bisect *)
SendHunts == bisect /\ call.kicked = {}
FilterHunts(err) == bisect /\ err = "invalid"

Hunt(kicked) ==
  [call EXCEPT !.pc = "bisect", !.kicked = kicked, !.hi = Cardinality(tx[call.tx].ins)]

SendRefused(err, answered) ==
  /\ call.kind = "send"
  /\ LET S == IF err = "double" THEN Shown(tx[call.tx].ins, answered) ELSE {}
     IN /\ wallet' = Swept(wallet, S)
        /\ call' = IF SendHunts /\ S = {} THEN Hunt({}) ELSE Idle

FilterRefused(err) ==
  /\ call.kind = "filter"
  /\ call' = IF FilterHunts(err) THEN Hunt(call.kicked) ELSE Idle
  /\ UNCHANGED wallet

(* The bisect of a sweep pays the whole of each subset and leaves nothing  *)
(* for the fee: none of its transactions can be built.                     *)
SweepRefused == call.kind = "sweep" /\ call' = Idle /\ UNCHANGED wallet

BroadcastRefused(err, answered) ==
  /\ call.pc = "broadcast"
  /\ Refusal(err, call.tx)
  /\ SendRefused(err, answered) \/ FilterRefused(err) \/ SweepRefused
  /\ UNCHANGED <<net, tx, host>>

-----------------------------------------------------------------------------
(* The bisect: smaller transactions over the inputs, the largest first,    *)
(* each of them broadcast.  Nothing of what is accepted is recorded.       *)

Mid == Max({(call.lo + call.hi) \div 2, call.lo + 1})

SendProbes == call.kind = "send" /\ call.lo + 1 < call.hi

FilterProbes ==
  /\ call.kind = "filter"
  /\ \/ call.lo + 1 < call.hi
     \/ call.err = "none" /\ call.lo = 0 /\ call.hi = 1

Probes == SendProbes \/ FilterProbes

Subset == Slice(tx[call.tx].ins, IF call.kind = "send" THEN 0 ELSE call.lo, Mid, tx)

Affordable ==
  Subset # {} /\ SumOf(Subset, tx) >= Pay + NecessaryFee[Cardinality(Subset)]

ProbeAccepted ==
  /\ call.pc = "bisect" /\ Probes /\ Affordable
  /\ \A o \in Subset : Spenders(o) = {}
  /\ \E t \in Fresh :
       /\ t = CHOOSE u \in Fresh : TRUE
       /\ tx' = [tx EXCEPT ![t] = Payment(Subset, Pay, tx)]
       /\ Relayed(t)
       /\ call' = [call EXCEPT !.lo = Mid, !.sent = @ \cup {t}]
  /\ UNCHANGED <<wallet, host, events>>

SendProbeRefused(err, answered) ==
  /\ call.kind = "send"
  /\ wallet' = Swept(wallet, IF err = "double" THEN Shown(Subset, answered) ELSE {})
  /\ call' = [call EXCEPT !.hi = Mid, !.err = err]

FilterProbeRefused(err) ==
  /\ call.kind = "filter"
  /\ call' = IF err = "double" THEN [call EXCEPT !.lo = Mid]
                              ELSE [call EXCEPT !.hi = Mid, !.err = err]
  /\ UNCHANGED wallet

ProbeRefused(err, answered) ==
  /\ call.pc = "bisect" /\ Probes /\ Affordable
  /\ err = "double" => \E o \in Subset : Spenders(o) # {}
  /\ SendProbeRefused(err, answered) \/ FilterProbeRefused(err)
  /\ UNCHANGED <<net, tx, host, events>>

(* The subset cannot pay, or no answer comes.                              *)
ProbePassed ==
  /\ call.pc = "bisect" /\ Probes
  /\ call' = [call EXCEPT !.lo = Mid]
  /\ UNCHANGED <<net, tx, wallet, host, events>>

(* The search is over or out of time: what is left is quarantined, after a *)
(* double spend only if the daemon shows it spent; something newly         *)
(* quarantined earns another attempt.                                      *)
BisectEnds(answered) ==
  /\ call.pc = "bisect" /\ call.kind = "send"
  /\ LET left == Slice(tx[call.tx].ins, call.hi - 1, call.hi, tx)
         kick == IF call.err = "double" THEN Shown(left, answered) ELSE left
     IN /\ QuarantineTo(wallet.quar \cup kick)
        /\ call' = IF kick \ wallet.quar # {} /\ call.attempt < RetryMax
                   THEN [call EXCEPT !.pc = "preflight", !.attempt = @ + 1, !.tx = NoTx,
                                     !.kicked = @ \cup kick,
                                     !.lo = 0, !.hi = 0, !.err = "none"]
                   ELSE Idle
  /\ UNCHANGED <<net, tx, host, events>>

-----------------------------------------------------------------------------
(* wallet_relay_prepared.                                                  *)

(* apply_relayed_tx_local_state finds the inputs by their key images.      *)
Matched(t) == (tx[t].ins \ Bad) \cap Tracked(wallet.out)

(* Mutant: the balance pays for every input.                               *)
PaidEachTime(w, t) == Matched(t)

(* Inputs that are spent already were paid for before.                     *)
NewlySpent(w, t) == Matched(t) \cap Unspent(w.out)

(* Mutant: the row is written anew.                                        *)
AppliedAnew(w, t) ==
  [w EXCEPT !.out = MarkSpent(@, NewlySpent(w, t), t),
            !.total = Minus(@, SumOf(NewlySpent(w, t), tx)),
            !.pend = @ \cup {t},
            !.rows[t] = PendingRow(tx[t])]

(* ... and its row, unless there is one.                                   *)
Applied(w, t) ==
  [w EXCEPT !.out = MarkSpent(@, NewlySpent(w, t), t),
            !.total = Minus(@, SumOf(NewlySpent(w, t), tx)),
            !.pend = @ \cup {t},
            !.rows[t] = IF @ = NoRow THEN PendingRow(tx[t]) ELSE @]

Applies(t) == wallet' = Applied(wallet, t)

(* A relay reads nothing of the wallet before it applies the transaction,  *)
(* so a step of the network between its requests is one before or after    *)
(* it.  daemon_knows_tx finds the transaction in a block or in the pool,   *)
(* before the broadcast or after one that failed.                          *)
RelayKnown(t) ==
  /\ call.pc = "idle" /\ t \in saved /\ t \in Live
  /\ Applies(t)
  /\ UNCHANGED <<net, tx, host, call, events>>

RelayAccepted(t) ==
  /\ Event
  /\ call.pc = "idle" /\ t \in saved /\ Acceptable(t)
  /\ Relayed(t)
  /\ Applies(t)
  /\ UNCHANGED <<tx, host, call>>

(* Neither the broadcast nor the second look is answered.                  *)
RelayUnanswered(t) ==
  /\ Event
  /\ call.pc = "idle" /\ t \in saved /\ Acceptable(t)
  /\ Relayed(t)
  /\ UNCHANGED <<tx, wallet, host, call>>

-----------------------------------------------------------------------------
Init ==
  /\ net = [at |-> [x \in Txid |-> IF x \in Coin THEN 1 ELSE 0], pool |-> {},
            height |-> 2, fork |-> 0]
  /\ tx = [t \in OwnTx |-> Unsigned]
  /\ wallet = Rebuilt(EmptyWallet,
                      [o \in Out |-> IF o \in Coin THEN [Untracked EXCEPT !.recv = 1]
                                                  ELSE Untracked], 2)
  /\ blob = {} /\ saved = {}
  /\ call = Idle
  /\ bisect \in Bisects
  /\ events = 0

Network ==
  \/ \E f \in Foreign : ForeignSpend(f)
  \/ \E S \in SUBSET net.pool : Mine(S)
  \/ \E x \in net.pool : PoolDrop(x)
  \/ \E h \in 2 .. net.height : Reorg(h)

CallStep ==
  \/ SendFails \/ FilterFails \/ SweepFails
  \/ \E answered \in BOOLEAN :
       \/ SendBreaksOff(answered) \/ FilterBreaksOff(answered) \/ SweepBreaksOff(answered)
       \/ Insufficient(answered) \/ MismatchFound(answered) \/ Signs(answered)
       \/ BisectEnds(answered)
       \/ \E err \in {"invalid", "double"} :
            BroadcastRefused(err, answered) \/ ProbeRefused(err, answered)
  \/ BroadcastAccepted \/ BroadcastUnanswered
  \/ ProbeAccepted \/ ProbePassed

HostCall ==
  \/ \E prep \in BOOLEAN :
       \/ SendBegins(prep)
       \/ \E only \in Filters : FilterBegins(prep, only) \/ SweepBegins(prep, only)
  \/ \E answered \in BOOLEAN : Previews(answered)
  \/ \E t \in OwnTx : RelayKnown(t) \/ RelayAccepted(t) \/ RelayUnanswered(t)
  \/ \E u \in Height, named, answered \in BOOLEAN : Refresh(u, named, answered)
  \/ \E h \in Height : RewindCursor(h)
  \/ ForceRescan \/ Export \/ Restart

Next == Network \/ CallStep \/ HostCall

Spec == Init /\ [][Next]_vars

(* Every request of a call is answered or times out, and as long as        *)
(* something is quarantined the host lets a refresh run to the tip, with   *)
(* an answer about it, again and again.                                    *)
RefreshToTip == wallet.quar # {} /\ Refresh(net.height, TRUE, TRUE)

Fairness == WF_vars(CallStep) /\ WF_vars(RefreshToTip)

FairSpec == Spec /\ Fairness

-----------------------------------------------------------------------------
(* Properties.                                                             *)

(* An output that the daemon showed spent to this call, or that an earlier *)
(* attempt of it has quarantined, is in no transaction it broadcasts       *)
(* later: "same-call hard-rejection retries cannot re-enable it"           *)
(* (docs/production-hardening-2026-09-05.md:14).  What slips through a     *)
(* filtered send does so within one attempt.                               *)
RefusedStaysOut ==
  (call.pc = "broadcast") =>
    tx[call.tx].ins \cap (call.kicked \cup call.denied) = {}

(* A call that may already have paid does not sign again, whatever answers *)
(* it got; only the opt-in bisect does.                                    *)
OnePaymentPerCall ==
  call.pc = "broadcast" /\ ~bisect => call.sent = {}

(* The stored balance is that of the unspent outputs, up to outputs a      *)
(* double-spend answer has marked before a block showed them spent, and    *)
(* never less than what is offered for spending.                           *)
BalanceMatchesOutputs ==
  LET flagged == {o \in SpentOuts(wallet.out) :
                    wallet.out[o].by = NoTx /\ wallet.out[o].at = 0}
  IN /\ wallet.total \in UnspentSum(wallet.out) ..
                         (UnspentSum(wallet.out) + SumOf(flagged, tx))
     /\ \A h \in Height : UnlockedBalance(wallet.out, wallet.quar, tx, h) <= wallet.total

(* History shows a transaction as pending only while a record of it exists *)
(* to carry it over the next rebuild, and a record never lacks a row,      *)
(* pending or confirmed.                                                   *)
PendingRowsBacked ==
  \A t \in OwnTx : /\ wallet.rows[t].pending => t \in wallet.pend
                   /\ t \in wallet.pend => wallet.rows[t] # NoRow

(* A wallet that has scanned the whole chain shows every mined transaction *)
(* of its own whose inputs it attributes to it as one outgoing row, at its *)
(* block, of payment and fee (lib.rs:2907), however it came to know it.    *)
CaughtUp(w) == w.cursor = net.height /\ ~Forked(w)

LedgerTellsChain ==
  \A t \in OwnTx :
    /\ CaughtUp(wallet) /\ net.at[t] # 0
    /\ SpentBy(t, wallet.out) = tx[t].ins /\ tx[t].ins \cap Bad = {}
    => wallet.rows[t] = [dir |-> "out", amt |-> OutgoingAmount(tx[t]),
                         at |-> net.at[t], pending |-> FALSE]

Relays(t) == RelayKnown(t) \/ RelayAccepted(t)

RelaysAgain(t) == Relays(t) /\ Matched(t) \subseteq SpentOuts(wallet.out)

(* Relaying a payload again, after a lost answer, a restart or a refresh,  *)
(* takes nothing from the balance that is accounted for and rewrites no    *)
(* history: "Repeating this call is idempotent" (send.rs:280).             *)
RelayIdempotent ==
  [][\A t \in OwnTx :
       RelaysAgain(t) =>
         /\ wallet'.total = wallet.total
         /\ wallet.rows[t] # NoRow => wallet'.rows = wallet.rows]_vars

(* A transaction takes from its inputs the amount it reports as sent, its  *)
(* fee and its change, so that the recipient gets that amount: "`amount`   *)
(* is the amount to send to the recipient" (monerowalletcore.h:325).       *)
RecipientGetsAmount ==
  \A t \in OwnTx : SumOf(tx[t].ins, tx) = tx[t].pay + tx[t].fee + tx[t].chg

(* An unspent output that no transaction spends does not stay quarantined: *)
(* once the wallet has caught up, a fresh answer releases it.              *)
QuarantineReleased ==
  \A o \in Out : []<>(\/ o \notin wallet.quar
                     \/ o \notin Unspent(wallet.out)
                     \/ Spenders(o) # {})

(* "We add this when a send/sweep successfully broadcasts, and clear it    *)
(* once it is confirmed." (lib.rs:2719)                                    *)
PendingUntilConfirmed ==
  [][(\E u \in Height, named, answered \in BOOLEAN : Refresh(u, named, answered))
       => \A t \in wallet.pend \ wallet'.pend : net.at[t] # 0]_vars
=============================================================================
