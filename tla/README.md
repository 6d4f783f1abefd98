# Verification of MoneroWalletCoreFFI

TLA+ models of the wallet core in `src/monero-oxide-output`, checked with TLC and
proved about with TLAPS. Line numbers are those of the sources at this commit;
`refresh.rs`, `cache.rs`, `send.rs`, ... are the files under
`src/monero-oxide-output/src/ffi/`, `lib.rs` is `src/monero-oxide-output/src/lib.rs`.

## 1. The system

The library is a C interface (23 kloc of Rust behind `monerowalletcore.h`, wrapped by
a Swift client) to a view/spend wallet. It owns one process-global table of wallets and
talks to one untrusted daemon per call. There is no database: the host persists a wallet
by exporting a cache blob and importing it after a restart.

| Component | State | Operations | Interacts through |
|---|---|---|---|
| Wallet store (`lib.rs` `WALLET_STORE`, `StoredWallet`) | keys (sealed or not), `restore_height`, `last_scanned`, `tracked_outputs`, `seen_outpoints`, `pending_outgoing`, `tx_ledger`, hash window, `spend_rescan_from`, quarantine | open, close, seal, unseal, gap limit, cursor rewind, forced rescan, reset, balance | one mutex; every other component copies out of it and writes back |
| Refresh (`refresh.rs`) | a working copy of the scan artefacts, `scan_cursor`, prefetched batches, retry counters | snapshot, resume probe, batch fetch, anchor check, block scan, checkpoint, finish | store, job registry, cancellation token, daemon |
| Job registry (`refresh.rs` 49-135) | `RefreshJob` per wallet, lifecycle claims, condition variable | `try_start_refresh_job`, `with_refresh_stopped`, `with_wallet_lifecycle_exclusion`, `finish_refresh_job` | guards every call above and below |
| Cancellation (`lib.rs` 960-983) | one flag per wallet | request, reset, poll | host thread to refresh thread |
| Cache (`cache.rs`) | the blob; in memory nothing of its own | export, import | store, registry; crosses a restart |
| Transfer ledger (`lib.rs` 2991) | `tx_ledger` | rebuild from outputs and pending sends | refresh, send, import |
| Send / prepare / relay (`send.rs`), sweep (`sweep.rs`) | pending records, prepared transactions, spent marks | input selection, signing, broadcast, recording | store, registry (`run_while_refresh_stopped`), daemon |
| Input policy (`input_policy.rs`) | quarantine | spent-status answers, revalidation, reconciliation | refresh, send, preview |
| History (`history.rs`, `transfers.rs`) | per-wallet index, cursors | pages of the ledger | store |
| Oindexes throttle (`lib.rs` 842) | slots in use | acquire, release | parallel fetches |
| ZMQ listener (`lib.rs`) | thread handle, sequence | start, stop, poll | host |
| Transport, routing, limits (`support/`) | none shared | one request | daemon |
| Key code, mnemonics, FFI guard, Swift client | none shared | conversions | host |

**What is hard.** A refresh runs for minutes without the store lock, on a copy, while the
daemon may reorganise, lag, answer short, or fail between any two requests, and while the
host may cancel. Its checkpoints must describe one branch at one height, whatever came
before: earlier scans of other branches, coverage replays over retained history, view-only
scans whose key images are missing, rewinds, a window of recent hashes that is bounded. The
registry decides who may write; the cancellation flag crosses threads without it. The cache
carries all of this over a crash. Sends spend outputs that a refresh may be about to drop.
`PROJECT.json` lists each hazard at its line with the property that covers it, or the reason
none does yet.

**What makes each component correct.**
*Refresh and ledger*: the committed store below `last_scanned` is the scan of one branch;
the hash window is a gap-free piece of one branch; outputs without key image stay above the
rescan marker; a daemon that stays ahead is followed to its tip. *Registry*: at most one
exclusive owner per wallet, no stale copy written over a host call, a cancel is not lost,
every waiter is served or times out. *Cache*: a restart resumes a state the wallet had;
nothing between cursor and restore height is skipped. *Send, sweep, relay*: one call pays at
most once, an input that was refused stays out of its later attempts, repeating a relay
changes nothing, and balance, pending records and rows agree with the outputs whatever
answers were lost; once a refresh has caught up they agree with the chain. *Input policy*: an
input that nobody spends is not frozen for good. *Previews*: the quote is what the call pays, where it pays anything.
*History*: a page sequence neither repeats nor skips a row of one ledger, and a reader that is
refused gets to the end by starting over. *Throttle*: slots are bounded and not leaked.

## 2. Plan

| Order | Module | Models | State |
|---|---|---|---|
| 1 | `MoneroChain` | block tree and payments, as the wallet reads them (external) | done |
| 2 | `ScanLedger` | the scan artefacts and every operation on them | done |
| 3 | `RefreshScan`, `MCRefreshScan` | the refresh loop, the host calls on scan state, the daemon | done |
| 4 | `RefreshScanProofs` | type correctness, the prefix and window invariants, for windows shorter than the chain | done |
| 5 | `WalletOwnership`, `RefreshLifecycle`, `MCRefreshLifecycle` | the abstract single-owner specification; registry mutex, claims, condition variable, deadlines, seal/unseal/close/open/send, the cancellation tokens | done |
| 6 | `RefreshLifecycleProofs` | types, key currency, no lost wakeup, no revived refresh, refinement of `WalletOwnership` | done |
| 7 | `CacheRestart`, `MCCacheRestart` | export, crash, reopening, import, on top of `RefreshScan` | done |
| 8 | `SpendPolicy` | eligibility, quarantine answers, input selection, fee search | done |
| 9 | `TransferLedger` | the ledger rebuild | done |
| 10 | `SpendCalls`, `SpendQuotes`, `MCSpendCalls` | send, filtered send, sweep, prepare, relay, previews, between refreshes, rewinds and restarts | done |
| 11 | `SpendCallsProofs` | types, refused inputs, single payment, records and rows | done |
| 12 | `HistoryPaging`, `MCHistoryPaging` | index, revisions, cursors and anchors of the paged history | done |
| 13 | `CacheRestartProofs` | types, coverage, the prefix invariant and key images across restarts, for every block tree | done |
| 14 | `MinimalCounterexample`, `SpendBalanceProofs` | sums of amounts; types with amounts, the balance, repeated relays | done |
| 15 | `HistoryPagingProofs` | the sorted list, types, pages of one ledger, anchors | done |
| 16 | `SpendReportsProofs` | what payments deliver, what history tells of the chain, what quotes are worth | done |
| - | prefetch depth above one, output-index throttle, ZMQ listener, routing decisions | | open |

Modules build on each other as follows. `RefreshScan` extends `ScanLedger`, which extends
`MoneroChain`; `CacheRestart` extends `RefreshScan`. `RefreshLifecycle` instantiates
`WalletOwnership`. `SpendCalls` extends `TransferLedger`, which extends `SpendPolicy`;
`SpendQuotes` extends `SpendCalls`. `HistoryPaging` stands alone. The scan and the spending
side meet in `StoredWallet`: `RefreshScan` follows its scan artefacts over arbitrary block
trees and leaves amounts out, `SpendCalls` follows its amounts, records, rows and quarantine
and takes from `RefreshScan` that a refresh ends with the scan of one branch.

## 3. Modules

### MoneroChain
`HeightOf` and `Anc` describe the tree of block hashes: a hash fixes every block below it.
`Receives` and `Spends` say which wallet outputs a block creates or spends. The assumptions
are those of the network: an output is created once and spent once, later, on one chain. A
block of *another* branch may hold the same transaction at another height, so an output is
identified by its one-time key, as `seen_outpoints` and `relocate_replayed_output` do.

### ScanLedger
`Ledger` is the part of `StoredWallet` a scan maintains. Amounts, timestamps, fees and
transaction ids are abstracted: nothing the properties say depends on them. The operators
are total functions of a ledger, one per function of the code; `ScanBlock` is the body of
the per-block loop in its order (hash push, replay reconciliation, key-image map, spends,
owned outputs).

| Operator | Code |
|---|---|
| `PushRecentBlockHash` | `push_recent_block_hash_parts`: append, truncate on overlap, reset on a gap, drain beyond the bound |
| `Rewind` | `rewind_working_state_to_height` |
| `Dropped`, `Unspent` | `reconcile_replayed_height` |
| `SpentHere`, `Fresh`, `Owned`, `SpendRescanFrom` | spend lookup, `seen_outpoints`, the scanner, `working_spend_rescan_from` |

### RefreshScan
One wallet. `store` is what `WALLET_STORE` holds, `refresh` what the refresh thread holds on
its stack. `job` is the program counter of `wallet_refresh_impl`: `resume` and `parent` are
the two callers of `find_reorg_rewind_height`, each of whose requests is one action so that
the daemon can move in between; `loop` is the head of the `while`, `scan` the block loop,
`commit` the drain of the prefetch before the checkpoint.

| Action | Code |
|---|---|
| `StartRefresh` | claim, token reset, snapshot, daemon height, `update_scan_progress`, `replay_heights` |
| `ProbeDown`, `TipMatches`, `ForkAt`, `ProbeError` | one step of `find_reorg_rewind_height` and its three results |
| `ResumeKeeps`, `ResumeRewinds`, `ResumeFails` | `decide_resume_reorg_action` and its match |
| `ScanBatch`, `ProbeParent`, `FetchFails`, `LoopCancelled` | loop head, fetch or prefetched batch, parent-hash anchor |
| `ParentRewinds`, `ParentRetry`, `ParentAborts` | `decide_parent_mismatch_action` and its match |
| `ScanNext`, `ScanStops` | one block; cancellation, scanner or relocation failure |
| `PrefetchArrives`, `PrefetchFails`, `CommitBatch`, `Finish` | the spawned request, the drain, the checkpoints |
| `SetGapLimit`, `RewindScanCursor`, `ForceRescan`, `ResetTrackedOutputs`, `Seal`, `Unseal`, `RequestCancel` | the host calls |

Abstractions, all towards more behaviours unless said otherwise:
- `StartRefresh` is one step: the refresh owns the wallet exclusively from its claim on, so
  nothing else writes in between; the daemon's height is read once there.
- A range answer is atomic and may stop early at any height (`Response`). Transient request
  failures that are retried, and a failed query of the daemon's height before anything is
  written, are stuttering steps.
- `cur` serves as `scan_cursor` and, inside a batch, as `th`; `scan_cursor` itself only moves
  at the end of a batch, when both are equal.
- The prefetch depth is one, the default. A prefetched range always matches the cursor then,
  since every rewind and every short answer leaves the queue empty.
- A host call reaches the store only between refreshes. This is what the registry of
  `refresh.rs` 49-135 enforces, and what `RefreshLifecycle` and its refinement of
  `WalletOwnership` justify.
- Opening an open wallet again, export and import are in `CacheRestart`, closing in
  `RefreshLifecycle`.

### MCRefreshScan
The instance: heights 0 to 5, a trunk `a0..a5` and a branch `b2..b4` that leaves it above
`a1`, four outputs that are created and spent at different heights on the two branches (one
only on one branch, one beyond the initial coverage, one spent at a height where the other
branch creates it), batches of two blocks, one retry.

### WalletOwnership and RefreshLifecycle
`WalletOwnership` is the promise: a wallet's scan state and keys belong to at most one call
at a time, and only the owner changes the keys. `RefreshLifecycle` is how the code keeps it
with one mutex for all wallets, a `Running` mark instead of a lock during the minutes of a
refresh, and one condition variable.

| Action | Code |
|---|---|
| `Claim`, `BeginScan` | `try_start_refresh_job`, then the token reset and the snapshot, a step later |
| `ScanCancelled`, `ScanEnds`, `FinishJob` | the loop's look at the token; any other end; `finish_refresh_job` with `notify_all` |
| `RequestCancel` | `wallet_refresh_cancel`, outside the mutex |
| `TakeLock`, `EndCall` | `with_refresh_stopped` as used by open and by send, prepare, relay, sweep, preview: the mutex is held until they return |
| `CallLifecycle` | seal, unseal, close: the token is set, then the exclusion is asked for |
| `PollTimesOut`, `Acquire`, `Sleep`, `GiveUp`, `WakeUp`, `SpuriousWakeUp`, `Expire` | `with_wallet_lifecycle_exclusion`: the `try_lock` loop, the condition, `wait_timeout`, the deadline |
| `EndLifecycle`, `LiftToken` | the operation and the release of the mutex; the token reset of an unseal afterwards |

Abstractions: `wallet_refresh` and `wallet_refresh_async` differ in the thread the scan runs
on, which is one thread of the model in either case. Taking the mutex and looking at the job
is one step, since nothing else happens in between; a call that is refused changes nothing
and is no step. The wallets exist from the start. `copy` is the part of the snapshot the
properties need: the keys. A scan is any number of steps; what it does to the store is
`RefreshScan`.

`MCRefreshLifecycle` adds one history variable: the wallets asked to stop since their
running refresh claimed them.

### CacheRestart
Extends `RefreshScan` by the blob the host keeps. `Export` copies the store at any moment, a
running refresh included, as the code does under the store lock. `Restart` is the death of
the process at any moment and the opening of the wallet afterwards; `Reopen` is
`wallet_open_from_mnemonic` of a wallet that is open. `Import` is the whole handler: identity
check, `apply_to_state`, `expand_scan_coverage`, and the rescan that a blob saved by a
view-only scan asks for. Transfer rows and balances are recomputed from the outputs there
and are not state of the model. `MCCacheRestart` takes the block tree of `MCRefreshScan`.

### SpendPolicy and TransferLedger
`SpendPolicy` holds what the spending calls compute from a wallet's outputs.

| Operator | Code |
|---|---|
| `Unlocked`, `UnlockedBalance`, `ApplyStatuses` | `is_unlocked`, `unlocked_balance`, `apply_statuses` |
| `MarkSpent` | `mark_tracked_output_spent` |
| `Before`, `FirstOf`, `Taken`, `Begun`, `RoundOf`, `Covering`, `Selections`, `Examined` | the order of `walletcore_input_select_mode` and the selection rounds of `send.rs`, told by what they end in: the shortest beginning of the list that covers amount and fee, if the rounds reach it; and the outputs rebuilt and compared on the way. `MaxRounds` is `max_selection_rounds`, 24 in the code. What the last round takes is signed without being compared, so that a selection may be one longer than what was examined |
| `Slips` | when a filtered send signs an output it has quarantined (see `SpendCalls`) |
| `Payment`, `Slice` | what a transaction over a set of inputs pays; the slices of the bisect |
| `SweepSearch`, `Sweepable`, `SweepPayment`, `SweepSelection` | the fixed-point search of `sweep.rs` for the fee, eight rounds; the exclusion of pending change and dust |

`TransferLedger` is `rebuild_transfer_ledger`: `OutputRow` aggregates what a transaction
brought and spent, `Attached` is the attribution of spends without a txid to the one output
of their block that looks like their change, `WithPending` the pass over `pending_outgoing`.

A transaction of the wallet makes at most one output of its own, the change, so output and
transaction share a name. Amounts are numbers; fees are a table by number of inputs. Rings,
decoys, signatures and serialisation are taken as given, as is the time lock of an output
beyond its number of blocks.

### SpendCalls
One wallet, the network and the host. `net` is where each transaction is (a block, the pool,
nowhere), `wallet` the part of `StoredWallet` the spending side keeps, `call` the stack of
the one spending call under way: `run_while_refresh_stopped` keeps the registry mutex for the
whole of it, so between its requests only the network moves, or the process dies.

| Action | Code |
|---|---|
| `SendBegins`, `FilterBegins`, `SweepBegins` | the entry points and their prepare forms, up to the daemon's height |
| `Insufficient`, `MismatchFound`, `Signs` | preflight (`input_policy::spendable`), selection, rebuilding and key-image comparison; what follows: an error, a quarantined output and another attempt, a transaction |
| `SendFails`, `FilterFails`, `SweepFails` | every other error before the answer of the preflight is stored |
| `SendBreaksOff`, `FilterBreaksOff`, `SweepBreaksOff` | every other error after it and before the signature; the quarantine stays as the answer left it |
| `BroadcastAccepted`, `BroadcastUnanswered`, `BroadcastRefused` | the outcomes of `send_raw_transaction`, with the double-spend sweep of `wallet_send` and the records of each call |
| `ProbeAccepted`, `ProbeRefused`, `ProbePassed`, `BisectEnds` | the opt-in bisect of `wallet_send` and of the filtered send |
| `RelayKnown`, `RelayAccepted`, `RelayUnanswered` | `wallet_relay_prepared` with `daemon_knows_tx` before and after the broadcast |
| `Previews` | the quarantine update of the previews |
| `Refresh` | a refresh up to any height: unwinding, block loop, checkpoint, revalidation |
| `RewindCursor`, `ForceRescan`, `Export`, `Restart` | the host calls and the crash |
| `ForeignSpend`, `Mine`, `PoolDrop`, `Reorg` | the network |

Abstractions. A preflight and the selection after it are one step: its answer is about the
moment it is given, and nothing of the network that happens between the answer and the
signature is seen by the call. A relay reads nothing of the wallet before it applies the
transaction, so it is one step too. A refresh to `u` stands for the refresh that ends, or is
cancelled, after its checkpoint at `u`; the checkpoint between the unwinding and the block
loop drops no record that the next one would keep, because scanning adds outputs and spends
only, and is not a step of its own. Status answers are about the tracked key images, so the
daemon calls an output of `Bad` unspent. A transaction of a reorganised block returns to the
pool. One reorganisation happens in a behaviour.

What reading the code for this module brought to light, without contradicting a document, so
that the model does it and no property forbids it: a filtered send marks its inputs and keeps
no pending record; the bisect of a send pays with transactions it never records; the bisect of a sweep leaves nothing for the fee and never broadcasts; the
inputs of an own transaction that the network dropped stay marked as spent until a rewind or
a forced rescan; a first `spending_txid` is never corrected.

One more is at odds with a comment, if seldom. A filtered send that meets a mismatch
quarantines the output, "so we don't attempt to spend it" (`send.rs:2543`), and selects again,
but from the list it has (`send.rs:2628-2632`), which still holds the output. It meets it in
every restart, and only the 24 rounds end that. As a rule nothing is selected then, or too
little, and the call ends with an error. But an output first taken in round five is compared in
rounds 5, 10, 15 and 20 and taken once more at the end of round 24; the final build
(`send.rs:2721-2864`) does not compare, and signs it. `Slips` is that case: `SlipsThrough`
lets `Signs` go on, and every property is checked and proved with it. For any round limit it is
a round after the first whose number divides the limit plus one; the limit of three in `spend`
has it in round two. `wallet_send` starts over with a fresh list and is not affected. In both
calls an output that only the last round takes is signed uncompared.

### SpendQuotes
The selection rounds of `wallet_preview_fee` and `wallet_preview_fee_with_filter` and the fee
search of `wallet_preview_sweep_with_filter`, and `SendRounds`, the loop of `wallet_send` and
`wallet_send_with_filter`: round by round, as recursive functions over the sorted list, where
`SpendPolicy` says what the rounds end in.

`RoundsAgree` compares the loop with what `SpendCalls` acts on, for every list a call selects
from: the output it quarantines, whether it signs, and what.

`QuotesHold` compares quotes with steps. Whenever a call takes the step `Signs` or
`Insufficient`, in its first attempt and with no block having come in since it began, the quote
of the matching preview of the same wallet and answers is the payment and fee just signed, or
none if funds are short. It says nothing of `MismatchFound`: a preview compares no key images
(`preview_fee.rs:386-506`) and quotes a payment that the call may not make, because it
quarantines an output and starts over, or ends. When the rounds are used up a preview gives up
("did not converge") while a send signs what its last round took, so there the property asks for
no quote (`LastRound`). The sweep's half has the proviso `Converges`: the preview returns its
last guess even if no round confirmed it, which shows when the fee is above seven times
50,000,000 piconero.

### HistoryPaging
`wallet_query_transfers_json` in its two halves: `FirstQuery`, `NextQuery` and `Slip` take the store
lock and build the index anew unless it is of the wallet's identity and ledger;
`Refused` and `Answered` filter and page without the lock, from the index taken under it.
`LedgerChanges`, `Replaced` and `Opened` are what changes the ledger in between, and whether
the index survives it. The readers are those `docs/history-paging.md` describes: they follow
`next_offset` with the revision, start over at the top or at an anchor when refused, and
sometimes forget the revision.

## 4. Runs

| Run | Shows |
|---|---|
| `scan_reorg` | `TypeOK`, `StoreIsPrefixScan`, `WindowIsOneChain` for a daemon that moves to any tip, with coverage growth, rewinds, forced rescans, resets, sealing, cancellation and failures |
| `follows_fork` | `StoreIsPrefixScan` and `WindowIsOneChain` with a window of two hashes and forks older than the window; `FollowsFork` under `FairSpec` |
| `cache_restart` | `StoreIsPrefixScan`, `KeyImagesKnown`, `CoverageMonotonic` across exports, crashes, reopening and imports with different restore heights, with view-only scans, rewinds, forced rescans and coverage growth, under `SteadySpec` |
| `lifecycle` | `OwnersAreExclusive` (the refinement), `CopyIsCurrent`, `NoLostWakeup`, `RestartRevivesNobody`, and `LifecycleReturns` under `FairSpec` |
| `spend` | `RefusedStaysOut`, `OnePaymentPerCall`, `BalanceMatchesOutputs`, `PendingRowsBacked`, `RecipientGetsAmount`, `LedgerTellsChain`, `RoundsAgree`, `QuotesHold`, `RelayIdempotent`, and `QuarantineReleased` under `FairSpec` |
| `history` | `PagesOfOneLedger`, `AnchorShown`, and `ReaderFinishes` under `FairSpec` |
| `sealed_relocation` | finding: a relocated view-only output keeps a zero key image after unsealing |
| `genesis_coverage` | finding: a wallet restored at height 0 cannot replay after its coverage grew |
| `cancel_lost` | finding: a cancel between the claim of a refresh and its token reset is forgotten |
| `reopen_lower` | finding: a lower restore height is taken over without scanning what lies between |
| `pending_confirmed` | finding: the first refresh after a send drops the pending record of a transaction that is still in the pool |
| `sweep_shortfall` | finding: a sweep whose fee is between six and seven fee steps reports an amount the recipient does not get |

**Bounds.** `MaxEvents` bounds tip changes, host calls, exports, crashes and faults together;
everything else in the scan runs is finite by itself. Five events reach a fork, a return to
the first branch, a cancel inside the replay and a host call in between; in `cache_restart`
they reach a view-only scan, an export in it, a crash, an import and a reorganisation. The
fork leaves two common blocks and each branch has at least three blocks above it, more than
one batch; a probe walks up to three heights. Six heights exceed the window of three hashes of
`scan_reorg` and `cache_restart`, the shortest one that covers every fork of the tree
(`TreeFinality`), and the window of two of `follows_fork` by four.
Violating any property with the mutants of `PROJECT.json` takes fewer events than the bound.

`follows_fork` leaves out the reset, the cursor rewind, sealing and lagging tips, which are in
`scan_reorg`: `wallet_reset_tracked_outputs` (`lib.rs:4488`) clears the outputs and keeps
`last_scanned` and the hash window, so no refresh finds the outputs again before a forced
rescan, although the header (`monerowalletcore.h:514`) offers the call for "a clean rebuild on
next refresh", and a wallet that was reset is never again the whole of its chain. As to the
rewind, with a window of 4096 hashes a rewind below it is a rewind by more than 4096 blocks and
leaves the wallet without any anchor, a case the code accepts and a window of two would reach
at once. It has four events.
`cache_restart` has two restore heights and a third for forced rescans, and a host that keeps to
`SteadySpec`: it does not open a wallet that is open at an earlier restore height, and imports a
blob only if that does not move the cursor past what the blob has scanned. What happens
otherwise is the run `reopen_lower`, under `CacheSpec`. `KeyImagesKnown` is stated for wallets
whose coverage never grew, because of `sealed_relocation`.

`lifecycle` has two wallets, three threads and three calls in a behaviour (`MaxCalls`): a
refresh, a lifecycle call waiting for it and a third call that disturbs either, on the same or
the other wallet. Idle threads are interchangeable, so the first idle one takes the next call.
The safety properties are proved for any numbers, see below; only `LifecycleReturns` rests on
the bound.

`spend` has three outputs received from others, one of them large and with a wrong key image,
one also spent by another holder of the seed, two transactions the wallet may sign, four
heights, one retry and three events (host calls and accidents; refreshes and blocks are free).
The filter selects those three outputs. With all of them there a payment is covered by the two
small ones in its second round. When the one the other holder spends is gone, the second round
meets the wrong key image: a send quarantines it and starts over, a filtered send slips it
through the limit of three rounds (`MaxRounds`; `pending_confirmed` and `sweep_shortfall` have
24, which their three outputs never use up). A payment that is covered by what the last round
takes needs four good outputs at once and is not reached; of it speaks the theorem on
`QuotesHold`, which is for any limit.
Three events reach a prepared payment whose relay goes unanswered, a restart and a second
relay; a restart from a blob older than a payment; a send that is refused, hunts and starts
over while a foreign transaction takes one of its inputs; a payment that a reorganisation
takes back. Minimum amount, lock and fees are small numbers with which every
comparison of the code goes both ways. `history` has two readers with different filters, five
ledgers of up to three rows (pages of two), two wallets under one id, and two changes.

**Fairness.** In `RefreshScan`, `WF_vars(RefreshStep)`: the host starts a refresh again after
one has ended, as the header asks of it, and the thread of a running refresh is scheduled.
Nothing is assumed about the daemon or the host's other calls, which `MaxEvents` makes finite.
`FollowsFork` speaks of a daemon that is at least as high as the wallet's cursor and cached
tip: below that, the code does not probe and waits for the daemon to grow.
In `RefreshLifecycle`, `WF(Proceed(t))` and `WF(Expire(t))` for each thread: threads run,
deadlines pass, and a send holding the mutex ends (its RPCs have timeouts). `ScanEnds` is in
neither, so a scan may go on for ever unless it sees its token; nothing is assumed about
spurious wakeups.
In `SpendCalls`, `WF(CallStep)`, since every request is answered or times out, and
`WF(RefreshToTip)`: as long as something is quarantined the host keeps refreshing and now and
then gets an answer at the tip. Blocks, accidents and host calls are not fair. In
`HistoryPaging`, `WF(Reads(r))`: a query gets the store lock and returns.

**Deadlock** is checked in the runs of `RefreshScan`, `CacheRestart` and `RefreshLifecycle`:
an idle wallet can always refresh; in `lifecycle`
`Quiet` stands for a host that has made its calls, and is possible only when every thread
has returned. `spend`, `pending_confirmed`, `sweep_shortfall` and `history` may stop: a host has no more calls to make and no
reader asks any more.

## 5. Proofs

Every proof module `EXTENDS` the component's module and `TLAPS`. The assumptions on the
constants are the named ones of the modules; a theorem that needs more says so in its
`ASSUME`.

### Refreshes

`RefreshScanProofs` proves, for all values of the constants:

- `TypeCorrect`: `Spec => []TypeOK`.
- `WindowCorrect`: `Spec => []WindowIsOneChain`.
- `PrefixCorrect`: `Spec => []StoreIsPrefixScan`, under two assumptions.

`Finality` (at the end of `RefreshScan`) says that forks are not deeper than the hash window:
once `HashWindow` blocks are on top of a block, no later tip of the daemon abandons it, unless
that tip is lower than the block. The window of the code has 4096 hashes, more than a network
reorganises. With `HashWindow = 2` and deeper forks TLC finds `StoreIsPrefixScan` violated: a
cursor rewind of the host to below the window leaves no anchor, and the blocks of another
branch are scanned on top of what is kept. Such a rewind, of the host, of an unseal, or of a
checkpoint that follows a daemon to lower tips, is needed for it: the theorem also holds for
forks of any depth under `NeverRewound`, that the host neither rewinds nor seals and that tips
never get lower, the case `follows_fork` checks with a window of two. Each of the theorems on
the prefix assumes `Finality \/ NeverRewound`. `GenesisCoverageFixed` says that the host does
not grow the coverage if one of the restore heights is 0. It is there for the defect behind the
run `genesis_coverage`, which can also break the prefix: when the coverage of a wallet restored
at 0 has grown and the daemon forks during the refresh, the parent probe moves the cursor *up*
to the fork, and the blocks below it are not visited again. (TLC finds this on the tree of
`MCRefreshScan` if `x` pays outside the initial coverage.)

`StoreIsPrefixScan` is not inductive: after a rewind, a lagging daemon or a cancelled batch
the store holds artefacts above its cursor, possibly of another branch, and a later scan
passes over them again. And what has fallen out of the window is not compared with anything
any more. `PrefixInv` therefore has these parts, for the store and for the working copy:

- `WindowInv`: *every* recorded hash, not only the one below the cursor, commits to the part
  of the window below it, which has no gap and is not too long (`Piece`); what the window no
  longer holds is `Final` if forks are bounded (`Settled`).
- `ScannedTo`: there is one chain whose scan the ledger is below the cursor (`ScanOf`), and the
  same holds below every recorded hash for the chain of that hash (`ExactWindow`), so that a
  probe may stop at any of them.
- `Reconciled`: whatever lies at or above the cursor is at a height the refresh will reconcile
  (`replay_heights`).
- `Anchored`: a batch being scanned and a prefetched one continue what is scanned.
- `GenesisInv`: a cursor at 0, of the store or of the working copy, finds no hash recorded for
  genesis, which the parent check of height 0 would take for the block below it. A wider coverage
  is the one step that sets the cursor to the restore height and leaves the window as it is;
  all others get to 0 with a rewind, which empties it (`AtGenesisRewind`, `AtGenesisCommit`).

Without `Finality`, `TipInv` takes the place of `Settled`: past the restore height the window ends
right below the cursor (`AtTip`), no cursor is above the target of its refresh, and no target
above the daemon, so that a checkpoint is never clamped (`TipCommit`) and every batch is
compared with a recorded hash.

`ScanBlockInv` and `RewindInv` carry this over one block and over one rewind, `LedgerCarries`
over a step of the daemon (what is final stays final, `FinalStays`); `ForkHeight` says that the
walk of the probe only lands above a block of the window that it compared, so that a daemon
switching in the middle of the walk does no harm. The environment, the probe and the batch
loop are then three lemmas with one step per action. `WindowCorrect` has an invariant of its
own, `ChainInv`, in which nothing is final and the batch is only compared with the hash right
below it.

### The registry

`RefreshLifecycleProofs` proves, for any sets of wallets and any numbers of threads and calls:

- `LifecycleTypes`: `Spec => []TypeOK`.
- `KeysCurrent`: `Spec => []CopyIsCurrent`, `NoWakeupLost`: `Spec => []NoLostWakeup`.
- `RestartRevivesNobodyHolds`: `Spec => RestartRevivesNobody`. Two refreshes of one wallet never
  overlap, so a token is reset by the refresh that it is meant for, before its scan.
- `ImplementsOwnership`: `Spec => OwnersAreExclusive`, the refinement of `WalletOwnership`
  under the mapping `Owners`.

None of these is inductive, because a refresh is protected by the `Running` mark and a call
under the mutex by the mutex. `RegistryInv` joins both protections: a thread in a call is on
a wallet; a thread that refreshes `w` is the only one, and `w` is running; a thread in `op`
holds the mutex and its wallet is not running; nobody sleeps for a job that has ended; and
copies of keys are current. `SoleOwner` derives from it that a wallet has at most one owner,
`TakesWallet`, `DropsWallet` and `KeepsOwners` sort the actions into the two of the abstract
specification and stuttering.

### Crashes and blobs

`CacheRestartProofs` proves of `CacheSpec`, for any number of blobs, crashes and imports:

- `CacheTypeCorrect`: `[]CacheTypeOK`, and `CoverageMonotonicHolds`: `CoverageMonotonic`.
- `PrefixSurvivesRestarts`: `SteadySpec => []StoreIsPrefixScan`, under the same assumptions,
  for any restore heights. `SteadySpec` is `CacheSpec` without the two steps behind the finding
  of `reopen_lower`, each described by its guard: opening an open wallet at a lower height, and
  an import whose cursor ends past both the cursor and the restore height of the blob
  (`apply_to_state` compares the blob's cursor with the height the wallet was opened at). So
  these two are the only ways in which different restore heights break the prefix. `CacheInv`
  adds to `PrefixInv` that every blob is a ledger of the same kind, scanned from the restore
  height and with the coverage of its own time (`BlobInv`, `LedgerFrom`), whatever they are for
  the open wallet: `ExportedFrom`, `BlobCarries` and `ImportedInv` take a ledger out of the
  wallet, over the moves of the daemon, and back in. An import that grows the coverage sets the
  cursor back to the restore height of the blob, and the cleanup rewind of an unsealed wallet
  is that of an unseal, one step later (`RescansWell`). Without growth by the host no import
  grows the coverage either (`NarrowInv`), so that a wallet restored at 0 is not sent back
  there with hashes left in its window (`BlobsGenesis`, `GenesisImport`). In `TipsInv` a blob
  too ends at the end of its window (`BlobTip`), and no ledger has a marker to rewind to
  (`Unmarked`).
- `WindowSurvivesRestarts`: `CacheSpec => []WindowIsOneChain`, with no assumption on the daemon, the
  forks or the host. `WindowsInv` is the invariant `ChainInv` of `RefreshScanProofs` with
  `OneChain` of every blob: an export copies a window, an import puts it back whole, and the
  rewinds after an import or a reopening (`OneChainRescan`) only cut it.
- `KeyImagesSurvive`: `[]KeyImagesKnown`, under `RisingTips`, that no tip of the daemon is lower
  than the one before. In `KeysInv` all that is found is below the next block to scan
  (`Found`), so that a replay moves a blind output up or not at all, and every blind output is at
  the marker or above (`Marked`), where the rewind of an unseal or an import removes it.
  Without `RisingTips` TLC finds a counterexample: a daemon lags, comes back and forks, and the
  fork pays a blind output below the marker (the relocation behind `sealed_relocation`).

### Spending

`SpendCallsProofs` proves, for any outputs, amounts, fees, filters, retry budget and events:

- `TypesHold`: `Spec => []Typed`, all of `TypeOK` but that sums of amounts are numbers.
- `RefusedStaysOutHolds`, `OnePaymentPerCallHolds`, `PendingRowsBackedHolds`: the three safety
  properties of that name. What is refused is what the daemon showed spent or an earlier attempt
  of the call has quarantined; what slips through a filtered send is quarantined in the attempt
  that signs it.

The invariant `Inv` has three parts. `Typed`. `CallInv`: whatever a call was denied or has
quarantined is in the quarantine for as long as the call lasts, unless this is its first
preflight and it knows nothing yet; it has paid only in a bisect, and bisects only if the host
opted in. That is why a retry may add to the quarantine and never release from it, and it
fails if `MayRelease` is dropped. `AllBacked`: `PendingRowsBacked` for the wallet *and* for
the blob, as a crash brings the blob back. The lemmas about `ApplyStatuses`, `Ledger` and
`Retained` say what these parts need of the operators; the step is split into the network,
the steps of a call and the host. The assumptions are the named ones of `SpendPolicy` and
`SpendCalls`: the names are disjoint, outputs are finite, the wallet is followed from block 2.

`SpendBalanceProofs` adds the amounts:

- `TypeOKHolds`: `Spec => []TypeOK`, sums included.
- `BalanceMatchesOutputsHolds`: `Spec => []BalanceMatchesOutputs`, and `RelayIdempotentHolds`:
  `Spec => RelayIdempotent`.

`BalanceMatchesOutputs` is not inductive: a call subtracts the inputs of a transaction from the
stored total, with saturation, when it is answered, while a refresh adds outputs up. `MoneyInv`
says of the wallet *and* of the blob that the total lies between the sum of the unspent outputs
and that sum plus the flagged ones (`Balanced`), that a spent mark is of a tracked output
(`Clean`), and that a tracked change belongs to a transaction that was signed, whose amount is
therefore settled (`Known`); and that the inputs of a transaction on its way are still
unspent. Hence no subtraction saturates, and one made twice takes nothing.

Sums are folds over finite sets. The module first shows that `SumOf` is the only function with the
defining equation of the fold, and from it the laws used: one element removed, a set split in
two, a subset sums to no more, and that the search of a sweep for its fee is a number at each
of its rounds. These need induction over finite sets or numbers, which no prover here can do by
an induction theorem, since those take an operator as a parameter. `MinimalCounterexample`
replaces it: if a statement fails for some subset of a finite set, or for some number, it fails
for a smallest one, which is then refuted by the step. This works for statements that can be
written as a set of counterexamples. The same module proves in this way that a finite set can be
listed along any strict total order on it (`ListExists`), and that such a list has every element
once (`ListedOnce`), for the rows of a history and the outputs of a selection.

`SpendReportsProofs` proves what the wallet tells its user:

- `RecipientGetsAmountHolds`: `Spec => []RecipientGetsAmount`, under `FeesSettle`: the fee of
  every number of inputs is one that the seven attempts of a sweep's fee search can end on
  (`Settles`). The code does not ensure it, and `sweep_shortfall` is the same property with a fee
  that is not.
- `LedgerTellsChainHolds`: `Spec => []LedgerTellsChain`, under `FeesSettle` and `FeesPositive`, a
  transaction with inputs costs something. The row of a payment is the sum of what it spends less
  the change it brings back, so without the first a row shows what the recipient did not get; and
  a transaction of no amount at all would have no outgoing row.

Both rest on `Even`: the inputs of a signed transaction are worth its payment, fee and change. It
is kept because a transaction spends only change of transactions that were signed before
(`Grounded`), so that a new signature moves no amount of an earlier one.

`LedgerTellsChain` speaks of the stored rows, the stored outputs and the chain at once, and needs
an invariant about each. `NetSound`: no two transactions the network knows share an input, inputs
are mined before what spends them, and only signed names are in the network. `Faithful`, of the
wallet *and* of the blob: the outputs are those that a scan of the chain up to the cursor finds,
each good one that is spent there marked so at its block (`ScanOf`), or will be once the wallet
has unwound the blocks a reorganisation replaced (`ForkedIn`, `ValidTo`, `ValidOut`). `Tells`: the
property itself for both. The proof has a part for each way the parts can come apart. The network
moves: what a scan up to `v` says depends on the blocks up to `v` (`Agree`), so a block, a dropped
payment, a signature or a reorganisation above `v` disturbs nothing (`Carries`). The wallet moves:
unwinding twice is unwinding to the lower block (`RewoundTwice`), scanning on from a faithful
state gives a faithful state, as the spender a block loop finds in a block is the only one
(`ScannedScan`), a rebuilt ledger of a faithful scan has the row (`LedgerRow`), where nothing
unattributed is attached to a payment that has inputs of its own; and a payment in the chain takes
nothing any more from a wallet that has caught up, so that a relay, a broadcast or a double-spend
mark leaves the rows that matter alone (`PaidTrue`, `SweptTrue`).

- `QuotesHoldAlways`: `Spec => QuotesHold`, without further assumptions.

The property is about steps, so the proof starts from a step `Signs` or `Insufficient` in a state
of `MoneyInv`, which makes the amounts numbers. `SameList`: a first attempt during which no block
came in selects from the list the preview has, because the call asks about the same outputs at
the same height and its answer may lift a quarantine in the same cases. `Asks`, also invariant:
a call in its preflight has the whole wallet or its filter to select from. Then the step is
followed by kind of call. `Before` is a strict total order (amounts are numbers and no two
outputs have the same `Position`), so the first `i` outputs of the sorted list are the `i`-th
set of `Taken` (`BeginsFacts`). The rounds of a preview are functions that recur upwards in the
number of outputs; `SeeksExists` and `SeeksFirst` say that such a function exists and returns
what it has at the first number where it stops. As fees are not negative, the first number that
covers amount and fee is not below the one where the first pass stops, and it is the least set of
`Covering`, in the round that `RoundsCounted` counts: the payment the call signs if the round is
within the limit, and no quote if it is the one after it, or if there is none (`RoundsSelect`). The
guesses of a sweep's preview are followed next to those of the sweep (`GuessKnows`,
`SearchKnows`): both are multiples of `FeeStep` until they have passed the fee, or stay above a
sum that cannot pay it (`SweepQuoted`).

### History

`HistoryPagingProofs` proves, for any readers, ledgers, filters and page sizes:

- `HistoryListed`: the list of a ledger under a filter has each matching row once, in order, by
  `ListedOnce`.
- `PagingTypes`: `Spec => []TypeOK`, `PagesOfOneLedgerHolds`: `Spec => []PagesOfOneLedger`, and
  `AnchorShownHolds`: `Spec => AnchorShown`.

`PagingInv` is needed because a page is computed from an index taken under the lock some time
ago: revisions are never used twice, so that a revision names the content of an index, taken
or current (`RevisionsDistinct`); a query out of the lock asks what its session wants
(`AskedFor`); and a session that goes on has the pages, without a gap, of the ledger its
revision names (`Progress`).

### What is not proved

Every invariant and every safety property of an action that a passing run checks is proved, but
for `RoundsAgree`: that the selection loop of a send comes to what `SpendPolicy` says is
model-checked only, for the lists of `spend`.
Liveness (`FollowsFork`, `LifecycleReturns`, `QuarantineReleased`, `ReaderFinishes`) and
whatever speaks of `ENABLED` is out of the prover's reach and only model-checked.

## 6. Not modelled, and why

- Key derivation, address and mnemonic code, byte formats, the Rust and Swift wrappers and the
  pointer checks of the C interface have no protocol state.
- Transport, routing and response limits are single requests; their outcomes are what the
  models let a request end in. The decoding of block ranges is reduced to contiguous, possibly
  short answers.
- The output-index throttle (`lib.rs` 874-935) bounds parallel requests inside one range
  answer, which the models take as one step.
- The ZMQ listener keeps a counter for the host; no wallet state depends on it.
- A prefetch depth above the default of one, and a worker thread that cannot be created.
- In `SpendCalls`: several destinations in one payment, priorities and rings, the placeholder
  fee of `WALLETCORE_DISABLE_DECOYS`, and the fee and timestamp columns of a row.
