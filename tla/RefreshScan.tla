----------------------------- MODULE RefreshScan -----------------------------
(***************************************************************************)
(* One wallet, its host, and wallet_refresh walking a daemon's chain while *)
(* the daemon switches branches.  A refresh snapshots the committed store, *)
(* validates the cached tip, then fetches, scans and commits batch after   *)
(* batch; the host may mutate the store only while no refresh runs.        *)
(***************************************************************************)
EXTENDS ScanLedger

CONSTANTS
  BatchSize,        \* upstream_block_batch: blocks asked for in one request
  ProbeRetryLimit,  \* REORG_PROBE_RETRY_LIMIT
  Restores,         \* restore heights a wallet is opened with
  RescanTargets,    \* heights wallet_force_rescan_from_height is called with
  Ops,              \* host operations of the run, of HostOps
  InitialTips,      \* tips the daemon starts at
  Switch,           \* Switch[b]: the tips the daemon may present after b
  MaxEvents         \* bound: tip changes, host calls and faults in a behaviour

HostOps == {"gap", "rewind", "force", "reset", "seal", "cancel", "fault"}

ASSUME RefreshAssumption ==
  /\ BatchSize \in Nat \ {0}
  /\ ProbeRetryLimit \in Nat
  /\ Restores \subseteq Height
  /\ RescanTargets \subseteq Height
  /\ Ops \subseteq HostOps
  /\ InitialTips \subseteq Block
  /\ Switch \in [Block -> SUBSET Block]
  /\ MaxEvents \in Nat

VARIABLES
  daemon,    \* the tip the daemon presents
  events,    \* environment events so far
  led, cursor, restore, gap, sealed,   \* StoredWallet: artefacts, last_scanned,
                                       \* restore_height, gap_limit, keys
  cancel,    \* the wallet's cancellation token
  job,       \* where the refresh is; "idle" when RefreshJob is not Running
  work,      \* the working copy of the artefacts
  cur,       \* scan_cursor, and inside a batch the next height th
  dh,        \* daemon.height, read once when the refresh starts
  replay,    \* replay_heights
  batch,     \* last block of the batch being scanned
  fetching,  \* a prefetch of the next batch is in flight
  ready,     \* last block of a prefetched batch, NoBlock if there is none
  probe,     \* height find_reorg_rewind_height compares next
  fails      \* reorg_probe_failures

store == <<led, cursor, restore, gap, sealed>>
refresh == <<work, cur, dh, replay, batch, fetching, ready, probe, fails>>
vars == <<daemon, events, store, cancel, job, refresh>>

Jobs == {"idle", "resume", "loop", "parent", "scan", "commit"}

TypeOK ==
  /\ daemon \in Block
  /\ events \in 0 .. MaxEvents
  /\ led \in Ledger
  /\ cursor \in Cursor
  /\ restore \in Height
  /\ gap \in 0 .. MaxGap
  /\ sealed \in BOOLEAN
  /\ cancel \in BOOLEAN
  /\ job \in Jobs
  /\ work \in Ledger
  /\ cur \in Cursor
  /\ dh \in Cursor
  /\ replay \subseteq Height
  /\ batch \in Block \cup {NoBlock}
  /\ fetching \in BOOLEAN
  /\ ready \in Block \cup {NoBlock}
  /\ probe \in HeightOrNone
  /\ fails \in 0 .. ProbeRetryLimit

Init ==
  /\ daemon \in InitialTips
  /\ events = 0
  /\ led = EmptyLedger
  /\ restore \in Restores
  /\ cursor = restore
  /\ gap = 0
  /\ sealed = FALSE
  /\ cancel = FALSE
  /\ job = "idle"
  /\ work = EmptyLedger
  /\ cur = restore
  /\ dh = 0
  /\ replay = {}
  /\ batch = NoBlock
  /\ fetching = FALSE
  /\ ready = NoBlock
  /\ probe = NoHeight
  /\ fails = 0

-----------------------------------------------------------------------------
(* The environment.  Every event counts against MaxEvents.                 *)

Event == events < MaxEvents /\ events' = events + 1

DaemonMoves(b) ==
  /\ Event
  /\ b \in Switch[daemon]
  /\ daemon' = b
  /\ UNCHANGED <<store, cancel, job, refresh>>

(* wallet_refresh_cancel; a token set while idle is cleared by the start.  *)
RequestCancel ==
  /\ "cancel" \in Ops
  /\ Event
  /\ job # "idle"
  /\ ~cancel
  /\ cancel' = TRUE
  /\ UNCHANGED <<daemon, store, job, refresh>>

-----------------------------------------------------------------------------
(* Host operations on the store, refused while a refresh runs              *)
(* (with_refresh_stopped, with_wallet_lifecycle_exclusion).                *)

HostCall(op) == op \in Ops /\ Event /\ job = "idle"

(* wallet_set_gap_limit: the watch set grows, the scan restarts, artefacts *)
(* and anchors stay.                                                       *)
SetGapLimit ==
  /\ HostCall("gap")
  /\ gap < MaxGap
  /\ gap' = gap + 1
  /\ cursor' = restore
  /\ UNCHANGED <<daemon, led, restore, sealed, cancel, job, refresh>>

RewindScanCursor(h) ==
  /\ HostCall("rewind")
  /\ h <= cursor
  /\ led' = Rewind(led, Max2(h, restore))
  /\ cursor' = Max2(h, restore)
  /\ UNCHANGED <<daemon, restore, gap, sealed, cancel, job, refresh>>

ForceRescan(h) ==
  /\ HostCall("force")
  /\ led' = EmptyLedger
  /\ restore' = h
  /\ cursor' = h
  /\ UNCHANGED <<daemon, gap, sealed, cancel, job, refresh>>

(* wallet_reset_tracked_outputs leaves last_scanned and the hash window.   *)
ResetTrackedOutputs ==
  /\ HostCall("reset")
  /\ led' = [EmptyLedger EXCEPT !.win = led.win]
  /\ UNCHANGED <<daemon, cursor, restore, gap, sealed, cancel, job, refresh>>

Seal ==
  /\ HostCall("seal")
  /\ ~sealed
  /\ sealed' = TRUE
  /\ cancel' = TRUE
  /\ UNCHANGED <<daemon, led, cursor, restore, gap, job, refresh>>

(* Mutant: the cleanup rewind starts at the marker, wherever the cursor is. *)
UnsealAtMarker(l, c, r) == Max2(l.marker, r)

(* A cleanup rewind never moves the cursor up.                             *)
UnsealHeight(l, c, r) == Max2(Min2(l.marker, c), r)

(* apply_pending_spend_rescan                                              *)
SpendRescan(l, c, r) ==
  IF l.marker = NoHeight
  THEN led' = l /\ cursor' = c
  ELSE /\ led' = [Rewind(l, UnsealHeight(l, c, r)) EXCEPT !.marker = NoHeight]
       /\ cursor' = UnsealHeight(l, c, r)

Unseal ==
  /\ HostCall("seal")
  /\ sealed
  /\ sealed' = FALSE
  /\ cancel' = FALSE
  /\ SpendRescan(led, cursor, restore)
  /\ UNCHANGED <<daemon, restore, gap, job, refresh>>

-----------------------------------------------------------------------------
(* commit_refresh_checkpoint(c) of the working copy l.                     *)
Commit(l, c) ==
  /\ led' = l
  /\ cursor' = Min2(Max2(c, restore), dh)
  /\ UNCHANGED <<restore, gap, sealed>>

Stop == job' = "idle" /\ fetching' = FALSE /\ ready' = NoBlock

(* try_start_refresh_job, the snapshot, the daemon height and              *)
(* update_scan_progress; no other writer reaches the store in between.     *)
StartRefresh ==
  LET c == Max2(cursor, restore)
      d == HeightOf[daemon] + 1
      tips == {h \in Height : IsWindowTip(led, h)}
  IN /\ job = "idle"
     /\ cancel' = FALSE
     /\ work' = led
     /\ cur' = c
     /\ dh' = d
     /\ replay' = {h \in Height : \E o \in Tracked(led) : h \in {led.recv[o], led.spent[o]}}
     /\ cursor' = Min2(Max2(Min2(c, d), restore), d)
     /\ fails' = 0
     /\ \/ /\ c >= d \/ tips = {}
           /\ job' = "loop"
           /\ UNCHANGED probe
        \/ /\ c < d
           /\ job' = "resume"
           /\ probe' \in tips
     /\ UNCHANGED <<daemon, events, led, restore, gap, sealed, batch, fetching, ready>>

-----------------------------------------------------------------------------
(* find_reorg_rewind_height: one on_get_block_hash request per height, from *)
(* the cached tip down.                                                    *)

Probing == job \in {"resume", "parent"}
Answered == Probing /\ probe <= HeightOf[daemon]
Matches == Anc[daemon][probe] = work.win[probe]
Lower == probe > 0 /\ work.win[probe - 1] # NoBlock

ProbeDown ==
  /\ Answered
  /\ ~Matches
  /\ Lower
  /\ probe' = probe - 1
  /\ UNCHANGED <<daemon, events, store, cancel, job, work, cur, dh, replay, batch,
                 fetching, ready, fails>>

(* Ok(None): the cached tip is the daemon's block at that height.          *)
TipMatches == Answered /\ Matches /\ IsWindowTip(work, probe)

(* Mutant: without a common block the rewind stops at the window start.    *)
ForkAtWindowStart(h) ==
  /\ Answered
  /\ \/ Matches /\ ~IsWindowTip(work, probe) /\ h = Max2(probe + 1, restore)
     \/ ~Matches /\ ~Lower /\ h = Max2(probe, restore)

(* Mutant: the rewind keeps the first block of the abandoned branch.       *)
ForkAtOneLate(h) ==
  /\ Answered
  /\ \/ Matches /\ ~IsWindowTip(work, probe) /\ h = Max2(probe + 2, restore)
     \/ ~Matches /\ ~Lower /\ h = restore

(* Ok(Some(h)): above the highest common block, or all the way back.       *)
ForkAt(h) ==
  /\ Answered
  /\ \/ Matches /\ ~IsWindowTip(work, probe) /\ h = Max2(probe + 1, restore)
     \/ ~Matches /\ ~Lower /\ h = restore

(* Err: the daemon has no such height, or the request fails.               *)
ProbeError ==
  /\ Probing
  /\ IF probe > HeightOf[daemon] THEN UNCHANGED events ELSE "fault" \in Ops /\ Event

WindowEnd(l) ==
  CHOOSE e \in Cursor : \/ e > 0 /\ IsWindowTip(l, e - 1)
                        \/ e = 0 /\ WindowEmpty(l)

ResumeKeeps ==
  /\ job = "resume"
  /\ \/ TipMatches
     \/ \E h \in Height : ForkAt(h) /\ h >= Max2(cur, WindowEnd(work))
  /\ job' = "loop"
  /\ UNCHANGED <<daemon, events, store, cancel, refresh>>

ResumeRewinds(h) ==
  /\ job = "resume"
  /\ ForkAt(h)
  /\ h < Max2(cur, WindowEnd(work))
  /\ work' = Rewind(work, h)
  /\ cur' = Min2(cur, h)
  /\ Commit(Rewind(work, h), Min2(cur, h))
  /\ job' = "loop"
  /\ UNCHANGED <<daemon, events, cancel, dh, replay, batch, fetching, ready, probe, fails>>

ResumeFails ==
  /\ job = "resume"
  /\ ProbeError
  /\ Stop
  /\ UNCHANGED <<daemon, store, cancel, work, cur, dh, replay, batch, probe, fails>>

-----------------------------------------------------------------------------
(* The batch loop.                                                         *)

Scanning == job = "loop" /\ cur < dh

LoopCancelled ==
  /\ Scanning
  /\ cancel
  /\ Stop
  /\ UNCHANGED <<daemon, events, store, cancel, work, cur, dh, replay, batch, probe, fails>>

(* Last blocks a fetch of the batch at c may return: the daemon may stop   *)
(* early, and has nothing above its tip.                                   *)
Response(c) ==
  {Anc[daemon][e] : e \in {x \in Height : /\ c <= x
                                          /\ x < Min2(dh, c + BatchSize)
                                          /\ x <= HeightOf[daemon]}}

(* The next batch: a prefetched one, else a request.                       *)
Fetched(t) == IF ready = NoBlock THEN t \in Response(cur) ELSE t = ready

(* The parent-hash anchor of the first block against the local tip.        *)
ParentMismatch(t) ==
  /\ ExpectedPrev(work, cur) # NoBlock
  /\ ExpectedPrev(work, cur) # Parent(Anc[t][cur])

ScanBatch(t) ==
  /\ Scanning
  /\ ~cancel
  /\ Fetched(t)
  /\ ~ParentMismatch(t)
  /\ batch' = t
  /\ fails' = 0
  /\ ready' = NoBlock
  /\ fetching' = (HeightOf[t] + 1 < dh)
  /\ job' = "scan"
  /\ UNCHANGED <<daemon, events, store, cancel, work, cur, dh, replay, probe>>

ProbeParent(t) ==
  /\ Scanning
  /\ ~cancel
  /\ Fetched(t)
  /\ ParentMismatch(t)
  /\ probe' \in {h \in Height : IsWindowTip(work, h)}
  /\ ready' = NoBlock
  /\ job' = "parent"
  /\ UNCHANGED <<daemon, events, store, cancel, work, cur, dh, replay, batch, fetching, fails>>

(* The request fails for good: nothing at this height, or retries used up. *)
FetchFails ==
  /\ Scanning
  /\ ~cancel
  /\ ready = NoBlock
  /\ IF cur > HeightOf[daemon] THEN UNCHANGED events ELSE "fault" \in Ops /\ Event
  /\ Stop
  /\ UNCHANGED <<daemon, store, cancel, work, cur, dh, replay, batch, probe, fails>>

ParentRewinds(h) ==
  /\ job = "parent"
  /\ ForkAt(h)
  /\ work' = Rewind(work, h)
  /\ cur' = h
  /\ Commit(Rewind(work, h), h)
  /\ fails' = 0
  /\ job' = "loop"
  /\ UNCHANGED <<daemon, events, cancel, dh, replay, batch, fetching, ready, probe>>

(* Inconclusive: the tip still matches, or the probe failed.               *)
ParentUnproven ==
  /\ job = "parent"
  /\ \/ TipMatches /\ UNCHANGED events
     \/ ProbeError

(* Mutant: no budget.                                                      *)
RetryAlways == TRUE

RetryAllowed == fails < ProbeRetryLimit

ParentRetry ==
  /\ ParentUnproven
  /\ RetryAllowed
  /\ fails' = fails + 1
  /\ job' = "loop"
  /\ UNCHANGED <<daemon, store, cancel, work, cur, dh, replay, batch, fetching, ready, probe>>

ParentAborts ==
  /\ ParentUnproven
  /\ ~RetryAllowed
  /\ Stop
  /\ UNCHANGED <<daemon, store, cancel, work, cur, dh, replay, batch, probe, fails>>

-----------------------------------------------------------------------------
(* Scanning a batch, and its checkpoint.                                   *)

ScanNext ==
  /\ job = "scan"
  /\ ~cancel
  /\ work' = ScanBlock(work, Anc[batch][cur], gap, sealed, replay)
  /\ cur' = cur + 1
  /\ job' = IF cur = HeightOf[batch] THEN "commit" ELSE "scan"
  /\ UNCHANGED <<daemon, events, store, cancel, dh, replay, batch, fetching, ready, probe, fails>>

(* Cancelled, or the scanner or a relocation fails: the batch is dropped.  *)
ScanStops ==
  /\ job = "scan"
  /\ IF cancel THEN UNCHANGED events ELSE "fault" \in Ops /\ Event
  /\ Stop
  /\ UNCHANGED <<daemon, store, cancel, work, cur, dh, replay, batch, probe, fails>>

PrefetchArrives(t) ==
  /\ fetching
  /\ t \in Response(HeightOf[batch] + 1)
  /\ fetching' = FALSE
  /\ ready' = t
  /\ UNCHANGED <<daemon, events, store, cancel, job, work, cur, dh, replay, batch, probe, fails>>

(* An error only means a synchronous fetch later.                          *)
PrefetchFails ==
  /\ fetching
  /\ IF HeightOf[batch] >= HeightOf[daemon]
     THEN UNCHANGED events ELSE "fault" \in Ops /\ Event
  /\ fetching' = FALSE
  /\ UNCHANGED <<daemon, store, cancel, job, work, cur, dh, replay, batch, ready, probe, fails>>

(* The prefetch is drained first, then the batch becomes the checkpoint.   *)
CommitBatch ==
  /\ job = "commit"
  /\ ~fetching
  /\ Commit(work, cur)
  /\ job' = "loop"
  /\ UNCHANGED <<daemon, events, cancel, refresh>>

Finish ==
  /\ job = "loop"
  /\ cur >= dh
  /\ Commit(work, cur)
  /\ Stop
  /\ UNCHANGED <<daemon, events, cancel, work, cur, dh, replay, batch, probe, fails>>

-----------------------------------------------------------------------------
Environment ==
  \/ \E b \in Block : DaemonMoves(b)
  \/ RequestCancel
  \/ SetGapLimit
  \/ \E h \in Height : RewindScanCursor(h)
  \/ \E h \in RescanTargets : ForceRescan(h)
  \/ ResetTrackedOutputs
  \/ Seal
  \/ Unseal

Probe ==
  \/ ProbeDown
  \/ ResumeKeeps
  \/ \E h \in Height : ResumeRewinds(h)
  \/ ResumeFails
  \/ \E h \in Height : ParentRewinds(h)
  \/ ParentRetry
  \/ ParentAborts

Batch ==
  \/ LoopCancelled
  \/ \E t \in Block : ScanBatch(t) \/ ProbeParent(t) \/ PrefetchArrives(t)
  \/ FetchFails
  \/ ScanNext
  \/ ScanStops
  \/ PrefetchFails
  \/ CommitBatch
  \/ Finish

RefreshStep == StartRefresh \/ Probe \/ Batch

Next == Environment \/ RefreshStep

Spec == Init /\ [][Next]_vars

(* The host refreshes periodically and a running refresh keeps running.    *)
FairSpec == Spec /\ WF_vars(RefreshStep)

-----------------------------------------------------------------------------
(* Properties.                                                             *)

(* What is recorded below height k is on the chain of t ...                *)
Sound(l, k, t) == \A o \in Output :
  /\ l.recv[o] # NoHeight /\ l.recv[o] < k => o \in Receives[Anc[t][l.recv[o]]]
  /\ l.spent[o] # NoHeight /\ l.spent[o] < k => o \in Spends[Anc[t][l.spent[o]]]

(* ... every receipt the coverage watches is recorded ...                  *)
AllReceipts(l, k, t) == \A h \in restore .. k - 1 :
  \A o \in Owned(Anc[t][h], gap) : l.recv[o] = h

(* ... and every spend of a tracked output whose key image is known.       *)
AllSpends(l, k, t) == \A h \in restore .. k - 1 : \A o \in Spends[Anc[t][h]] :
  l.recv[o] # NoHeight /\ l.recv[o] < k /\ o \notin l.blind => l.spent[o] = h

(* The committed store below last_scanned is the scan of ONE branch, no    *)
(* matter where a refresh was cancelled, failed, rewound or raced a        *)
(* reorganisation: no receipt or spend of an abandoned branch is left, no  *)
(* block below the cursor was skipped.  wallet_reset_tracked_outputs gives *)
(* up the receipts, so runs with it keep only the other parts.             *)
StoreIsPrefixScan == cursor > restore =>
  \E t \in Block :
    /\ HeightOf[t] = cursor - 1
    /\ led.win[cursor - 1] \in {t, NoBlock}
    /\ Sound(led, cursor, t)
    /\ "reset" \notin Ops => AllReceipts(led, cursor, t)
    /\ AllSpends(led, cursor, t)

(* recent_block_hashes is a gap-free piece of one branch, no longer than   *)
(* RECENT_BLOCK_HASHES_MAX: the probe walks it as the wallet's chain.      *)
WindowIsOneChain == \A h \in Height : led.win[h] # NoBlock =>
  /\ HeightOf[led.win[h]] = h
  /\ \A k \in Height : led.win[k] # NoBlock /\ k < h =>
       /\ h - k < HashWindow
       /\ \A x \in k .. h : led.win[x] = Anc[led.win[h]][x]

(* monerowalletcore.h:164: outputs discovered while sealed trigger a       *)
(* bounded rewind so their key images are rebuilt on the next refresh.     *)
KeyImagesRebuilt == ~sealed /\ led.marker = NoHeight => led.blind = {}

(* The store is the scan of the daemon's whole chain.                      *)
Current ==
  /\ cursor = HeightOf[daemon] + 1
  /\ Sound(led, cursor, daemon)
  /\ AllReceipts(led, cursor, daemon)
  /\ AllSpends(led, cursor, daemon)

(* A refresh has something to scan and the daemon can answer the tip probe.*)
Behind == /\ cursor <= HeightOf[daemon]
          /\ \A h \in Height : led.win[h] # NoBlock => h <= HeightOf[daemon]

(* A daemon that stays ahead of the wallet, on whatever branch, is caught  *)
(* up with by later refreshes: the abort and failure paths leave a store   *)
(* from which the next refresh makes progress.                             *)
FollowsFork == \A b \in Block :
  (daemon = b /\ job = "idle" /\ Behind) ~> (daemon # b \/ Current)

(* lib.rs:4098: "Expanding the watch set must revisit old blocks (an       *)
(* address may already have received funds)".                              *)
CoverageRevisited == \A b \in Block :
  (daemon = b /\ gap = MaxGap) ~> (daemon # b \/ Current)
-----------------------------------------------------------------------------
(* What the theorems about the store assume of the daemon.                 *)

(* The tips a daemon that presents b may present then or later: those in   *)
(* every set of tips that holds b and is closed under Switch.              *)
Reach(b) == {t \in Block : \A S \in SUBSET Block :
  b \in S /\ (\A x \in S : Switch[x] \subseteq S) => t \in S}

(* No later tip of a daemon at d, unless it is lower, abandons block x.    *)
Final(x, d) == \A t \in Reach(d) :
  HeightOf[x] <= HeightOf[t] => Anc[t][HeightOf[x]] = x

(* Forks are not deeper than the hash window: HashWindow blocks on top of  *)
(* a block make it final.  A window longer than the chain is a case of it. *)
Finality == \A b \in Block : \A k \in Height :
  k + HashWindow <= HeightOf[b] => Final(Anc[b][k], b)
=============================================================================
