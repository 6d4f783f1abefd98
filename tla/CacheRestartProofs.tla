------------------------- MODULE CacheRestartProofs -------------------------
(***************************************************************************)
(* What CacheRestart guarantees for every block tree and every choice of   *)
(* the constants: the proofs of RefreshScanProofs carried over exports,    *)
(* restarts and imports.                                                   *)
(***************************************************************************)
EXTENDS CacheRestart, RefreshScanProofs, MinimalCounterexample

-----------------------------------------------------------------------------
(* Types.                                                                  *)

CacheTypeInv == TypeInv /\ cache \subseteq Persisted

LEMMA EmptyLedgerType == EmptyLedger \in Ledger
BY DEF EmptyLedger, Ledger, HeightOrNone

(* The coverage after an import is one of those it is the greatest of, and *)
(* no smaller than any of them.                                            *)
LEMMA CoverageType ==
  ASSUME TypeOK, NEW c \in Persisted
  PROVE  /\ Coverage(c) \in 0 .. MaxGap
         /\ Coverage(c) >= gap
         /\ Coverage(c) >= c.gap
<1> DEFINE S == {c.gap, gap} \cup {Minor[o] : o \in Tracked(c.led)}
<1>1. S \in SUBSET (0 .. MaxGap) /\ S # {} /\ c.gap \in S /\ gap \in S
  BY PaymentAssumption DEF TypeOK, Persisted, Tracked
<1>2. Coverage(c) = Max(S) BY DEF Coverage
<1> HIDE DEF S
<1>3. \E x \in S : \A y \in S : x >= y BY <1>1, PaymentAssumption, GreatestNat
<1>4. Max(S) \in S /\ \A y \in S : Max(S) >= y BY <1>3 DEF Max
<1> QED BY <1>1, <1>2, <1>4

LEMMA ImportedCursorType ==
  ASSUME TypeOK, NEW c \in Persisted
  PROVE  ImportedCursor(c) \in Cursor
BY HeightsAreCursors DEF TypeOK, Persisted, ImportedCursor, Max2

LEMMA UnsealHeightType ==
  ASSUME NEW l \in Ledger, l.marker \in Height, NEW c \in Cursor, NEW r \in Height
  PROVE  UnsealHeight(l, c, r) \in Cursor /\ UnsealHeight(l, c, r) \in Int
<1>1. l.marker \in Cursor /\ r \in Cursor /\ Cursor \subseteq Nat BY HeightsAreCursors
<1>2. Min2(l.marker, c) \in Cursor BY <1>1 DEF Min2
<1>3. UnsealHeight(l, c, r) \in Cursor BY <1>1, <1>2 DEF UnsealHeight, Max2
<1>4. UnsealHeight(l, c, r) \in Nat BY <1>1, <1>3
<1> QED BY <1>3, <1>4

LEMMA SpendRescanType ==
  ASSUME NEW l \in Ledger, NEW c \in Cursor, NEW r \in Height, SpendRescan(l, c, r)
  PROVE  led' \in Ledger /\ cursor' \in Cursor
<1>1. CASE l.marker = NoHeight BY <1>1 DEF SpendRescan
<1>2. CASE l.marker # NoHeight
  <2> DEFINE h == UnsealHeight(l, c, r)
  <2>1. l.marker \in Height BY <1>2 DEF Ledger, HeightOrNone
  <2>2. h \in Cursor /\ h \in Int
    BY <2>1, UnsealHeightType
  <2>3. led' = [Rewind(l, h) EXCEPT !.marker = NoHeight] /\ cursor' = h
    BY <1>2, Zenon DEF SpendRescan
  <2> HIDE DEF h
  <2>4. Rewind(l, h) \in Ledger BY <2>2, RewindType
  <2> QED BY <2>2, <2>3, <2>4 DEF Ledger, HeightOrNone
<1> QED BY <1>1, <1>2

LEMMA CacheStepType == CacheTypeInv /\ CacheStep => CacheTypeInv'
<1> SUFFICES ASSUME CacheTypeInv, CacheStep PROVE CacheTypeInv'
  OBVIOUS
<1>0. /\ TypeOK /\ ControlInv /\ cache \subseteq Persisted
      /\ Height \subseteq Cursor /\ Cursor \subseteq Nat
  BY HeightsAreCursors DEF CacheTypeInv, TypeInv
<1>1. ASSUME Export PROVE CacheTypeInv'
  <2>1. cache' \subseteq Persisted BY <1>0, <1>1 DEF Export, TypeOK, Persisted
  <2>2. TypeOK' BY <1>0, <1>1, RefreshAssumption DEF Export, Event, TypeOK, store, refresh
  <2>3. ControlInv' BY <1>0, <1>1 DEF Export, ControlInv, Probing, store, refresh
  <2> QED BY <2>1, <2>2, <2>3 DEF CacheTypeInv, TypeInv
<1>2. ASSUME NEW r \in Restores, Restart(r) PROVE CacheTypeInv'
  <2>1. r \in Height /\ r \in Cursor BY <1>0, RefreshAssumption
  <2>2. 0 \in Cursor /\ 0 \in 0 .. MaxGap /\ 0 \in 0 .. ProbeRetryLimit
    BY ChainAssumption, PaymentAssumption, RefreshAssumption DEF Cursor
  <2>8. events' \in 0 .. MaxEvents BY <1>0, <1>2, RefreshAssumption DEF Restart, Event, TypeOK
  <2>6. /\ daemon' \in Block /\ led' \in Ledger
        /\ cursor' \in Cursor /\ restore' \in Height /\ gap' \in 0 .. MaxGap
        /\ sealed' \in BOOLEAN /\ cancel' \in BOOLEAN
    BY <1>0, <1>2, <2>1, <2>2, EmptyLedgerType DEF Restart, TypeOK
  <2>7. /\ job' \in Jobs /\ work' \in Ledger /\ cur' \in Cursor /\ dh' \in Cursor
        /\ replay' \subseteq Height /\ batch' \in Block \cup {NoBlock}
        /\ fetching' \in BOOLEAN /\ ready' \in Block \cup {NoBlock}
        /\ probe' \in HeightOrNone /\ fails' \in 0 .. ProbeRetryLimit
    BY <1>2, <2>1, <2>2, EmptyLedgerType DEF Restart, Stop, Jobs, HeightOrNone
  <2>3. TypeOK' BY <2>6, <2>7, <2>8 DEF TypeOK
  <2>4. ControlInv' BY <1>2 DEF Restart, Stop, ControlInv, Probing
  <2>5. cache' \subseteq Persisted BY <1>0, <1>2 DEF Restart
  <2> QED BY <2>3, <2>4, <2>5 DEF CacheTypeInv, TypeInv
<1>3. ASSUME NEW r \in Restores, Reopen(r) PROVE CacheTypeInv'
  <2> DEFINE h == UnsealHeight(led, cursor, restore)
  <2>1. restore' \in Height BY <1>0, <1>3, RefreshAssumption DEF Reopen, Min2, TypeOK
  <2>2. led' \in Ledger /\ cursor' \in Cursor
    <3>1. CASE led.marker = NoHeight
      BY <1>0, <1>3, <2>1, <3>1 DEF Reopen, TypeOK, Max2
    <3>2. CASE led.marker # NoHeight
      <4>1. led.marker \in Height BY <1>0, <3>2 DEF TypeOK, Ledger, HeightOrNone
      <4>2. h \in Cursor /\ h \in Int
        BY <1>0, <4>1, UnsealHeightType DEF TypeOK
      <4>3. led' = [Rewind(led, h) EXCEPT !.marker = NoHeight] /\ cursor' = Max2(h, restore')
        BY <1>3, <3>2, Zenon DEF Reopen
      <4> HIDE DEF h
      <4>4. Rewind(led, h) \in Ledger BY <1>0, <4>2, RewindType DEF TypeOK
      <4>5. led' \in Ledger BY <4>3, <4>4 DEF Ledger, HeightOrNone
      <4>6. cursor' \in Cursor BY <1>0, <2>1, <4>2, <4>3 DEF Max2
      <4> QED BY <4>5, <4>6
    <3> QED BY <3>1, <3>2
  <2>3. /\ UNCHANGED <<daemon, gap, cancel, job, refresh, cache>>
        /\ sealed' = FALSE /\ Event
    BY <1>3, Zenon DEF Reopen
  <2>6. events' \in 0 .. MaxEvents BY <1>0, <2>3, RefreshAssumption DEF Event, TypeOK
  <2>4. TypeOK' BY <1>0, <2>1, <2>2, <2>3, <2>6 DEF TypeOK, refresh
  <2>5. ControlInv' BY <1>0, <2>3 DEF ControlInv, Probing, refresh
  <2> QED BY <1>0, <2>3, <2>4, <2>5 DEF CacheTypeInv, TypeInv
<1>4. ASSUME NEW c \in cache, Import(c) PROVE CacheTypeInv'
  <2>1. c \in Persisted BY <1>0
  <2>2. /\ c.led \in Ledger /\ c.restore \in Height /\ Coverage(c) \in 0 .. MaxGap
        /\ ImportedCursor(c) \in Cursor
    BY <1>0, <2>1, CoverageType, ImportedCursorType DEF Persisted
  <2>3. led' \in Ledger /\ cursor' \in Cursor
    <3>1. CASE sealed BY <1>4, <2>2, <3>1 DEF Import
    <3>2. CASE ~sealed BY <1>4, <2>2, <3>2, SpendRescanType DEF Import, RescanOnImport
    <3> QED BY <3>1, <3>2
  <2>4. /\ UNCHANGED <<daemon, sealed, cancel, job, refresh, cache>>
        /\ restore' = c.restore /\ gap' = Coverage(c) /\ Event
    BY <1>4, Zenon DEF Import
  <2>7. events' \in 0 .. MaxEvents BY <1>0, <2>4, RefreshAssumption DEF Event, TypeOK
  <2>5. TypeOK' BY <1>0, <2>2, <2>3, <2>4, <2>7 DEF TypeOK, refresh
  <2>6. ControlInv' BY <1>0, <2>4 DEF ControlInv, Probing, refresh
  <2> QED BY <1>0, <2>4, <2>5, <2>6 DEF CacheTypeInv, TypeInv
<1> QED BY <1>1, <1>2, <1>3, <1>4 DEF CacheStep

LEMMA CacheTypeInductive == CacheTypeInv /\ [CacheNext]_cacheVars => CacheTypeInv'
<1> SUFFICES ASSUME CacheTypeInv, [CacheNext]_cacheVars PROVE CacheTypeInv'
  OBVIOUS
<1>1. CASE CacheStep BY <1>1, CacheStepType
<1>2. CASE Next /\ UNCHANGED cache
  BY <1>2, TypeEnvironment, TypeProbe, TypeBatch DEF Next, RefreshStep, CacheTypeInv
<1>3. CASE UNCHANGED cacheVars
  BY <1>3 DEF cacheVars, vars, store, refresh, CacheTypeInv, TypeInv, TypeOK, ControlInv, Probing
<1> QED BY <1>1, <1>2, <1>3 DEF CacheNext

LEMMA SteadyIsCache == [SteadyNext]_cacheVars => [CacheNext]_cacheVars
BY Zenon DEF SteadyNext, CacheNext, CacheStep

LEMMA CacheTypeInit == CacheInit => CacheTypeInv
BY TypeInit DEF CacheInit, CacheTypeInv

(* The store and the blob always have their types.                         *)
THEOREM CacheTypeCorrect == CacheSpec => []CacheTypeOK
<1>1. CacheTypeInv => CacheTypeOK BY DEF CacheTypeInv, TypeInv, CacheTypeOK
<1> QED BY <1>1, CacheTypeInit, CacheTypeInductive, PTL DEF CacheSpec

-----------------------------------------------------------------------------
(* Restore height and coverage.                                            *)

(* A refresh and the host calls of RefreshScan never shrink the coverage;  *)
(* only a forced rescan chooses a restore height.                          *)
LEMMA NextSettings ==
  ASSUME TypeOK, Next
  PROVE  /\ gap' >= gap
         /\ restore' = restore \/ restore' \in RescanTargets
<1>0. gap \in Nat BY PaymentAssumption DEF TypeOK
<1>1. CASE Environment
  BY <1>0, <1>1
  DEF Environment, DaemonMoves, RequestCancel, SetGapLimit, RewindScanCursor, ForceRescan,
      ResetTrackedOutputs, Seal, Unseal, store
<1>2. CASE StartRefresh BY <1>0, <1>2 DEF StartRefresh
<1>3. CASE Probe
  BY <1>0, <1>3
  DEF Probe, ProbeDown, ResumeKeeps, ResumeRewinds, ResumeFails, ParentRewinds, ParentRetry,
      ParentAborts, Commit, store
<1>4. CASE Batch
  BY <1>0, <1>4
  DEF Batch, LoopCancelled, ScanBatch, ProbeParent, PrefetchArrives, FetchFails, ScanNext,
      ScanStops, PrefetchFails, CommitBatch, Finish, Commit, store
<1> QED BY <1>1, <1>2, <1>3, <1>4 DEF Next, RefreshStep

(* README.md:71: "Coverage is monotonic, including across cache imports":  *)
(* no step but the death of the process shrinks it.                        *)
THEOREM CoverageMonotonicHolds == CacheSpec => CoverageMonotonic
<1>1. ASSUME CacheTypeInv, [CacheNext]_cacheVars
      PROVE  [gap' >= gap \/ \E r \in Restores : Restart(r)]_cacheVars
  <2>0. TypeOK /\ cache \subseteq Persisted /\ gap \in Nat
    BY <1>1, PaymentAssumption DEF CacheTypeInv, TypeInv, TypeOK
  <2>1. CASE Next BY <2>0, <2>1, NextSettings
  <2>2. CASE Export BY <2>0, <2>2 DEF Export, store
  <2>3. ASSUME NEW r \in Restores, Reopen(r) PROVE gap' >= gap
    BY <2>0, <2>3, Zenon, SMT DEF Reopen
  <2>4. ASSUME NEW c \in cache, Import(c) PROVE gap' >= gap
    BY <2>0, <2>4, CoverageType DEF Import
  <2> QED BY <1>1, <2>1, <2>2, <2>3, <2>4 DEF CacheNext, CacheStep
<1> QED BY <1>1, CacheTypeInit, CacheTypeInductive, PTL DEF CacheSpec, CoverageMonotonic
-----------------------------------------------------------------------------
(* The committed store stays the scan of one branch.  A blob is a ledger   *)
(* of the same kind, scanned from the restore height and with the coverage *)
(* of its time: below are the parts of LedgerInv for a restore height r.   *)

PieceFrom(l, c, t, r) == \A k \in Height : k < c =>
  /\ l.win[k] \in {NoBlock, Anc[t][k]}
  /\ r <= k /\ l.win[k] = NoBlock => Settled(Anc[t][k], daemon)
  /\ l.win[k] # NoBlock =>
       /\ c - k <= HashWindow
       /\ \A x \in Height : k <= x /\ x < c => l.win[x] # NoBlock

ExactFrom(l, k, t, g, r) ==
  /\ Sound(l, k, t)
  /\ \A h \in r .. k - 1 :
       /\ "reset" \notin Ops => \A o \in Owned(Anc[t][h], g) : l.recv[o] = h
       /\ \A o \in Spends[Anc[t][h]] :
            l.recv[o] # NoHeight /\ l.recv[o] < k /\ o \notin l.blind => l.spent[o] = h

WindowFrom(l, r) == \A h \in Height : l.win[h] # NoBlock =>
  r <= h /\ HeightOf[l.win[h]] = h /\ PieceFrom(l, h + 1, l.win[h], r)

RecordsFrom(l, r) == \A o \in Output :
  /\ l.recv[o] # NoHeight => r <= l.recv[o]
  /\ l.spent[o] # NoHeight => r <= l.spent[o] /\ l.recv[o] # NoHeight

ScannedFrom(l, c, g, r) == c > r =>
  /\ \A h \in Height : l.win[h] # NoBlock => ExactFrom(l, h + 1, l.win[h], g, r)
  /\ \E t \in Block : HeightOf[t] = c - 1 /\ ExactFrom(l, c, t, g, r) /\ PieceFrom(l, c, t, r)

LedgerFrom(l, c, g, r) == WindowFrom(l, r) /\ RecordsFrom(l, r) /\ ScannedFrom(l, c, g, r)

BlobInv(c) == LedgerFrom(c.led, c.cursor, c.gap, c.restore)

BlobsInv == \A c \in cache : BlobInv(c)

(* As in GenesisInv.                                                       *)
BlobsGenesis == \A c \in cache :
  AtGenesis(c.led, c.cursor) /\ (c.restore = 0 => "gap" \notin Ops)

(* Unless the host grows the coverage, nothing beyond the initial one is   *)
(* tracked, and no import grows it either.                                 *)
Narrow(l) == \A o \in Output : l.recv[o] # NoHeight => Minor[o] = 0

NarrowInv == "gap" \notin Ops =>
  /\ gap = 0 /\ Narrow(led) /\ Narrow(work)
  /\ \A c \in cache : c.gap = 0 /\ Narrow(c.led)

CacheInv == /\ PrefixInv
            /\ cache \subseteq Persisted
            /\ BlobsInv
            /\ BlobsGenesis
            /\ NarrowInv

(* What is exported is scanned from the restore height of now, ...         *)
LEMMA ExportedFrom ==
  ASSUME NEW l, NEW c, NEW g, LedgerInv(l, c, g)
  PROVE  LedgerFrom(l, c, g, restore)
<1>1. \A k, t : Piece(l, k, t) => PieceFrom(l, k, t, restore) BY DEF Piece, PieceFrom
<1>2. \A k, t : Exact(l, k, t, g) => ExactFrom(l, k, t, g, restore)
  BY DEF Exact, Receipts, AllSpends, ExactFrom
<1>3. WindowFrom(l, restore) BY <1>1 DEF LedgerInv, WindowInv, WindowFrom
<1>4. RecordsFrom(l, restore) BY DEF LedgerInv, AboveRestore, RecordsFrom
<1>5. ScannedFrom(l, c, g, restore)
  BY <1>1, <1>2 DEF LedgerInv, ScannedTo, ExactWindow, ScanOf, ScannedFrom
<1> QED BY <1>3, <1>4, <1>5 DEF LedgerFrom

(* ... stays what it is as what is final stays final, ...                  *)
LEMMA BlobCarries ==
  ASSUME NEW l, NEW c, NEW g, NEW r, Onward, LedgerFrom(l, c, g, r)
  PROVE  LedgerFrom(l, c, g, r)'
<1>1. \A k, t : PieceFrom(l, k, t, r) => PieceFrom(l, k, t, r)' BY DEF PieceFrom, Onward
<1>2. \A k, t : ExactFrom(l, k, t, g, r) => ExactFrom(l, k, t, g, r)'
  BY DEF ExactFrom, Sound
<1>3. WindowFrom(l, r)' BY <1>1 DEF LedgerFrom, WindowFrom
<1>4. RecordsFrom(l, r)' BY DEF LedgerFrom, RecordsFrom
<1>5. ScannedFrom(l, c, g, r)' BY <1>1, <1>2 DEF LedgerFrom, ScannedFrom
<1> QED BY <1>3, <1>4, <1>5 DEF LedgerFrom

(* ... and is a ledger of the wallet once its restore height is back.      *)
LEMMA ImportedInv ==
  ASSUME NEW l, NEW c, NEW g, NEW r, restore' = r, LedgerFrom(l, c, g, r)'
  PROVE  LedgerInv(l, c, g)'
<1>1. \A k, t : PieceFrom(l, k, t, r)' => Piece(l, k, t)' BY DEF Piece, PieceFrom
<1>2. \A k, t : ExactFrom(l, k, t, g, r)' => Exact(l, k, t, g)'
  BY DEF Exact, Receipts, AllSpends, ExactFrom
<1>3. WindowInv(l)' BY <1>1 DEF LedgerFrom, WindowInv, WindowFrom
<1>4. AboveRestore(l)' BY DEF LedgerFrom, AboveRestore, RecordsFrom
<1>5. ScannedTo(l, c, g)'
  BY <1>1, <1>2 DEF LedgerFrom, ScannedTo, ExactWindow, ScanOf, ScannedFrom
<1> QED BY <1>3, <1>4, <1>5 DEF LedgerInv

LEMMA EmptyLedgerFrom ==
  ASSUME NEW g, NEW r \in Nat
  PROVE  LedgerFrom(EmptyLedger, r, g, r)
<1>1. /\ \A x \in Height : EmptyLedger.win[x] = NoBlock
      /\ \A o \in Output : EmptyLedger.recv[o] = NoHeight /\ EmptyLedger.spent[o] = NoHeight
  BY DEF EmptyLedger
<1> QED BY <1>1 DEF LedgerFrom, WindowFrom, RecordsFrom, ScannedFrom

(* At the restore height or below nothing is claimed to be scanned.        *)
LEMMA CursorReset ==
  ASSUME NEW r \in Nat, NEW l, NEW c \in Nat, NEW g, NEW d \in Nat, NEW f,
         LedgerFrom(l, c, g, r), d <= r
  PROVE  LedgerFrom(l, d, f, r)
BY DEF LedgerFrom, ScannedFrom

LEMMA BlobsStay ==
  ASSUME BlobsInv, Onward, UNCHANGED cache
  PROVE  BlobsInv'
<1>1. \A c \in cache : LedgerFrom(c.led, c.cursor, c.gap, c.restore)'
  BY BlobCarries DEF BlobsInv, BlobInv
<1> QED BY <1>1 DEF BlobsInv, BlobInv

(* Only a refresh sees the daemon move.                                    *)
LEMMA CacheStepTip ==
  ASSUME CacheStep
  PROVE  Onward
<1>1. daemon' = daemon BY Zenon DEF CacheStep, Export, Restart, Reopen, Import
<1> QED BY <1>1 DEF Onward

LEMMA PrefixExport ==
  ASSUME CacheInv, Onward, Export
  PROVE  StoreInv' /\ WorkInv' /\ BlobsInv'
<1>1. /\ UNCHANGED <<led, cursor, restore, gap, replay, work, cur, job, batch, ready>>
      /\ cache' = {[led |-> led, cursor |-> cursor, restore |-> restore, gap |-> gap]}
  BY DEF Export, store, refresh
<1>2. StoreInv' /\ WorkInv' BY <1>1, StoreStays, WorkStays DEF CacheInv, PrefixInv
<1>3. LedgerFrom(led, cursor, gap, restore)
  BY ExportedFrom DEF CacheInv, PrefixInv, StoreInv
<1>4. ASSUME NEW c \in cache' PROVE BlobInv(c)'
  <2>1. c.led = led /\ c.cursor = cursor /\ c.gap = gap /\ c.restore = restore BY <1>1
  <2>2. LedgerFrom(c.led, c.cursor, c.gap, c.restore) BY <1>3, <2>1
  <2>3. LedgerFrom(c.led, c.cursor, c.gap, c.restore)' BY <2>2, BlobCarries
  <2> QED BY <2>2, <2>3 DEF BlobInv
<1>5. BlobsInv' BY <1>4 DEF BlobsInv
<1> QED BY <1>2, <1>5

LEMMA PrefixRestart ==
  ASSUME CacheInv, Onward, NEW r \in Restores, Restart(r)
  PROVE  StoreInv' /\ WorkInv' /\ BlobsInv'
<1>1. /\ led' = EmptyLedger /\ restore' = r /\ cursor' = r /\ job' = "idle" /\ cache' = cache
      /\ gap' = 0
  BY DEF Restart, Stop
<1>2. r \in Nat BY RefreshAssumption, HeightsAreCursors
<1>3. LedgerFrom(EmptyLedger, r, 0, r)' BY <1>2, EmptyLedgerFrom, BlobCarries
<1>4. LedgerInv(EmptyLedger, r, 0)' BY <1>1, <1>3, ImportedInv
<1>5. StoreInv' BY <1>1, <1>4, StoreBecomes
<1>6. WorkInv' BY <1>1, IdleWork
<1> QED BY <1>1, <1>5, <1>6, BlobsStay DEF CacheInv

LEMMA PrefixReopen ==
  ASSUME CacheInv, Onward, NEW r \in Restores, restore <= r, Reopen(r)
  PROVE  StoreInv' /\ WorkInv' /\ BlobsInv'
<1>0. /\ TypeOK /\ restore \in Height /\ led \in Ledger /\ cursor \in Cursor
      /\ restore \in Nat /\ cursor \in Nat
      /\ Height \subseteq Cursor /\ Cursor \subseteq Nat
      /\ LedgerInv(led, cursor, gap)
  BY HeightsAreCursors DEF CacheInv, PrefixInv, TypeInv, TypeOK, StoreInv
<1>1. job' = "idle" /\ cache' = cache /\ gap' = gap /\ restore' = Min2(r, restore)
  BY Zenon DEF Reopen
<1>2. restore' = restore
  <2>1. r \in Nat BY <1>0, RefreshAssumption
  <2> QED BY <1>0, <1>1, <2>1 DEF Min2
<1>3. StoreInv'
  <2>1. CASE led.marker = NoHeight
    <3> DEFINE c == Max2(cursor, restore)
    <3>1. led' = led /\ cursor' = c BY <1>2, <2>1 DEF Reopen
    <3>2. c = cursor \/ c = restore BY DEF Max2
    <3>3. LedgerInv(led, c, gap) BY <1>0, <3>2 DEF LedgerInv, ScannedTo
    <3> HIDE DEF c
    <3> QED BY <1>0, <1>1, <1>2, <3>1, <3>3, StoreStep
  <2>2. CASE led.marker # NoHeight
    <3> DEFINE h == UnsealHeight(led, cursor, restore)
    <3>1. /\ led' = [Rewind(led, h) EXCEPT !.marker = NoHeight]
          /\ cursor' = Max2(h, restore)
      BY <1>2, <2>2, Zenon DEF Reopen
    <3>2. Max2(h, restore) = h
      <4>1. led.marker \in Height BY <1>0, <2>2 DEF Ledger, HeightOrNone
      <4>2. \A x, y \in Nat : Max2(Max2(x, y), y) = Max2(x, y) BY DEF Max2
      <4>3. Min2(led.marker, cursor) \in Nat BY <1>0, <4>1 DEF Min2
      <4> QED BY <1>0, <4>2, <4>3 DEF UnsealHeight
    <3>3. SpendRescan(led, cursor, restore) BY <2>2, <3>1, <3>2, Zenon DEF SpendRescan
    <3>4. PICK m \in Ledger, d \in Cursor :
            led' = m /\ cursor' = d /\ LedgerInv(m, d, gap)
      BY <1>0, <3>3, SpendRescanInv
    <3> QED BY <1>0, <1>1, <1>2, <3>4, StoreStep
  <2> QED BY <2>1, <2>2
<1>4. WorkInv' BY <1>1, IdleWork
<1> QED BY <1>1, <1>3, <1>4, BlobsStay DEF CacheInv

(* The imported ledger is scanned with the coverage it will be rescanned   *)
(* with, or it is scanned again from its restore height.                   *)
LEMMA ImportedFrom ==
  ASSUME CacheInv, NEW c \in cache, ImportedCursor(c) <= Max2(c.cursor, c.restore)
  PROVE  LedgerFrom(c.led, ImportedCursor(c), Coverage(c), c.restore)
<1>1. /\ c \in Persisted /\ restore \in Nat /\ Height \subseteq Cursor /\ Cursor \subseteq Nat
      /\ TypeOK
  BY HeightsAreCursors DEF CacheInv, PrefixInv, TypeInv, TypeOK
<1>2. c.cursor \in Nat /\ c.gap \in Nat /\ c.restore \in Nat
  <2>1. c.cursor \in Cursor /\ c.gap \in 0 .. MaxGap /\ c.restore \in Height
    BY <1>1 DEF Persisted
  <2>2. c.gap \in Nat BY <2>1, PaymentAssumption
  <2> QED BY <1>1, <2>1, <2>2
<1>3. LedgerFrom(c.led, c.cursor, c.gap, c.restore) BY DEF CacheInv, BlobsInv, BlobInv
<1>4. Coverage(c) \in Nat /\ Coverage(c) >= c.gap
  <2>1. Coverage(c) \in 0 .. MaxGap /\ Coverage(c) >= c.gap BY <1>1, CoverageType
  <2> QED BY <2>1, PaymentAssumption
<1>5. CASE Coverage(c) > c.gap
  <2>1. ImportedCursor(c) = c.restore BY <1>5 DEF ImportedCursor
  <2> QED BY <1>2, <1>3, <2>1, CursorReset
<1>6. CASE ~(Coverage(c) > c.gap)
  <2>1. Coverage(c) = c.gap BY <1>2, <1>4, <1>6
  <2>2. ImportedCursor(c) = Max2(c.cursor, restore) BY <1>6 DEF ImportedCursor
  <2>3. /\ ImportedCursor(c) \in Nat
        /\ ImportedCursor(c) = c.cursor \/ ImportedCursor(c) <= c.restore
    BY <1>1, <1>2, <2>2 DEF Max2
  <2>4. CASE ImportedCursor(c) = c.cursor BY <1>3, <2>1, <2>4
  <2>5. CASE ImportedCursor(c) <= c.restore BY <1>2, <1>3, <2>3, <2>5, CursorReset
  <2> QED BY <2>3, <2>4, <2>5
<1> QED BY <1>5, <1>6

LEMMA RescanInvNext == RescansWell'
BY RescanInv, PTL

LEMMA PrefixImport ==
  ASSUME CacheInv, TypeOK', Onward, NEW c \in cache,
         ImportedCursor(c) <= Max2(c.cursor, c.restore), Import(c)
  PROVE  StoreInv' /\ WorkInv' /\ BlobsInv'
<1>1. /\ restore' = c.restore /\ gap' = Coverage(c) /\ job' = "idle" /\ cache' = cache
  BY Zenon DEF Import
<1>2. c \in Persisted /\ TypeOK BY DEF CacheInv, PrefixInv, TypeInv
<1>3. c.led \in Ledger /\ ImportedCursor(c) \in Cursor
  BY <1>2, ImportedCursorType DEF Persisted, CacheInv
<1>4. PICK e, g : e \in Cursor /\ e = ImportedCursor(c) /\ g = Coverage(c) BY <1>3
<1>5. LedgerFrom(c.led, e, g, c.restore) BY <1>4, ImportedFrom
<1>6. LedgerInv(c.led, e, g)'
  <2>1. LedgerFrom(c.led, e, g, c.restore)' BY <1>5, BlobCarries
  <2> QED BY <1>1, <2>1, ImportedInv
<1>7. StoreInv'
  <2>1. CASE led' = c.led /\ cursor' = e
    BY <1>1, <1>3, <1>4, <1>6, <2>1, StoreBecomes
  <2>2. CASE ~(led' = c.led /\ cursor' = e)
    <3>1. /\ c.led.marker # NoHeight
          /\ led' = Rescanned(c.led, e)' /\ cursor' = UnsealHeight(c.led, e, restore)'
      BY <1>1, <1>4, <2>2, Zenon DEF Import, RescanOnImport, SpendRescan, Rescanned
    <3>2. LedgerInv(Rescanned(c.led, e), UnsealHeight(c.led, e, restore), g)'
      BY <1>3, <1>4, <1>6, <3>1, RescanInvNext DEF RescansWell
    <3>3. PICK m, d : m = Rescanned(c.led, e)' /\ d = UnsealHeight(c.led, e, restore)'
      OBVIOUS
    <3>4. LedgerInv(m, d, g)' BY <3>2, <3>3
    <3> QED BY <1>1, <1>3, <1>4, <3>1, <3>3, <3>4, StoreBecomes
  <2> QED BY <2>1, <2>2
<1>8. WorkInv' BY <1>1, IdleWork
<1> QED BY <1>1, <1>7, <1>8, BlobsStay DEF CacheInv

LEMMA NarrowRewind ==
  ASSUME NEW l, NEW h, Narrow(l)
  PROVE  Narrow(Rewind(l, h)) /\ Narrow([Rewind(l, h) EXCEPT !.marker = NoHeight])
<1> DEFINE m == Rewind(l, h)
<1>1. \A o \in Output : m.recv[o] # NoHeight => l.recv[o] # NoHeight BY DEF Rewind
<1>2. [m EXCEPT !.marker = NoHeight].recv = m.recv BY DEF Rewind
<1> HIDE DEF m
<1>3. Narrow(m) /\ Narrow([m EXCEPT !.marker = NoHeight]) BY <1>1, <1>2 DEF Narrow
<1> QED BY <1>3 DEF m

LEMMA NarrowScan ==
  ASSUME NEW l, NEW b \in Block, NEW s, NEW q, Narrow(l)
  PROVE  Narrow(ScanBlock(l, b, 0, s, q))
<1> DEFINE m == ScanBlock(l, b, 0, s, q)
<1>1. \A o \in Output : m.recv[o] # NoHeight => l.recv[o] # NoHeight \/ o \in Owned(b, 0)
  BY DEF ScanBlock
<1>2. \A o \in Output : o \in Owned(b, 0) => Minor[o] = 0
  BY PaymentAssumption DEF Owned
<1> HIDE DEF m
<1>3. Narrow(m) BY <1>1, <1>2 DEF Narrow
<1> QED BY <1>3 DEF m

LEMMA NarrowRescan ==
  ASSUME NEW l, NEW c, NEW r, Narrow(l), SpendRescan(l, c, r)
  PROVE  Narrow(led)'
<1>1. led' = l \/ led' = [Rewind(l, UnsealHeight(l, c, r)) EXCEPT !.marker = NoHeight]
  BY DEF SpendRescan
<1>2. PICK m : led' = m /\ Narrow(m) BY <1>1, NarrowRewind
<1> QED BY <1>2 DEF Narrow

LEMMA NarrowEmpty == Narrow(EmptyLedger)
BY DEF Narrow, EmptyLedger

(* A refresh tracks what the coverage watches.                             *)
LEMMA NarrowNext ==
  ASSUME TypeInv, "gap" \notin Ops, gap = 0, Narrow(led), Narrow(work), Next
  PROVE  gap' = 0 /\ Narrow(led)' /\ Narrow(work)'
<1> USE DEF Narrow
<1>1. ASSUME NEW h \in Height, RewindScanCursor(h)
      PROVE  gap' = 0 /\ Narrow(led)' /\ Narrow(work)'
  BY <1>1, NarrowRewind DEF RewindScanCursor, refresh
<1>2. CASE Unseal BY <1>2, NarrowRescan DEF Unseal, refresh
<1>3. CASE Environment /\ ~Unseal /\ ~(\E h \in Height : RewindScanCursor(h))
  BY <1>3 DEF Environment, DaemonMoves, RequestCancel, SetGapLimit, HostCall, ForceRescan,
              ResetTrackedOutputs, Seal, store, refresh, EmptyLedger
<1>4. CASE StartRefresh BY <1>4 DEF StartRefresh
<1>5. ASSUME NEW h \in Height, ResumeRewinds(h) \/ ParentRewinds(h)
      PROVE  gap' = 0 /\ Narrow(led)' /\ Narrow(work)'
  BY <1>5, NarrowRewind DEF ResumeRewinds, ParentRewinds, Commit
<1>6. CASE ProbeDown \/ ResumeKeeps \/ ResumeFails \/ ParentRetry \/ ParentAborts
  BY <1>6 DEF ProbeDown, ResumeKeeps, ResumeFails, ParentRetry, ParentAborts, store, refresh
<1>7. CASE ScanNext
  <2>1. Anc[batch][cur] \in Block
    <3>1. batch \in Block /\ cur \in Height /\ cur <= HeightOf[batch]
      BY <1>7, ChainAssumption, HeightsAreCursors
      DEF ScanNext, TypeInv, TypeOK, ControlInv, Height, Cursor
    <3> QED BY <3>1, Ancestors
  <2>2. work' = ScanBlock(work, Anc[batch][cur], 0, sealed, replay) /\ led' = led /\ gap' = gap
    BY <1>7 DEF ScanNext, store
  <2> QED BY <2>1, <2>2, NarrowScan
<1>8. CASE Batch /\ ~ScanNext
  BY <1>8 DEF Batch, LoopCancelled, ScanBatch, ProbeParent, PrefetchArrives, FetchFails,
              ScanStops, PrefetchFails, CommitBatch, Finish, Commit, store, refresh
<1> QED BY <1>1, <1>2, <1>3, <1>4, <1>5, <1>6, <1>7, <1>8 DEF Next, RefreshStep, Probe

(* The coverage of an import is that of the wallet, of the blob or of an   *)
(* output of the blob.                                                     *)
LEMMA NarrowCoverage ==
  ASSUME TypeOK, NEW c \in Persisted, gap = 0, c.gap = 0, Narrow(c.led)
  PROVE  Coverage(c) = 0
<1> DEFINE S == {c.gap, gap} \cup {Minor[o] : o \in Tracked(c.led)}
<1>1. S = {0} BY DEF Tracked, Narrow
<1>2. Coverage(c) = Max(S) BY DEF Coverage
<1> HIDE DEF S
<1>3. \E x \in S : \A y \in S : x >= y BY <1>1
<1>4. Max(S) \in S BY <1>3 DEF Max
<1> QED BY <1>1, <1>2, <1>4

LEMMA NarrowCacheStep ==
  ASSUME CacheTypeInv, NarrowInv, CacheStep
  PROVE  NarrowInv'
<1> SUFFICES ASSUME "gap" \notin Ops
             PROVE  /\ gap' = 0 /\ Narrow(led)' /\ Narrow(work)'
                    /\ \A c \in cache' : c.gap = 0 /\ Narrow(c.led)
  BY DEF NarrowInv, Narrow
<1>0. /\ gap = 0 /\ Narrow(led) /\ Narrow(work)
      /\ \A c \in cache : c.gap = 0 /\ Narrow(c.led)
  BY DEF NarrowInv
<1>1. CASE Export BY <1>0, <1>1 DEF Export, store, refresh, Narrow
<1>2. CASE \E r \in Restores : Restart(r) BY <1>0, <1>2, NarrowEmpty DEF Restart, Narrow
<1>3. ASSUME NEW r \in Restores, Reopen(r)
      PROVE  /\ gap' = 0 /\ Narrow(led)' /\ Narrow(work)' /\ cache' = cache
  <2>1. /\ UNCHANGED <<gap, refresh, cache>>
        /\ \/ led' = led
           \/ led' = [Rewind(led, UnsealHeight(led, cursor, restore)) EXCEPT !.marker = NoHeight]
    BY <1>3, Zenon DEF Reopen
  <2>2. PICK m : led' = m /\ Narrow(m) BY <1>0, <2>1, NarrowRewind
  <2> QED BY <1>0, <2>1, <2>2 DEF refresh, Narrow
<1>4. ASSUME NEW c \in cache, Import(c)
      PROVE  /\ gap' = 0 /\ Narrow(led)' /\ Narrow(work)' /\ cache' = cache
  <2>1. UNCHANGED <<refresh, cache>> /\ gap' = Coverage(c) BY <1>4, Zenon DEF Import
  <2>2. Coverage(c) = 0 BY <1>0, NarrowCoverage DEF CacheTypeInv, TypeInv
  <2>3. led' = c.led \/ SpendRescan(c.led, ImportedCursor(c), c.restore)
    BY <1>4, Zenon DEF Import, RescanOnImport
  <2>4. Narrow(led)' BY <1>0, <2>3, NarrowRescan DEF Narrow
  <2> QED BY <1>0, <2>1, <2>2, <2>4 DEF refresh, Narrow
<1> QED BY <1>0, <1>1, <1>2, <1>3, <1>4 DEF CacheStep

(* Genesis.  An import that scans over from there has the coverage of its  *)
(* blob.                                                                   *)
LEMMA GenesisImport ==
  ASSUME CacheInv, NEW c \in cache, Import(c)
  PROVE  GenesisInv'
<1>0. /\ c \in Persisted /\ TypeOK /\ restore \in Nat /\ c.cursor \in Nat
      /\ AtGenesis(c.led, c.cursor) /\ (c.restore = 0 => "gap" \notin Ops)
  BY HeightsAreCursors
  DEF CacheInv, PrefixInv, TypeInv, TypeOK, Persisted, BlobsGenesis
<1>1. restore' = c.restore /\ job' = "idle" BY Zenon DEF Import
<1>2. ImportedCursor(c) = 0 => c.cursor = 0
  <2>1. CASE Coverage(c) > c.gap
    <3>1. c.restore # 0
      <4>1. ~(0 > 0) OBVIOUS
      <4> QED BY <1>0, <2>1, <4>1, NarrowCoverage DEF CacheInv, NarrowInv
    <3> QED BY <2>1, <3>1 DEF ImportedCursor
  <2>2. CASE ~(Coverage(c) > c.gap)
    BY <1>0, <2>2 DEF ImportedCursor, Max2
  <2> QED BY <2>1, <2>2
<1>3. AtGenesis(c.led, ImportedCursor(c)) BY <1>0, <1>2 DEF AtGenesis
<1>4. AtGenesis(led, cursor)'
  <2>1. \/ led' = c.led /\ cursor' = ImportedCursor(c)
        \/ SpendRescan(c.led, ImportedCursor(c), c.restore)
    BY Zenon DEF Import, RescanOnImport
  <2> QED BY <1>3, <2>1, AtGenesisRescan DEF AtGenesis
<1> QED BY <1>0, <1>1, <1>4 DEF GenesisInv

LEMMA GenesisReopen ==
  ASSUME CacheInv, NEW r \in Restores, restore <= r, Reopen(r)
  PROVE  GenesisInv'
<1>0. /\ restore \in Nat /\ cursor \in Nat /\ r \in Nat /\ AtGenesis(led, cursor)
      /\ job' = "idle" /\ (restore = 0 => "gap" \notin Ops)
  BY HeightsAreCursors, RefreshAssumption, Zenon
  DEF CacheInv, PrefixInv, TypeInv, TypeOK, GenesisInv, Reopen
<1>1. restore' = restore BY <1>0 DEF Reopen, Min2
<1>2. AtGenesis(led, cursor)'
  <2>1. CASE led.marker = NoHeight
    <3>1. led' = led /\ cursor' = Max2(cursor, restore) BY <1>1, <2>1 DEF Reopen
    <3>2. cursor' = 0 => cursor = 0 BY <1>0, <3>1 DEF Max2
    <3> QED BY <1>0, <3>1, <3>2 DEF AtGenesis
  <2>2. CASE led.marker # NoHeight
    <3> DEFINE h == UnsealHeight(led, cursor, restore)
               m == Rewind(led, h)
    <3>1. led' = [m EXCEPT !.marker = NoHeight] /\ cursor' = Max2(h, restore)
      BY <1>1, <2>2, Zenon DEF Reopen
    <3>2. Max2(h, restore) = h
      BY <1>0 DEF UnsealHeight, Max2
    <3>3. AtGenesis(m, h) BY AtGenesisRewind
    <3>4. [m EXCEPT !.marker = NoHeight].win = m.win BY DEF Rewind
    <3> HIDE DEF h, m
    <3> QED BY <3>1, <3>2, <3>3, <3>4 DEF AtGenesis
  <2> QED BY <2>1, <2>2
<1> QED BY <1>0, <1>1, <1>2 DEF GenesisInv

LEMMA GenesisRestart ==
  ASSUME GenesisCoverageFixed, NEW r \in Restores, Restart(r)
  PROVE  GenesisInv'
<1>1. 0 \in Height BY ChainAssumption DEF Height
<1> QED BY <1>1 DEF Restart, Stop, GenesisCoverageFixed, GenesisInv, AtGenesis, EmptyLedger

LEMMA GenesisExport ==
  ASSUME CacheInv, Export
  PROVE  GenesisInv' /\ BlobsGenesis'
<1>1. /\ UNCHANGED <<led, cursor, restore, job, work, cur, dh>>
      /\ cache' = {[led |-> led, cursor |-> cursor, restore |-> restore, gap |-> gap]}
  BY DEF Export, store, refresh
<1>2. GenesisInv BY DEF CacheInv, PrefixInv
<1> QED BY <1>1, <1>2 DEF GenesisInv, BlobsGenesis, AtGenesis

LEMMA CacheInvInductive ==
  ASSUME GenesisCoverageFixed
  PROVE  CacheInv /\ (Finality \/ TipInv) /\ [SteadyNext]_cacheVars => CacheInv'
<1> SUFFICES ASSUME CacheInv, Finality \/ TipInv, [SteadyNext]_cacheVars PROVE CacheInv'
  OBVIOUS
<1>1. PrefixInv /\ CacheTypeInv /\ BlobsInv /\ BlobsGenesis /\ NarrowInv
  BY DEF CacheInv, PrefixInv, CacheTypeInv
<1>2. CacheTypeInv'
  BY <1>1, CacheTypeInductive, SteadyIsCache
<1>3. [Next]_vars => Onward BY <1>1, NextTip, FinalStays DEF CacheTypeInv, TypeInv
<1>10. cache' = cache => BlobsGenesis' BY <1>1 DEF BlobsGenesis, AtGenesis
<1>4. CASE Next /\ UNCHANGED cache
  <2>1. PrefixInv' BY <1>1, <1>4, PrefixInductive
  <2>2. NarrowInv' BY <1>1, <1>4, NarrowNext DEF NarrowInv, Narrow, CacheTypeInv
  <2> QED BY <1>1, <1>2, <1>3, <1>4, <1>10, <2>1, <2>2, BlobsStay DEF CacheInv, CacheTypeInv
<1>5. ASSUME GenesisInv' /\ BlobsGenesis', StoreInv' /\ WorkInv' /\ BlobsInv', CacheStep
      PROVE  CacheInv'
  <2>1. NarrowInv' BY <1>1, <1>5, NarrowCacheStep
  <2> QED BY <1>2, <1>5, <2>1 DEF CacheInv, CacheTypeInv, PrefixInv
<1>6. CASE Export
  <2>1. Onward /\ CacheStep BY <1>6, CacheStepTip DEF CacheStep
  <2> QED BY <1>5, <1>6, <2>1, PrefixExport, GenesisExport
<1>7. ASSUME NEW r \in Restores, Restart(r) \/ (restore <= r /\ Reopen(r)) PROVE CacheInv'
  <2>1. Onward /\ CacheStep BY <1>7, CacheStepTip DEF CacheStep
  <2>2. cache' = cache BY <1>7, Zenon DEF Restart, Reopen
  <2> QED BY <1>5, <1>7, <1>10, <2>1, <2>2, PrefixRestart, PrefixReopen, GenesisRestart,
             GenesisReopen
<1>8. ASSUME NEW c \in cache, ImportedCursor(c) <= Max2(c.cursor, c.restore), Import(c)
      PROVE  CacheInv'
  <2>1. Onward /\ CacheStep BY <1>8, CacheStepTip DEF CacheStep
  <2>2. TypeOK' BY <1>2 DEF CacheTypeInv, TypeInv
  <2>3. cache' = cache BY <1>8, Zenon DEF Import
  <2> QED BY <1>5, <1>8, <1>10, <2>1, <2>2, <2>3, PrefixImport, GenesisImport
<1>9. CASE UNCHANGED cacheVars
  <2>1. UNCHANGED vars /\ UNCHANGED cache BY <1>9 DEF cacheVars
  <2>2. PrefixInv' BY <1>1, <2>1, PrefixInductive
  <2>3. UNCHANGED <<gap, led, work>> BY <2>1 DEF vars, store, refresh
  <2>4. NarrowInv' BY <1>1, <2>1, <2>3 DEF NarrowInv, Narrow
  <2> QED BY <1>1, <1>2, <1>3, <1>10, <2>1, <2>2, <2>4, BlobsStay DEF CacheInv, CacheTypeInv
<1> QED BY <1>4, <1>6, <1>7, <1>8, <1>9 DEF SteadyNext

(* Where nothing rewinds a cursor, a blob too ends at the end of its       *)
(* window, which the chain of the daemon has reached.                      *)
BlobTip(c) == c.cursor > c.restore =>
  /\ c.cursor <= HeightOf[daemon] + 1
  /\ c.led.win[c.cursor - 1] # NoBlock
  /\ \A k \in Height : k >= c.cursor => c.led.win[k] = NoBlock

NoMarker(l) == l.marker = NoHeight

(* A wallet that is never sealed has no rewind to make up for.             *)
Unmarked == /\ ~sealed /\ NoMarker(led) /\ NoMarker(work)
            /\ \A c \in cache : NoMarker(c.led)

TipsInv == TipInv /\ Unmarked /\ \A c \in cache : BlobTip(c)

LEMMA UnmarkedNext ==
  ASSUME "seal" \notin Ops, ~sealed, NoMarker(led), NoMarker(work), Next
  PROVE  ~sealed' /\ NoMarker(led)' /\ NoMarker(work)'
<1> USE DEF NoMarker
<1>1. \A l, h : Rewind(l, h).marker = l.marker BY DEF Rewind
<1>2. \A l, b, q : ScanBlock(l, b, gap, sealed, q).marker = l.marker BY DEF ScanBlock
<1>3. CASE Environment
  BY <1>1, <1>3
  DEF Environment, DaemonMoves, RequestCancel, SetGapLimit, RewindScanCursor, ForceRescan,
      ResetTrackedOutputs, Seal, Unseal, HostCall, store, refresh, EmptyLedger
<1>4. CASE StartRefresh BY <1>4 DEF StartRefresh
<1>5. CASE Probe
  BY <1>1, <1>5
  DEF Probe, ProbeDown, ResumeKeeps, ResumeRewinds, ResumeFails, ParentRewinds, ParentRetry,
      ParentAborts, Commit, store, refresh
<1>6. CASE Batch
  BY <1>2, <1>6
  DEF Batch, LoopCancelled, ScanBatch, ProbeParent, PrefetchArrives, FetchFails, ScanNext,
      ScanStops, PrefetchFails, CommitBatch, Finish, Commit, store, refresh
<1> QED BY <1>3, <1>4, <1>5, <1>6 DEF Next, RefreshStep

LEMMA DaemonRises ==
  ASSUME RisingTips, TypeOK, [Next]_vars
  PROVE  /\ HeightOf[daemon] \in Nat /\ HeightOf[daemon'] \in Nat
         /\ HeightOf[daemon'] >= HeightOf[daemon]
<1>1. daemon \in Block /\ Switch[daemon] \subseteq Block BY RefreshAssumption DEF TypeOK
<1>2. HeightOf[daemon] \in Nat BY <1>1, ChainAssumption DEF Height
<1>3. CASE daemon' = daemon BY <1>2, <1>3
<1>4. CASE daemon' \in Switch[daemon]
  <2>1. daemon' \in Block BY <1>1, <1>4
  <2>2. HeightOf[daemon'] \in Nat BY <2>1, ChainAssumption DEF Height
  <2> QED BY <1>1, <1>2, <1>4, <2>2 DEF RisingTips
<1> QED BY <1>3, <1>4, NextTip

(* An import that ends where its blob ended puts the window back with it.  *)
LEMMA TipsImport ==
  ASSUME CacheInv, TipsInv, NEW c \in cache,
         ImportedCursor(c) <= Max2(c.cursor, c.restore), Import(c)
  PROVE  TipInv' /\ Unmarked'
<1>0. /\ c \in Persisted /\ restore \in Nat /\ c.cursor \in Nat /\ c.restore \in Nat
      /\ NoMarker(c.led) /\ ~sealed /\ BlobTip(c) /\ c.restore <= restore
  BY HeightsAreCursors
  DEF CacheInv, PrefixInv, TypeInv, TypeOK, Persisted, TipsInv, Unmarked, Import, Accepted
<1>1. /\ led' = c.led /\ cursor' = ImportedCursor(c) /\ restore' = c.restore
      /\ UNCHANGED <<daemon, sealed, job, refresh, cache>> /\ job = "idle"
  BY <1>0, Zenon DEF Import, RescanOnImport, SpendRescan, NoMarker
<1>2. cursor' > restore' => cursor' = c.cursor
  BY <1>0, <1>1 DEF ImportedCursor, Max2
<1>3. StoreTip' BY <1>0, <1>1, <1>2 DEF BlobTip, StoreTip, AtTip
<1>4. TipInv' BY <1>1, <1>3 DEF TipsInv, TipInv, WorkTip, BatchTip, refresh
<1> QED BY <1>0, <1>1, <1>4 DEF TipsInv, Unmarked, NoMarker, refresh

LEMMA TipsCacheStep ==
  ASSUME CacheInv, TipsInv,
         \/ Export
         \/ \E r \in Restores : Restart(r) \/ (restore <= r /\ Reopen(r))
         \/ \E c \in cache : ImportedCursor(c) <= Max2(c.cursor, c.restore) /\ Import(c)
  PROVE  TipsInv'
<1>0. /\ TipInv /\ StoreTip /\ WorkTip /\ BatchTip /\ Unmarked /\ TypeOK
      /\ restore \in Nat /\ cursor \in Nat
  BY HeightsAreCursors DEF TipsInv, TipInv, CacheInv, PrefixInv, TypeInv, TypeOK
<1>1. ASSUME cache' = cache, daemon' = daemon, TipInv', Unmarked' PROVE TipsInv'
  BY <1>1 DEF TipsInv, BlobTip
<1>2. CASE Export
  <2>1. /\ UNCHANGED <<daemon, store, job, refresh>>
        /\ cache' = {[led |-> led, cursor |-> cursor, restore |-> restore, gap |-> gap]}
    BY <1>2 DEF Export
  <2>2. TipInv'
    BY <1>0, <2>1 DEF TipInv, StoreTip, WorkTip, BatchTip, AtTip, store, refresh
  <2>3. Unmarked' BY <1>0, <2>1 DEF Unmarked, NoMarker, store, refresh
  <2>4. (\A c \in cache : BlobTip(c))' BY <1>0, <2>1 DEF BlobTip, StoreTip, AtTip
  <2> QED BY <2>2, <2>3, <2>4 DEF TipsInv
<1>3. ASSUME NEW r \in Restores, Restart(r) PROVE TipsInv'
  <2>1. r \in Nat BY RefreshAssumption, HeightsAreCursors
  <2>2. ~(cursor' > restore') BY <1>3, <2>1 DEF Restart
  <2>3. TipInv' BY <1>3, <2>2 DEF Restart, Stop, TipInv, StoreTip, WorkTip, BatchTip, AtTip
  <2>4. Unmarked' BY <1>0, <1>3 DEF Restart, Unmarked, NoMarker, EmptyLedger
  <2> QED BY <1>1, <1>3, <2>3, <2>4 DEF Restart
<1>4. ASSUME NEW r \in Restores, restore <= r, Reopen(r) PROVE TipsInv'
  <2>1. r \in Nat BY RefreshAssumption, HeightsAreCursors
  <2>2. restore' = restore BY <1>0, <1>4, <2>1 DEF Reopen, Min2
  <2>3. /\ led' = led /\ cursor' = Max2(cursor, restore) /\ job = "idle" /\ ~sealed'
        /\ UNCHANGED <<daemon, job, refresh, cache>>
    BY <1>0, <1>4, <2>2, Zenon DEF Reopen, Unmarked, NoMarker
  <2>4. cursor' > restore => cursor' = cursor BY <1>0, <2>3 DEF Max2
  <2>5. StoreTip' BY <1>0, <2>2, <2>3, <2>4 DEF StoreTip, AtTip
  <2>6. TipInv' BY <1>0, <2>3, <2>5 DEF TipInv, WorkTip, BatchTip, refresh
  <2>7. Unmarked' BY <1>0, <2>3 DEF Unmarked, NoMarker, refresh
  <2> QED BY <1>1, <2>3, <2>6, <2>7
<1>5. ASSUME NEW c \in cache, ImportedCursor(c) <= Max2(c.cursor, c.restore), Import(c)
      PROVE  TipsInv'
  <2>1. cache' = cache /\ daemon' = daemon BY <1>5, Zenon DEF Import
  <2> QED BY <1>1, <1>5, <2>1, TipsImport
<1> QED BY <1>2, <1>3, <1>4, <1>5

LEMMA TipsInductive ==
  ASSUME NeverRewound, CacheInv, TipsInv, [SteadyNext]_cacheVars
  PROVE  TipsInv'
<1>1. PrefixInv /\ TypeOK /\ TipInv /\ Unmarked
  BY DEF CacheInv, PrefixInv, TypeInv, TipsInv
<1>2. CASE Next /\ UNCHANGED cache
  <2>1. TipInv' BY <1>1, <1>2, TipInductive
  <2>2. Unmarked' BY <1>1, <1>2, UnmarkedNext DEF NeverRewound, Unmarked, NoMarker
  <2>3. /\ HeightOf[daemon] \in Nat /\ HeightOf[daemon'] \in Nat
        /\ HeightOf[daemon'] >= HeightOf[daemon]
    BY <1>1, <1>2, DaemonRises DEF NeverRewound
  <2>4. ASSUME NEW c \in cache' PROVE BlobTip(c)'
    <3>1. c \in cache /\ BlobTip(c) BY <1>2, <2>4 DEF TipsInv
    <3>2. c.cursor \in Nat BY <3>1, HeightsAreCursors DEF CacheInv, Persisted
    <3> QED BY <2>3, <3>1, <3>2 DEF BlobTip
  <2> QED BY <2>1, <2>2, <2>4 DEF TipsInv
<1>3. CASE UNCHANGED cacheVars
  BY <1>3 DEF cacheVars, vars, store, refresh, TipsInv, TipInv, StoreTip, WorkTip, BatchTip,
              AtTip, Unmarked, NoMarker, BlobTip
<1> QED BY <1>2, <1>3, TipsCacheStep DEF SteadyNext

LEMMA TipsInit == CacheInit => TipsInv
BY TipInit DEF CacheInit, Init, TipsInv, Unmarked, NoMarker, EmptyLedger

(* Whatever is exported, killed, reopened and imported in between, with    *)
(* whatever restore heights, the committed store below last_scanned is the *)
(* scan of one branch, as long as the host does not open an open wallet at *)
(* an earlier height and no import moves the cursor past its blob.         *)
THEOREM PrefixSurvivesRestarts ==
  ASSUME Finality \/ NeverRewound, GenesisCoverageFixed
  PROVE  SteadySpec => []StoreIsPrefixScan
<1> DEFINE Inv == CacheInv /\ (Finality \/ TipsInv)
<1>1. CacheInit => Inv
  <2> SUFFICES ASSUME CacheInit PROVE Inv
    OBVIOUS
  <2>1. PrefixInv BY PrefixInit DEF CacheInit
  <2>2. NarrowInv BY NarrowEmpty DEF CacheInit, Init, NarrowInv
  <2>3. CacheInv BY <2>1, <2>2 DEF CacheInit, CacheInv, BlobsInv, BlobsGenesis
  <2> QED BY <2>3, TipsInit
<1>2. Inv /\ [SteadyNext]_cacheVars => Inv'
  BY CacheInvInductive, TipsInductive DEF TipsInv
<1>3. Inv => StoreIsPrefixScan BY PrefixScan DEF CacheInv
<1> QED BY <1>1, <1>2, <1>3, PTL DEF SteadySpec
-----------------------------------------------------------------------------
(* The hash window.  A blob takes a window along and an import puts it     *)
(* back whole; the rewind it may be followed by only cuts it off.          *)

WindowsInv == CacheTypeInv /\ ChainInv /\ \A c \in cache : OneChain(c.led)

LEMMA HeightsInt == \A x : x \in Height \/ x \in Cursor => x \in Int
BY ChainAssumption DEF Height, Cursor

(* A cleanup rewind of a ledger whose marker, cursor and restore height    *)
(* are heights.                                                            *)
LEMMA OneChainRescan ==
  ASSUME NEW l \in Ledger, OneChain(l), NEW c \in Cursor, NEW r \in Height, SpendRescan(l, c, r)
  PROVE  OneChain(led')
<1>1. CASE l.marker = NoHeight BY <1>1 DEF SpendRescan
<1>2. CASE l.marker # NoHeight
  <2> DEFINE h == UnsealHeight(l, c, r)
  <2>1. led' = [Rewind(l, h) EXCEPT !.marker = NoHeight] BY <1>2, Zenon DEF SpendRescan
  <2>2. led'.win = Rewind(l, h).win BY <2>1 DEF Rewind
  <2>3. l.marker \in Height BY <1>2 DEF Ledger, HeightOrNone
  <2>4. l.marker \in Int /\ c \in Int /\ r \in Int BY <2>3, HeightsInt
  <2>5. h \in Int BY <2>4 DEF UnsealHeight, Min2, Max2
  <2> HIDE DEF h
  <2>6. OneChain(Rewind(l, h)) BY <2>5, OneChainRewind
  <2>7. PICK m : m = led' OBVIOUS
  <2>8. m.win = Rewind(l, h).win BY <2>2, <2>7
  <2>9. OneChain(m) BY <2>6, <2>8, OneChainSame
  <2> QED BY <2>7, <2>9
<1> QED BY <1>1, <1>2

LEMMA WindowsStep ==
  ASSUME WindowsInv, CacheStep
  PROVE  /\ OneChain(led')
         /\ \/ job' = "idle" /\ OneChain(work')
            \/ UNCHANGED <<work, cur, job, batch>>
         /\ \A c \in cache' : OneChain(c.led)
<1>0. /\ OneChain(led) /\ led \in Ledger /\ cursor \in Cursor /\ restore \in Height
      /\ cache \subseteq Persisted /\ \A c \in cache : OneChain(c.led)
      /\ Restores \subseteq Height
  BY RefreshAssumption DEF WindowsInv, ChainInv, CacheTypeInv, TypeInv, TypeOK
<1>1. CASE Export
  <2>1. /\ led' = led /\ UNCHANGED <<work, cur, job, batch>>
        /\ \A c \in cache' : c.led = led
    BY <1>1 DEF Export, store, refresh
  <2> QED BY <1>0, <2>1
<1>2. ASSUME NEW r \in Restores, Restart(r)
      PROVE  OneChain(led') /\ job' = "idle" /\ OneChain(work') /\ cache' = cache
  BY <1>2, OneChainEmpty DEF Restart, Stop
<1>3. ASSUME NEW r \in Restores, Reopen(r)
      PROVE  OneChain(led') /\ UNCHANGED <<work, cur, job, batch, cache>>
  <2>1. UNCHANGED <<work, cur, job, batch, cache>>
    <3>1. UNCHANGED <<job, refresh, cache>> BY <1>3, Zenon DEF Reopen
    <3> QED BY <3>1 DEF refresh
  <2>2. CASE led.marker = NoHeight BY <1>0, <1>3, <2>1, <2>2 DEF Reopen
  <2>3. CASE led.marker # NoHeight
    <3> DEFINE h == UnsealHeight(led, cursor, restore)
    <3>1. led' = [Rewind(led, h) EXCEPT !.marker = NoHeight] BY <1>3, <2>3, Zenon DEF Reopen
    <3>2. led'.win = Rewind(led, h).win BY <3>1 DEF Rewind
    <3>3. led.marker \in Height BY <1>0, <2>3 DEF Ledger, HeightOrNone
    <3>4. led.marker \in Int /\ cursor \in Int /\ restore \in Int
      BY <1>0, <3>3, HeightsInt
    <3>5. h \in Int BY <3>4 DEF UnsealHeight, Min2, Max2
    <3> HIDE DEF h
    <3>6. OneChain(Rewind(led, h)) BY <1>0, <3>5, OneChainRewind
    <3> QED BY <2>1, <3>2, <3>6, OneChainSame
  <2> QED BY <2>1, <2>2, <2>3
<1>4. ASSUME NEW c \in cache, Import(c)
      PROVE  OneChain(led') /\ UNCHANGED <<work, cur, job, batch, cache>>
  <2>1. UNCHANGED <<work, cur, job, batch, cache>>
    <3>1. UNCHANGED <<job, refresh, cache>> BY <1>4, Zenon DEF Import
    <3> QED BY <3>1 DEF refresh
  <2>2. c \in Persisted /\ TypeOK BY <1>0 DEF WindowsInv, ChainInv, TypeInv
  <2>3. c.led \in Ledger /\ OneChain(c.led) /\ c.restore \in Height
    BY <1>0, <2>2 DEF Persisted
  <2>4. ImportedCursor(c) \in Cursor BY <2>2, ImportedCursorType
  <2>5. CASE sealed BY <1>4, <2>1, <2>3, <2>5 DEF Import
  <2>6. CASE ~sealed
    <3>1. SpendRescan(c.led, ImportedCursor(c), c.restore)
      BY <1>4, <2>6, Zenon DEF Import, RescanOnImport
    <3> QED BY <2>1, <2>3, <2>4, <3>1, OneChainRescan
  <2> QED BY <2>1, <2>5, <2>6
<1>5. CASE \E r \in Restores : Restart(r) BY <1>0, <1>2, <1>5
<1>6. CASE \E r \in Restores : Reopen(r) BY <1>0, <1>3, <1>6
<1>7. CASE \E c \in cache : Import(c) BY <1>0, <1>4, <1>7
<1> QED BY <1>1, <1>5, <1>6, <1>7 DEF CacheStep

(* recent_block_hashes is a gap-free piece of one branch, no longer than   *)
(* its limit, whatever blob is imported, at whatever restore height,       *)
(* whatever the daemon does and however deep it forks.                     *)
THEOREM WindowSurvivesRestarts == CacheSpec => []WindowIsOneChain
<1>1. CacheInit => WindowsInv
  BY ChainInit, CacheTypeInit DEF CacheInit, WindowsInv
<1>2. WindowsInv /\ [CacheNext]_cacheVars => WindowsInv'
  <2> SUFFICES ASSUME WindowsInv, [CacheNext]_cacheVars PROVE WindowsInv'
    OBVIOUS
  <2>1. CacheTypeInv' /\ TypeInv' BY CacheTypeInductive DEF WindowsInv, CacheTypeInv
  <2>2. CASE (Next \/ UNCHANGED vars) /\ UNCHANGED cache
    <3>1. ChainInv' BY <2>2, ChainInductive DEF WindowsInv
    <3>2. (\A c \in cache : OneChain(c.led))' BY <2>2 DEF WindowsInv, OneChain
    <3> QED BY <2>1, <3>1, <3>2 DEF WindowsInv
  <2>3. CASE CacheStep
    <3>1. /\ OneChain(led)' /\ OneChain(work)'
          /\ (\A c \in cache : OneChain(c.led))'
          /\ (job = "scan" /\ cur > 0 => work.win[cur - 1] \in {NoBlock, Anc[batch][cur - 1]})'
      BY <2>3, WindowsStep DEF WindowsInv, ChainInv, OneChain
    <3> QED BY <2>1, <3>1 DEF WindowsInv, ChainInv
  <2> QED BY <2>2, <2>3 DEF CacheNext, cacheVars
<1>3. WindowsInv => WindowIsOneChain BY ChainWindow DEF WindowsInv
<1> QED BY <1>1, <1>2, <1>3, PTL DEF CacheSpec

-----------------------------------------------------------------------------
(* Key images.  An output found while sealed sits at or above the marker,  *)
(* so that the rewind of an unseal removes it.  A replayed block may move  *)
(* a blind output to another height; as everything in the working copy is  *)
(* below the next block to scan, it only moves up.  This needs a daemon    *)
(* whose tips never get lower: one that lags leaves outputs recorded above *)
(* the cursor, and a fork may then pay them below the marker.              *)

(* Every output is found at r or above, below c and below d.               *)
Found(l, r, c, d) == \A o \in Output : l.recv[o] # NoHeight =>
  r <= l.recv[o] /\ l.recv[o] < c /\ l.recv[o] < d

Marked(l) == \A o \in l.blind :
  l.recv[o] # NoHeight /\ l.marker # NoHeight /\ l.marker <= l.recv[o]

Keyed(l, s) == Marked(l) /\ (~s => l.blind = {})

StoreKeys == Found(led, restore, cursor, HeightOf[daemon] + 1) /\ Keyed(led, sealed)

WorkKeys == job # "idle" =>
  /\ restore <= cur
  /\ dh <= HeightOf[daemon] + 1
  /\ Found(work, restore, cur, dh)
  /\ Keyed(work, sealed)
  /\ job \in {"scan", "commit"} => HeightOf[batch] < dh
  /\ ready # NoBlock => HeightOf[ready] < dh

BlobKeys(c) == c.gap = 0 =>
  Found(c.led, c.restore, c.cursor, HeightOf[daemon] + 1) /\ Marked(c.led)

KeysInv == /\ gap = 0 => StoreKeys /\ WorkKeys
           /\ \A c \in cache : BlobKeys(c)

LEMMA LedgerHeights ==
  ASSUME NEW l \in Ledger
  PROVE  /\ \A o \in Output : l.recv[o] \in HeightOrNone /\ l.recv[o] \in Int
         /\ l.blind \subseteq Output
         /\ l.marker \in HeightOrNone /\ l.marker \in Int
         /\ NoHeight \in Int /\ NoHeight < 0 /\ Height \subseteq Nat
BY ChainAssumption DEF Ledger, HeightOrNone, Height, NoHeight

(* A rewind keeps what lies below it where it was.                         *)
LEMMA RewindKeys ==
  ASSUME NEW l \in Ledger, NEW h \in Nat, NEW r \in Nat, NEW c \in Nat, NEW d \in Nat,
         Found(l, r, c, d), NEW e \in Nat, h <= e \/ c <= e
  PROVE  /\ Found(Rewind(l, h), r, e, d)
         /\ \A s : Keyed(l, s) => Keyed(Rewind(l, h), s)
<1> DEFINE m == Rewind(l, h)
<1>1. /\ \A o \in Output : m.recv[o] = IF l.recv[o] < h THEN l.recv[o] ELSE NoHeight
      /\ m.blind = {o \in l.blind : l.recv[o] < h} /\ m.marker = l.marker
  BY DEF Rewind
<1>2. /\ \A o \in Output : l.recv[o] \in Int
      /\ l.blind \subseteq Output
  BY LedgerHeights
<1> HIDE DEF m
<1>3. Found(m, r, e, d) BY <1>1, <1>2 DEF Found
<1>4. ASSUME NEW s, Keyed(l, s) PROVE Keyed(m, s)
  BY <1>1, <1>2, <1>4 DEF Keyed, Marked
<1> QED BY <1>3, <1>4 DEF m

(* The rewind of an unseal removes every output without a key image.       *)
LEMMA UnsealKeys ==
  ASSUME NEW l \in Ledger, l.marker # NoHeight, NEW c \in Nat, NEW r \in Nat, NEW d \in Nat,
         Found(l, r, c, d), Marked(l)
  PROVE  /\ UnsealHeight(l, c, r) \in Nat
         /\ Found([Rewind(l, UnsealHeight(l, c, r)) EXCEPT !.marker = NoHeight],
                  r, UnsealHeight(l, c, r), d)
         /\ [Rewind(l, UnsealHeight(l, c, r)) EXCEPT !.marker = NoHeight].blind = {}
<1> DEFINE h == UnsealHeight(l, c, r)
           m == [Rewind(l, h) EXCEPT !.marker = NoHeight]
<1>1. l.marker \in Nat BY LedgerHeights DEF HeightOrNone
<1>2. h \in Nat /\ (h <= l.marker \/ h <= r)
  <2>1. Min2(l.marker, c) \in Nat /\ Min2(l.marker, c) <= l.marker BY <1>1 DEF Min2
  <2> QED BY <1>1, <2>1 DEF UnsealHeight, Max2
<1> HIDE DEF h
<1>3. h <= h BY <1>2
<1>4. Found(Rewind(l, h), r, h, d) BY <1>2, <1>3, RewindKeys
<1>5. m.recv = Rewind(l, h).recv /\ m.blind = {o \in l.blind : l.recv[o] < h}
  BY DEF Rewind
<1>6. Found(m, r, h, d) BY <1>4, <1>5 DEF Found
<1>7. \A o \in l.blind : ~(l.recv[o] < h)
  <2> SUFFICES ASSUME NEW o \in l.blind PROVE ~(l.recv[o] < h)
    OBVIOUS
  <2>1. o \in Output /\ l.recv[o] # NoHeight /\ l.marker <= l.recv[o] /\ l.recv[o] \in Int
    BY LedgerHeights DEF Marked
  <2>2. r <= l.recv[o] BY <2>1 DEF Found
  <2> QED BY <1>1, <1>2, <2>1, <2>2
<1>8. m.blind = {} BY <1>5, <1>7
<1> QED BY <1>2, <1>6, <1>8 DEF h

LEMMA SpendRescanKeys ==
  ASSUME NEW l \in Ledger, NEW c \in Nat, NEW r \in Nat, NEW d \in Nat,
         Found(l, r, c, d), Marked(l), SpendRescan(l, c, r)
  PROVE  Found(led', r, cursor', d) /\ led'.blind = {}
<1>1. CASE l.marker = NoHeight BY <1>1 DEF SpendRescan, Marked
<1>2. CASE l.marker # NoHeight
  <2> DEFINE h == UnsealHeight(l, c, r)
  <2>1. led' = [Rewind(l, h) EXCEPT !.marker = NoHeight] /\ cursor' = h
    BY <1>2, Zenon DEF SpendRescan
  <2> QED BY <1>2, <2>1, UnsealKeys
<1> QED BY <1>1, <1>2

(* A scanned block only moves a recorded output up, to its own height.     *)
LEMMA ScanBlockKeys ==
  ASSUME NEW l \in Ledger, NEW b \in Block, NEW r \in Nat, NEW d \in Nat, NEW g, NEW R,
         NEW s \in BOOLEAN, r <= HeightOf[b], HeightOf[b] < d,
         Found(l, r, HeightOf[b], d), Keyed(l, s)
  PROVE  /\ Found(ScanBlock(l, b, g, s, R), r, HeightOf[b] + 1, d)
         /\ Keyed(ScanBlock(l, b, g, s, R), s)
<1> DEFINE h == HeightOf[b]
           m == ScanBlock(l, b, g, s, R)
           own == Owned(b, g)
           drop == Dropped(l, b, R)
           fresh == Fresh(l, b, g, R)
<1>1. /\ \A o \in Output : m.recv[o] = IF o \in own THEN h
                                        ELSE IF o \in drop THEN NoHeight ELSE l.recv[o]
      /\ m.blind = (l.blind \ drop) \cup (IF s THEN fresh ELSE {})
      /\ m.marker = IF s /\ fresh # {} THEN SpendRescanFrom(l.marker, h) ELSE l.marker
  BY DEF ScanBlock
<1>2. /\ \A o \in Output : l.recv[o] \in Int
      /\ l.blind \subseteq Output /\ l.marker \in Int
      /\ NoHeight \in Int /\ NoHeight < 0 /\ h \in Nat
  BY LedgerHeights, ChainAssumption
<1>3. fresh \subseteq own /\ own \subseteq Output
  BY PaymentAssumption DEF Fresh, Owned
<1>4. \A o \in drop : o \in Output /\ l.recv[o] = h BY DEF Dropped
<1> HIDE DEF h, m, own, drop, fresh
<1>5. \A o \in Output : l.recv[o] # NoHeight => r <= l.recv[o] /\ l.recv[o] < h /\ l.recv[o] < d
  BY DEF Found, h
<1>6. drop = {} BY <1>2, <1>4, <1>5
<1>7. Found(m, r, h + 1, d) BY <1>1, <1>2, <1>5, <1>6 DEF Found, h
<1>8. l.marker # NoHeight => m.marker # NoHeight /\ m.marker <= l.marker
  BY <1>1, <1>2 DEF SpendRescanFrom, Min2
<1>9. s /\ fresh # {} => m.marker # NoHeight /\ m.marker <= h
  BY <1>1, <1>2 DEF SpendRescanFrom, Min2
<1>10. m.marker \in Int BY <1>1, <1>2 DEF SpendRescanFrom, Min2
<1>11. Marked(m)
  <2> SUFFICES ASSUME NEW o \in m.blind
               PROVE  m.recv[o] # NoHeight /\ m.marker # NoHeight /\ m.marker <= m.recv[o]
    BY DEF Marked
  <2>1. CASE o \in l.blind
    <3>1. o \in Output /\ l.recv[o] # NoHeight /\ l.marker # NoHeight /\ l.marker <= l.recv[o]
      BY <1>2, <2>1 DEF Keyed, Marked
    <3>2. m.recv[o] = h \/ m.recv[o] = l.recv[o] BY <1>1, <1>6, <3>1
    <3> QED BY <1>2, <1>5, <1>8, <1>10, <3>1, <3>2
  <2>2. CASE s /\ o \in fresh
    <3>1. m.recv[o] = h BY <1>1, <1>3, <2>2
    <3> QED BY <1>2, <1>9, <2>2, <3>1
  <2> QED BY <1>1, <2>1, <2>2
<1>12. ~s => m.blind = {} BY <1>1 DEF Keyed
<1> QED BY <1>7, <1>11, <1>12 DEF Keyed, m, h
-----------------------------------------------------------------------------
(* Steps.                                                                  *)

LEMMA NextDaemon ==
  ASSUME RisingTips, TypeOK, Next
  PROVE  HeightOf[daemon'] >= HeightOf[daemon]
BY DaemonRises

(* What was found stays below a tip that rises.                            *)
LEMMA FoundUp ==
  ASSUME NEW l \in Ledger, NEW r \in Nat, NEW c \in Nat, NEW d \in Nat, Found(l, r, c, d),
         NEW q \in Nat, q <= r, NEW e \in Nat, c <= e, NEW f \in Nat, d <= f
  PROVE  Found(l, q, e, f)
<1>1. \A o \in Output : l.recv[o] \in Int BY LedgerHeights
<1> QED BY <1>1 DEF Found

Rises == /\ HeightOf[daemon] \in Nat
         /\ HeightOf[daemon'] \in Nat
         /\ HeightOf[daemon'] >= HeightOf[daemon]

LEMMA StoreKeysStay ==
  ASSUME TypeOK, StoreKeys, Rises, UNCHANGED <<led, restore, cursor, sealed>>
  PROVE  StoreKeys'
<1>1. restore \in Nat /\ cursor \in Nat /\ led \in Ledger BY HeightsAreCursors DEF TypeOK
<1>2. Found(led, restore, cursor, HeightOf[daemon'] + 1)
  <2>1. /\ HeightOf[daemon] + 1 \in Nat /\ HeightOf[daemon'] + 1 \in Nat
        /\ HeightOf[daemon] + 1 <= HeightOf[daemon'] + 1
        /\ restore <= restore /\ cursor <= cursor
    BY <1>1 DEF Rises
  <2> QED BY <1>1, <2>1, FoundUp DEF StoreKeys
<1> QED BY <1>2 DEF StoreKeys, Found, Keyed, Marked

LEMMA WorkKeysStay ==
  ASSUME WorkKeys, TypeOK, Rises, job # "idle",
         UNCHANGED <<restore, sealed, dh, work, cur>>,
         job' \in {"scan", "commit"} => HeightOf[batch'] < dh,
         ready' # NoBlock => HeightOf[ready'] < dh
  PROVE  WorkKeys'
<1>1. dh \in Nat BY HeightsAreCursors DEF TypeOK
<1>2. dh <= HeightOf[daemon'] + 1 BY <1>1 DEF WorkKeys, Rises
<1> QED BY <1>2 DEF WorkKeys, Found, Keyed, Marked

LEMMA IdleKeys == job' = "idle" => WorkKeys'
BY DEF WorkKeys

LEMMA BlobKeysStay ==
  ASSUME cache \subseteq Persisted, Rises, \A c \in cache : BlobKeys(c), cache' = cache
  PROVE  \A c \in cache' : BlobKeys(c)'
<1> SUFFICES ASSUME NEW c \in cache, c.gap = 0
             PROVE  Found(c.led, c.restore, c.cursor, HeightOf[daemon'] + 1) /\ Marked(c.led)
  BY DEF BlobKeys, Found, Marked
<1>1. c.led \in Ledger /\ c.restore \in Nat /\ c.cursor \in Nat
  <2>1. c.restore \in Height /\ c.cursor \in Cursor /\ c.led \in Ledger BY DEF Persisted
  <2> QED BY <2>1, HeightsAreCursors
<1>2. Found(c.led, c.restore, c.cursor, HeightOf[daemon] + 1) /\ Marked(c.led) BY DEF BlobKeys
<1>3. /\ HeightOf[daemon] + 1 \in Nat /\ HeightOf[daemon'] + 1 \in Nat
      /\ HeightOf[daemon] + 1 <= HeightOf[daemon'] + 1
      /\ c.restore <= c.restore /\ c.cursor <= c.cursor
  BY <1>1 DEF Rises
<1> QED BY <1>1, <1>2, <1>3, FoundUp

(* A checkpoint is below the tip, as the working copy is.                  *)
LEMMA CommitKeys ==
  ASSUME TypeOK, NEW l \in Ledger, NEW c \in Cursor, Found(l, restore, c, dh),
         dh <= HeightOf[daemon] + 1, Keyed(l, sealed), Commit(l, c),
         UNCHANGED daemon
  PROVE  StoreKeys'
<1>1. /\ restore \in Nat /\ c \in Nat /\ dh \in Nat /\ HeightOf[daemon] \in Nat
      /\ \A o \in Output : l.recv[o] \in Int
  BY HeightsAreCursors, LedgerHeights, ChainAssumption DEF TypeOK
<1>2. /\ led' = l /\ cursor' = Min2(Max2(c, restore), dh)
      /\ UNCHANGED <<restore, sealed>>
  BY DEF Commit
<1>3. \A x \in Int : x < c /\ x < dh => x < cursor' /\ x < HeightOf[daemon] + 1
  BY <1>1, <1>2 DEF Min2, Max2
<1>4. Found(l, restore, cursor', HeightOf[daemon] + 1) BY <1>1, <1>3 DEF Found
<1> QED BY <1>2, <1>4 DEF StoreKeys, Found, Keyed, Marked

LEMMA KeysEnvironment ==
  ASSUME TypeInv, Rises, gap = 0, gap' = 0, StoreKeys, WorkKeys, Environment
  PROVE  StoreKeys' /\ WorkKeys'
<1>0. /\ TypeOK /\ restore \in Nat /\ cursor \in Nat /\ led \in Ledger
      /\ restore \in Height /\ HeightOf[daemon] + 1 \in Nat
      /\ Height \subseteq Nat
  BY HeightsAreCursors DEF TypeInv, TypeOK, Rises
<1>1. ASSUME NEW b \in Block, DaemonMoves(b) \/ RequestCancel PROVE StoreKeys' /\ WorkKeys'
  <2>1. UNCHANGED <<led, restore, cursor, sealed, dh, work, cur, job, batch, ready>>
    BY <1>1 DEF DaemonMoves, RequestCancel, store, refresh
  <2>2. CASE job = "idle" BY <1>0, <2>1, <2>2, StoreKeysStay, IdleKeys
  <2>3. CASE job # "idle"
    BY <1>0, <2>1, <2>3, StoreKeysStay, WorkKeysStay DEF WorkKeys
  <2> QED BY <2>2, <2>3
<1>2. ASSUME SetGapLimit PROVE FALSE BY <1>2 DEF SetGapLimit
<1>3. ASSUME NEW h \in Height, RewindScanCursor(h) PROVE StoreKeys' /\ WorkKeys'
  <2> DEFINE e == Max2(h, restore)
  <2>1. e \in Nat /\ e <= e BY <1>0 DEF Max2
  <2>2. /\ led' = Rewind(led, e) /\ cursor' = e /\ job' = "idle"
        /\ UNCHANGED <<daemon, restore, sealed>>
    BY <1>3 DEF RewindScanCursor, HostCall
  <2> HIDE DEF e
  <2>3. /\ Found(Rewind(led, e), restore, e, HeightOf[daemon] + 1)
        /\ Keyed(Rewind(led, e), sealed)
    BY <1>0, <2>1, RewindKeys DEF StoreKeys
  <2>4. StoreKeys' BY <2>2, <2>3 DEF StoreKeys, Found, Keyed, Marked
  <2> QED BY <2>2, <2>4, IdleKeys
<1>4. ASSUME NEW h \in RescanTargets, ForceRescan(h) PROVE StoreKeys' /\ WorkKeys'
  BY <1>4, IdleKeys DEF ForceRescan, HostCall, StoreKeys, Found, Keyed, Marked, EmptyLedger
<1>5. ASSUME ResetTrackedOutputs PROVE StoreKeys' /\ WorkKeys'
  BY <1>5, IdleKeys
  DEF ResetTrackedOutputs, HostCall, StoreKeys, Found, Keyed, Marked, EmptyLedger
<1>6. ASSUME Seal PROVE StoreKeys' /\ WorkKeys'
  <2>1. job' = "idle" /\ sealed' /\ UNCHANGED <<daemon, led, cursor, restore>>
    BY <1>6 DEF Seal, HostCall
  <2> QED BY <2>1, IdleKeys DEF StoreKeys, Found, Keyed, Marked
<1>7. ASSUME Unseal PROVE StoreKeys' /\ WorkKeys'
  <2>1. job' = "idle" /\ UNCHANGED <<daemon, restore>> /\ SpendRescan(led, cursor, restore)
    BY <1>7, Zenon DEF Unseal, HostCall
  <2>2. Found(led', restore, cursor', HeightOf[daemon] + 1) /\ led'.blind = {}
    BY <1>0, <2>1, SpendRescanKeys DEF StoreKeys, Keyed
  <2>3. StoreKeys' BY <2>1, <2>2 DEF StoreKeys, Found, Keyed, Marked
  <2> QED BY <2>1, <2>3, IdleKeys
<1>8. Block # {} BY <1>0 DEF TypeOK
<1> QED BY <1>1, <1>2, <1>3, <1>4, <1>5, <1>6, <1>7, <1>8 DEF Environment
(* A proven fork point is no lower than the restore height.                *)
LEMMA ForkAboveRestore ==
  ASSUME TypeInv, NEW h \in Height, ForkAt(h)
  PROVE  restore <= h
<1>1. probe \in Nat /\ restore \in Nat
  BY HeightsAreCursors DEF ForkAt, Answered, TypeInv, ControlInv, TypeOK
<1>2. h = Max2(probe + 1, restore) \/ h = restore BY DEF ForkAt
<1> QED BY <1>1, <1>2 DEF Max2

LEMMA KeysProbe ==
  ASSUME TypeInv, Rises, StoreKeys, WorkKeys, StartRefresh \/ Probe
  PROVE  StoreKeys' /\ WorkKeys'
<1>0. /\ TypeOK /\ ControlInv /\ restore \in Nat /\ cursor \in Nat /\ led \in Ledger
      /\ work \in Ledger /\ cur \in Nat /\ dh \in Nat /\ cur \in Cursor
      /\ restore \in Height /\ HeightOf[daemon] \in Nat
      /\ Height \subseteq Nat /\ Height \subseteq Cursor /\ Cursor \subseteq Nat
  BY HeightsAreCursors DEF TypeInv, TypeOK, Rises
<1>1. ASSUME StartRefresh PROVE StoreKeys' /\ WorkKeys'
  <2> DEFINE c == Max2(cursor, restore)
             d == HeightOf[daemon] + 1
             e == Min2(Max2(Min2(c, d), restore), d)
  <2>1. /\ work' = led /\ cur' = c /\ dh' = d /\ cursor' = e
        /\ UNCHANGED <<daemon, led, restore, sealed, ready>>
        /\ job' \in {"loop", "resume"} /\ job = "idle"
    BY <1>1 DEF StartRefresh
  <2>2. ready = NoBlock BY <1>0, <2>1 DEF ControlInv
  <2>3. c \in Nat /\ d \in Nat /\ cursor <= c /\ restore <= c BY <1>0 DEF Max2
  <2>4. \A x \in Int : x < c /\ x < d => x < e BY <1>0, <2>3 DEF Min2, Max2
  <2>5. \A o \in Output : led.recv[o] \in Int /\ (led.recv[o] # NoHeight =>
          restore <= led.recv[o] /\ led.recv[o] < c /\ led.recv[o] < d /\ led.recv[o] < e)
    BY <1>0, <2>3, <2>4, LedgerHeights DEF StoreKeys, Found
  <2> HIDE DEF c, d, e
  <2>6. StoreKeys' BY <2>1, <2>5 DEF StoreKeys, Found, Keyed, Marked, d
  <2>7. WorkKeys' BY <2>1, <2>2, <2>3, <2>5 DEF StoreKeys, WorkKeys, Found, Keyed, Marked, d
  <2> QED BY <2>6, <2>7
<1>2. ASSUME ProbeDown \/ ResumeKeeps PROVE StoreKeys' /\ WorkKeys'
  <2>1. /\ UNCHANGED <<led, restore, cursor, sealed, dh, work, cur, batch, ready>>
        /\ job # "idle" /\ job' \in {"loop", "resume", "parent"}
    BY <1>2 DEF ProbeDown, ResumeKeeps, Answered, Probing, store, refresh
  <2> QED BY <1>0, <2>1, StoreKeysStay, WorkKeysStay DEF WorkKeys
<1>3. ASSUME ParentRetry PROVE StoreKeys' /\ WorkKeys'
  <2>1. /\ UNCHANGED <<led, restore, cursor, sealed, dh, work, cur, batch, ready>>
        /\ job # "idle" /\ job' = "loop"
    BY <1>3 DEF ParentRetry, ParentUnproven, store
  <2> QED BY <1>0, <2>1, StoreKeysStay, WorkKeysStay DEF WorkKeys
<1>4. ASSUME ResumeFails \/ ParentAborts PROVE StoreKeys' /\ WorkKeys'
  <2>1. UNCHANGED <<led, restore, cursor, sealed>> /\ job' = "idle"
    BY <1>4 DEF ResumeFails, ParentAborts, Stop, store
  <2> QED BY <1>0, <2>1, StoreKeysStay, IdleKeys
<1>5. ASSUME NEW h \in Height, NEW c \in Cursor, job # "idle", ForkAt(h),
             work' = Rewind(work, h), cur' = c, h <= c \/ cur <= c, restore <= c,
             Commit(Rewind(work, h), c), job' = "loop", UNCHANGED <<daemon, dh, ready>>
      PROVE  StoreKeys' /\ WorkKeys'
  <2>1. Found(work, restore, cur, dh) /\ dh <= HeightOf[daemon] + 1 /\ Keyed(work, sealed)
    BY <1>5 DEF WorkKeys
  <2>2. h \in Nat /\ c \in Nat BY <1>0
  <2>3. Found(Rewind(work, h), restore, c, dh) /\ Keyed(Rewind(work, h), sealed)
    BY <1>0, <1>5, <2>1, <2>2, RewindKeys
  <2>4. Rewind(work, h) \in Ledger
    <3>1. h \in Int BY <2>2
    <3> QED BY <1>0, <3>1, RewindType
  <2>5. StoreKeys' BY <1>0, <1>5, <2>1, <2>3, <2>4, CommitKeys
  <2>6. restore' = restore /\ sealed' = sealed BY <1>5 DEF Commit
  <2>7. ready # NoBlock => HeightOf[ready] < dh BY <1>5 DEF WorkKeys
  <2>8. Found(work', restore', cur', dh') /\ Keyed(work', sealed')
    BY <1>5, <2>3, <2>6 DEF Found, Keyed, Marked
  <2>9. WorkKeys' BY <1>5, <2>1, <2>6, <2>7, <2>8 DEF WorkKeys, Found, Keyed, Marked
  <2> QED BY <2>5, <2>9
<1>6. ASSUME NEW h \in Height, ResumeRewinds(h) PROVE StoreKeys' /\ WorkKeys'
  <2> DEFINE c == Min2(cur, h)
  <2>1. restore <= h BY <1>6, ForkAboveRestore DEF ResumeRewinds
  <2>2. restore <= cur BY <1>6 DEF ResumeRewinds, WorkKeys
  <2>3. c \in Cursor /\ (h <= c \/ cur <= c) /\ restore <= c
    BY <1>0, <2>1, <2>2 DEF Min2
  <2>4. /\ job # "idle" /\ ForkAt(h) /\ work' = Rewind(work, h) /\ cur' = c
        /\ Commit(Rewind(work, h), c) /\ job' = "loop" /\ UNCHANGED <<daemon, dh, ready>>
    BY <1>6 DEF ResumeRewinds
  <2> HIDE DEF c
  <2> QED BY <1>5, <2>3, <2>4
<1>7. ASSUME NEW h \in Height, ParentRewinds(h) PROVE StoreKeys' /\ WorkKeys'
  <2>1. restore <= h /\ h \in Cursor /\ h <= h
    BY <1>0, <1>7, ForkAboveRestore DEF ParentRewinds
  <2>2. /\ job # "idle" /\ ForkAt(h) /\ work' = Rewind(work, h) /\ cur' = h
        /\ Commit(Rewind(work, h), h) /\ job' = "loop" /\ UNCHANGED <<daemon, dh, ready>>
    BY <1>7 DEF ParentRewinds
  <2> QED BY <1>5, <2>1, <2>2
<1> QED BY <1>1, <1>2, <1>3, <1>4, <1>6, <1>7 DEF Probe

(* What a fetch returns is below the height the refresh runs to.           *)
LEMMA ResponseBelow ==
  ASSUME TypeOK, NEW c \in Cursor, NEW t \in Response(c)
  PROVE  HeightOf[t] < dh
<1>1. PICK e \in Height : e < Min2(dh, c + BatchSize) /\ e <= HeightOf[daemon] /\ t = Anc[daemon][e]
  BY DEF Response
<1>2. daemon \in Block /\ HeightOf[t] = e /\ e \in Int
  BY <1>1, Ancestors, ChainAssumption DEF TypeOK, Height
<1>3. dh \in Int /\ c + BatchSize \in Int
  BY HeightsAreCursors, RefreshAssumption DEF TypeOK
<1> QED BY <1>1, <1>2, <1>3 DEF Min2

LEMMA KeysBatch ==
  ASSUME TypeInv, Rises, StoreKeys, WorkKeys, Batch
  PROVE  StoreKeys' /\ WorkKeys'
<1>0. /\ TypeOK /\ ControlInv /\ restore \in Nat /\ cur \in Cursor /\ cur \in Nat
      /\ work \in Ledger /\ dh \in Nat /\ sealed \in BOOLEAN
      /\ Height \subseteq Nat /\ Cursor \subseteq Nat
  BY HeightsAreCursors DEF TypeInv, TypeOK
<1>1. ASSUME NEW t \in Block, ScanBatch(t) PROVE StoreKeys' /\ WorkKeys'
  <2>1. /\ UNCHANGED <<led, restore, cursor, sealed, dh, work, cur>>
        /\ job = "loop" /\ batch' = t /\ ready' = NoBlock
    BY <1>1 DEF ScanBatch, Scanning, store
  <2>2. HeightOf[t] < dh
    <3>1. CASE ready = NoBlock BY <1>0, <1>1, <3>1, ResponseBelow DEF ScanBatch, Fetched
    <3>2. CASE ready # NoBlock BY <1>1, <2>1, <3>2 DEF ScanBatch, Fetched, WorkKeys
    <3> QED BY <3>1, <3>2
  <2> QED BY <1>0, <2>1, <2>2, StoreKeysStay, WorkKeysStay
<1>2. ASSUME NEW t \in Block, ProbeParent(t) PROVE StoreKeys' /\ WorkKeys'
  <2>1. /\ UNCHANGED <<led, restore, cursor, sealed, dh, work, cur>>
        /\ job = "loop" /\ job' = "parent" /\ ready' = NoBlock
    BY <1>2 DEF ProbeParent, Scanning, store
  <2> QED BY <1>0, <2>1, StoreKeysStay, WorkKeysStay
<1>3. ASSUME NEW t \in Block, PrefetchArrives(t) PROVE StoreKeys' /\ WorkKeys'
  <2>1. /\ UNCHANGED <<led, restore, cursor, sealed, dh, work, cur, job, batch>>
        /\ job # "idle" /\ ready' = t /\ batch \in Block
    BY <1>0, <1>3 DEF PrefetchArrives, ControlInv, store
  <2>2. HeightOf[t] < dh
    <3>1. HeightOf[batch] + 1 \in Cursor BY <2>1, ChainAssumption DEF Height, Cursor
    <3> QED BY <1>0, <1>3, <3>1, ResponseBelow DEF PrefetchArrives
  <2> QED BY <1>0, <2>1, <2>2, StoreKeysStay, WorkKeysStay DEF WorkKeys
<1>4. ASSUME PrefetchFails PROVE StoreKeys' /\ WorkKeys'
  <2>1. /\ UNCHANGED <<led, restore, cursor, sealed, dh, work, cur, job, batch, ready>>
        /\ job # "idle"
    BY <1>0, <1>4 DEF PrefetchFails, ControlInv, store
  <2> QED BY <1>0, <2>1, StoreKeysStay, WorkKeysStay DEF WorkKeys
<1>5. ASSUME LoopCancelled \/ FetchFails \/ ScanStops PROVE StoreKeys' /\ WorkKeys'
  <2>1. UNCHANGED <<led, restore, cursor, sealed>> /\ job' = "idle"
    BY <1>5 DEF LoopCancelled, FetchFails, ScanStops, Stop, store
  <2> QED BY <1>0, <2>1, StoreKeysStay, IdleKeys
<1>6. ASSUME ScanNext PROVE StoreKeys' /\ WorkKeys'
  <2> DEFINE b == Anc[batch][cur]
             m == ScanBlock(work, b, gap, sealed, replay)
  <2>1. /\ UNCHANGED <<daemon, led, restore, cursor, sealed, dh, batch, ready>>
        /\ job = "scan" /\ job' \in {"scan", "commit"} /\ work' = m /\ cur' = cur + 1
    BY <1>6 DEF ScanNext, store
  <2>2. /\ restore <= cur /\ dh <= HeightOf[daemon] + 1 /\ Found(work, restore, cur, dh)
        /\ Keyed(work, sealed) /\ HeightOf[batch] < dh
        /\ (ready # NoBlock => HeightOf[ready] < dh)
    BY <2>1 DEF WorkKeys
  <2>3. batch \in Block /\ cur <= HeightOf[batch] /\ HeightOf[batch] \in Nat /\ cur \in Height
    <3>1. batch \in Block /\ cur <= HeightOf[batch] /\ HeightOf[batch] \in Height
      BY <1>0, <2>1, ChainAssumption DEF ControlInv
    <3> QED BY <1>0, <3>1, ChainAssumption DEF Height
  <2>4. b \in Block /\ HeightOf[b] = cur /\ cur < dh BY <1>0, <2>2, <2>3, Ancestors
  <2> HIDE DEF b
  <2>5. Found(m, restore, cur + 1, dh) /\ Keyed(m, sealed)
    BY <1>0, <2>2, <2>4, ScanBlockKeys
  <2>6. StoreKeys' BY <1>0, <2>1, StoreKeysStay
  <2> HIDE DEF m
  <2>7. restore <= cur + 1 BY <1>0, <2>2
  <2>8. WorkKeys' BY <2>1, <2>2, <2>5, <2>7 DEF WorkKeys, Found, Keyed, Marked
  <2> QED BY <2>6, <2>8
<1>7. ASSUME CommitBatch PROVE StoreKeys' /\ WorkKeys'
  <2>1. /\ UNCHANGED <<daemon, refresh>> /\ job = "commit" /\ job' = "loop" /\ Commit(work, cur)
    BY <1>7 DEF CommitBatch
  <2>2. StoreKeys' BY <1>0, <2>1, CommitKeys DEF WorkKeys
  <2>3. WorkKeys' BY <2>1 DEF WorkKeys, Found, Keyed, Marked, Commit, refresh
  <2> QED BY <2>2, <2>3
<1>8. ASSUME Finish PROVE StoreKeys' /\ WorkKeys'
  <2>1. UNCHANGED daemon /\ job = "loop" /\ job' = "idle" /\ Commit(work, cur)
    BY <1>8 DEF Finish, Stop
  <2>2. StoreKeys' BY <1>0, <2>1, CommitKeys DEF WorkKeys
  <2> QED BY <2>1, <2>2, IdleKeys
<1> QED BY <1>1, <1>2, <1>3, <1>4, <1>5, <1>6, <1>7, <1>8 DEF Batch
LEMMA KeysExport ==
  ASSUME CacheTypeInv, KeysInv, Rises, Export
  PROVE  KeysInv'
<1>0. TypeOK BY DEF CacheTypeInv, TypeInv
<1>1. /\ UNCHANGED <<daemon, led, restore, cursor, gap, sealed, dh, work, cur, job, batch, ready>>
      /\ cache' = {[led |-> led, cursor |-> cursor, restore |-> restore, gap |-> gap]}
  BY DEF Export, store, refresh
<1>2. ASSUME gap = 0 PROVE StoreKeys' /\ WorkKeys'
  <2>1. StoreKeys /\ WorkKeys BY <1>2 DEF KeysInv
  <2>2. StoreKeys' BY <1>0, <1>1, <2>1, StoreKeysStay
  <2>3. CASE job = "idle" BY <1>1, <2>2, <2>3, IdleKeys
  <2>4. CASE job # "idle" BY <1>0, <1>1, <2>1, <2>2, <2>4, WorkKeysStay DEF WorkKeys
  <2> QED BY <2>3, <2>4
<1>3. ASSUME NEW c \in cache' PROVE BlobKeys(c)'
  <2>1. c.led = led /\ c.cursor = cursor /\ c.restore = restore /\ c.gap = gap
    BY <1>1, <1>3
  <2>2. gap = 0 => Found(led, restore, cursor, HeightOf[daemon] + 1) /\ Marked(led)
    BY DEF KeysInv, StoreKeys, Keyed
  <2> QED BY <1>1, <2>1, <2>2 DEF BlobKeys, Found, Marked
<1> QED BY <1>1, <1>2, <1>3 DEF KeysInv

LEMMA KeysRestart ==
  ASSUME CacheTypeInv, KeysInv, Rises, NEW r \in Restores, Restart(r)
  PROVE  KeysInv'
<1>1. led' = EmptyLedger /\ job' = "idle" /\ cache' = cache BY DEF Restart, Stop
<1>2. StoreKeys' BY <1>1 DEF StoreKeys, Found, Keyed, Marked, EmptyLedger
<1>3. WorkKeys' BY <1>1, IdleKeys
<1>4. \A c \in cache' : BlobKeys(c)' BY <1>1, BlobKeysStay DEF CacheTypeInv, KeysInv
<1> QED BY <1>2, <1>3, <1>4 DEF KeysInv

LEMMA KeysReopen ==
  ASSUME CacheTypeInv, KeysInv, Rises, NEW r \in Restores, Reopen(r)
  PROVE  KeysInv'
<1> DEFINE d == HeightOf[daemon] + 1
<1>0. /\ TypeOK /\ restore \in Nat /\ cursor \in Nat /\ led \in Ledger /\ r \in Nat
      /\ d \in Nat
  BY HeightsAreCursors, RefreshAssumption DEF CacheTypeInv, TypeInv, TypeOK, Rises
<1>1. /\ UNCHANGED <<daemon, gap, cache>> /\ job' = "idle" /\ sealed' = FALSE
      /\ restore' = Min2(r, restore)
  BY Zenon DEF Reopen
<1>2. restore' \in Nat /\ restore' <= restore BY <1>0, <1>1 DEF Min2
<1>3. ASSUME gap = 0 PROVE StoreKeys'
  <2>1. Found(led, restore, cursor, d) /\ Marked(led) BY <1>3 DEF KeysInv, StoreKeys, Keyed
  <2>2. cursor' \in Nat /\ Found(led', restore', cursor', d) /\ led'.blind = {}
    <3>1. CASE led.marker = NoHeight
      <4>1. led' = led /\ cursor' = Max2(cursor, restore') BY <3>1 DEF Reopen
      <4>2. cursor' \in Nat /\ cursor <= cursor' /\ d <= d BY <1>0, <1>2, <4>1 DEF Max2
      <4> HIDE DEF d
      <4>3. Found(led, restore', cursor', d) BY <1>0, <1>2, <2>1, <4>2, FoundUp
      <4>4. led.blind = {} BY <2>1, <3>1 DEF Marked
      <4> QED BY <4>1, <4>2, <4>3, <4>4
    <3>2. CASE led.marker # NoHeight
      <4> DEFINE h == UnsealHeight(led, cursor, restore)
                 m == [Rewind(led, h) EXCEPT !.marker = NoHeight]
      <4>1. led' = m /\ cursor' = Max2(h, restore') BY <3>2, Zenon DEF Reopen
      <4> HIDE DEF d
      <4>2. h \in Nat /\ Found(m, restore, h, d) /\ m.blind = {}
        BY <1>0, <2>1, <3>2, UnsealKeys
      <4>3. m \in Ledger
        <5> HIDE DEF h
        <5>1. h \in Int BY <4>2
        <5>2. Rewind(led, h) \in Ledger BY <1>0, <5>1, RewindType
        <5> QED BY <5>2 DEF Ledger, HeightOrNone
      <4> HIDE DEF h, m
      <4>4. cursor' \in Nat /\ h <= cursor' /\ d <= d BY <1>0, <1>2, <4>1, <4>2 DEF Max2
      <4>5. Found(m, restore', cursor', d) BY <1>0, <1>2, <4>2, <4>3, <4>4, FoundUp
      <4> QED BY <4>1, <4>2, <4>4, <4>5
    <3> QED BY <3>1, <3>2
  <2> QED BY <1>1, <2>2 DEF StoreKeys, Found, Keyed, Marked
<1>4. WorkKeys' BY <1>1, IdleKeys
<1>5. \A c \in cache' : BlobKeys(c)' BY <1>1, BlobKeysStay DEF CacheTypeInv, KeysInv
<1> QED BY <1>1, <1>3, <1>4, <1>5 DEF KeysInv

LEMMA KeysImport ==
  ASSUME CacheTypeInv, KeysInv, Rises, NEW c \in cache, Import(c)
  PROVE  KeysInv'
<1> DEFINE d == HeightOf[daemon] + 1
           e == ImportedCursor(c)
<1>0. /\ TypeOK /\ c \in Persisted /\ d \in Nat /\ restore \in Nat
  BY HeightsAreCursors DEF CacheTypeInv, TypeInv, TypeOK, Rises
<1>1. c.led \in Ledger /\ c.restore \in Nat /\ c.cursor \in Nat /\ c.gap \in Nat /\ gap \in Nat
  <2>1. /\ c.restore \in Height /\ c.cursor \in Cursor /\ c.led \in Ledger
        /\ c.gap \in 0 .. MaxGap /\ gap \in 0 .. MaxGap
    BY <1>0 DEF Persisted, TypeOK
  <2>2. c.restore \in Nat /\ c.cursor \in Nat BY <2>1, HeightsAreCursors
  <2>3. c.gap \in Nat /\ gap \in Nat BY <2>1, PaymentAssumption
  <2> QED BY <2>1, <2>2, <2>3
<1>2. /\ UNCHANGED <<daemon, sealed, cache>> /\ job' = "idle" /\ restore' = c.restore
      /\ gap' = Coverage(c)
  BY Zenon DEF Import
<1>3. ASSUME gap' = 0 PROVE StoreKeys'
  <2>1. c.gap = 0 /\ Coverage(c) = 0
    <3>1. Coverage(c) >= c.gap BY <1>0, CoverageType
    <3> QED BY <1>1, <1>2, <1>3, <3>1
  <2>2. Found(c.led, c.restore, c.cursor, d) /\ Marked(c.led)
    BY <2>1 DEF KeysInv, BlobKeys
  <2>3. e = Max2(c.cursor, restore) BY <2>1 DEF ImportedCursor
  <2>4. e \in Nat /\ c.cursor <= e /\ c.restore <= c.restore /\ d <= d
    BY <1>0, <1>1, <2>3 DEF Max2
  <2> HIDE DEF d, e
  <2>5. Found(c.led, c.restore, e, d) BY <1>0, <1>1, <2>2, <2>4, FoundUp
  <2>6. CASE sealed
    <3>1. led' = c.led /\ cursor' = e BY <2>6 DEF Import, e
    <3> QED BY <1>2, <2>2, <2>5, <2>6, <3>1 DEF StoreKeys, Found, Keyed, Marked, d
  <2>7. CASE ~sealed
    <3>1. SpendRescan(c.led, e, c.restore) BY <2>7, Zenon DEF Import, RescanOnImport, e
    <3>2. Found(led', c.restore, cursor', d) /\ led'.blind = {}
      BY <1>0, <1>1, <2>2, <2>4, <2>5, <3>1, SpendRescanKeys
    <3> QED BY <1>2, <3>2 DEF StoreKeys, Found, Keyed, Marked, d
  <2> QED BY <2>6, <2>7
<1>4. WorkKeys' BY <1>2, IdleKeys
<1>5. \A b \in cache' : BlobKeys(b)' BY <1>2, BlobKeysStay DEF CacheTypeInv, KeysInv
<1> QED BY <1>3, <1>4, <1>5 DEF KeysInv

LEMMA KeysInductive ==
  ASSUME RisingTips
  PROVE  CacheTypeInv /\ KeysInv /\ [CacheNext]_cacheVars => KeysInv'
<1> SUFFICES ASSUME CacheTypeInv, KeysInv, [CacheNext]_cacheVars PROVE KeysInv'
  OBVIOUS
<1>0. TypeInv /\ TypeOK BY DEF CacheTypeInv, TypeInv
<1>1. HeightOf[daemon] \in Nat /\ HeightOf[daemon'] \in Nat
  <2>1. CacheTypeInv' BY CacheTypeInductive
  <2>2. daemon \in Block /\ daemon' \in Block
    BY <1>0, <2>1 DEF CacheTypeInv, TypeInv, TypeOK
  <2>3. HeightOf[daemon] \in Height /\ HeightOf[daemon'] \in Height BY <2>2, ChainAssumption
  <2> QED BY <2>3, HeightsAreCursors
<1>2. CASE Next /\ UNCHANGED cache
  <2>1. Rises BY <1>0, <1>1, <1>2, NextDaemon DEF Rises
  <2>2. ASSUME gap' = 0 PROVE StoreKeys' /\ WorkKeys'
    <3>1. gap = 0
      <4>1. gap' >= gap BY <1>0, <1>2, NextSettings
      <4> QED BY <1>0, <2>2, <4>1, PaymentAssumption DEF TypeOK
    <3>2. StoreKeys /\ WorkKeys BY <3>1 DEF KeysInv
    <3> QED BY <1>0, <1>2, <2>1, <2>2, <3>1, <3>2, KeysEnvironment, KeysProbe, KeysBatch
        DEF Next, RefreshStep
  <2>3. \A c \in cache' : BlobKeys(c)' BY <1>2, <2>1, BlobKeysStay DEF CacheTypeInv, KeysInv
  <2> QED BY <2>2, <2>3 DEF KeysInv
<1>3. CASE CacheStep
  <2>1. daemon' = daemon
    <3>1. CASE Export BY <3>1 DEF Export
    <3>2. ASSUME NEW r \in Restores, Restart(r) PROVE daemon' = daemon BY <3>2 DEF Restart
    <3>3. ASSUME NEW r \in Restores, Reopen(r) PROVE daemon' = daemon BY <3>3, Zenon DEF Reopen
    <3>4. ASSUME NEW c \in cache, Import(c) PROVE daemon' = daemon BY <3>4, Zenon DEF Import
    <3> QED BY <1>3, <3>1, <3>2, <3>3, <3>4 DEF CacheStep
  <2>2. Rises BY <1>1, <2>1 DEF Rises
  <2> QED BY <1>3, <2>2, KeysExport, KeysRestart, KeysReopen, KeysImport DEF CacheStep
<1>4. CASE UNCHANGED cacheVars
  BY <1>4 DEF cacheVars, vars, store, refresh, KeysInv, StoreKeys, WorkKeys, BlobKeys, Found,
              Keyed, Marked
<1> QED BY <1>2, <1>3, <1>4 DEF CacheNext

(* A wallet that holds its spend key and was never widened knows the key   *)
(* image of every output it tracks: what a sealed scan, an export or a     *)
(* restart left without one was rewound when the key came back.            *)
THEOREM KeyImagesSurvive ==
  ASSUME RisingTips
  PROVE  CacheSpec => []KeyImagesKnown
<1>1. CacheInit => KeysInv
  BY DEF CacheInit, Init, KeysInv, StoreKeys, WorkKeys, Found, Keyed, Marked, EmptyLedger
<1>2. CacheTypeInv /\ KeysInv /\ [CacheNext]_cacheVars => KeysInv' BY KeysInductive
<1>3. KeysInv => KeyImagesKnown BY DEF KeysInv, StoreKeys, Keyed, KeyImagesKnown
<1> QED BY <1>1, <1>2, <1>3, CacheTypeInit, CacheTypeInductive, PTL DEF CacheSpec
=============================================================================
