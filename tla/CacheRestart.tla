---------------------------- MODULE CacheRestart ----------------------------
(***************************************************************************)
(* RefreshScan and the death of the process.  The host keeps one cache     *)
(* blob; it may export at any time, also while a refresh runs, opens the   *)
(* wallet again after a restart, and imports the blob into a wallet that   *)
(* meanwhile may have scanned, been sealed or be on another branch.        *)
(***************************************************************************)
EXTENDS RefreshScan, FiniteSetsExt

VARIABLE cache   \* the blob the host has saved, {} before the first export

cacheVars == <<vars, cache>>

(* PersistedWallet, without what is derived from it on import.             *)
Persisted == [led : Ledger, cursor : Cursor, restore : Height, gap : 0 .. MaxGap]

CacheTypeOK == TypeOK /\ cache \subseteq Persisted

CacheInit == Init /\ cache = {}

-----------------------------------------------------------------------------
(* wallet_export_cache: one copy of the store under its lock; a running    *)
(* refresh does not refuse it.                                             *)
Export ==
  /\ Event
  /\ cache' = {[led |-> led, cursor |-> cursor, restore |-> restore, gap |-> gap]}
  /\ UNCHANGED <<daemon, store, cancel, job, refresh>>

(* The process dies at any point; the host opens the wallet again.         *)
Restart(r) ==
  /\ Event
  /\ led' = EmptyLedger
  /\ restore' = r
  /\ cursor' = r
  /\ gap' = 0
  /\ sealed' = FALSE
  /\ cancel' = FALSE
  /\ Stop
  /\ work' = EmptyLedger
  /\ cur' = r
  /\ dh' = 0
  /\ replay' = {}
  /\ batch' = NoBlock
  /\ probe' = NoHeight
  /\ fails' = 0
  /\ UNCHANGED <<daemon, cache>>

(* wallet_open_from_mnemonic of a wallet that is open already.             *)
Reopen(r) ==
  /\ Event
  /\ job = "idle"
  /\ sealed' = FALSE
  /\ restore' = Min2(r, restore)
  /\ LET h == UnsealHeight(led, cursor, restore)
     IN IF led.marker = NoHeight
        THEN led' = led /\ cursor' = Max2(cursor, restore')
        ELSE /\ led' = [Rewind(led, h) EXCEPT !.marker = NoHeight]
             /\ cursor' = Max2(h, restore')
  /\ UNCHANGED <<daemon, gap, cancel, job, refresh, cache>>

-----------------------------------------------------------------------------
(* Mutant: the coverage is the one of the blob.                            *)
CoverageOfBlob(c) == c.gap

(* Coverage never shrinks: neither below what the open wallet watches nor  *)
(* below an output of the blob.                                            *)
Coverage(c) == Max({c.gap, gap} \cup {Minor[o] : o \in Tracked(c.led)})

(* Mutant: the coverage grows, the cursor stays.                           *)
CursorOfBlob(c) == Max2(c.cursor, restore)

(* apply_to_state, then expand_scan_coverage, which restarts the scan at   *)
(* the restore height of the blob.                                         *)
ImportedCursor(c) ==
  IF Coverage(c) > c.gap THEN c.restore ELSE Max2(c.cursor, restore)

(* Mutant: the rescan is left to an unseal call.                           *)
NoRescan(l, c, r) == led' = l /\ cursor' = c

(* A blob saved by a view-only scan meets a wallet that was opened with    *)
(* its mnemonic, for which nobody will call unseal.                        *)
RescanOnImport(l, c, r) == SpendRescan(l, c, r)

(* cache_identity_matches: the wallet's choice of restore height bounds    *)
(* the one of the blob.                                                    *)
Accepted(c) == c.restore <= restore

Import(c) ==
  /\ Event
  /\ job = "idle"
  /\ Accepted(c)
  /\ restore' = c.restore
  /\ gap' = Coverage(c)
  /\ IF sealed
     THEN led' = c.led /\ cursor' = ImportedCursor(c)
     ELSE RescanOnImport(c.led, ImportedCursor(c), c.restore)
  /\ UNCHANGED <<daemon, sealed, cancel, job, refresh, cache>>

-----------------------------------------------------------------------------
CacheStep ==
  \/ Export
  \/ \E r \in Restores : Restart(r) \/ Reopen(r)
  \/ \E c \in cache : Import(c)

CacheNext ==
  \/ Next /\ UNCHANGED cache
  \/ CacheStep

CacheSpec == CacheInit /\ [][CacheNext]_cacheVars

(* A host that never opens an open wallet at an earlier restore height,    *)
(* nor lets an import move the cursor past what the blob has scanned; the  *)
(* run reopen_lower has what happens otherwise.                            *)
SteadyNext ==
  \/ Next /\ UNCHANGED cache
  \/ Export
  \/ \E r \in Restores : Restart(r) \/ (restore <= r /\ Reopen(r))
  \/ \E c \in cache : ImportedCursor(c) <= Max2(c.cursor, c.restore) /\ Import(c)

SteadySpec == CacheInit /\ [][SteadyNext]_cacheVars

-----------------------------------------------------------------------------
(* Properties, next to StoreIsPrefixScan of RefreshScan.                   *)

(* A wallet that holds its spend key knows the key image of every tracked  *)
(* output, whatever was sealed, exported, killed or imported in between,   *)
(* so that no spend goes unnoticed.  Growing the coverage can break this   *)
(* (KeyImagesRebuilt), hence gap = 0; so can a daemon that answers from    *)
(* lower tips in between.                                                  *)
KeyImagesKnown == gap = 0 /\ ~sealed => led.blind = {}

(* README.md:71: "Coverage is monotonic, including across cache imports":  *)
(* only the death of the process forgets it.                               *)
CoverageMonotonic ==
  [][gap' >= gap \/ \E r \in Restores : Restart(r)]_cacheVars
=============================================================================
