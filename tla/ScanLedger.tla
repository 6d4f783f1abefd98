----------------------------- MODULE ScanLedger -----------------------------
(***************************************************************************)
(* The scan artefacts of a wallet and the operations of lib.rs and         *)
(* refresh.rs on them.  They exist twice: committed in WALLET_STORE and as *)
(* the working copy of a refresh.                                          *)
(*   recv    block_height of each tracked output (NoHeight: not tracked)   *)
(*   spent   spending_height of each tracked output (NoHeight: unspent)    *)
(*   blind   tracked outputs whose key_image is zero, found while sealed   *)
(*   marker  spend_rescan_from                                             *)
(*   win     recent_block_hashes: the hash held for a height, NoBlock      *)
(*           outside the window (the start index is the lowest such height)*)
(***************************************************************************)
EXTENDS MoneroChain

CONSTANT HashWindow   \* RECENT_BLOCK_HASHES_MAX

ASSUME HashWindowAssumption == HashWindow \in Nat \ {0}

NoHeight == -1
HeightOrNone == Height \cup {NoHeight}
Cursor == 0 .. MaxHeight + 1      \* "next height to scan"

Ledger == [recv   : [Output -> HeightOrNone],
           spent  : [Output -> HeightOrNone],
           blind  : SUBSET Output,
           marker : HeightOrNone,
           win    : [Height -> Block \cup {NoBlock}]]

EmptyLedger == [recv   |-> [o \in Output |-> NoHeight],
                spent  |-> [o \in Output |-> NoHeight],
                blind  |-> {},
                marker |-> NoHeight,
                win    |-> [h \in Height |-> NoBlock]]

Min2(a, b) == IF a < b THEN a ELSE b
Max2(a, b) == IF a > b THEN a ELSE b

Tracked(l) == {o \in Output : l.recv[o] # NoHeight}

-----------------------------------------------------------------------------
(* The recent hash window.                                                 *)

WindowEmpty(l) == \A h \in Height : l.win[h] = NoBlock

IsWindowTip(l, h) ==
  /\ l.win[h] # NoBlock
  /\ h < MaxHeight => l.win[h + 1] = NoBlock

(* recent_hash_at(.., start.saturating_sub(1)): at height zero the         *)
(* subtraction saturates and the lookup answers for height zero itself.    *)
ExpectedPrev(l, start) == l.win[IF start = 0 THEN 0 ELSE start - 1]

(* A hash inside the window or right behind it keeps the older entries;    *)
(* a hash before the window or past a gap resets it to that single height. *)
JoinsWindow(l, h) ==
  \/ l.win[h] # NoBlock
  \/ h > 0 /\ l.win[h - 1] # NoBlock

(* Mutant: an overlapping hash does not truncate the window behind it.     *)
PushWithoutTruncation(l, h, b) ==
  [x \in Height |->
     IF x = h THEN b
     ELSE IF h < x + HashWindow /\ JoinsWindow(l, h) THEN l.win[x] ELSE NoBlock]

(* Mutant: the window is drained one entry too late.                       *)
PushOneTooMany(l, h, b) ==
  [x \in Height |->
     IF x = h THEN b
     ELSE IF x < h /\ h <= x + HashWindow /\ JoinsWindow(l, h)
          THEN l.win[x]
          ELSE NoBlock]

PushRecentBlockHash(l, h, b) ==
  [x \in Height |->
     IF x = h THEN b
     ELSE IF x < h /\ h < x + HashWindow /\ JoinsWindow(l, h)
          THEN l.win[x]
          ELSE NoBlock]

-----------------------------------------------------------------------------
(* Mutant: spends seen on the abandoned branch survive the rewind.         *)
RewindKeepsSpends(l, h) ==
  [recv   |-> [o \in Output |->
                 IF l.recv[o] < h THEN l.recv[o] ELSE NoHeight],
   spent  |-> [o \in Output |->
                 IF l.recv[o] < h THEN l.spent[o] ELSE NoHeight],
   blind  |-> {o \in l.blind : l.recv[o] < h},
   marker |-> l.marker,
   win    |-> [x \in Height |-> IF x < h THEN l.win[x] ELSE NoBlock]]

(* rewind_working_state_to_height: the next height scanned is h.           *)
Rewind(l, h) ==
  [recv   |-> [o \in Output |->
                 IF l.recv[o] < h THEN l.recv[o] ELSE NoHeight],
   spent  |-> [o \in Output |->
                 IF l.recv[o] < h /\ l.spent[o] < h
                 THEN l.spent[o] ELSE NoHeight],
   blind  |-> {o \in l.blind : l.recv[o] < h},
   marker |-> l.marker,
   win    |-> [x \in Height |-> IF x < h THEN l.win[x] ELSE NoBlock]]

-----------------------------------------------------------------------------
(* One block of a batch, in the order of the loop body: hash window,       *)
(* reconciliation of replayed heights, spends, then owned outputs.         *)

(* Owned outputs the scanner reports in b at a given coverage.             *)
Owned(b, gap) == {o \in Receives[b] : Minor[o] <= gap}

(* reconcile_replayed_height: outputs recorded at this height whose        *)
(* transaction the block no longer contains.                               *)
Dropped(l, b, replay) ==
  {o \in Output : /\ HeightOf[b] \in replay
                  /\ l.recv[o] = HeightOf[b]
                  /\ o \notin Receives[b]}

(* ... and spends recorded at this height that the block does not show.    *)
Unspent(l, b, replay) ==
  {o \in Output : /\ HeightOf[b] \in replay
                  /\ l.spent[o] = HeightOf[b]
                  /\ (o \notin Spends[b] \/ o \in l.blind)}

(* Key images of tracked outputs seen in the block; a zero key image is    *)
(* never in the map.                                                       *)
SpentHere(l, b, replay) ==
  {o \in Tracked(l) \ Dropped(l, b, replay) : o \in Spends[b] /\ o \notin l.blind}

Fresh(l, b, gap, replay) ==
  {o \in Owned(b, gap) : o \notin Tracked(l) \ Dropped(l, b, replay)}

(* Mutant: the marker of the first sealed scan is never lowered.           *)
FirstRescanMarker(marker, h) == IF marker = NoHeight THEN h ELSE marker

(* working_spend_rescan_from after an output found at h while sealed.      *)
SpendRescanFrom(marker, h) == IF marker = NoHeight THEN h ELSE Min2(marker, h)

ScanBlock(l, b, gap, sealed, replay) ==
  LET h     == HeightOf[b]
      drop  == Dropped(l, b, replay)
      fresh == Fresh(l, b, gap, replay)
  IN [recv   |-> [o \in Output |->
                    IF o \in Owned(b, gap) THEN h   \* new, or relocated
                    ELSE IF o \in drop THEN NoHeight
                    ELSE l.recv[o]],
      spent  |-> [o \in Output |->
                    IF o \in SpentHere(l, b, replay) THEN h
                    ELSE IF o \in drop \cup fresh \cup Unspent(l, b, replay)
                         THEN NoHeight
                    ELSE l.spent[o]],
      blind  |-> (l.blind \ drop) \cup (IF sealed THEN fresh ELSE {}),
      marker |-> IF sealed /\ fresh # {}
                 THEN SpendRescanFrom(l.marker, h) ELSE l.marker,
      win    |-> PushRecentBlockHash(l, h, b)]
=============================================================================
