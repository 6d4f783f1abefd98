-------------------------- MODULE RefreshScanProofs --------------------------
(***************************************************************************)
(* What RefreshScan guarantees for every block tree, every set of outputs  *)
(* and every choice of the constants.                                      *)
(***************************************************************************)
EXTENDS RefreshScan, TLAPS

-----------------------------------------------------------------------------
(* Typing of the ledger operations.                                        *)

(* Rewinding keeps a ledger a ledger.                                      *)
LEMMA RewindType ==
  ASSUME NEW l \in Ledger, NEW h \in Int
  PROVE  Rewind(l, h) \in Ledger
BY DEF Rewind, Ledger, HeightOrNone, NoHeight, Height

(* Scanning a block keeps a ledger a ledger.                               *)
LEMMA ScanBlockType ==
  ASSUME NEW l \in Ledger, NEW b \in Block, NEW g \in Nat, NEW s \in BOOLEAN,
         NEW r \in SUBSET Height
  PROVE  ScanBlock(l, b, g, s, r) \in Ledger
<1> DEFINE h == HeightOf[b]
<1>1. h \in Height /\ MaxHeight \in Nat BY ChainAssumption
<1>2. ScanBlock(l, b, g, s, r).recv \in [Output -> HeightOrNone]
  BY <1>1 DEF ScanBlock, Ledger, HeightOrNone
<1>3. ScanBlock(l, b, g, s, r).spent \in [Output -> HeightOrNone]
  BY <1>1 DEF ScanBlock, Ledger, HeightOrNone
<1>4. ScanBlock(l, b, g, s, r).blind \in SUBSET Output
  BY PaymentAssumption DEF ScanBlock, Ledger, Fresh, Owned, Dropped
<1>5. ScanBlock(l, b, g, s, r).marker \in HeightOrNone
  BY <1>1 DEF ScanBlock, Ledger, HeightOrNone, SpendRescanFrom, Min2, Height, NoHeight
<1>6. ScanBlock(l, b, g, s, r).win \in [Height -> Block \cup {NoBlock}]
  BY DEF ScanBlock, Ledger, PushRecentBlockHash
<1> QED BY <1>2, <1>3, <1>4, <1>5, <1>6 DEF ScanBlock, Ledger

-----------------------------------------------------------------------------
(* Type correctness.  The types of the working copy need to know where the *)
(* refresh is: which block is scanned next, what a prefetch can hold, and  *)
(* that the probe walks recorded heights.                                  *)

ControlInv ==
  /\ job \in {"scan", "commit"} => batch \in Block
  /\ job = "scan" => cur <= HeightOf[batch]
  /\ job = "commit" => cur = HeightOf[batch] + 1
  /\ fetching => job \in {"scan", "commit"}
  /\ ready # NoBlock => job \in {"loop", "scan", "commit"}
  /\ ready # NoBlock /\ job = "loop" => cur <= HeightOf[ready]
  /\ ready # NoBlock /\ job # "loop" => HeightOf[batch] < HeightOf[ready]
  /\ Probing => probe \in Height /\ work.win[probe] # NoBlock

TypeInv == TypeOK /\ ControlInv

(* What a fetch at c returns is a block of the daemon's chain above c.     *)
LEMMA ResponseType ==
  ASSUME TypeOK, NEW c \in Cursor, NEW t \in Response(c)
  PROVE  t \in Block /\ c <= HeightOf[t]
<1>1. PICK e \in Height : c <= e /\ e <= HeightOf[daemon] /\ t = Anc[daemon][e]
  BY DEF Response
<1>2. daemon \in Block BY DEF TypeOK
<1> QED BY <1>1, <1>2, ChainAssumption

(* Heights stay cursors under the arithmetic of a checkpoint.              *)
LEMMA CursorType ==
  ASSUME NEW c \in Cursor, NEW r \in Height, NEW d \in Cursor
  PROVE  /\ Min2(Max2(c, r), d) \in Cursor
         /\ Max2(c, r) \in Cursor
         /\ Min2(c, d) \in Cursor
BY ChainAssumption DEF Min2, Max2, Cursor, Height

(* A proven fork point is a height.                                        *)
LEMMA HeightsAreCursors == Height \subseteq Cursor /\ Cursor \subseteq Nat
BY ChainAssumption DEF Height, Cursor

LEMMA TypeInit == Init => TypeInv
<1> SUFFICES ASSUME Init PROVE TypeInv
  OBVIOUS
<1>1. EmptyLedger \in Ledger
  BY DEF EmptyLedger, Ledger, HeightOrNone
<1>2. restore \in Height /\ daemon \in Block
  BY RefreshAssumption DEF Init
<1>3. 0 \in Cursor /\ 0 \in 0 .. MaxEvents /\ 0 \in 0 .. MaxGap /\ 0 \in 0 .. ProbeRetryLimit
  BY ChainAssumption, PaymentAssumption, RefreshAssumption DEF Cursor
<1>4. TypeOK
  BY <1>1, <1>2, <1>3, HeightsAreCursors DEF Init, TypeOK, HeightOrNone, Jobs
<1>5. ControlInv
  BY DEF Init, ControlInv, Probing
<1> QED BY <1>4, <1>5 DEF TypeInv

(* Environment steps leave the refresh alone; host calls run while idle.   *)
LEMMA TypeEnvironment == TypeInv /\ Environment => TypeInv'
<1> SUFFICES ASSUME TypeInv, Environment PROVE TypeInv'
  OBVIOUS
<1> USE DEF TypeInv
<1>1. ASSUME NEW b \in Block, DaemonMoves(b) PROVE TypeInv'
  <2>1. TypeOK' BY <1>1, RefreshAssumption DEF DaemonMoves, Event, TypeOK, store, refresh
  <2>2. ControlInv' BY <1>1 DEF DaemonMoves, ControlInv, Probing, refresh
  <2> QED BY <2>1, <2>2
<1>2. ASSUME RequestCancel PROVE TypeInv'
  <2>1. TypeOK' BY <1>2, RefreshAssumption DEF RequestCancel, Event, TypeOK, store, refresh
  <2>2. ControlInv' BY <1>2 DEF RequestCancel, ControlInv, Probing, refresh
  <2> QED BY <2>1, <2>2
<1>3. ASSUME SetGapLimit PROVE TypeInv'
  <2>1. gap' \in 0 .. MaxGap BY <1>3, PaymentAssumption DEF SetGapLimit, TypeOK
  <2>2. cursor' \in Cursor BY <1>3, HeightsAreCursors DEF SetGapLimit, TypeOK
  <2>3. TypeOK' BY <1>3, <2>1, <2>2, RefreshAssumption DEF SetGapLimit, HostCall, Event, TypeOK, refresh
  <2>4. ControlInv' BY <1>3 DEF SetGapLimit, ControlInv, Probing, refresh
  <2> QED BY <2>3, <2>4
<1>4. ASSUME NEW h \in Height, RewindScanCursor(h) PROVE TypeInv'
  <2>1. Max2(h, restore) \in Height /\ Height \subseteq Int BY DEF TypeOK, Max2, Height
  <2>2. led' \in Ledger BY <1>4, <2>1, RewindType DEF RewindScanCursor, TypeOK
  <2>0. cursor' \in Cursor BY <1>4, <2>1, HeightsAreCursors DEF RewindScanCursor
  <2>3. TypeOK'
    BY <1>4, <2>0, <2>2, RefreshAssumption
    DEF RewindScanCursor, HostCall, Event, TypeOK, refresh
  <2>4. ControlInv' BY <1>4 DEF RewindScanCursor, ControlInv, Probing, refresh
  <2> QED BY <2>3, <2>4
<1>5. ASSUME NEW h \in RescanTargets, ForceRescan(h) PROVE TypeInv'
  <2>1. h \in Height BY RefreshAssumption
  <2>2. EmptyLedger \in Ledger BY DEF EmptyLedger, Ledger, HeightOrNone
  <2>3. TypeOK'
    BY <1>5, <2>1, <2>2, HeightsAreCursors, RefreshAssumption
    DEF ForceRescan, HostCall, Event, TypeOK, refresh
  <2>4. ControlInv' BY <1>5 DEF ForceRescan, ControlInv, Probing, refresh
  <2> QED BY <2>3, <2>4
<1>6. ASSUME ResetTrackedOutputs PROVE TypeInv'
  <2>1. led' \in Ledger
    BY <1>6 DEF ResetTrackedOutputs, TypeOK, EmptyLedger, Ledger, HeightOrNone
  <2>2. TypeOK'
    BY <1>6, <2>1, RefreshAssumption DEF ResetTrackedOutputs, HostCall, Event, TypeOK, refresh
  <2>3. ControlInv' BY <1>6 DEF ResetTrackedOutputs, ControlInv, Probing, refresh
  <2> QED BY <2>2, <2>3
<1>7. ASSUME Seal PROVE TypeInv'
  <2>1. TypeOK' BY <1>7, RefreshAssumption DEF Seal, HostCall, Event, TypeOK, refresh
  <2>2. ControlInv' BY <1>7 DEF Seal, ControlInv, Probing, refresh
  <2> QED BY <2>1, <2>2
<1>8. ASSUME Unseal PROVE TypeInv'
  <2>1. led' \in Ledger /\ cursor' \in Cursor
    <3>1. CASE led.marker = NoHeight BY <1>8, <3>1 DEF Unseal, SpendRescan, TypeOK
    <3>2. CASE led.marker # NoHeight
      <4>1. led.marker \in Height BY <3>2 DEF TypeOK, Ledger, HeightOrNone
      <4>2. UnsealHeight(led, cursor, restore) \in Cursor /\ UnsealHeight(led, cursor, restore) \in Int
        BY <4>1, ChainAssumption DEF UnsealHeight, TypeOK, Min2, Max2, Cursor, Height
      <4>3. Rewind(led, UnsealHeight(led, cursor, restore)) \in Ledger BY <4>2, RewindType DEF TypeOK
      <4> QED BY <1>8, <3>2, <4>2, <4>3 DEF Unseal, SpendRescan, Ledger, HeightOrNone
    <3> QED BY <3>1, <3>2
  <2>2. TypeOK'
    <3>1. UNCHANGED <<daemon, restore, gap, job, refresh>> /\ sealed' = FALSE
          /\ cancel' = FALSE /\ Event
      BY <1>8, Zenon DEF Unseal, HostCall
    <3>2. sealed' \in BOOLEAN /\ cancel' \in BOOLEAN BY <3>1
    <3>3. events' \in 0 .. MaxEvents BY <3>1, RefreshAssumption DEF Event, TypeOK
    <3> QED BY <2>1, <3>1, <3>2, <3>3 DEF TypeOK, refresh
  <2>3. ControlInv' BY <1>8 DEF Unseal, ControlInv, Probing, refresh
  <2> QED BY <2>2, <2>3
<1> QED BY <1>1, <1>2, <1>3, <1>4, <1>5, <1>6, <1>7, <1>8 DEF Environment

(* A checkpoint stores a cursor.                                           *)
LEMMA CommitType ==
  ASSUME TypeOK, NEW l \in Ledger, NEW c \in Cursor, Commit(l, c)
  PROVE  /\ led' \in Ledger /\ cursor' \in Cursor
         /\ restore' = restore /\ gap' = gap /\ sealed' = sealed
BY CursorType DEF Commit, TypeOK

(* Claiming the wallet and probing its cached tip.                         *)
LEMMA TypeProbe == TypeInv /\ (StartRefresh \/ Probe) => TypeInv'
<1> SUFFICES ASSUME TypeInv, StartRefresh \/ Probe PROVE TypeInv'
  OBVIOUS
<1> USE DEF TypeInv
<1>0. /\ Height \subseteq Cursor /\ Cursor \subseteq Nat
      /\ \A h \in Height : h \in Int
  BY HeightsAreCursors
<1>1. ASSUME StartRefresh PROVE TypeInv'
  <2> DEFINE c == Max2(cursor, restore)
             d == HeightOf[daemon] + 1
  <2>1. c \in Cursor BY CursorType, HeightsAreCursors DEF TypeOK
  <2>2. d \in Cursor BY ChainAssumption DEF TypeOK, Height, Cursor
  <2>3. Min2(Max2(Min2(c, d), restore), d) \in Cursor
    BY <2>1, <2>2, CursorType DEF TypeOK
  <2>4. replay' \subseteq Height BY <1>1 DEF StartRefresh
  <2>5. job' \in Jobs /\ probe' \in HeightOrNone
    BY <1>1 DEF StartRefresh, TypeOK, Jobs, HeightOrNone
  <2>6. fails' \in 0 .. ProbeRetryLimit BY <1>1, RefreshAssumption DEF StartRefresh
  <2>7. work' = led /\ cur' = c /\ dh' = d /\ cancel' \in BOOLEAN /\ job = "idle"
        /\ cursor' = Min2(Max2(Min2(c, d), restore), d)
        /\ UNCHANGED <<daemon, events, led, restore, gap, sealed, batch, fetching, ready>>
    BY <1>1 DEF StartRefresh
  <2>8. TypeOK'
    BY <2>1, <2>2, <2>3, <2>4, <2>5, <2>6, <2>7 DEF TypeOK
  <2>9. ready = NoBlock /\ ~fetching BY <1>1 DEF StartRefresh, ControlInv, TypeOK
  <2>10. job' \in {"loop", "resume"}
         /\ (job' = "resume" => probe' \in Height /\ led.win[probe'] # NoBlock)
    BY <1>1 DEF StartRefresh, IsWindowTip
  <2>11. ControlInv' BY <2>7, <2>9, <2>10 DEF ControlInv, Probing
  <2> QED BY <2>8, <2>11
<1>2. ASSUME ProbeDown PROVE TypeInv'
  <2>1. probe \in Height BY <1>2 DEF ProbeDown, Answered, ControlInv
  <2>2. probe' \in Height /\ probe' \in HeightOrNone
    BY <1>2, <2>1, ChainAssumption DEF ProbeDown, Lower, Height, HeightOrNone
  <2>3. TypeOK' BY <1>2, <2>2 DEF ProbeDown, TypeOK, store
  <2>4. ControlInv' BY <1>2, <2>2 DEF ProbeDown, Answered, Probing, Lower, ControlInv
  <2> QED BY <2>3, <2>4
<1>3. ASSUME ResumeKeeps PROVE TypeInv'
  <2>1. TypeOK' BY <1>3 DEF ResumeKeeps, TypeOK, store, refresh, Jobs
  <2>2. ControlInv' BY <1>3 DEF ResumeKeeps, ControlInv, Probing, refresh
  <2> QED BY <2>1, <2>2
<1>4. ASSUME NEW h \in Height, ResumeRewinds(h) PROVE TypeInv'
  <2>1. Rewind(work, h) \in Ledger BY <1>0, RewindType DEF TypeOK
  <2>2. Min2(cur, h) \in Cursor BY <1>0, CursorType DEF TypeOK
  <2>3. Commit(Rewind(work, h), Min2(cur, h)) BY <1>4 DEF ResumeRewinds
  <2>4. led' \in Ledger /\ cursor' \in Cursor
        /\ restore' = restore /\ gap' = gap /\ sealed' = sealed
    BY <2>1, <2>2, <2>3, CommitType
  <2>5. TypeOK' BY <1>4, <2>1, <2>2, <2>4 DEF ResumeRewinds, TypeOK, Jobs
  <2>6. ControlInv' BY <1>4 DEF ResumeRewinds, ControlInv, Probing
  <2> QED BY <2>5, <2>6
<1>5. ASSUME ResumeFails PROVE TypeInv'
  <2>1. events' \in 0 .. MaxEvents
    BY <1>5, RefreshAssumption DEF ResumeFails, ProbeError, Event, TypeOK
  <2>2. TypeOK' BY <1>5, <2>1 DEF ResumeFails, Stop, TypeOK, store, Jobs
  <2>3. ControlInv' BY <1>5 DEF ResumeFails, Stop, ControlInv, Probing
  <2> QED BY <2>2, <2>3
<1>6. ASSUME NEW h \in Height, ParentRewinds(h) PROVE TypeInv'
  <2>1. Rewind(work, h) \in Ledger BY <1>0, RewindType DEF TypeOK
  <2>2. h \in Cursor BY <1>0
  <2>3. Commit(Rewind(work, h), h) BY <1>6 DEF ParentRewinds
  <2>4. led' \in Ledger /\ cursor' \in Cursor
        /\ restore' = restore /\ gap' = gap /\ sealed' = sealed
    BY <2>1, <2>2, <2>3, CommitType
  <2>5. TypeOK' BY <1>6, <2>1, <2>2, <2>4, RefreshAssumption DEF ParentRewinds, TypeOK, Jobs
  <2>6. ControlInv' BY <1>6 DEF ParentRewinds, ControlInv, Probing
  <2> QED BY <2>5, <2>6
<1>7. ASSUME ParentRetry PROVE TypeInv'
  <2>1. events' \in 0 .. MaxEvents
    BY <1>7, RefreshAssumption DEF ParentRetry, ParentUnproven, ProbeError, Event, TypeOK
  <2>2. fails' \in 0 .. ProbeRetryLimit
    BY <1>7, RefreshAssumption DEF ParentRetry, RetryAllowed, TypeOK
  <2>3. TypeOK' BY <1>7, <2>1, <2>2 DEF ParentRetry, TypeOK, store, Jobs
  <2>4. ControlInv' BY <1>7 DEF ParentRetry, ParentUnproven, ControlInv, Probing
  <2> QED BY <2>3, <2>4
<1>8. ASSUME ParentAborts PROVE TypeInv'
  <2>1. events' \in 0 .. MaxEvents
    BY <1>8, RefreshAssumption DEF ParentAborts, ParentUnproven, ProbeError, Event, TypeOK
  <2>2. TypeOK' BY <1>8, <2>1 DEF ParentAborts, Stop, TypeOK, store, Jobs
  <2>3. ControlInv' BY <1>8 DEF ParentAborts, Stop, ControlInv, Probing
  <2> QED BY <2>2, <2>3
<1> QED BY <1>1, <1>2, <1>3, <1>4, <1>5, <1>6, <1>7, <1>8 DEF Probe

(* The batch loop.                                                         *)
LEMMA TypeBatch == TypeInv /\ Batch => TypeInv'
<1> SUFFICES ASSUME TypeInv, Batch PROVE TypeInv'
  OBVIOUS
<1> USE DEF TypeInv
<1>1. ASSUME LoopCancelled PROVE TypeInv'
  <2>1. TypeOK' BY <1>1 DEF LoopCancelled, Stop, TypeOK, store, Jobs
  <2>2. ControlInv' BY <1>1 DEF LoopCancelled, Stop, ControlInv, Probing
  <2> QED BY <2>1, <2>2
<1>2. ASSUME NEW t \in Block, ScanBatch(t) PROVE TypeInv'
  <2>1. cur <= HeightOf[t]
    BY <1>2, ResponseType DEF ScanBatch, Scanning, Fetched, ControlInv, TypeOK
  <2>2. TypeOK' BY <1>2, RefreshAssumption DEF ScanBatch, TypeOK, store, Jobs
  <2>3. ControlInv' BY <1>2, <2>1 DEF ScanBatch, ControlInv, Probing
  <2> QED BY <2>2, <2>3
<1>3. ASSUME NEW t \in Block, ProbeParent(t) PROVE TypeInv'
  <2>1. TypeOK' BY <1>3 DEF ProbeParent, TypeOK, store, Jobs, HeightOrNone
  <2>2. ControlInv' BY <1>3 DEF ProbeParent, Scanning, IsWindowTip, ControlInv, Probing
  <2> QED BY <2>1, <2>2
<1>4. ASSUME FetchFails PROVE TypeInv'
  <2>1. events' \in 0 .. MaxEvents
    BY <1>4, RefreshAssumption DEF FetchFails, Event, TypeOK
  <2>2. TypeOK' BY <1>4, <2>1 DEF FetchFails, Stop, TypeOK, store, Jobs
  <2>3. ControlInv' BY <1>4 DEF FetchFails, Stop, ControlInv, Probing
  <2> QED BY <2>2, <2>3
<1>5. ASSUME ScanNext PROVE TypeInv'
  <2>1. batch \in Block /\ cur <= HeightOf[batch] /\ HeightOf[batch] \in Height
    BY <1>5, ChainAssumption DEF ScanNext, ControlInv
  <2>2. cur \in Height BY <2>1, ChainAssumption DEF TypeOK, Cursor, Height
  <2>3. Anc[batch][cur] \in Block BY <2>1, <2>2, ChainAssumption
  <2>4. work' \in Ledger
    BY <1>5, <2>3, ScanBlockType, PaymentAssumption DEF ScanNext, TypeOK
  <2>5. cur' \in Cursor BY <1>5, <2>2, ChainAssumption DEF ScanNext, Height, Cursor
  <2>6. TypeOK' BY <1>5, <2>4, <2>5 DEF ScanNext, TypeOK, store, Jobs
  <2>7. cur' <= HeightOf[batch] \/ cur = HeightOf[batch]
    BY <1>5, <2>1, <2>2, ChainAssumption DEF ScanNext, Height
  <2>8. ControlInv' BY <1>5, <2>1, <2>7 DEF ScanNext, ControlInv, Probing
  <2> QED BY <2>6, <2>8
<1>6. ASSUME ScanStops PROVE TypeInv'
  <2>1. events' \in 0 .. MaxEvents
    BY <1>6, RefreshAssumption DEF ScanStops, Event, TypeOK
  <2>2. TypeOK' BY <1>6, <2>1 DEF ScanStops, Stop, TypeOK, store, Jobs
  <2>3. ControlInv' BY <1>6 DEF ScanStops, Stop, ControlInv, Probing
  <2> QED BY <2>2, <2>3
<1>7. ASSUME NEW t \in Block, PrefetchArrives(t) PROVE TypeInv'
  <2>1. batch \in Block /\ HeightOf[batch] + 1 \in Cursor
    BY <1>7, ChainAssumption DEF PrefetchArrives, ControlInv, Height, Cursor
  <2>2. HeightOf[batch] + 1 <= HeightOf[t] BY <1>7, <2>1, ResponseType DEF PrefetchArrives
  <2>3. HeightOf[batch] < HeightOf[t] BY <2>1, <2>2, ChainAssumption DEF Height
  <2>4. TypeOK' BY <1>7 DEF PrefetchArrives, TypeOK, store
  <2>5. ControlInv' BY <1>7, <2>3 DEF PrefetchArrives, ControlInv, Probing
  <2> QED BY <2>4, <2>5
<1>8. ASSUME PrefetchFails PROVE TypeInv'
  <2>1. events' \in 0 .. MaxEvents
    BY <1>8, RefreshAssumption DEF PrefetchFails, Event, TypeOK
  <2>2. TypeOK' BY <1>8, <2>1 DEF PrefetchFails, TypeOK, store
  <2>3. ControlInv' BY <1>8 DEF PrefetchFails, ControlInv, Probing
  <2> QED BY <2>2, <2>3
<1>9. ASSUME CommitBatch PROVE TypeInv'
  <2>1. led' \in Ledger /\ cursor' \in Cursor
        /\ restore' = restore /\ gap' = gap /\ sealed' = sealed
    BY <1>9, CommitType DEF CommitBatch, TypeOK
  <2>2. TypeOK' BY <1>9, <2>1 DEF CommitBatch, TypeOK, refresh, Jobs
  <2>3. ready # NoBlock => cur <= HeightOf[ready]
    BY <1>9, ChainAssumption DEF CommitBatch, ControlInv, TypeOK, Height
  <2>4. ControlInv' BY <1>9, <2>3 DEF CommitBatch, ControlInv, Probing, refresh
  <2> QED BY <2>2, <2>4
<1>10. ASSUME Finish PROVE TypeInv'
  <2>1. led' \in Ledger /\ cursor' \in Cursor
        /\ restore' = restore /\ gap' = gap /\ sealed' = sealed
    BY <1>10, CommitType DEF Finish, TypeOK
  <2>2. TypeOK' BY <1>10, <2>1 DEF Finish, Stop, TypeOK, Jobs
  <2>3. ControlInv' BY <1>10 DEF Finish, Stop, ControlInv, Probing
  <2> QED BY <2>2, <2>3
<1> QED BY <1>1, <1>2, <1>3, <1>4, <1>5, <1>6, <1>7, <1>8, <1>9, <1>10 DEF Batch

(* The store, the working copy and the refresh's bookkeeping always have   *)
(* their types, and the parent-mismatch retry counter stays in its budget. *)
THEOREM TypeCorrect == Spec => []TypeOK
<1>1. TypeInv /\ [Next]_vars => TypeInv'
  <2> SUFFICES ASSUME TypeInv, [Next]_vars PROVE TypeInv'
    OBVIOUS
  <2>1. CASE Next
    BY <2>1, TypeEnvironment, TypeProbe, TypeBatch DEF Next, RefreshStep
  <2>2. CASE UNCHANGED vars
    BY <2>2 DEF vars, store, refresh, TypeInv, TypeOK, ControlInv, Probing
  <2> QED BY <2>1, <2>2
<1>2. TypeInv => TypeOK BY DEF TypeInv
<1> QED BY TypeInit, <1>1, <1>2, PTL DEF Spec

-----------------------------------------------------------------------------
(* The committed store is the scan of one branch.  The invariant that      *)
(* carries the proof has two halves: what the ledger holds below a height  *)
(* is exactly what one chain shows, and the hash window is a piece of that *)
(* chain whose missing part no longer changes.  It holds for forks that    *)
(* are not deeper than the window, or if a cursor is never below the end   *)
(* of the window, and for wallets restored above genesis or whose coverage *)
(* does not grow.                                                          *)

(* What a scan has passed is compared again in the window only.            *)
Settled(x, d) == Finality => Final(x, d)

(* No daemon answers from lower tips than before ...                       *)
RisingTips == \A b \in Block : \A t \in Switch[b] : HeightOf[t] >= HeightOf[b]

(* ... and nothing else moves a cursor to below the window.                *)
NeverRewound == RisingTips /\ "rewind" \notin Ops /\ "seal" \notin Ops

GenesisCoverageFixed == 0 \in Restores \cup RescanTargets => "gap" \notin Ops

(* The receipts a coverage of g watches.                                   *)
Receipts(l, k, t, g) == \A h \in restore .. k - 1 :
  \A o \in Owned(Anc[t][h], g) : l.recv[o] = h

(* The three parts of StoreIsPrefixScan for a ledger below height k, which *)
(* was scanned with a coverage of g.                                       *)
Exact(l, k, t, g) ==
  /\ Sound(l, k, t)
  /\ "reset" \notin Ops => Receipts(l, k, t, g)
  /\ AllSpends(l, k, t)

(* Below c the window is a piece of the chain of t that reaches up to c,   *)
(* and what it no longer holds is final.                                   *)
Piece(l, c, t) == \A k \in Height : k < c =>
  /\ l.win[k] \in {NoBlock, Anc[t][k]}
  /\ restore <= k /\ l.win[k] = NoBlock => Settled(Anc[t][k], daemon)
  /\ l.win[k] # NoBlock =>
       /\ c - k <= HashWindow
       /\ \A x \in Height : k <= x /\ x < c => l.win[x] # NoBlock

(* The ledger below c is the scan of the chain of t.                       *)
ScanOf(l, c, t, g) == Exact(l, c, t, g) /\ Piece(l, c, t)

(* Every recorded hash commits to the window below it.                     *)
WindowInv(l) == \A h \in Height : l.win[h] # NoBlock =>
  /\ restore <= h
  /\ HeightOf[l.win[h]] = h
  /\ Piece(l, h + 1, l.win[h])

ExactWindow(l, g) == \A h \in Height :
  l.win[h] # NoBlock => Exact(l, h + 1, l.win[h], g)

(* Recorded heights are not below the restore height, and only a tracked   *)
(* output is spent.                                                        *)
AboveRestore(l) == \A o \in Output :
  /\ l.recv[o] # NoHeight => restore <= l.recv[o]
  /\ l.spent[o] # NoHeight => restore <= l.spent[o] /\ l.recv[o] # NoHeight

(* Past the restore height, everything below the cursor is scanned.        *)
ScannedTo(l, c, g) == c > restore =>
  /\ ExactWindow(l, g)
  /\ \E t \in Block : HeightOf[t] = c - 1 /\ ScanOf(l, c, t, g)

LedgerInv(l, c, g) == WindowInv(l) /\ AboveRestore(l) /\ ScannedTo(l, c, g)

StoreInv == LedgerInv(led, cursor, gap)

(* Whatever is recorded from c on will be reconciled when it is rescanned. *)
Reconciled(l, c) == \A o \in Output :
  /\ l.recv[o] # NoHeight /\ c <= l.recv[o] => l.recv[o] \in replay
  /\ l.spent[o] # NoHeight /\ c <= l.spent[o] => l.spent[o] \in replay

(* What lies a window below t is final.                                    *)
Mature(t) == \A k \in Height :
  k + HashWindow <= HeightOf[t] => Settled(Anc[t][k], daemon)

(* The batch b being scanned by job j continues what is scanned; a batch r *)
(* that was prefetched is anchored to the hash the batch before it leaves. *)
Anchored(l, c, g, j, b, r) ==
  /\ j = "scan" /\ restore < c => ScanOf(l, c, b, g)
  /\ j \in {"scan", "commit"} => Mature(b)
  /\ j = "commit" => l.win[c - 1] # NoBlock
  /\ r # NoBlock => Mature(r) /\ (j = "loop" => l.win[c - 1] # NoBlock)

WorkInv == job # "idle" =>
  /\ restore <= cur
  /\ LedgerInv(work, cur, gap)
  /\ Reconciled(work, IF job = "resume" THEN 0 ELSE cur)
  /\ job = "parent" => restore < cur
  /\ Anchored(work, cur, gap, job, batch, ready)

(* A scan that starts at genesis finds no hash there, which the parent     *)
(* check of height 0 would take for the block below it.                    *)
AtGenesis(l, c) == c = 0 => l.win[0] = NoBlock

GenesisInv ==
  /\ restore = 0 => "gap" \notin Ops
  /\ AtGenesis(led, cursor)
  /\ job # "idle" => dh > 0 /\ AtGenesis(work, cur)

PrefixInv == TypeInv /\ GenesisInv /\ StoreInv /\ WorkInv

(* Past the restore height the window ends right below the cursor.         *)
AtTip(l, c) == c > restore =>
  /\ l.win[c - 1] # NoBlock
  /\ \A k \in Height : k >= c => l.win[k] = NoBlock

StoreTip ==
  /\ AtTip(led, cursor)
  /\ cursor > restore => cursor <= HeightOf[daemon] + 1

WorkTip == job # "idle" =>
  /\ AtTip(work, cur)
  /\ cur > restore => cur <= dh
  /\ dh <= HeightOf[daemon] + 1

BatchTip ==
  /\ job = "scan" => HeightOf[batch] < dh
  /\ ready # NoBlock => HeightOf[ready] < dh

TipInv == StoreTip /\ WorkTip /\ BatchTip

-----------------------------------------------------------------------------
(* Facts about blocks, branches and final blocks.                          *)

(* A block's ancestors have the heights they are looked up at.             *)
LEMMA Ancestors ==
  ASSUME NEW b \in Block, NEW h \in Height, h <= HeightOf[b]
  PROVE  /\ Anc[b][h] \in Block
         /\ HeightOf[Anc[b][h]] = h
         /\ \A k \in Height : k <= h => Anc[Anc[b][h]][k] = Anc[b][k]
BY ChainAssumption

LEMMA ReachSelf == \A b \in Block : b \in Reach(b)
BY DEF Reach

LEMMA ReachNext ==
  ASSUME NEW b \in Block, NEW c \in Switch[b]
  PROVE  Reach(c) \subseteq Reach(b)
<1> SUFFICES ASSUME NEW t \in Reach(c), NEW S \in SUBSET Block, b \in S,
                    \A x \in S : Switch[x] \subseteq S
             PROVE  t \in S
  BY DEF Reach
<1>1. c \in S OBVIOUS
<1> QED BY <1>1 DEF Reach

(* What is final stays final, wherever the daemon goes.                    *)
Onward == \A x : Settled(x, daemon) => Settled(x, daemon')

LEMMA NextTip ==
  ASSUME TypeOK, [Next]_vars
  PROVE  daemon' = daemon \/ daemon' \in Switch[daemon]
<1>1. CASE Environment
  BY <1>1 DEF Environment, DaemonMoves, RequestCancel, SetGapLimit, RewindScanCursor,
              ForceRescan, ResetTrackedOutputs, Seal, Unseal
<1>2. CASE StartRefresh BY <1>2 DEF StartRefresh
<1>3. CASE Probe
  BY <1>3 DEF Probe, ProbeDown, ResumeKeeps, ResumeRewinds, ResumeFails, ParentRewinds,
              ParentRetry, ParentAborts
<1>4. CASE Batch
  BY <1>4 DEF Batch, LoopCancelled, ScanBatch, ProbeParent, PrefetchArrives, FetchFails,
              ScanNext, ScanStops, PrefetchFails, CommitBatch, Finish
<1>5. CASE UNCHANGED vars BY <1>5 DEF vars
<1> QED BY <1>1, <1>2, <1>3, <1>4, <1>5 DEF Next, RefreshStep

LEMMA FinalStays ==
  ASSUME TypeOK, daemon' = daemon \/ daemon' \in Switch[daemon]
  PROVE  Onward
<1> SUFFICES ASSUME NEW x, Settled(x, daemon) PROVE Settled(x, daemon')
  BY DEF Onward
<1>1. Reach(daemon') \subseteq Reach(daemon) BY ReachNext DEF TypeOK
<1> QED BY <1>1 DEF Settled, Final

(* The answer to a fetch is the daemon's chain up to its last block, and   *)
(* mature: its blocks far below are final.                                 *)
LEMMA ResponseMature ==
  ASSUME TypeOK, NEW c \in Cursor, NEW t \in Response(c)
  PROVE  /\ Mature(t)
         /\ HeightOf[t] <= HeightOf[daemon]
         /\ \A k \in Height : k <= HeightOf[t] => Anc[t][k] = Anc[daemon][k]
<1>1. PICK e \in Height : c <= e /\ e <= HeightOf[daemon] /\ t = Anc[daemon][e]
  BY DEF Response
<1>2. daemon \in Block BY DEF TypeOK
<1>3. /\ HeightOf[t] = e /\ t \in Block
      /\ \A k \in Height : k <= e => Anc[t][k] = Anc[daemon][k]
  BY <1>1, <1>2, Ancestors
<1>4. ASSUME NEW k \in Height, k + HashWindow <= HeightOf[t]
      PROVE  Settled(Anc[t][k], daemon)
  <2>1. k <= e /\ k + HashWindow <= HeightOf[daemon]
    BY <1>1, <1>2, <1>3, <1>4, ChainAssumption, HashWindowAssumption DEF Height
  <2>2. Settled(Anc[daemon][k], daemon) BY <1>2, <2>1 DEF Finality, Settled
  <2> QED BY <1>3, <2>1, <2>2
<1> QED BY <1>1, <1>3, <1>4 DEF Mature

(* The block below a fetched one is final before: the daemon's chain still *)
(* has it.                                                                 *)
LEMMA FinalBelow ==
  ASSUME Finality, TypeOK, NEW t \in Block, NEW s \in Block, Settled(s, daemon),
         HeightOf[t] <= HeightOf[daemon], HeightOf[s] <= HeightOf[t],
         \A k \in Height : k <= HeightOf[t] => Anc[t][k] = Anc[daemon][k]
  PROVE  Anc[t][HeightOf[s]] = s
<1>1. /\ daemon \in Block /\ HeightOf[s] \in Height
      /\ HeightOf[s] \in Int /\ HeightOf[t] \in Int /\ HeightOf[daemon] \in Int
  BY ChainAssumption DEF TypeOK, Height
<1>2. daemon \in Reach(daemon) BY <1>1, ReachSelf
<1>3. HeightOf[s] <= HeightOf[daemon] BY <1>1
<1> QED BY <1>1, <1>2, <1>3 DEF Settled, Final

-----------------------------------------------------------------------------
(* Facts about scanned prefixes.                                           *)

(* Heights the ledger talks about below a cursor.                          *)
LEMMA HeightsBelow ==
  ASSUME TypeOK, NEW l \in Ledger, NEW c \in Cursor
  PROVE  /\ \A x \in restore .. c - 1 : x \in Height /\ x < c
         /\ \A o \in Output : l.recv[o] # NoHeight => l.recv[o] \in Height
         /\ \A o \in Output : l.spent[o] # NoHeight => l.spent[o] \in Height
         /\ \A o \in Output : l.recv[o] \in Int /\ l.spent[o] \in Int
         /\ c \in Nat /\ restore \in Nat /\ restore \in Height /\ Height \subseteq Nat
BY ChainAssumption DEF TypeOK, Ledger, HeightOrNone, NoHeight, Height, Cursor

(* Only the blocks below c count.                                          *)
LEMMA ScanOfSame ==
  ASSUME TypeOK, NEW l \in Ledger, NEW g, NEW c \in Cursor, NEW s, NEW t,
         \A x \in Height : x < c => Anc[s][x] = Anc[t][x], ScanOf(l, c, s, g)
  PROVE  ScanOf(l, c, t, g)
<1>0. /\ \A x \in restore .. c - 1 : x \in Height /\ x < c
      /\ \A o \in Output : l.recv[o] # NoHeight => l.recv[o] \in Height
      /\ \A o \in Output : l.spent[o] # NoHeight => l.spent[o] \in Height
  BY HeightsBelow
<1>1. Sound(l, c, t) BY <1>0 DEF ScanOf, Exact, Sound
<1>2. ASSUME Receipts(l, c, s, g) PROVE Receipts(l, c, t, g) BY <1>0, <1>2 DEF Receipts
<1>3. AllSpends(l, c, t) BY <1>0 DEF ScanOf, Exact, AllSpends
<1>4. Piece(l, c, t) BY DEF ScanOf, Piece
<1> QED BY <1>1, <1>2, <1>3, <1>4 DEF ScanOf, Exact

(* A scan up to c is a scan up to any lower height ...                     *)
LEMMA ScanOfDown ==
  ASSUME TypeOK, NEW l \in Ledger, NEW g, NEW c \in Cursor, NEW t \in Block,
         NEW e \in Cursor, e <= c, c - 1 <= HeightOf[t], ScanOf(l, c, t, g)
  PROVE  ScanOf(l, e, t, g)
<1>0. /\ \A x \in restore .. c - 1 : x \in Height /\ x < c
      /\ \A x \in restore .. e - 1 : x \in restore .. c - 1
      /\ \A o \in Output : l.recv[o] \in Int /\ l.spent[o] \in Int
      /\ c \in Int /\ e \in Int /\ Height \subseteq Nat /\ restore \in Nat /\ c \in Nat
  BY HeightsBelow
<1>1. Sound(l, e, t) BY <1>0 DEF ScanOf, Exact, Sound
<1>2. ASSUME Receipts(l, c, t, g) PROVE Receipts(l, e, t, g) BY <1>0, <1>2 DEF Receipts
<1>3. AllSpends(l, e, t)
  <2> SUFFICES ASSUME NEW y \in restore .. e - 1, NEW o \in Spends[Anc[t][y]],
                      l.recv[o] # NoHeight, l.recv[o] < e, o \notin l.blind
               PROVE  l.spent[o] = y
    BY DEF AllSpends
  <2>1. y \in Height /\ y \in restore .. c - 1 /\ y <= HeightOf[t]
    <3>1. y \in restore .. c - 1 /\ y \in Height /\ y < c BY <1>0
    <3>2. y <= HeightOf[t] BY <1>0, <3>1, ChainAssumption DEF Height
    <3> QED BY <3>1, <3>2
  <2>2. o \in Output BY <2>1, Ancestors, PaymentAssumption
  <2>3. l.recv[o] < c BY <1>0, <2>2
  <2> QED BY <2>1, <2>3 DEF ScanOf, Exact, AllSpends
<1>4. Piece(l, e, t)
  <2> SUFFICES ASSUME NEW k \in Height, k < e
               PROVE  /\ l.win[k] \in {NoBlock, Anc[t][k]}
                      /\ restore <= k /\ l.win[k] = NoBlock => Settled(Anc[t][k], daemon)
                      /\ l.win[k] # NoBlock =>
                           /\ e - k <= HashWindow
                           /\ \A x \in Height : k <= x /\ x < e => l.win[x] # NoBlock
    BY DEF Piece
  <2>1. k \in Nat /\ k < c /\ \A x \in Height : x < e => x < c BY <1>0
  <2>2. Piece(l, c, t) BY DEF ScanOf
  <2>3. c - k <= HashWindow => e - k <= HashWindow
    BY <1>0, <2>1, HashWindowAssumption
  <2> QED BY <2>1, <2>2, <2>3 DEF Piece
<1> QED BY <1>1, <1>2, <1>3, <1>4 DEF ScanOf, Exact

(* ... and a scan of the block there.                                      *)
LEMMA ScanOfLower ==
  ASSUME TypeOK, NEW l \in Ledger, NEW g, NEW c \in Cursor, NEW t \in Block,
         c - 1 <= HeightOf[t], NEW j \in Height, j < c, ScanOf(l, c, t, g)
  PROVE  /\ Anc[t][j] \in Block /\ HeightOf[Anc[t][j]] = j
         /\ ScanOf(l, j + 1, Anc[t][j], g)
<1>0. /\ j \in Nat /\ c \in Nat /\ j + 1 \in Cursor /\ j + 1 <= c /\ j <= HeightOf[t]
      /\ \A x \in Height : x < j + 1 => x <= j
  BY ChainAssumption DEF Height, Cursor
<1>1. ScanOf(l, j + 1, t, g) BY <1>0, ScanOfDown
<1>2. /\ Anc[t][j] \in Block /\ HeightOf[Anc[t][j]] = j
      /\ \A x \in Height : x < j + 1 => Anc[t][x] = Anc[Anc[t][j]][x]
  BY <1>0, Ancestors
<1> QED BY <1>0, <1>1, <1>2, ScanOfSame

(* A lower cursor is also scanned to.                                      *)
LEMMA CursorDown ==
  ASSUME TypeOK, NEW l \in Ledger, NEW g, NEW c \in Cursor, NEW e \in Cursor,
         LedgerInv(l, c, g), e > restore => e <= c
  PROVE  LedgerInv(l, e, g)
<1> SUFFICES ASSUME e > restore
             PROVE  /\ ExactWindow(l, g)
                    /\ \E t \in Block : HeightOf[t] = e - 1 /\ ScanOf(l, e, t, g)
  BY DEF LedgerInv, ScannedTo
<1>1. /\ c > restore /\ e - 1 \in Height /\ e - 1 < c /\ (e - 1) + 1 = e
  BY ChainAssumption DEF TypeOK, Cursor, Height
<1>2. PICK t \in Block : HeightOf[t] = c - 1 /\ ScanOf(l, c, t, g)
  BY <1>1 DEF LedgerInv, ScannedTo
<1>3. c - 1 <= HeightOf[t] BY <1>2, HeightsBelow
<1>4. /\ Anc[t][e - 1] \in Block /\ HeightOf[Anc[t][e - 1]] = e - 1
      /\ ScanOf(l, e, Anc[t][e - 1], g)
  BY <1>1, <1>2, <1>3, ScanOfLower
<1>5. ExactWindow(l, g) BY <1>1 DEF LedgerInv, ScannedTo
<1> QED BY <1>4, <1>5

(* A recorded hash is a cursor position of its own.                        *)
LEMMA WindowCursor ==
  ASSUME TypeOK, NEW l \in Ledger, NEW g, NEW c, LedgerInv(l, c, g), c > restore,
         NEW h \in Height, h > restore => l.win[h - 1] # NoBlock
  PROVE  /\ LedgerInv(l, h, g)
         /\ h > restore => l.win[h - 1] \in Block /\ HeightOf[l.win[h - 1]] = h - 1
                           /\ ScanOf(l, h, l.win[h - 1], g)
<1> SUFFICES ASSUME h > restore
             PROVE  /\ l.win[h - 1] \in Block /\ HeightOf[l.win[h - 1]] = h - 1
                    /\ ScanOf(l, h, l.win[h - 1], g) /\ ExactWindow(l, g)
  BY DEF LedgerInv, ScannedTo
<1>1. h - 1 \in Height /\ (h - 1) + 1 = h BY ChainAssumption DEF TypeOK, Height
<1>2. ExactWindow(l, g) BY DEF LedgerInv, ScannedTo
<1>3. l.win[h - 1] \in Block BY <1>1 DEF Ledger
<1> QED BY <1>1, <1>2, <1>3 DEF LedgerInv, WindowInv, ExactWindow, ScanOf

-----------------------------------------------------------------------------
(* Rewinding.                                                              *)

(* A rewind to h keeps what is scanned below h ...                         *)
LEMMA ScanOfRewind ==
  ASSUME TypeOK, NEW l \in Ledger, NEW g, NEW h \in Cursor, NEW c \in Cursor, c <= h,
         NEW t \in Block, c - 1 <= HeightOf[t], ScanOf(l, c, t, g)
  PROVE  ScanOf(Rewind(l, h), c, t, g)
<1> DEFINE r == Rewind(l, h)
<1>0. /\ \A x \in Height : r.win[x] = IF x < h THEN l.win[x] ELSE NoBlock
      /\ \A o \in Output : r.recv[o] = IF l.recv[o] < h THEN l.recv[o] ELSE NoHeight
      /\ \A o \in Output : r.spent[o] = IF l.recv[o] < h /\ l.spent[o] < h
                                        THEN l.spent[o] ELSE NoHeight
      /\ \A o \in Output : o \in r.blind <=> o \in l.blind /\ l.recv[o] < h
  BY DEF Rewind, Ledger
<1> HIDE DEF r
<1>1. /\ \A x \in restore .. c - 1 : x \in Height /\ x < c
      /\ \A o \in Output : l.recv[o] \in Int /\ l.spent[o] \in Int
      /\ c \in Int /\ h \in Int /\ Height \subseteq Int
  BY HeightsBelow
<1>2. \A x \in Height : x < c => x < h /\ Anc[t][x] \in Block
  <2> SUFFICES ASSUME NEW x \in Height, x < c PROVE x < h /\ Anc[t][x] \in Block
    OBVIOUS
  <2>1. x < h /\ x <= HeightOf[t] BY <1>1, ChainAssumption DEF Height
  <2> QED BY <2>1, Ancestors
<1>3. Sound(r, c, t) BY <1>0, <1>1 DEF ScanOf, Exact, Sound
<1>4. ASSUME Receipts(l, c, t, g) PROVE Receipts(r, c, t, g)
  <2> SUFFICES ASSUME NEW y \in restore .. c - 1, NEW o \in Owned(Anc[t][y], g)
               PROVE  r.recv[o] = y
    BY DEF Receipts
  <2>1. l.recv[o] = y BY <1>4 DEF Receipts
  <2>2. y \in Height /\ y < h /\ Anc[t][y] \in Block BY <1>1, <1>2
  <2>3. o \in Output BY <2>2, PaymentAssumption DEF Owned
  <2> QED BY <1>0, <2>1, <2>2, <2>3
<1>5. AllSpends(r, c, t)
  <2> SUFFICES ASSUME NEW y \in restore .. c - 1, NEW o \in Spends[Anc[t][y]],
                      r.recv[o] # NoHeight, r.recv[o] < c, o \notin r.blind
               PROVE  r.spent[o] = y
    BY DEF AllSpends
  <2>1. y \in Height /\ y < h /\ Anc[t][y] \in Block BY <1>1, <1>2
  <2>2. o \in Output BY <2>1, PaymentAssumption
  <2>3. l.recv[o] < h /\ r.recv[o] = l.recv[o] BY <1>0, <2>2
  <2>4. o \notin l.blind BY <1>0, <2>2, <2>3
  <2>5. l.spent[o] = y BY <2>3, <2>4 DEF ScanOf, Exact, AllSpends
  <2> QED BY <1>0, <2>1, <2>2, <2>3, <2>5
<1>6. Piece(r, c, t) BY <1>0, <1>2 DEF ScanOf, Piece
<1> QED BY <1>3, <1>4, <1>5, <1>6 DEF ScanOf, Exact, r

(* ... and so the invariant, at every cursor up to h.                      *)
LEMMA RewindInv ==
  ASSUME TypeOK, NEW l \in Ledger, NEW g, NEW h \in Cursor, NEW d \in Cursor, d <= h,
         LedgerInv(l, d, g)
  PROVE  LedgerInv(Rewind(l, h), d, g)
<1> DEFINE r == Rewind(l, h)
<1>0. /\ \A x \in Height : r.win[x] = IF x < h THEN l.win[x] ELSE NoBlock
      /\ \A o \in Output : r.recv[o] = IF l.recv[o] < h THEN l.recv[o] ELSE NoHeight
      /\ \A o \in Output : r.spent[o] = IF l.recv[o] < h /\ l.spent[o] < h
                                        THEN l.spent[o] ELSE NoHeight
  BY DEF Rewind
<1>1. /\ \A o \in Output : l.recv[o] \in Int /\ l.spent[o] \in Int
      /\ h \in Nat /\ d \in Nat /\ restore \in Nat /\ Height \subseteq Nat
      /\ MaxHeight \in Nat
  BY HeightsBelow, ChainAssumption
<1> HIDE DEF r
<1>2. \A x \in Height : r.win[x] # NoBlock =>
        /\ r.win[x] = l.win[x] /\ l.win[x] # NoBlock /\ x < h
        /\ x + 1 \in Cursor /\ x + 1 <= h
        /\ l.win[x] \in Block /\ restore <= x /\ HeightOf[l.win[x]] = x
        /\ Piece(l, x + 1, l.win[x])
  <2> SUFFICES ASSUME NEW x \in Height, r.win[x] # NoBlock
               PROVE  /\ r.win[x] = l.win[x] /\ l.win[x] # NoBlock /\ x < h
                      /\ x + 1 \in Cursor /\ x + 1 <= h
                      /\ l.win[x] \in Block /\ restore <= x /\ HeightOf[l.win[x]] = x
                      /\ Piece(l, x + 1, l.win[x])
    OBVIOUS
  <2>1. x < h /\ r.win[x] = l.win[x] /\ l.win[x] # NoBlock BY <1>0
  <2>2. x + 1 \in Cursor /\ x + 1 <= h BY <1>1, <2>1 DEF Height, Cursor
  <2>3. l.win[x] \in Block BY <2>1 DEF Ledger
  <2> QED BY <2>1, <2>2, <2>3 DEF LedgerInv, WindowInv
<1>3. ASSUME NEW x \in Height, r.win[x] # NoBlock PROVE Piece(r, x + 1, r.win[x])
  <2>1. \A y \in Height : y < x + 1 => y < h BY <1>1, <1>2, <1>3
  <2>2. Piece(l, x + 1, l.win[x]) /\ r.win[x] = l.win[x] BY <1>2, <1>3
  <2> QED BY <1>0, <2>1, <2>2 DEF Piece
<1>4. WindowInv(r) BY <1>2, <1>3 DEF WindowInv
<1>5. AboveRestore(r) BY <1>0, <1>1 DEF LedgerInv, AboveRestore
<1>6. ASSUME d > restore PROVE ExactWindow(r, g)
  <2> SUFFICES ASSUME NEW x \in Height, r.win[x] # NoBlock
               PROVE  Exact(r, x + 1, r.win[x], g)
    BY DEF ExactWindow
  <2>1. Exact(l, x + 1, l.win[x], g) BY <1>2, <1>6 DEF LedgerInv, ScannedTo, ExactWindow
  <2>2. ScanOf(l, x + 1, l.win[x], g) BY <1>2, <2>1 DEF ScanOf
  <2>3. (x + 1) - 1 <= HeightOf[l.win[x]] BY <1>1, <1>2
  <2>4. ScanOf(r, x + 1, l.win[x], g) BY <1>2, <2>2, <2>3, ScanOfRewind DEF r
  <2> QED BY <1>2, <2>4 DEF ScanOf
<1>7. ASSUME d > restore
      PROVE  \E t \in Block : HeightOf[t] = d - 1 /\ ScanOf(r, d, t, g)
  <2>1. PICK t \in Block : HeightOf[t] = d - 1 /\ ScanOf(l, d, t, g)
    BY <1>7 DEF LedgerInv, ScannedTo
  <2>2. d - 1 <= HeightOf[t] BY <1>1, <2>1
  <2>3. ScanOf(r, d, t, g) BY <2>1, <2>2, ScanOfRewind DEF r
  <2> QED BY <2>1, <2>3
<1> QED BY <1>4, <1>5, <1>6, <1>7 DEF LedgerInv, ScannedTo, r

-----------------------------------------------------------------------------
(* Scanning the next block extends the scanned prefix by that block, even  *)
(* over artefacts that an earlier scan, perhaps of another branch, left.   *)
LEMMA ScanBlockInv ==
  ASSUME TypeOK, NEW l \in Ledger, NEW c \in Height, NEW b \in Block,
         HeightOf[b] = c, restore <= c, LedgerInv(l, c, gap), Reconciled(l, c), Mature(b),
         restore < c => ScanOf(l, c, b, gap)
  PROVE  /\ LedgerInv(ScanBlock(l, b, gap, sealed, replay), c + 1, gap)
         /\ ScanOf(ScanBlock(l, b, gap, sealed, replay), c + 1, b, gap)
         /\ Reconciled(ScanBlock(l, b, gap, sealed, replay), c + 1)
         /\ ScanBlock(l, b, gap, sealed, replay).win[c] = b
<1> DEFINE m == ScanBlock(l, b, gap, sealed, replay)
           own == Owned(b, gap)
           drop == Dropped(l, b, replay)
           fresh == Fresh(l, b, gap, replay)
           here == SpentHere(l, b, replay)
           stale == Unspent(l, b, replay)
<1>1. /\ \A o \in Output : m.recv[o] = IF o \in own THEN c
                                       ELSE IF o \in drop THEN NoHeight ELSE l.recv[o]
      /\ \A o \in Output : m.spent[o] = IF o \in here THEN c
                                        ELSE IF o \in drop \cup fresh \cup stale
                                        THEN NoHeight ELSE l.spent[o]
      /\ \A o \in l.blind : o \notin drop => o \in m.blind
      /\ m.win = PushRecentBlockHash(l, c, b)
  BY DEF ScanBlock
<1>2. /\ own \subseteq Output /\ own \subseteq Receives[b] /\ fresh \subseteq own
      /\ \A o \in Output : o \in drop <=>
           c \in replay /\ l.recv[o] = c /\ o \notin Receives[b]
      /\ \A o \in Output : o \in Receives[b] /\ Minor[o] <= gap => o \in own
      /\ \A o \in Output : o \in here <=>
           l.recv[o] # NoHeight /\ o \notin drop /\ o \in Spends[b] /\ o \notin l.blind
      /\ \A o \in Output : o \in stale <=>
           c \in replay /\ l.spent[o] = c /\ (o \notin Spends[b] \/ o \in l.blind)
  BY PaymentAssumption DEF Owned, Dropped, Fresh, SpentHere, Unspent, Tracked
<1> HIDE DEF m, own, drop, fresh, here, stale
<1>3. /\ Height \subseteq Nat /\ restore \in Nat /\ c \in Nat /\ NoHeight \in Int
      /\ \A x \in Int : 0 <= x /\ x <= c => x \in Height
      /\ \A o \in Output : /\ l.recv[o] \in HeightOrNone /\ l.recv[o] \in Int
                           /\ l.spent[o] \in HeightOrNone /\ l.spent[o] \in Int
                           /\ l.recv[o] # NoHeight => l.recv[o] \in Height
                           /\ l.spent[o] # NoHeight => l.spent[o] \in Height
      /\ c # NoHeight
  BY ChainAssumption DEF Height, TypeOK, Ledger, HeightOrNone, NoHeight
<1>4. /\ Anc[b][c] = b
      /\ \A x \in Height : x <= c => Anc[b][x] \in Block /\ HeightOf[Anc[b][x]] = x
  BY ChainAssumption
(* On the chain of b an output is paid once and spent once, later.         *)
<1>5. \A o \in Output : \A x, y \in Height : x <= c /\ y <= c =>
        /\ o \in Receives[Anc[b][x]] /\ o \in Receives[Anc[b][y]] => x = y
        /\ o \in Spends[Anc[b][x]] /\ o \in Spends[Anc[b][y]] => x = y
        /\ o \in Spends[Anc[b][x]] /\ o \in Receives[Anc[b][y]] => y < x
  BY PaymentAssumption
(* What l knows below c is on the chain of b.                              *)
<1>6. restore < c => Exact(l, c, b, gap) BY DEF ScanOf
(* A receipt or spend recorded at c itself survives only if b shows it.    *)
<1>8. \A o \in Output : o \notin drop /\ l.recv[o] = c => o \in Receives[b]
  BY <1>2, <1>3 DEF Reconciled
<1>9. \A o \in Output : o \notin stale /\ l.spent[o] = c => o \in Spends[b]
  BY <1>2, <1>3 DEF Reconciled
<1>10. \A o \in Output : m.recv[o] # NoHeight /\ m.recv[o] < c + 1 =>
         o \in Receives[Anc[b][m.recv[o]]]
  <2> SUFFICES ASSUME NEW o \in Output, m.recv[o] # NoHeight, m.recv[o] < c + 1
               PROVE  o \in Receives[Anc[b][m.recv[o]]]
    OBVIOUS
  <2>1. CASE o \in own BY <1>1, <1>2, <1>4, <2>1
  <2>2. CASE o \notin own
    <3>1. o \notin drop /\ m.recv[o] = l.recv[o] BY <1>1, <2>2
    <3>2. CASE l.recv[o] = c BY <1>4, <1>8, <3>1, <3>2
    <3>3. CASE l.recv[o] < c
      <4>1. restore < c /\ l.recv[o] \in Height
        BY <1>3, <3>1, <3>3 DEF LedgerInv, AboveRestore
      <4> QED BY <1>6, <3>1, <3>3, <4>1 DEF Exact, Sound
    <3> QED BY <1>3, <3>1, <3>2, <3>3
  <2> QED BY <2>1, <2>2
<1>11. \A o \in Output : m.spent[o] # NoHeight /\ m.spent[o] < c + 1 =>
         o \in Spends[Anc[b][m.spent[o]]]
  <2> SUFFICES ASSUME NEW o \in Output, m.spent[o] # NoHeight, m.spent[o] < c + 1
               PROVE  o \in Spends[Anc[b][m.spent[o]]]
    OBVIOUS
  <2>1. CASE o \in here BY <1>1, <1>2, <1>4, <2>1
  <2>2. CASE o \notin here
    <3>1. o \notin stale /\ m.spent[o] = l.spent[o] BY <1>1, <2>2
    <3>2. CASE l.spent[o] = c BY <1>4, <1>9, <3>1, <3>2
    <3>3. CASE l.spent[o] < c
      <4>1. restore < c /\ l.spent[o] \in Height
        BY <1>3, <3>1, <3>3 DEF LedgerInv, AboveRestore
      <4> QED BY <1>6, <3>1, <3>3, <4>1 DEF Exact, Sound
    <3> QED BY <1>3, <3>1, <3>2, <3>3
  <2> QED BY <2>1, <2>2
<1>12. Sound(m, c + 1, b) BY <1>10, <1>11 DEF Sound
<1>13. ASSUME "reset" \notin Ops PROVE Receipts(m, c + 1, b, gap)
  <2> SUFFICES ASSUME NEW y \in restore .. (c + 1) - 1, NEW o \in Owned(Anc[b][y], gap)
               PROVE  m.recv[o] = y
    BY DEF Receipts
  <2>1. y \in Height /\ restore <= y /\ y <= c BY <1>3
  <2>2. o \in Output /\ o \in Receives[Anc[b][y]]
    BY <1>4, <2>1, PaymentAssumption DEF Owned
  <2>3. CASE y = c BY <1>1, <1>2, <1>4, <2>2, <2>3 DEF own
  <2>4. CASE y < c
    <3>1. restore < c BY <1>3, <2>1, <2>4
    <3>2. l.recv[o] = y
      <4>1. y \in restore .. c - 1 BY <1>3, <2>1, <2>4
      <4>2. Receipts(l, c, b, gap) BY <1>6, <1>13, <3>1 DEF Exact
      <4> QED BY <4>1, <4>2 DEF Receipts
    <3>3. o \notin own BY <1>2, <1>3, <1>4, <1>5, <2>1, <2>2, <2>4
    <3>4. o \notin drop BY <1>2, <1>3, <2>1, <2>2, <2>4, <3>2
    <3> QED BY <1>1, <2>2, <3>2, <3>3, <3>4
  <2> QED BY <1>3, <2>1, <2>3, <2>4
<1>14. AllSpends(m, c + 1, b)
  <2> SUFFICES ASSUME NEW y \in restore .. (c + 1) - 1, NEW o \in Spends[Anc[b][y]],
                      m.recv[o] # NoHeight, m.recv[o] < c + 1, o \notin m.blind
               PROVE  m.spent[o] = y
    BY DEF AllSpends
  <2>1. y \in Height /\ restore <= y /\ y <= c BY <1>3
  <2>2. o \in Output BY <1>4, <2>1, PaymentAssumption
  <2>3. o \notin own BY <1>2, <1>3, <1>4, <1>5, <2>1, <2>2
  <2>4. o \notin drop /\ m.recv[o] = l.recv[o] /\ l.recv[o] # NoHeight
    BY <1>1, <2>2, <2>3
  <2>5. o \notin l.blind BY <1>1, <2>4
  <2>6. l.recv[o] < c
    <3>1. l.recv[o] # c BY <1>3, <1>4, <1>5, <1>8, <2>1, <2>2, <2>4
    <3> QED BY <1>3, <2>2, <2>4, <3>1
  <2>7. CASE y = c BY <1>1, <1>2, <1>4, <2>2, <2>4, <2>5, <2>7
  <2>8. CASE y < c
    <3>1. restore < c BY <1>3, <2>1, <2>8
    <3>2. l.spent[o] = y
      <4>1. y \in restore .. c - 1 BY <1>3, <2>1, <2>8
      <4>2. AllSpends(l, c, b) BY <1>6, <3>1 DEF Exact
      <4> QED BY <2>4, <2>5, <2>6, <4>1, <4>2 DEF AllSpends
    <3>3. o \notin here
      <4>1. o \notin Spends[b] BY <1>3, <1>4, <1>5, <2>1, <2>2, <2>8
      <4> QED BY <1>2, <2>2, <4>1
    <3>4. o \notin drop \cup fresh \cup stale BY <1>2, <2>2, <2>3, <2>4, <2>8, <3>2
    <3> QED BY <1>1, <2>2, <3>2, <3>3, <3>4
  <2> QED BY <1>3, <2>1, <2>7, <2>8
<1>15. Exact(m, c + 1, b, gap) BY <1>12, <1>13, <1>14 DEF Exact
<1>16. AboveRestore(m)
  BY <1>1, <1>2, <1>3 DEF LedgerInv, AboveRestore
<1>17. Reconciled(m, c + 1)
  BY <1>1, <1>3 DEF Reconciled
(* The window before the push: empty below the restore height, else a     *)
(* piece of the chain of b.                                                *)
<1>18. \A k \in Height : k < c =>
         /\ l.win[k] \in {NoBlock, Anc[b][k]}
         /\ restore <= k /\ l.win[k] = NoBlock => Settled(Anc[b][k], daemon)
         /\ l.win[k] # NoBlock =>
              /\ restore <= k
              /\ \A x \in Height : k <= x /\ x < c => l.win[x] # NoBlock
  <2>1. CASE restore < c BY <2>1 DEF ScanOf, Piece, LedgerInv, WindowInv
  <2>2. CASE restore = c
    <3>1. \A k \in Height : k < c => l.win[k] = NoBlock /\ ~(restore <= k)
      BY <1>3, <2>2 DEF LedgerInv, WindowInv
    <3> QED BY <3>1
  <2> QED BY <1>3, <2>1, <2>2
<1>19. \A x \in Height :
         m.win[x] = IF x = c THEN b
                    ELSE IF x < c /\ c < x + HashWindow THEN l.win[x] ELSE NoBlock
  <2>1. JoinsWindow(l, c) \/ \A x \in Height : x < c => l.win[x] = NoBlock
    <3> SUFFICES ASSUME NEW x \in Height, x < c, l.win[x] # NoBlock PROVE JoinsWindow(l, c)
      OBVIOUS
    <3>1. c - 1 \in Height /\ x <= c - 1 /\ c - 1 < c /\ c > 0 BY <1>3
    <3>2. l.win[c - 1] # NoBlock BY <1>18, <3>1
    <3> QED BY <3>1, <3>2 DEF JoinsWindow
  <2> QED BY <1>1, <2>1 DEF PushRecentBlockHash
<1>20. Piece(m, c + 1, b)
  <2>0. HashWindow \in Nat /\ HashWindow > 0 /\ b # NoBlock
    BY HashWindowAssumption, ChainAssumption
  <2> SUFFICES ASSUME NEW k \in Height, k < c + 1
               PROVE  /\ m.win[k] \in {NoBlock, Anc[b][k]}
                      /\ restore <= k /\ m.win[k] = NoBlock => Settled(Anc[b][k], daemon)
                      /\ m.win[k] # NoBlock =>
                           /\ (c + 1) - k <= HashWindow
                           /\ \A x \in Height : k <= x /\ x < c + 1 => m.win[x] # NoBlock
    BY DEF Piece
  <2>1. k \in Nat /\ (k = c \/ k < c) BY <1>3
  <2>2. CASE k = c
    <3>1. (c + 1) - k <= HashWindow BY <1>3, <2>0, <2>2
    <3>2. \A x \in Height : k <= x /\ x < c + 1 => x = c BY <1>3, <2>2
    <3> QED BY <1>4, <1>19, <2>0, <2>2, <3>1, <3>2
  <2>3. CASE k < c
    <3>1. m.win[k] \in {NoBlock, Anc[b][k]} BY <1>3, <1>18, <1>19, <2>3
    <3>2. restore <= k /\ m.win[k] = NoBlock => Settled(Anc[b][k], daemon)
      <4> SUFFICES ASSUME restore <= k, m.win[k] = NoBlock PROVE Settled(Anc[b][k], daemon)
        OBVIOUS
      <4>1. CASE l.win[k] = NoBlock BY <1>18, <2>3, <4>1
      <4>2. CASE l.win[k] # NoBlock
        <5>1. ~(c < k + HashWindow) BY <1>3, <1>19, <2>3, <4>2
        <5>2. k + HashWindow <= HeightOf[b] BY <1>3, <2>0, <2>1, <5>1
        <5> QED BY <5>2 DEF Mature
      <4> QED BY <4>1, <4>2
    <3>3. ASSUME m.win[k] # NoBlock
          PROVE  /\ (c + 1) - k <= HashWindow
                 /\ \A x \in Height : k <= x /\ x < c + 1 => m.win[x] # NoBlock
      <4>1. c < k + HashWindow /\ l.win[k] # NoBlock BY <1>3, <1>19, <2>3, <3>3
      <4>2. (c + 1) - k <= HashWindow BY <1>3, <2>0, <2>1, <4>1
      <4>3. ASSUME NEW x \in Height, k <= x, x < c + 1 PROVE m.win[x] # NoBlock
        <5>1. x \in Nat /\ c < x + HashWindow /\ (x = c \/ x < c)
          BY <1>3, <2>0, <2>1, <4>1, <4>3
        <5>2. CASE x = c BY <1>19, <2>0, <5>2
        <5>3. CASE x < c
          <6>1. l.win[x] # NoBlock BY <1>18, <2>3, <4>1, <4>3, <5>3
          <6>2. x # c BY <1>3, <5>1, <5>3
          <6> QED BY <1>19, <5>1, <5>3, <6>1, <6>2
        <5> QED BY <5>1, <5>2, <5>3
      <4> QED BY <4>2, <4>3
    <3> QED BY <3>1, <3>2, <3>3
  <2> QED BY <2>1, <2>2, <2>3
<1>21. ScanOf(m, c + 1, b, gap) BY <1>15, <1>20 DEF ScanOf
<1>22. m \in Ledger
  BY ScanBlockType, PaymentAssumption DEF m, TypeOK
<1>23. ASSUME NEW x \in Height, m.win[x] # NoBlock
       PROVE  /\ restore <= x /\ HeightOf[m.win[x]] = x
              /\ ScanOf(m, x + 1, m.win[x], gap)
  <2>1. restore <= x /\ x < c + 1 BY <1>3, <1>18, <1>19, <1>23
  <2>2. m.win[x] = Anc[b][x] BY <1>20, <1>23, <2>1 DEF Piece
  <2>3. c + 1 \in Cursor /\ (c + 1) - 1 <= HeightOf[b]
    BY <1>3, ChainAssumption DEF Cursor, Height
  <2> QED BY <1>21, <1>22, <2>1, <2>2, <2>3, ScanOfLower
<1>24. WindowInv(m) BY <1>23 DEF WindowInv, ScanOf
<1>25. ExactWindow(m, gap) BY <1>23 DEF ExactWindow, ScanOf
<1>26. ScannedTo(m, c + 1, gap)
  <2>1. HeightOf[b] = (c + 1) - 1 BY <1>3
  <2> QED BY <1>21, <1>25, <2>1 DEF ScannedTo
<1>27. m.win[c] = b BY <1>19
<1> QED BY <1>16, <1>17, <1>21, <1>24, <1>26, <1>27 DEF LedgerInv, m

-----------------------------------------------------------------------------
(* Steps.  A ledger of known invariant, moved into the store or into the   *)
(* working copy, keeps it as long as the restore height stays and what is  *)
(* final stays final.                                                      *)

LEMMA LedgerCarries ==
  ASSUME NEW l, NEW c, NEW g, restore' = restore, Onward, LedgerInv(l, c, g)
  PROVE  LedgerInv(l, c, g)'
<1>1. ASSUME NEW k, NEW t, Piece(l, k, t) PROVE Piece(l, k, t)'
  BY <1>1 DEF Piece, Onward
<1>2. ASSUME NEW k, NEW t, Exact(l, k, t, g) PROVE Exact(l, k, t, g)'
  BY <1>2 DEF Exact, Sound, Receipts, AllSpends
<1>3. WindowInv(l)' BY <1>1 DEF LedgerInv, WindowInv
<1>4. AboveRestore(l)' BY DEF LedgerInv, AboveRestore
<1>5. ScannedTo(l, c, g)'
  BY <1>1, <1>2 DEF LedgerInv, ScannedTo, ExactWindow, ScanOf
<1> QED BY <1>3, <1>4, <1>5 DEF LedgerInv

LEMMA AnchoredCarries ==
  ASSUME NEW l, NEW c, NEW g, NEW j, NEW b, NEW r, restore' = restore, Onward,
         Anchored(l, c, g, j, b, r)
  PROVE  Anchored(l, c, g, j, b, r)'
<1>1. ScanOf(l, c, b, g) => ScanOf(l, c, b, g)'
  BY DEF ScanOf, Exact, Sound, Receipts, AllSpends, Piece, Onward
<1>2. \A t : Mature(t) => Mature(t)' BY DEF Mature, Onward
<1> QED BY <1>1, <1>2 DEF Anchored

(* A ledger becomes the store.                                             *)
LEMMA StoreBecomes ==
  ASSUME NEW l, NEW c, NEW g, gap' = g, LedgerInv(l, c, g)',
         led' = l, cursor' = c
  PROVE  StoreInv'
<1>1. LedgerInv(l, c, g)' OBVIOUS
<1>2. \A k, t : Piece(l, k, t)' => Piece(led, k, t)' BY DEF Piece
<1>3. \A k, t : Exact(l, k, t, g)' => Exact(led, k, t, gap)'
  BY DEF Exact, Sound, Receipts, AllSpends
<1>4. WindowInv(led)' BY <1>1, <1>2 DEF LedgerInv, WindowInv
<1>5. AboveRestore(led)' BY <1>1 DEF LedgerInv, AboveRestore
<1>6. ScannedTo(led, cursor, gap)'
  BY <1>1, <1>2, <1>3 DEF LedgerInv, ScannedTo, ExactWindow, ScanOf
<1> QED BY <1>4, <1>5, <1>6 DEF StoreInv, LedgerInv

LEMMA StoreStep ==
  ASSUME NEW l, NEW c, NEW g, restore' = restore, gap' = g, Onward, LedgerInv(l, c, g),
         led' = l, cursor' = c
  PROVE  StoreInv'
BY LedgerCarries, StoreBecomes

LEMMA WorkLedgerStep ==
  ASSUME NEW l, NEW c, restore' = restore, gap' = gap, Onward, LedgerInv(l, c, gap),
         work' = l, cur' = c
  PROVE  LedgerInv(work, cur, gap)'
<1>1. LedgerInv(l, c, gap)' BY LedgerCarries
<1>2. \A k, t : Piece(l, k, t)' => Piece(work, k, t)' BY DEF Piece
<1>3. \A k, t : Exact(l, k, t, gap)' => Exact(work, k, t, gap)'
  BY DEF Exact, Sound, Receipts, AllSpends
<1>4. WindowInv(work)' BY <1>1, <1>2 DEF LedgerInv, WindowInv
<1>5. AboveRestore(work)' BY <1>1 DEF LedgerInv, AboveRestore
<1>6. ScannedTo(work, cur, gap)'
  BY <1>1, <1>2, <1>3 DEF LedgerInv, ScannedTo, ExactWindow, ScanOf
<1> QED BY <1>4, <1>5, <1>6 DEF LedgerInv

LEMMA WorkStep ==
  ASSUME NEW l, NEW c, NEW j, NEW b, NEW r, restore' = restore, gap' = gap,
         replay' = replay, Onward, restore <= c, LedgerInv(l, c, gap),
         Reconciled(l, IF j = "resume" THEN 0 ELSE c),
         j = "parent" => restore < c, Anchored(l, c, gap, j, b, r),
         work' = l, cur' = c, job' = j, batch' = b, ready' = r
  PROVE  WorkInv'
<1>1. LedgerInv(work, cur, gap)' BY WorkLedgerStep
<1>2. Anchored(l, c, gap, j, b, r)' BY AnchoredCarries
<1>3. Anchored(work, cur, gap, job, batch, ready)'
  BY <1>2 DEF Anchored, Mature, ScanOf, Piece, Exact, Sound, Receipts, AllSpends
<1>4. Reconciled(work, IF job = "resume" THEN 0 ELSE cur)' BY DEF Reconciled
<1> QED BY <1>1, <1>3, <1>4 DEF WorkInv

(* The marker plays no part.                                               *)
LEMMA MarkerIrrelevant ==
  ASSUME NEW l \in Ledger, NEW g, NEW c, NEW m, LedgerInv(l, c, g)
  PROVE  LedgerInv([l EXCEPT !.marker = m], c, g)
<1>1. /\ [l EXCEPT !.marker = m].recv = l.recv
      /\ [l EXCEPT !.marker = m].spent = l.spent
      /\ [l EXCEPT !.marker = m].blind = l.blind
      /\ [l EXCEPT !.marker = m].win = l.win
  BY DEF Ledger
<1> DEFINE v == [l EXCEPT !.marker = m]
<1>2. v.recv = l.recv /\ v.spent = l.spent /\ v.blind = l.blind /\ v.win = l.win BY <1>1
<1> HIDE DEF v, Ledger
<1>3. \A k, t : Piece(l, k, t) => Piece(v, k, t) BY <1>2 DEF Piece
<1>4. \A k, t : Exact(l, k, t, g) => Exact(v, k, t, g)
  BY <1>2 DEF Exact, Sound, Receipts, AllSpends
<1>5. WindowInv(v) BY <1>2, <1>3 DEF LedgerInv, WindowInv
<1>6. AboveRestore(v) BY <1>2 DEF LedgerInv, AboveRestore
<1>7. ScannedTo(v, c, g)
  BY <1>2, <1>3, <1>4 DEF LedgerInv, ScannedTo, ExactWindow, ScanOf
<1>8. LedgerInv(v, c, g) BY <1>5, <1>6, <1>7 DEF LedgerInv
<1> QED BY <1>8 DEF v

(* A checkpoint may clamp its cursor, never raise it.                      *)
LEMMA CommitInv ==
  ASSUME TypeOK, Onward, NEW l \in Ledger, NEW c \in Cursor, restore <= c,
         LedgerInv(l, c, gap), Commit(l, c)
  PROVE  StoreInv'
<1>1. cursor' \in Cursor /\ cursor' <= c
  BY CursorType, ChainAssumption DEF Commit, TypeOK, Min2, Max2, Cursor, Height
<1>2. LedgerInv(l, cursor', gap) BY <1>1, CursorDown
<1>3. led' = l /\ restore' = restore /\ gap' = gap BY DEF Commit
<1> QED BY <1>2, <1>3, StoreStep

LEMMA StoreStays ==
  ASSUME StoreInv, Onward, UNCHANGED <<led, cursor, restore, gap>>
  PROVE  StoreInv'
BY StoreStep DEF StoreInv

LEMMA WorkStays ==
  ASSUME WorkInv, Onward,
         UNCHANGED <<restore, gap, replay, work, cur, job, batch, ready>>
  PROVE  WorkInv'
<1>1. CASE job = "idle" BY <1>1 DEF WorkInv
<1>2. CASE job # "idle" BY <1>2, WorkStep DEF WorkInv
<1> QED BY <1>1, <1>2

LEMMA IdleWork == job' = "idle" => WorkInv'
BY DEF WorkInv

(* The cleanup rewind after a sealed scan stays on the scanned prefix.     *)
Rescanned(l, c) ==
  [Rewind(l, UnsealHeight(l, c, restore)) EXCEPT !.marker = NoHeight]

RescansWell == \A l \in Ledger : \A c \in Cursor : \A g :
  TypeOK /\ LedgerInv(l, c, g) /\ l.marker # NoHeight =>
    /\ Rescanned(l, c) \in Ledger
    /\ UnsealHeight(l, c, restore) \in Cursor
    /\ LedgerInv(Rescanned(l, c), UnsealHeight(l, c, restore), g)

LEMMA RescanInv == RescansWell
<1> SUFFICES ASSUME NEW l \in Ledger, NEW c \in Cursor, NEW g,
                    TypeOK, LedgerInv(l, c, g), l.marker # NoHeight
             PROVE  /\ Rescanned(l, c) \in Ledger
                    /\ UnsealHeight(l, c, restore) \in Cursor
                    /\ LedgerInv(Rescanned(l, c), UnsealHeight(l, c, restore), g)
  BY DEF RescansWell
<1> DEFINE d == UnsealHeight(l, c, restore)
           m == [Rewind(l, d) EXCEPT !.marker = NoHeight]
<1>0. /\ restore \in Height /\ Height \subseteq Cursor /\ Cursor \subseteq Nat
      /\ restore \in Nat /\ c \in Nat
  BY HeightsAreCursors DEF TypeOK
<1>1. l.marker \in Height BY DEF Ledger, HeightOrNone
<1>2. d \in Cursor /\ restore <= d /\ (d > restore => d <= c)
  <2>1. /\ l.marker \in Nat /\ c \in Nat /\ restore \in Nat
        /\ l.marker \in Cursor /\ restore \in Cursor
    BY <1>0, <1>1
  <2>2. d \in Cursor BY <1>0, <2>1 DEF UnsealHeight, Min2, Max2
  <2> QED BY <2>1, <2>2 DEF UnsealHeight, Min2, Max2
<1>3. m = Rescanned(l, c) BY DEF Rescanned
<1> HIDE DEF d
<1>4. LedgerInv(l, d, g) BY <1>2, CursorDown
<1>5. LedgerInv(Rewind(l, d), d, g)
  <2>1. d <= d BY <1>0, <1>2
  <2> QED BY <1>2, <1>4, <2>1, RewindInv
<1>6. Rewind(l, d) \in Ledger
  <2>1. d \in Int BY <1>0, <1>2
  <2> QED BY <1>0, <2>1, RewindType
<1>7. LedgerInv(m, d, g) BY <1>5, <1>6, MarkerIrrelevant
<1>8. m \in Ledger BY <1>6 DEF Ledger, HeightOrNone
<1> QED BY <1>2, <1>3, <1>7, <1>8 DEF d

LEMMA SpendRescanInv ==
  ASSUME TypeOK, NEW l \in Ledger, NEW g, NEW c \in Cursor, LedgerInv(l, c, g),
         SpendRescan(l, c, restore)
  PROVE  \E m \in Ledger, d \in Cursor :
           led' = m /\ cursor' = d /\ LedgerInv(m, d, g)
<1>1. CASE l.marker = NoHeight BY <1>1 DEF SpendRescan
<1>2. CASE l.marker # NoHeight
  <2>1. led' = Rescanned(l, c) /\ cursor' = UnsealHeight(l, c, restore)
    BY <1>2, Zenon DEF SpendRescan, Rescanned
  <2>2. /\ Rescanned(l, c) \in Ledger
        /\ UnsealHeight(l, c, restore) \in Cursor
        /\ LedgerInv(Rescanned(l, c), UnsealHeight(l, c, restore), g)
    BY <1>2, RescanInv DEF RescansWell
  <2> QED BY <2>1, <2>2
<1> QED BY <1>1, <1>2

(* A cursor at 0 means that nothing is at genesis: it only gets there by a *)
(* rewind, or by a scan over from the restore height.                      *)
LEMMA AtGenesisRewind ==
  ASSUME NEW l, NEW h, NEW d, h = d \/ AtGenesis(l, d)
  PROVE  AtGenesis(Rewind(l, h), d)
<1>1. 0 \in Height BY ChainAssumption DEF Height
<1>2. Rewind(l, h).win[0] = IF 0 < h THEN l.win[0] ELSE NoBlock BY <1>1 DEF Rewind
<1>3. h = 0 => ~(0 < h) OBVIOUS
<1> QED BY <1>2, <1>3 DEF AtGenesis

LEMMA AtGenesisRescan ==
  ASSUME NEW l, NEW c, NEW r, AtGenesis(l, c), SpendRescan(l, c, r)
  PROVE  AtGenesis(led, cursor)'
<1>1. CASE l.marker = NoHeight BY <1>1 DEF SpendRescan, AtGenesis
<1>2. CASE l.marker # NoHeight
  <2> DEFINE d == UnsealHeight(l, c, r)
             m == Rewind(l, d)
  <2>1. led' = [m EXCEPT !.marker = NoHeight] /\ cursor' = d BY <1>2 DEF SpendRescan
  <2>2. AtGenesis(m, d) BY AtGenesisRewind
  <2>3. [m EXCEPT !.marker = NoHeight].win = m.win BY DEF Rewind
  <2> HIDE DEF d, m
  <2> QED BY <2>1, <2>2, <2>3 DEF AtGenesis
<1> QED BY <1>1, <1>2

(* A checkpoint is at 0 only if its working copy is.                       *)
LEMMA AtGenesisCommit ==
  ASSUME TypeOK, dh > 0, NEW l, NEW c \in Cursor, AtGenesis(l, c), Commit(l, c)
  PROVE  AtGenesis(led, cursor)'
<1>1. c \in Nat /\ restore \in Nat /\ dh \in Nat
  BY HeightsAreCursors DEF TypeOK
<1>2. cursor' = 0 => c = 0 BY <1>1 DEF Commit, Min2, Max2
<1> QED BY <1>2 DEF Commit, AtGenesis

LEMMA GenesisInit == GenesisCoverageFixed /\ Init => GenesisInv
<1>1. 0 \in Height BY ChainAssumption DEF Height
<1> QED BY <1>1 DEF GenesisCoverageFixed, Init, GenesisInv, AtGenesis, EmptyLedger

LEMMA GenesisEnvironment ==
  ASSUME GenesisCoverageFixed, TypeOK, GenesisInv, Environment
  PROVE  GenesisInv'
<1>0. 0 \in Height /\ restore \in Nat /\ cursor \in Nat
  BY ChainAssumption, HeightsAreCursors DEF Height, TypeOK
<1>1. ASSUME NEW b \in Block, DaemonMoves(b) PROVE GenesisInv'
  BY <1>1 DEF DaemonMoves, store, refresh, GenesisInv, AtGenesis
<1>2. CASE RequestCancel
  BY <1>2 DEF RequestCancel, store, refresh, GenesisInv, AtGenesis
<1>3. CASE SetGapLimit
  BY <1>3 DEF SetGapLimit, HostCall, GenesisInv, AtGenesis
<1>4. ASSUME NEW h \in Height, RewindScanCursor(h) PROVE GenesisInv'
  <2>1. AtGenesis(Rewind(led, Max2(h, restore)), Max2(h, restore)) BY AtGenesisRewind
  <2> QED BY <1>4, <2>1 DEF RewindScanCursor, HostCall, GenesisInv, AtGenesis
<1>5. ASSUME NEW h \in RescanTargets, ForceRescan(h) PROVE GenesisInv'
  BY <1>0, <1>5
  DEF ForceRescan, HostCall, GenesisCoverageFixed, GenesisInv, AtGenesis, EmptyLedger
<1>6. CASE ResetTrackedOutputs
  BY <1>6 DEF ResetTrackedOutputs, HostCall, GenesisInv, AtGenesis, EmptyLedger
<1>7. CASE Seal BY <1>7 DEF Seal, HostCall, GenesisInv, AtGenesis
<1>8. CASE Unseal
  <2>1. AtGenesis(led, cursor)' BY <1>8, AtGenesisRescan DEF Unseal, GenesisInv
  <2> QED BY <1>8, <2>1 DEF Unseal, HostCall, GenesisInv
<1> QED BY <1>1, <1>2, <1>3, <1>4, <1>5, <1>6, <1>7, <1>8 DEF Environment

LEMMA GenesisRefresh ==
  ASSUME TypeInv, GenesisInv, RefreshStep
  PROVE  GenesisInv'
<1>0. /\ TypeOK /\ restore \in Nat /\ cursor \in Nat /\ cur \in Nat /\ cur \in Cursor
      /\ HeightOf[daemon] \in Nat /\ Height \subseteq Cursor /\ Height \subseteq Nat
      /\ Cursor \subseteq Nat
  BY ChainAssumption, HeightsAreCursors DEF TypeInv, TypeOK
<1>1. CASE StartRefresh
  <2>1. /\ work' = led /\ led' = led /\ restore' = restore
        /\ cur' = Max2(cursor, restore) /\ dh' = HeightOf[daemon] + 1
        /\ cursor' = Min2(Max2(Min2(Max2(cursor, restore), HeightOf[daemon] + 1), restore),
                          HeightOf[daemon] + 1)
    BY <1>1 DEF StartRefresh
  <2>2. dh' > 0 /\ (cur' = 0 => cursor = 0) /\ (cursor' = 0 => cursor = 0)
    BY <1>0, <2>1 DEF Min2, Max2
  <2> QED BY <2>1, <2>2 DEF GenesisInv, AtGenesis
<1>2. CASE ProbeDown \/ ResumeKeeps \/ ParentRetry
  BY <1>2 DEF ProbeDown, Answered, ResumeKeeps, ParentRetry, ParentUnproven, Probing, store,
              refresh, GenesisInv, AtGenesis
<1>3. ASSUME NEW h \in Height, ResumeRewinds(h) PROVE GenesisInv'
  <2>1. /\ Commit(Rewind(work, h), Min2(cur, h)) /\ work' = Rewind(work, h)
        /\ cur' = Min2(cur, h) /\ dh' = dh /\ restore' = restore
        /\ dh > 0 /\ AtGenesis(work, cur)
    BY <1>3 DEF ResumeRewinds, Commit, GenesisInv
  <2>2. Min2(cur, h) = cur \/ Min2(cur, h) = h BY DEF Min2
  <2>3. AtGenesis(Rewind(work, h), Min2(cur, h)) BY <2>1, <2>2, AtGenesisRewind
  <2>4. Min2(cur, h) \in Cursor BY <1>0, <2>2
  <2>5. AtGenesis(led, cursor)' BY <1>0, <2>1, <2>3, <2>4, AtGenesisCommit
  <2> QED BY <2>1, <2>3, <2>5 DEF GenesisInv, AtGenesis
<1>4. ASSUME NEW h \in Height, ParentRewinds(h) PROVE GenesisInv'
  <2>1. /\ Commit(Rewind(work, h), h) /\ work' = Rewind(work, h) /\ cur' = h
        /\ dh' = dh /\ restore' = restore /\ dh > 0
    BY <1>4 DEF ParentRewinds, Commit, GenesisInv
  <2>2. AtGenesis(Rewind(work, h), h) BY AtGenesisRewind
  <2>3. AtGenesis(led, cursor)' BY <1>0, <2>1, <2>2, AtGenesisCommit
  <2> QED BY <2>1, <2>2, <2>3 DEF GenesisInv, AtGenesis
<1>5. CASE ResumeFails \/ ParentAborts \/ LoopCancelled \/ FetchFails \/ ScanStops
  BY <1>5 DEF ResumeFails, ParentAborts, LoopCancelled, FetchFails, ScanStops, Stop, store,
              GenesisInv, AtGenesis
<1>6. ASSUME NEW t \in Block, ScanBatch(t) \/ ProbeParent(t) \/ PrefetchArrives(t)
      PROVE  GenesisInv'
  BY <1>6 DEF ScanBatch, ProbeParent, PrefetchArrives, Scanning, store, GenesisInv, AtGenesis
<1>7. CASE ScanNext
  BY <1>0, <1>7 DEF ScanNext, store, GenesisInv, AtGenesis
<1>8. CASE PrefetchFails BY <1>8 DEF PrefetchFails, store, GenesisInv, AtGenesis
<1>9. CASE CommitBatch \/ Finish
  <2>1. /\ Commit(work, cur) /\ restore' = restore /\ dh' = dh /\ work' = work /\ cur' = cur
        /\ dh > 0 /\ AtGenesis(work, cur)
    BY <1>9 DEF CommitBatch, Finish, Commit, refresh, GenesisInv
  <2>2. AtGenesis(led, cursor)' BY <1>0, <2>1, AtGenesisCommit
  <2> QED BY <2>1, <2>2 DEF GenesisInv, AtGenesis
<1> QED BY <1>1, <1>2, <1>3, <1>4, <1>5, <1>6, <1>7, <1>8, <1>9
    DEF RefreshStep, Probe, Batch

LEMMA GenesisStep ==
  ASSUME GenesisCoverageFixed, TypeInv, GenesisInv, [Next]_vars
  PROVE  GenesisInv'
<1>1. CASE UNCHANGED vars BY <1>1 DEF vars, store, refresh, GenesisInv, AtGenesis
<1> QED BY <1>1, GenesisEnvironment, GenesisRefresh DEF Next, TypeInv

(* Host calls and chain switches.                                          *)
LEMMA PrefixEnvironment ==
  ASSUME PrefixInv, Onward, Environment
  PROVE  StoreInv' /\ WorkInv'
<1>0. /\ TypeOK /\ StoreInv /\ WorkInv
      /\ restore \in Height /\ cursor \in Cursor /\ led \in Ledger
      /\ Height \subseteq Cursor /\ Cursor \subseteq Nat /\ Height \subseteq Nat
  BY HeightsAreCursors DEF PrefixInv, TypeInv, TypeOK
<1>1. ASSUME NEW b \in Block, DaemonMoves(b) PROVE StoreInv' /\ WorkInv'
  BY <1>0, <1>1, StoreStays, WorkStays DEF DaemonMoves, store, refresh
<1>2. ASSUME RequestCancel PROVE StoreInv' /\ WorkInv'
  BY <1>0, <1>2, StoreStays, WorkStays DEF RequestCancel, store, refresh
(* A wider coverage starts over at the restore height.                     *)
<1>3. ASSUME SetGapLimit PROVE StoreInv' /\ WorkInv'
  <2>1. WorkInv' BY <1>3, IdleWork DEF SetGapLimit, HostCall
  <2>2. led' = led /\ cursor' = restore /\ restore' = restore BY <1>3 DEF SetGapLimit
  <2>3. LedgerInv(led, restore, gap')
    BY <1>0 DEF StoreInv, LedgerInv, ScannedTo
  <2> QED BY <1>0, <2>1, <2>2, <2>3, StoreStep DEF StoreInv
<1>4. ASSUME NEW h \in Height, RewindScanCursor(h) PROVE StoreInv' /\ WorkInv'
  <2> DEFINE d == Max2(h, restore)
  <2>1. WorkInv' BY <1>4, IdleWork DEF RewindScanCursor, HostCall
  <2>2. d \in Height /\ d \in Cursor /\ restore <= d /\ (d > restore => d = h /\ h <= cursor)
    BY <1>0, <1>4 DEF RewindScanCursor, Max2
  <2> HIDE DEF d
  <2>3. LedgerInv(led, d, gap) BY <1>0, <2>2, CursorDown DEF StoreInv
  <2>4. LedgerInv(Rewind(led, d), d, gap)
    <3>1. d <= d BY <1>0, <2>2
    <3> QED BY <1>0, <2>2, <2>3, <3>1, RewindInv
  <2>5. led' = Rewind(led, d) /\ cursor' = d /\ restore' = restore /\ gap' = gap
    BY <1>4 DEF RewindScanCursor, d
  <2> QED BY <1>0, <2>1, <2>4, <2>5, StoreStep DEF StoreInv
<1>5. ASSUME NEW h \in RescanTargets, ForceRescan(h) PROVE StoreInv' /\ WorkInv'
  <2>1. WorkInv' BY <1>5, IdleWork DEF ForceRescan, HostCall
  <2>2. led' = EmptyLedger /\ cursor' = h /\ restore' = h BY <1>5 DEF ForceRescan
  <2>4. /\ \A x \in Height : EmptyLedger.win[x] = NoBlock
        /\ \A o \in Output : EmptyLedger.recv[o] = NoHeight /\ EmptyLedger.spent[o] = NoHeight
    BY DEF EmptyLedger
  <2>5. WindowInv(led)' /\ AboveRestore(led)'
    BY <2>2, <2>4 DEF WindowInv, AboveRestore
  <2>6. ScannedTo(led, cursor, gap)'
    <3>1. h \in Nat BY <1>0, RefreshAssumption
    <3> QED BY <2>2, <3>1 DEF ScannedTo
  <2> QED BY <2>1, <2>5, <2>6 DEF StoreInv, LedgerInv
(* The reset keeps the window; nothing recorded is nothing wrong.          *)
<1>6. ASSUME ResetTrackedOutputs PROVE StoreInv' /\ WorkInv'
  <2> DEFINE l == [EmptyLedger EXCEPT !.win = led.win]
  <2>1. WorkInv' BY <1>6, IdleWork DEF ResetTrackedOutputs, HostCall
  <2>2. /\ l.win = led.win
        /\ \A o \in Output : l.recv[o] = NoHeight /\ l.spent[o] = NoHeight
    BY DEF EmptyLedger
  <2>3. led' = l /\ UNCHANGED <<cursor, restore, gap>> /\ "reset" \in Ops
    BY <1>6 DEF ResetTrackedOutputs, HostCall
  <2> HIDE DEF l
  <2>4. WindowInv(l) BY <1>0, <2>2 DEF StoreInv, LedgerInv, WindowInv, Piece
  <2>5. AboveRestore(l) BY <2>2 DEF AboveRestore
  <2>6. \A k \in Cursor, t \in Block : k - 1 <= HeightOf[t] => Exact(l, k, t, gap)
    <3> SUFFICES ASSUME NEW k \in Cursor, NEW t \in Block, k - 1 <= HeightOf[t]
                 PROVE  Exact(l, k, t, gap)
      OBVIOUS
    <3>1. Sound(l, k, t) BY <2>2 DEF Sound
    <3>2. AllSpends(l, k, t)
      <4> SUFFICES ASSUME NEW y \in restore .. k - 1, NEW o \in Spends[Anc[t][y]]
                   PROVE  l.recv[o] = NoHeight
        BY DEF AllSpends
      <4>1. y \in Height /\ y <= HeightOf[t]
        BY <1>0, ChainAssumption DEF Height, Cursor
      <4> QED BY <2>2, <4>1, Ancestors, PaymentAssumption
    <3> QED BY <2>3, <3>1, <3>2 DEF Exact
  <2>7. ExactWindow(l, gap)
    <3> SUFFICES ASSUME NEW x \in Height, l.win[x] # NoBlock
                 PROVE  Exact(l, x + 1, l.win[x], gap)
      BY DEF ExactWindow
    <3>1. l.win[x] \in Block /\ HeightOf[l.win[x]] = x
      BY <1>0, <2>2, <2>4 DEF WindowInv, Ledger
    <3>2. x + 1 \in Cursor /\ (x + 1) - 1 <= x BY ChainAssumption DEF Height, Cursor
    <3> QED BY <2>6, <3>1, <3>2
  <2>8. ScannedTo(l, cursor, gap)
    <3> SUFFICES ASSUME cursor > restore
                 PROVE  \E t \in Block : HeightOf[t] = cursor - 1 /\ ScanOf(l, cursor, t, gap)
      BY <2>7 DEF ScannedTo
    <3>1. PICK t \in Block : HeightOf[t] = cursor - 1 /\ ScanOf(led, cursor, t, gap)
      BY <1>0 DEF StoreInv, LedgerInv, ScannedTo
    <3>2. cursor - 1 <= HeightOf[t] BY <1>0, <3>1
    <3>3. Exact(l, cursor, t, gap) BY <1>0, <2>6, <3>2
    <3>4. Piece(l, cursor, t) BY <2>2, <3>1 DEF ScanOf, Piece
    <3> QED BY <3>1, <3>3, <3>4 DEF ScanOf
  <2>9. LedgerInv(l, cursor, gap) BY <2>4, <2>5, <2>8 DEF LedgerInv
  <2> QED BY <1>0, <2>1, <2>3, <2>9, StoreStep DEF StoreInv
<1>7. ASSUME Seal PROVE StoreInv' /\ WorkInv'
  BY <1>0, <1>7, StoreStays, IdleWork DEF Seal, HostCall
<1>8. ASSUME Unseal PROVE StoreInv' /\ WorkInv'
  <2>1. WorkInv' BY <1>8, IdleWork DEF Unseal, HostCall
  <2>2. PICK m \in Ledger, d \in Cursor :
          led' = m /\ cursor' = d /\ LedgerInv(m, d, gap)
    BY <1>0, <1>8, SpendRescanInv DEF StoreInv, Unseal
  <2>3. restore' = restore /\ gap' = gap BY <1>8 DEF Unseal
  <2> QED BY <1>0, <2>1, <2>2, <2>3, StoreStep DEF StoreInv
<1> QED BY <1>1, <1>2, <1>3, <1>4, <1>5, <1>6, <1>7, <1>8 DEF Environment

(* A branch point the probe proves has a recorded hash right below it, or  *)
(* is the restore height.                                                  *)
LEMMA ForkHeight ==
  ASSUME TypeInv, WindowInv(work), NEW h \in Height, ForkAt(h)
  PROVE  restore <= h /\ (h > restore => work.win[h - 1] # NoBlock)
<1>1. probe \in Height /\ work.win[probe] # NoBlock /\ restore \in Nat /\ Height \subseteq Nat
  BY HeightsAreCursors DEF ForkAt, Answered, TypeInv, ControlInv, TypeOK
<1>2. CASE h = Max2(probe + 1, restore)
  <2>1. restore <= probe BY <1>1 DEF WindowInv
  <2>2. h = probe + 1 BY <1>1, <1>2, <2>1 DEF Max2
  <2> QED BY <1>1, <2>1, <2>2
<1>3. CASE h = restore BY <1>1, <1>3
<1> QED BY <1>2, <1>3 DEF ForkAt

(* What is reconciled from c on is reconciled from any later height on ... *)
LEMMA ReconciledUp ==
  ASSUME NEW l \in Ledger, NEW c \in Nat, NEW d \in Nat, c <= d, Reconciled(l, c)
  PROVE  Reconciled(l, d)
<1>1. \A o \in Output : l.recv[o] \in Int /\ l.spent[o] \in Int
  BY ChainAssumption DEF Ledger, HeightOrNone, NoHeight, Height
<1> QED BY <1>1 DEF Reconciled

(* ... and a rewind to h removes what is recorded from h on.               *)
LEMMA ReconciledRewind ==
  ASSUME NEW l \in Ledger, NEW c \in Nat, NEW h \in Nat, NEW d \in Nat,
         Reconciled(l, c), c <= d \/ h <= d
  PROVE  Reconciled(Rewind(l, h), d)
<1>1. \A o \in Output : l.recv[o] \in Int /\ l.spent[o] \in Int
  BY ChainAssumption DEF Ledger, HeightOrNone, NoHeight, Height
<1>2. /\ \A o \in Output : Rewind(l, h).recv[o] = IF l.recv[o] < h THEN l.recv[o] ELSE NoHeight
      /\ \A o \in Output : Rewind(l, h).spent[o] = IF l.recv[o] < h /\ l.spent[o] < h
                                        THEN l.spent[o] ELSE NoHeight
  BY DEF Rewind
<1> QED BY <1>1, <1>2 DEF Reconciled

(* Claiming the wallet, and the steps of the two probes.                   *)
LEMMA PrefixProbe ==
  ASSUME PrefixInv, Onward, StartRefresh \/ Probe
  PROVE  StoreInv' /\ WorkInv'
<1>0. /\ TypeOK /\ TypeInv /\ StoreInv /\ WorkInv
      /\ restore \in Height /\ cursor \in Cursor /\ led \in Ledger
      /\ work \in Ledger /\ cur \in Cursor
      /\ Height \subseteq Cursor /\ Cursor \subseteq Nat /\ Height \subseteq Nat
      /\ restore \in Nat /\ cursor \in Nat /\ cur \in Nat
      /\ LedgerInv(led, cursor, gap)
  BY HeightsAreCursors DEF PrefixInv, TypeInv, TypeOK, StoreInv
(* The working copy starts as the store; all it holds is replayed.         *)
<1>1. ASSUME StartRefresh PROVE StoreInv' /\ WorkInv'
  <2> DEFINE c == Max2(cursor, restore)
             d == HeightOf[daemon] + 1
             e == Min2(Max2(Min2(c, d), restore), d)
  <2>1. /\ work' = led /\ cur' = c /\ cursor' = e
        /\ UNCHANGED <<led, restore, gap, batch, ready>> /\ job' \in {"loop", "resume"}
        /\ ready = NoBlock
    BY <1>0, <1>1 DEF StartRefresh, TypeInv, ControlInv
  <2>2. c \in Cursor /\ d \in Cursor /\ c \in Nat /\ d \in Nat
    <3>1. HeightOf[daemon] \in Height BY <1>0, ChainAssumption DEF TypeOK
    <3>2. d \in Cursor BY <3>1, ChainAssumption DEF Height, Cursor
    <3>3. c \in Cursor BY <1>0, CursorType
    <3> QED BY <1>0, <3>2, <3>3
  <2>3. restore <= c /\ (c > restore => c = cursor) BY <1>0 DEF Max2
  <2>4. e \in Cursor /\ e <= c
    <3>1. Min2(c, d) \in Cursor /\ Min2(c, d) \in Nat /\ Min2(c, d) <= c
      BY <2>2 DEF Min2
    <3>2. Max2(Min2(c, d), restore) \in Cursor /\ Max2(Min2(c, d), restore) <= c
      BY <1>0, <2>3, <3>1 DEF Max2
    <3>3. \A x \in Cursor : Min2(x, d) \in Cursor /\ Min2(x, d) <= x
      BY <1>0, <2>2 DEF Min2
    <3> DEFINE m == Max2(Min2(c, d), restore)
    <3>4. Min2(m, d) \in Cursor /\ Min2(m, d) <= m BY <3>2, <3>3
    <3>5. m \in Nat /\ Min2(m, d) \in Nat BY <1>0, <3>2, <3>4
    <3> HIDE DEF c, d, m
    <3>6. m <= c BY <3>2 DEF m
    <3>7. Min2(m, d) <= c BY <2>2, <3>4, <3>5, <3>6
    <3> QED BY <3>4, <3>7 DEF m
  <2> HIDE DEF c, e
  <2>5. LedgerInv(led, c, gap)
    <3>1. c > restore => c <= cursor BY <1>0, <2>3
    <3> QED BY <1>0, <2>2, <3>1, CursorDown
  <2>6. LedgerInv(led, e, gap) BY <2>2, <2>4, <2>5, <1>0, CursorDown
  <2>7. StoreInv' BY <1>0, <2>1, <2>6, StoreStep
  <2>8. \A o \in Output : /\ led.recv[o] # NoHeight => led.recv[o] \in replay'
                          /\ led.spent[o] # NoHeight => led.spent[o] \in replay'
    <3>1. \A o \in Output : led.recv[o] \in HeightOrNone /\ led.spent[o] \in HeightOrNone
      BY <1>0 DEF Ledger
    <3>2. \A o \in Output : led.spent[o] # NoHeight => led.recv[o] # NoHeight
      BY <1>0 DEF LedgerInv, AboveRestore
    <3>3. replay' = {h \in Height : \E o \in Tracked(led) : h \in {led.recv[o], led.spent[o]}}
      BY <1>1 DEF StartRefresh
    <3> QED BY <3>1, <3>2, <3>3 DEF Tracked, HeightOrNone
  <2>9. LedgerInv(work, cur, gap)' BY <2>1, <2>5, WorkLedgerStep
  <2>10. WorkInv'
    <3>1. Reconciled(work, IF job = "resume" THEN 0 ELSE cur)'
      BY <2>1, <2>8 DEF Reconciled
    <3>2. Anchored(work, cur, gap, job, batch, ready)' BY <2>1 DEF Anchored
    <3> QED BY <2>1, <2>3, <2>9, <3>1, <3>2 DEF WorkInv
  <2> QED BY <2>7, <2>10
<1>2. ASSUME ProbeDown PROVE StoreInv' /\ WorkInv'
  BY <1>0, <1>2, StoreStays, WorkStays DEF ProbeDown, store
(* A probe runs without a batch and without a prefetch.                    *)
<1>11. Probing => /\ ready = NoBlock
                  /\ \A l, c : Anchored(l, c, gap, "loop", batch, NoBlock)
  BY <1>0 DEF TypeInv, ControlInv, Probing, Anchored
<1>3. ASSUME ResumeKeeps PROVE StoreInv' /\ WorkInv'
  <2>1. StoreInv' BY <1>0, <1>3, StoreStays DEF ResumeKeeps, store
  <2>2. LedgerInv(work, cur, gap) /\ restore <= cur /\ Reconciled(work, 0)
    BY <1>0, <1>3 DEF ResumeKeeps, WorkInv
  <2>3. Reconciled(work, cur) BY <1>0, <2>2, ReconciledUp
  <2>4. /\ job' = "loop" /\ Probing
        /\ UNCHANGED <<restore, gap, replay, work, cur, batch, ready>>
    BY <1>3 DEF ResumeKeeps, Probing, store, refresh
  <2> QED BY <1>11, <2>1, <2>2, <2>3, <2>4, WorkStep
<1>4. ASSUME NEW h \in Height, ResumeRewinds(h) PROVE StoreInv' /\ WorkInv'
  <2> DEFINE d == Min2(cur, h)
  <2>1. LedgerInv(work, cur, gap) /\ restore <= cur /\ Reconciled(work, 0)
    BY <1>0, <1>4 DEF ResumeRewinds, WorkInv
  <2>2. restore <= h /\ (h > restore => work.win[h - 1] # NoBlock)
    BY <1>0, <1>4, <2>1, ForkHeight DEF ResumeRewinds, LedgerInv
  <2>3. d \in Cursor /\ d \in Nat /\ d <= h /\ d <= cur /\ restore <= d
    BY <1>0, <2>1, <2>2 DEF Min2
  <2>4. /\ work' = Rewind(work, h) /\ cur' = d /\ Commit(Rewind(work, h), d)
        /\ job' = "loop" /\ Probing /\ UNCHANGED <<replay, batch, ready>>
    BY <1>4 DEF ResumeRewinds, Probing
  <2> HIDE DEF d
  <2>5. LedgerInv(work, d, gap) BY <1>0, <2>1, <2>3, CursorDown
  <2>6. LedgerInv(Rewind(work, h), d, gap)
    <3>1. h \in Cursor BY <1>0
    <3> QED BY <1>0, <2>3, <2>5, <3>1, RewindInv
  <2>7. Rewind(work, h) \in Ledger BY <1>0, RewindType
  <2>8. StoreInv' BY <1>0, <2>3, <2>4, <2>6, <2>7, CommitInv
  <2>9. Reconciled(Rewind(work, h), d) BY <1>0, <2>1, <2>3, ReconciledUp, ReconciledRewind
  <2>10. restore' = restore /\ gap' = gap BY <2>4 DEF Commit
  <2>11. Anchored(Rewind(work, h), d, gap, "loop", batch, NoBlock) /\ ready = NoBlock
    BY <1>11, <2>4
  <2> QED BY <2>3, <2>4, <2>6, <2>8, <2>9, <2>10, <2>11, WorkStep
<1>5. ASSUME ResumeFails PROVE StoreInv' /\ WorkInv'
  BY <1>0, <1>5, StoreStays, IdleWork DEF ResumeFails, Stop, store
<1>6. ASSUME NEW h \in Height, ParentRewinds(h) PROVE StoreInv' /\ WorkInv'
  <2>1. LedgerInv(work, cur, gap) /\ restore < cur /\ Reconciled(work, cur)
    BY <1>0, <1>6 DEF ParentRewinds, WorkInv
  <2>2. restore <= h /\ (h > restore => work.win[h - 1] # NoBlock)
    BY <1>0, <1>6, <2>1, ForkHeight DEF ParentRewinds, LedgerInv
  <2>3. /\ work' = Rewind(work, h) /\ cur' = h /\ Commit(Rewind(work, h), h)
        /\ job' = "loop" /\ Probing /\ UNCHANGED <<replay, batch, ready>>
    BY <1>6 DEF ParentRewinds, Probing
  <2>4. LedgerInv(Rewind(work, h), h, gap)
    <3>1. h \in Cursor /\ h <= h BY <1>0
    <3>2. LedgerInv(work, h, gap)
      <4>1. cur > restore BY <1>0, <2>1
      <4> QED BY <1>0, <2>1, <2>2, <4>1, WindowCursor
    <3> QED BY <1>0, <3>1, <3>2, RewindInv
  <2>5. Rewind(work, h) \in Ledger BY <1>0, RewindType
  <2>6. StoreInv' BY <1>0, <2>2, <2>3, <2>4, <2>5, CommitInv
  <2>7. Reconciled(Rewind(work, h), h)
    BY <1>0, <2>1, ReconciledRewind
  <2>8. restore' = restore /\ gap' = gap BY <2>3 DEF Commit
  <2>9. Anchored(Rewind(work, h), h, gap, "loop", batch, NoBlock) /\ ready = NoBlock
    BY <1>11, <2>3
  <2> QED BY <2>2, <2>3, <2>4, <2>6, <2>7, <2>8, <2>9, WorkStep
<1>7. ASSUME ParentRetry PROVE StoreInv' /\ WorkInv'
  <2>1. StoreInv' BY <1>0, <1>7, StoreStays DEF ParentRetry, store
  <2>2. LedgerInv(work, cur, gap) /\ restore <= cur /\ Reconciled(work, cur)
    BY <1>0, <1>7 DEF ParentRetry, ParentUnproven, WorkInv
  <2>3. job' = "loop" /\ Probing /\ UNCHANGED <<restore, gap, replay, work, cur, batch, ready>>
    BY <1>7 DEF ParentRetry, ParentUnproven, Probing, store
  <2> QED BY <1>11, <2>1, <2>2, <2>3, WorkStep
<1>8. ASSUME ParentAborts PROVE StoreInv' /\ WorkInv'
  BY <1>0, <1>8, StoreStays, IdleWork DEF ParentAborts, Stop, store
<1> QED BY <1>1, <1>2, <1>3, <1>4, <1>5, <1>6, <1>7, <1>8 DEF Probe

(* The batch loop.                                                         *)
LEMMA PrefixBatch ==
  ASSUME Finality \/ TipInv, PrefixInv, Onward, Batch
  PROVE  StoreInv' /\ WorkInv'
<1>0. /\ TypeOK /\ TypeInv /\ StoreInv /\ WorkInv
      /\ restore \in Height /\ work \in Ledger /\ cur \in Cursor
      /\ Height \subseteq Cursor /\ Cursor \subseteq Nat /\ Height \subseteq Nat
      /\ restore \in Nat /\ cur \in Nat
  BY HeightsAreCursors DEF PrefixInv, TypeInv, TypeOK, StoreInv
<1>1. ASSUME LoopCancelled PROVE StoreInv' /\ WorkInv'
  BY <1>0, <1>1, StoreStays, IdleWork DEF LoopCancelled, Stop, store
(* The batch is accepted on the hash below it, or on a final block there.  *)
<1>2. ASSUME NEW t \in Block, ScanBatch(t) PROVE StoreInv' /\ WorkInv'
  <2>1. StoreInv' BY <1>0, <1>2, StoreStays DEF ScanBatch, store
  <2>2. /\ LedgerInv(work, cur, gap) /\ restore <= cur /\ Reconciled(work, cur)
        /\ ready # NoBlock => Mature(ready) /\ work.win[cur - 1] # NoBlock
        /\ \/ ready = NoBlock /\ t \in Response(cur)
           \/ ready # NoBlock /\ t = ready
    BY <1>0, <1>2 DEF ScanBatch, Scanning, Fetched, WorkInv, Anchored
  <2>3. cur <= HeightOf[t]
    BY <1>0, <1>2, ResponseType DEF ScanBatch, Scanning, Fetched, TypeInv, ControlInv
  <2>4. Mature(t) BY <1>0, <2>2, ResponseMature
  <2>5. ASSUME restore < cur PROVE ScanOf(work, cur, t, gap)
    <3>1. /\ cur \in Height /\ cur - 1 \in Height /\ cur # 0 /\ cur - 1 <= cur
          /\ HeightOf[t] \in Int /\ cur - 1 <= HeightOf[t]
          /\ \A x \in Height : x < cur => x <= cur - 1
      BY <1>0, <2>3, <2>5, ChainAssumption DEF Height, Cursor
    <3>2. PICK s \in Block : /\ HeightOf[s] = cur - 1 /\ s = Anc[t][cur - 1]
                             /\ ScanOf(work, cur, s, gap)
      <4>1. CASE work.win[cur - 1] # NoBlock
        <5>1. /\ Anc[t][cur] \in Block /\ HeightOf[Anc[t][cur]] = cur
              /\ Anc[Anc[t][cur]][cur - 1] = Anc[t][cur - 1]
          BY <2>3, <3>1, Ancestors
        <5>2. ExpectedPrev(work, cur) = work.win[cur - 1] BY <3>1 DEF ExpectedPrev
        <5>3. Parent(Anc[t][cur]) = Anc[t][cur - 1] BY <3>1, <5>1 DEF Parent
        <5>4. work.win[cur - 1] = Anc[t][cur - 1]
          BY <1>2, <4>1, <5>2, <5>3 DEF ScanBatch, ParentMismatch
        <5>5. /\ work.win[cur - 1] \in Block /\ HeightOf[work.win[cur - 1]] = cur - 1
              /\ ScanOf(work, cur, work.win[cur - 1], gap)
          BY <1>0, <2>2, <2>5, <3>1, <4>1, WindowCursor
        <5> QED BY <5>4, <5>5
      <4>2. CASE work.win[cur - 1] = NoBlock
        <5>0. Finality
          BY <1>0, <1>2, <2>5, <4>2 DEF TipInv, WorkTip, AtTip, ScanBatch, Scanning
        <5>1. t \in Response(cur) BY <2>2, <4>2
        <5>2. PICK s \in Block : HeightOf[s] = cur - 1 /\ ScanOf(work, cur, s, gap)
          BY <2>2, <2>5 DEF LedgerInv, ScannedTo
        <5>3. Anc[s][cur - 1] = s BY <5>2, ChainAssumption
        <5>4. Settled(s, daemon)
          <6>1. cur - 1 < cur /\ restore <= cur - 1 BY <1>0, <2>5
          <6> QED BY <3>1, <4>2, <5>2, <5>3, <6>1 DEF ScanOf, Piece
        <5>5. Anc[t][HeightOf[s]] = s
          BY <1>0, <3>1, <5>0, <5>1, <5>2, <5>4, ResponseMature, FinalBelow
        <5> QED BY <5>2, <5>5
      <4> QED BY <4>1, <4>2
    <3>3. \A x \in Height : x < cur => Anc[s][x] = Anc[t][x]
      BY <3>1, <3>2, Ancestors
    <3> QED BY <1>0, <3>2, <3>3, ScanOfSame
  <2>6. /\ job' = "scan" /\ batch' = t /\ ready' = NoBlock
        /\ UNCHANGED <<restore, gap, replay, work, cur>>
    BY <1>2 DEF ScanBatch, store
  <2>7. Anchored(work, cur, gap, "scan", t, NoBlock) BY <2>4, <2>5 DEF Anchored
  <2> QED BY <2>1, <2>2, <2>6, <2>7, WorkStep
<1>3. ASSUME NEW t \in Block, ProbeParent(t) PROVE StoreInv' /\ WorkInv'
  <2>1. StoreInv' BY <1>0, <1>3, StoreStays DEF ProbeParent, store
  <2>2. LedgerInv(work, cur, gap) /\ restore <= cur /\ Reconciled(work, cur)
    BY <1>0, <1>3 DEF ProbeParent, Scanning, WorkInv
  <2>3. restore < cur
    <3>0. cur # 0
      BY <1>3 DEF PrefixInv, GenesisInv, AtGenesis, ProbeParent, Scanning, ParentMismatch,
                  ExpectedPrev
    <3>1. cur # 0 /\ cur - 1 \in Height
      BY <1>0, <3>0, ChainAssumption DEF Height, Cursor
    <3>2. work.win[cur - 1] # NoBlock
      BY <1>3, <3>1 DEF ProbeParent, ParentMismatch, ExpectedPrev
    <3>3. restore <= cur - 1 BY <2>2, <3>1, <3>2 DEF LedgerInv, WindowInv
    <3> QED BY <1>0, <3>3
  <2>4. /\ job' = "parent" /\ ready' = NoBlock
        /\ UNCHANGED <<restore, gap, replay, work, cur, batch>>
    BY <1>3 DEF ProbeParent, store
  <2>5. Anchored(work, cur, gap, "parent", batch, NoBlock) BY DEF Anchored
  <2> QED BY <2>1, <2>2, <2>3, <2>4, <2>5, WorkStep
<1>4. ASSUME FetchFails PROVE StoreInv' /\ WorkInv'
  BY <1>0, <1>4, StoreStays, IdleWork DEF FetchFails, Stop, store
<1>5. ASSUME ScanNext PROVE StoreInv' /\ WorkInv'
  <2> DEFINE b == Anc[batch][cur]
             m == ScanBlock(work, b, gap, sealed, replay)
  <2>1. StoreInv' BY <1>0, <1>5, StoreStays DEF ScanNext, store
  <2>2. /\ LedgerInv(work, cur, gap) /\ restore <= cur /\ Reconciled(work, cur)
        /\ restore < cur => ScanOf(work, cur, batch, gap)
        /\ Mature(batch) /\ (ready # NoBlock => Mature(ready))
    BY <1>0, <1>5 DEF ScanNext, WorkInv, Anchored
  <2>3. batch \in Block /\ cur <= HeightOf[batch] /\ cur \in Height /\ cur + 1 \in Cursor
    <3>1. batch \in Block /\ cur <= HeightOf[batch] /\ HeightOf[batch] \in Height
      BY <1>0, <1>5, ChainAssumption DEF ScanNext, TypeInv, ControlInv
    <3> QED BY <1>0, <3>1, ChainAssumption DEF Height, Cursor
  <2>4. /\ b \in Block /\ HeightOf[b] = cur
        /\ \A k \in Height : k <= cur => Anc[b][k] = Anc[batch][k]
    BY <2>3, Ancestors
  <2> HIDE DEF b
  <2>5. restore < cur => ScanOf(work, cur, b, gap)
    <3>1. \A x \in Height : x < cur => Anc[batch][x] = Anc[b][x] BY <1>0, <2>4
    <3> QED BY <1>0, <2>2, <3>1, ScanOfSame
  <2>6. Mature(b)
    <3>1. ASSUME NEW k \in Height, k + HashWindow <= cur
          PROVE  k <= cur /\ k + HashWindow <= HeightOf[batch]
      BY <1>0, <2>3, <3>1, ChainAssumption, HashWindowAssumption DEF Height
    <3> QED BY <2>2, <2>4, <3>1 DEF Mature
  <2>7. /\ LedgerInv(m, cur + 1, gap) /\ ScanOf(m, cur + 1, b, gap)
        /\ Reconciled(m, cur + 1) /\ m.win[cur] = b
    BY <1>0, <2>2, <2>3, <2>4, <2>5, <2>6, ScanBlockInv
  <2>8. /\ work' = m /\ cur' = cur + 1 /\ job' \in {"scan", "commit"}
        /\ UNCHANGED <<restore, gap, replay, batch, ready>>
    BY <1>5 DEF ScanNext, store, b
  <2>9. m \in Ledger BY <1>0, <2>4, ScanBlockType, PaymentAssumption DEF TypeOK
  <2> HIDE DEF m
  <2>10. ScanOf(m, cur + 1, batch, gap)
    <3>0. \A x \in Height : x < cur + 1 => x <= cur BY <1>0
    <3>1. \A x \in Height : x < cur + 1 => Anc[b][x] = Anc[batch][x] BY <2>4, <3>0
    <3> QED BY <1>0, <2>3, <2>7, <2>9, <3>1, ScanOfSame
  <2>11. restore <= cur + 1 /\ (cur + 1) - 1 = cur /\ b # NoBlock
    BY <1>0, <2>2, <2>4, ChainAssumption
  <2>12. Anchored(m, cur + 1, gap, job', batch, ready)
    BY <2>2, <2>7, <2>8, <2>10, <2>11 DEF Anchored
  <2> QED BY <2>1, <2>7, <2>8, <2>11, <2>12, WorkStep
<1>6. ASSUME ScanStops PROVE StoreInv' /\ WorkInv'
  BY <1>0, <1>6, StoreStays, IdleWork DEF ScanStops, Stop, store
(* What arrives while a batch is scanned is anchored by the batch.         *)
<1>7. ASSUME NEW t \in Block, PrefetchArrives(t) PROVE StoreInv' /\ WorkInv'
  <2>1. StoreInv' BY <1>0, <1>7, StoreStays DEF PrefetchArrives, store
  <2>2. /\ job \in {"scan", "commit"} /\ batch \in Block /\ HeightOf[batch] + 1 \in Cursor
        /\ t \in Response(HeightOf[batch] + 1)
    BY <1>0, <1>7, ChainAssumption DEF PrefetchArrives, TypeInv, ControlInv, Height, Cursor
  <2>3. Mature(t) BY <1>0, <2>2, ResponseMature
  <2>4. /\ restore <= cur /\ LedgerInv(work, cur, gap) /\ Reconciled(work, cur)
        /\ Anchored(work, cur, gap, job, batch, ready)
    BY <2>2, <1>0 DEF WorkInv
  <2>5. Anchored(work, cur, gap, job, batch, t) BY <2>2, <2>3, <2>4 DEF Anchored
  <2>6. UNCHANGED <<restore, gap, replay, work, cur, job, batch>> /\ ready' = t
    BY <1>7 DEF PrefetchArrives, store
  <2> QED BY <2>1, <2>2, <2>4, <2>5, <2>6, WorkStep
<1>8. ASSUME PrefetchFails PROVE StoreInv' /\ WorkInv'
  BY <1>0, <1>8, StoreStays, WorkStays DEF PrefetchFails, store
<1>9. ASSUME CommitBatch PROVE StoreInv' /\ WorkInv'
  <2>1. /\ LedgerInv(work, cur, gap) /\ restore <= cur /\ Reconciled(work, cur)
        /\ Anchored(work, cur, gap, "commit", batch, ready)
    BY <1>0, <1>9 DEF CommitBatch, WorkInv
  <2>2. Commit(work, cur) /\ job' = "loop" /\ UNCHANGED refresh
    BY <1>9 DEF CommitBatch
  <2>3. StoreInv' BY <1>0, <2>1, <2>2, CommitInv
  <2>4. UNCHANGED <<restore, gap, replay, work, cur, batch, ready>>
    BY <2>2 DEF Commit, refresh
  <2>5. Anchored(work, cur, gap, "loop", batch, ready) BY <2>1 DEF Anchored
  <2> QED BY <2>1, <2>2, <2>3, <2>4, <2>5, WorkStep
<1>10. ASSUME Finish PROVE StoreInv' /\ WorkInv'
  <2>1. LedgerInv(work, cur, gap) /\ restore <= cur
    BY <1>0, <1>10 DEF Finish, WorkInv
  <2>2. Commit(work, cur) /\ job' = "idle" BY <1>10 DEF Finish, Stop
  <2> QED BY <1>0, <2>1, <2>2, CommitInv, IdleWork
<1> QED BY <1>1, <1>2, <1>3, <1>4, <1>5, <1>6, <1>7, <1>8, <1>9, <1>10 DEF Batch

LEMMA PrefixInit == GenesisCoverageFixed /\ Init => PrefixInv
<1> SUFFICES ASSUME GenesisCoverageFixed, Init PROVE PrefixInv
  OBVIOUS
<1>1. TypeInv BY TypeInit
<1>2. restore \in Nat /\ cursor = restore /\ led = EmptyLedger
  BY RefreshAssumption, HeightsAreCursors DEF Init
<1>3. /\ \A x \in Height : EmptyLedger.win[x] = NoBlock
      /\ \A o \in Output : EmptyLedger.recv[o] = NoHeight /\ EmptyLedger.spent[o] = NoHeight
  BY DEF EmptyLedger
<1>4. StoreInv
  BY <1>2, <1>3 DEF StoreInv, LedgerInv, WindowInv, AboveRestore, ScannedTo
<1>5. WorkInv BY DEF Init, WorkInv
<1>6. GenesisInv BY GenesisInit
<1> QED BY <1>1, <1>4, <1>5, <1>6 DEF PrefixInv

(* Every step of every behaviour preserves it.                             *)
LEMMA PrefixInductive ==
  ASSUME GenesisCoverageFixed
  PROVE  PrefixInv /\ (Finality \/ TipInv) /\ [Next]_vars => PrefixInv'
<1> SUFFICES ASSUME PrefixInv, Finality \/ TipInv, [Next]_vars PROVE PrefixInv'
  OBVIOUS
<1>1. TypeInv /\ GenesisInv /\ StoreInv /\ WorkInv BY DEF PrefixInv
<1>2. TypeInv'
  BY <1>1, TypeEnvironment, TypeProbe, TypeBatch
  DEF Next, RefreshStep, vars, store, refresh, TypeInv, TypeOK, ControlInv, Probing
<1>3. Onward /\ GenesisInv' BY <1>1, NextTip, FinalStays, GenesisStep DEF TypeInv
<1>4. CASE Next
  BY <1>2, <1>3, <1>4, PrefixEnvironment, PrefixProbe, PrefixBatch
  DEF Next, RefreshStep, PrefixInv
<1>5. CASE UNCHANGED vars
  BY <1>1, <1>2, <1>3, <1>5, StoreStays, WorkStays DEF vars, store, refresh, PrefixInv
<1> QED BY <1>4, <1>5

(* Below a cursor past the restore height, the store is a scan.            *)
LEMMA PrefixScan == PrefixInv => StoreIsPrefixScan
<1> SUFFICES ASSUME PrefixInv, cursor > restore
             PROVE  \E t \in Block :
                      /\ HeightOf[t] = cursor - 1
                      /\ led.win[cursor - 1] \in {t, NoBlock}
                      /\ Sound(led, cursor, t)
                      /\ "reset" \notin Ops => AllReceipts(led, cursor, t)
                      /\ AllSpends(led, cursor, t)
  BY DEF StoreIsPrefixScan
<1>1. /\ LedgerInv(led, cursor, gap) /\ cursor \in Nat
      /\ cursor - 1 \in Height /\ cursor - 1 < cursor
  BY HeightsAreCursors, ChainAssumption
  DEF PrefixInv, StoreInv, TypeInv, TypeOK, Cursor, Height
<1>2. PICK t \in Block : HeightOf[t] = cursor - 1 /\ ScanOf(led, cursor, t, gap)
  BY <1>1 DEF LedgerInv, ScannedTo
<1>3. Anc[t][cursor - 1] = t BY <1>2, ChainAssumption
<1>4. led.win[cursor - 1] \in {t, NoBlock} BY <1>1, <1>2, <1>3 DEF ScanOf, Piece
<1> WITNESS t \in Block
<1> QED BY <1>2, <1>4 DEF ScanOf, Exact, Receipts, AllReceipts

(* A rewind leaves the window at the edge of the cursor, or nothing is     *)
(* scanned.                                                                *)
LEMMA AtTipRewind ==
  ASSUME TypeOK, NEW l, NEW h \in Height, h > restore => l.win[h - 1] # NoBlock
  PROVE  AtTip(Rewind(l, h), h)
<1>1. restore \in Nat /\ h \in Nat /\ (h > restore => h - 1 \in Height)
  BY ChainAssumption DEF Height, TypeOK
<1>2. \A x \in Height : Rewind(l, h).win[x] = IF x < h THEN l.win[x] ELSE NoBlock
  BY DEF Rewind
<1>3. \A x \in Height : x >= h => Rewind(l, h).win[x] = NoBlock
  BY <1>1, <1>2 DEF Height
<1>4. h > restore => Rewind(l, h).win[h - 1] # NoBlock
  BY <1>1, <1>2
<1> QED BY <1>3, <1>4 DEF AtTip

(* A block is pushed at the end of the window and cuts off what is behind. *)
LEMMA AtTipScan ==
  ASSUME NEW l, NEW c \in Height, NEW b \in Block, HeightOf[b] = c, NEW g, NEW k, NEW q
  PROVE  AtTip(ScanBlock(l, b, g, k, q), c + 1)
<1> DEFINE m == ScanBlock(l, b, g, k, q)
<1>1. m.win = PushRecentBlockHash(l, c, b) BY DEF ScanBlock
<1> HIDE DEF m
<1>2. m.win[c] = b /\ \A x \in Height : x > c => m.win[x] = NoBlock
  BY <1>1, ChainAssumption DEF PushRecentBlockHash, Height
<1>3. c \in Int /\ b # NoBlock /\ (c + 1) - 1 = c BY ChainAssumption DEF Height
<1>4. \A x \in Height : x >= c + 1 => x > c BY <1>3 DEF Height
<1> QED BY <1>2, <1>3, <1>4 DEF AtTip, m

(* A checkpoint at the end of the window is not clamped.                   *)
LEMMA TipCommit ==
  ASSUME TypeOK, NEW l, NEW c \in Cursor, restore <= c, AtTip(l, c),
         c > restore => c <= dh, dh <= HeightOf[daemon] + 1, Commit(l, c), daemon' = daemon
  PROVE  StoreTip'
<1>1. /\ c \in Nat /\ restore \in Nat /\ dh \in Nat /\ HeightOf[daemon] \in Nat
  BY ChainAssumption, HeightsAreCursors DEF TypeOK
<1>2. /\ led' = l /\ restore' = restore
      /\ cursor' = Min2(Max2(c, restore), dh)
  BY DEF Commit
<1>3. cursor' > restore => cursor' = c /\ c > restore /\ c <= dh
  BY <1>1, <1>2 DEF Min2, Max2
<1>4. cursor' > restore => cursor' <= HeightOf[daemon] + 1 BY <1>1, <1>3
<1>5. AtTip(led, cursor)' BY <1>2, <1>3 DEF AtTip
<1> QED BY <1>2, <1>4, <1>5 DEF StoreTip

LEMMA TipInit == Init => TipInv
<1> SUFFICES ASSUME Init PROVE TipInv
  OBVIOUS
<1>1. restore \in Nat BY RefreshAssumption, HeightsAreCursors DEF Init
<1> QED BY <1>1 DEF Init, TipInv, StoreTip, WorkTip, BatchTip, AtTip

LEMMA TipEnvironment ==
  ASSUME NeverRewound, TypeInv, TipInv, Environment
  PROVE  TipInv'
<1>0. /\ restore \in Nat /\ cursor \in Nat /\ dh \in Nat /\ daemon \in Block
      /\ HeightOf[daemon] \in Nat /\ TypeOK
  BY ChainAssumption, HeightsAreCursors DEF TypeInv, TypeOK
<1>1. ASSUME NEW b \in Block, DaemonMoves(b) PROVE TipInv'
  <2>1. daemon' = b /\ HeightOf[b] \in Nat /\ HeightOf[b] >= HeightOf[daemon]
    BY <1>0, <1>1, ChainAssumption DEF DaemonMoves, NeverRewound, RisingTips, Height
  <2>2. UNCHANGED <<led, cursor, restore, work, cur, job, dh, batch, ready>>
    BY <1>1 DEF DaemonMoves, store, refresh
  <2>3. StoreTip' BY <1>0, <2>1, <2>2 DEF TipInv, StoreTip, AtTip
  <2>4. WorkTip' BY <1>0, <2>1, <2>2 DEF TipInv, WorkTip, AtTip
  <2>5. BatchTip' BY <2>2 DEF TipInv, BatchTip
  <2> QED BY <2>3, <2>4, <2>5 DEF TipInv
<1>2. CASE RequestCancel
  <2>1. UNCHANGED <<daemon, led, cursor, restore, work, cur, job, dh, batch, ready>>
    BY <1>2 DEF RequestCancel, store, refresh
  <2> QED BY <2>1 DEF TipInv, StoreTip, WorkTip, BatchTip, AtTip
<1>3. ASSUME job' = "idle", UNCHANGED <<job, dh, batch, ready>>, StoreTip' PROVE TipInv'
  BY <1>3 DEF TipInv, WorkTip, BatchTip
<1>4. CASE SetGapLimit
  <2>1. ~(cursor' > restore') BY <1>0, <1>4 DEF SetGapLimit
  <2> QED BY <1>3, <1>4, <2>1 DEF SetGapLimit, HostCall, refresh, StoreTip, AtTip
<1>5. ASSUME NEW h \in RescanTargets, ForceRescan(h) PROVE TipInv'
  <2>1. h \in Nat BY RefreshAssumption, HeightsAreCursors
  <2>2. ~(cursor' > restore') BY <1>5, <2>1 DEF ForceRescan
  <2> QED BY <1>3, <1>5, <2>2 DEF ForceRescan, HostCall, refresh, StoreTip, AtTip
<1>6. CASE ResetTrackedOutputs
  <2>1. led'.win = led.win /\ UNCHANGED <<daemon, cursor, restore>>
    BY <1>6 DEF ResetTrackedOutputs, EmptyLedger
  <2>2. StoreTip' BY <2>1 DEF TipInv, StoreTip, AtTip
  <2> QED BY <1>3, <1>6, <2>2 DEF ResetTrackedOutputs, HostCall, refresh
<1> QED BY <1>1, <1>2, <1>4, <1>5, <1>6
    DEF Environment, NeverRewound, RewindScanCursor, Seal, Unseal, HostCall

(* A branch point the probe proves is not above the end of the window.     *)
LEMMA ForkBelow ==
  ASSUME PrefixInv, AtTip(work, cur), cur > restore, NEW h \in Height, ForkAt(h)
  PROVE  h <= cur
<1>1. /\ probe \in Height /\ work.win[probe] # NoBlock /\ restore \in Nat /\ cur \in Nat
      /\ Height \subseteq Nat
  BY HeightsAreCursors DEF ForkAt, Answered, PrefixInv, TypeInv, ControlInv, TypeOK
<1>2. probe < cur BY <1>1 DEF AtTip
<1>3. h = Max2(probe + 1, restore) \/ h = restore BY DEF ForkAt
<1> QED BY <1>1, <1>2, <1>3 DEF Max2

LEMMA TipProbe ==
  ASSUME PrefixInv, TipInv, StartRefresh \/ Probe
  PROVE  TipInv'
<1>0. /\ TypeOK /\ TypeInv /\ restore \in Nat /\ cursor \in Nat /\ cur \in Nat /\ dh \in Nat
      /\ cur \in Cursor /\ HeightOf[daemon] \in Nat /\ Height \subseteq Cursor
      /\ Height \subseteq Nat /\ StoreTip /\ WorkTip /\ BatchTip
  BY ChainAssumption, HeightsAreCursors DEF PrefixInv, TypeInv, TypeOK, TipInv
<1>1. CASE StartRefresh
  <2>1. /\ work' = led /\ led' = led /\ restore' = restore /\ daemon' = daemon
        /\ cur' = Max2(cursor, restore) /\ dh' = HeightOf[daemon] + 1
        /\ cursor' = Min2(Max2(Min2(Max2(cursor, restore), HeightOf[daemon] + 1), restore),
                          HeightOf[daemon] + 1)
        /\ job' \in {"loop", "resume"} /\ ready = NoBlock /\ ready' = ready
    BY <1>0, <1>1 DEF StartRefresh, TypeInv, ControlInv
  <2>2. cur' > restore => cur' = cursor BY <1>0, <2>1 DEF Max2
  <2>3. cursor' > restore => cursor' = cursor
    BY <1>0, <2>1 DEF StoreTip, Min2, Max2
  <2>4. StoreTip' BY <1>0, <2>1, <2>3 DEF StoreTip, AtTip
  <2>5. AtTip(work, cur)' BY <1>0, <2>1, <2>2 DEF StoreTip, AtTip
  <2>6. WorkTip' BY <1>0, <2>1, <2>2, <2>5 DEF StoreTip, WorkTip
  <2>7. BatchTip' BY <2>1 DEF BatchTip
  <2> QED BY <2>4, <2>6, <2>7 DEF TipInv
<1>2. CASE ProbeDown \/ ResumeKeeps \/ ParentRetry
  <2>1. /\ UNCHANGED <<daemon, led, cursor, restore, work, cur, dh, batch, ready>>
        /\ job # "idle" /\ job' # "scan"
    BY <1>2 DEF ProbeDown, Answered, ResumeKeeps, ParentRetry, ParentUnproven, Probing, store,
                refresh
  <2> QED BY <1>0, <2>1 DEF TipInv, StoreTip, WorkTip, BatchTip, AtTip
<1>3. CASE ResumeFails \/ ParentAborts
  <2>1. UNCHANGED <<daemon, led, cursor, restore>> /\ job' = "idle" /\ ready' = NoBlock
    BY <1>3 DEF ResumeFails, ParentAborts, Stop, store
  <2> QED BY <1>0, <2>1 DEF TipInv, StoreTip, WorkTip, BatchTip, AtTip
(* The working copy is rewound to a hash the probe compared.               *)
<1>4. ASSUME NEW h \in Height, ForkAt(h), NEW c \in Cursor,
             c = h \/ (c = cur /\ cur <= h), cur > restore \/ c = cur,
             job \in {"resume", "parent"}, job' = "loop", work' = Rewind(work, h), cur' = c,
             Commit(Rewind(work, h), c), UNCHANGED <<daemon, dh, batch, ready>>
      PROVE  TipInv'
  <2>1. restore <= h /\ (h > restore => work.win[h - 1] # NoBlock) /\ restore <= cur
    BY <1>0, <1>4, ForkHeight DEF PrefixInv, WorkInv, LedgerInv
  <2>2. /\ cur > restore => cur <= dh /\ h <= cur
        /\ dh <= HeightOf[daemon] + 1 /\ AtTip(work, cur)
    BY <1>0, <1>4, ForkBelow DEF WorkTip
  <2>3. c > restore => c = h /\ c <= dh
    BY <1>0, <1>4, <2>1, <2>2
  <2>4. AtTip(Rewind(work, h), h) BY <1>0, <2>1, AtTipRewind
  <2>5. AtTip(Rewind(work, h), c) BY <2>3, <2>4 DEF AtTip
  <2>6. restore <= c BY <1>0, <1>4, <2>1
  <2>7. StoreTip' BY <1>0, <1>4, <2>2, <2>3, <2>5, <2>6, TipCommit
  <2>8. restore' = restore BY <1>4 DEF Commit
  <2>9. WorkTip' BY <1>4, <2>2, <2>3, <2>5, <2>8 DEF WorkTip, AtTip
  <2>10. BatchTip' BY <1>0, <1>4 DEF BatchTip
  <2> QED BY <2>7, <2>9, <2>10 DEF TipInv
<1>5. ASSUME NEW h \in Height, ResumeRewinds(h) PROVE TipInv'
  <2>1. restore <= h /\ restore <= cur
    BY <1>0, <1>5, ForkHeight DEF ResumeRewinds, PrefixInv, WorkInv, LedgerInv
  <2>2. Min2(cur, h) \in Cursor BY <1>0 DEF Min2
  <2>3. \/ Min2(cur, h) = h
        \/ Min2(cur, h) = cur /\ cur <= h
    BY <1>0 DEF Min2
  <2>4. cur > restore \/ Min2(cur, h) = cur BY <1>0, <2>1 DEF Min2
  <2>5. /\ ForkAt(h) /\ job = "resume" /\ job' = "loop" /\ work' = Rewind(work, h)
        /\ cur' = Min2(cur, h) /\ Commit(Rewind(work, h), Min2(cur, h))
        /\ UNCHANGED <<daemon, dh, batch, ready>>
    BY <1>5 DEF ResumeRewinds
  <2> QED BY <1>4, <2>2, <2>3, <2>4, <2>5
<1>6. ASSUME NEW h \in Height, ParentRewinds(h) PROVE TipInv'
  <2>1. cur > restore BY <1>0, <1>6 DEF ParentRewinds, PrefixInv, WorkInv
  <2> QED BY <1>0, <1>4, <1>6, <2>1 DEF ParentRewinds
<1> QED BY <1>1, <1>2, <1>3, <1>5, <1>6 DEF Probe

LEMMA TipBatch ==
  ASSUME PrefixInv, TipInv, Batch
  PROVE  TipInv'
<1>0. /\ TypeOK /\ TypeInv /\ restore \in Nat /\ cur \in Nat /\ dh \in Nat
      /\ cur \in Cursor /\ StoreTip /\ WorkTip /\ BatchTip
  BY ChainAssumption, HeightsAreCursors DEF PrefixInv, TypeInv, TypeOK, TipInv
<1>1. ASSUME NEW c \in Cursor, NEW t \in Response(c) PROVE HeightOf[t] < dh
  <2>1. PICK e \in Height : e < Min2(dh, c + BatchSize) /\ e <= HeightOf[daemon]
                            /\ t = Anc[daemon][e]
    BY DEF Response
  <2>2. HeightOf[t] = e BY <1>0, <2>1, Ancestors DEF TypeOK
  <2>3. c \in Nat /\ e \in Nat /\ BatchSize \in Nat
    BY HeightsAreCursors, RefreshAssumption
  <2> QED BY <1>0, <2>1, <2>2, <2>3 DEF Min2
<1>2. CASE LoopCancelled \/ FetchFails \/ ScanStops
  <2>1. UNCHANGED <<daemon, led, cursor, restore>> /\ job' = "idle" /\ ready' = NoBlock
    BY <1>2 DEF LoopCancelled, FetchFails, ScanStops, Stop, store
  <2> QED BY <1>0, <2>1 DEF TipInv, StoreTip, WorkTip, BatchTip, AtTip
<1>3. ASSUME NEW t \in Block, ScanBatch(t) \/ ProbeParent(t) \/ PrefetchArrives(t)
      PROVE  TipInv'
  <2>1. /\ UNCHANGED <<daemon, led, cursor, restore, work, cur, dh>> /\ job # "idle"
    BY <1>0, <1>3
    DEF ScanBatch, ProbeParent, PrefetchArrives, Scanning, store, TypeInv, ControlInv
  <2>2. StoreTip' /\ WorkTip' BY <1>0, <2>1 DEF StoreTip, WorkTip, AtTip
  <2>3. BatchTip'
    <3>1. CASE ScanBatch(t)
      <4>1. HeightOf[t] < dh BY <1>0, <1>1, <3>1 DEF ScanBatch, Fetched, BatchTip
      <4> QED BY <3>1, <4>1 DEF ScanBatch, BatchTip
    <3>2. CASE ProbeParent(t) BY <3>2 DEF ProbeParent, BatchTip
    <3>3. CASE PrefetchArrives(t)
      <4>1. HeightOf[batch] + 1 \in Cursor
        BY <1>0, <3>3, ChainAssumption
        DEF PrefetchArrives, TypeInv, ControlInv, Height, Cursor
      <4>2. HeightOf[t] < dh BY <1>1, <3>3, <4>1 DEF PrefetchArrives
      <4>3. UNCHANGED <<job, batch, dh>> /\ ready' = t BY <3>3 DEF PrefetchArrives
      <4> QED BY <1>0, <4>2, <4>3 DEF BatchTip
    <3> QED BY <1>3, <3>1, <3>2, <3>3
  <2> QED BY <2>2, <2>3 DEF TipInv
<1>4. CASE ScanNext
  <2> DEFINE b == Anc[batch][cur]
             m == ScanBlock(work, b, gap, sealed, replay)
  <2>1. batch \in Block /\ cur <= HeightOf[batch] /\ HeightOf[batch] \in Height
    BY <1>0, <1>4, ChainAssumption DEF ScanNext, TypeInv, ControlInv
  <2>2. cur \in Height /\ HeightOf[batch] \in Nat
    BY <1>0, <2>1, ChainAssumption DEF Height
  <2>3. b \in Block /\ HeightOf[b] = cur BY <2>1, <2>2, Ancestors
  <2> HIDE DEF b
  <2>4. AtTip(m, cur + 1) BY <2>2, <2>3, AtTipScan
  <2>5. /\ work' = m /\ cur' = cur + 1 /\ job' \in {"scan", "commit"} /\ job = "scan"
        /\ UNCHANGED <<daemon, led, cursor, restore, dh, batch, ready>>
    BY <1>4 DEF ScanNext, store, b
  <2> HIDE DEF m
  <2>6. StoreTip' /\ BatchTip' BY <1>0, <2>5 DEF StoreTip, BatchTip, AtTip
  <2>7. cur + 1 <= dh BY <1>0, <2>1, <2>2, <2>5 DEF BatchTip
  <2>8. AtTip(work, cur)' BY <2>4, <2>5 DEF AtTip
  <2>9. WorkTip' BY <1>0, <2>5, <2>7, <2>8 DEF WorkTip
  <2> QED BY <2>6, <2>9 DEF TipInv
<1>5. CASE PrefetchFails
  <2>1. UNCHANGED <<daemon, led, cursor, restore, work, cur, job, dh, batch, ready>>
    BY <1>5 DEF PrefetchFails, store
  <2> QED BY <1>0, <2>1 DEF TipInv, StoreTip, WorkTip, BatchTip, AtTip
<1>6. CASE CommitBatch \/ Finish
  <2>1. /\ Commit(work, cur) /\ job # "idle" /\ job' \in {"loop", "idle"}
        /\ UNCHANGED <<daemon, restore, work, cur, dh, batch>> /\ ready' \in {ready, NoBlock}
    BY <1>6 DEF CommitBatch, Finish, Stop, Commit, refresh
  <2>2. restore <= cur BY <2>1 DEF PrefixInv, WorkInv
  <2>3. StoreTip' BY <1>0, <2>1, <2>2, TipCommit DEF WorkTip
  <2>4. WorkTip' BY <1>0, <2>1 DEF WorkTip, AtTip
  <2>5. BatchTip' BY <1>0, <2>1 DEF BatchTip
  <2> QED BY <2>3, <2>4, <2>5 DEF TipInv
<1> QED BY <1>2, <1>3, <1>4, <1>5, <1>6 DEF Batch

LEMMA TipInductive ==
  ASSUME NeverRewound, PrefixInv, TipInv, [Next]_vars
  PROVE  TipInv'
<1>1. CASE UNCHANGED vars
  BY <1>1 DEF vars, store, refresh, TipInv, StoreTip, WorkTip, BatchTip, AtTip
<1> QED BY <1>1, TipEnvironment, TipProbe, TipBatch DEF Next, RefreshStep, PrefixInv

(* The committed store below last_scanned is the scan of one branch, as    *)
(* long as forks are not deeper than the hash window: a host that rewinds  *)
(* below the window leaves a refresh without an anchor, and only final     *)
(* blocks lie there.  Where nothing rewinds, forks may be of any depth.    *)
THEOREM PrefixCorrect ==
  ASSUME Finality \/ NeverRewound, GenesisCoverageFixed
  PROVE  Spec => []StoreIsPrefixScan
<1> DEFINE Inv == PrefixInv /\ (Finality \/ TipInv)
<1>1. Inv => StoreIsPrefixScan BY PrefixScan
<1>2. Init => Inv BY PrefixInit, TipInit
<1>3. Inv /\ [Next]_vars => Inv' BY PrefixInductive, TipInductive
<1> QED BY <1>1, <1>2, <1>3, PTL DEF Spec

-----------------------------------------------------------------------------
(* The hash window needs no assumption: every block is pushed onto the     *)
(* hash of its parent or onto nothing.                                     *)

OneChain(l) == \A h \in Height : l.win[h] # NoBlock =>
  /\ HeightOf[l.win[h]] = h
  /\ \A k \in Height : l.win[k] # NoBlock /\ k < h =>
       /\ h - k < HashWindow
       /\ \A x \in k .. h : l.win[x] = Anc[l.win[h]][x]

(* Below the batch being scanned the window has its parent or nothing.     *)
ChainInv ==
  /\ TypeInv
  /\ OneChain(led)
  /\ OneChain(work)
  /\ job = "scan" /\ cur > 0 => work.win[cur - 1] \in {NoBlock, Anc[batch][cur - 1]}

(* Cutting a window off at a height keeps it a chain.                      *)
LEMMA OneChainCut ==
  ASSUME NEW l, OneChain(l), NEW m, NEW h \in Int,
         \A x \in Height : m.win[x] = IF x < h THEN l.win[x] ELSE NoBlock
  PROVE  OneChain(m)
<1> SUFFICES ASSUME NEW y \in Height, m.win[y] # NoBlock
             PROVE  /\ HeightOf[m.win[y]] = y
                    /\ \A k \in Height : m.win[k] # NoBlock /\ k < y =>
                         /\ y - k < HashWindow
                         /\ \A x \in k .. y : m.win[x] = Anc[m.win[y]][x]
  BY DEF OneChain
<1>1. y < h /\ m.win[y] = l.win[y] OBVIOUS
<1>2. \A k \in Height : \A x \in k .. y : x \in Height /\ x < h
  BY <1>1, ChainAssumption DEF Height
<1> QED BY <1>1, <1>2 DEF OneChain

LEMMA OneChainRewind ==
  ASSUME NEW l, OneChain(l), NEW h \in Int
  PROVE  OneChain(Rewind(l, h))
<1>1. \A x \in Height : Rewind(l, h).win[x] = IF x < h THEN l.win[x] ELSE NoBlock
  BY DEF Rewind
<1> QED BY <1>1, OneChainCut

LEMMA OneChainSame ==
  ASSUME NEW l, OneChain(l), NEW m, m.win = l.win
  PROVE  OneChain(m)
BY DEF OneChain

LEMMA OneChainEmpty == OneChain(EmptyLedger)
BY DEF OneChain, EmptyLedger

(* Pushing a block onto its parent, onto nothing, or over an old entry.    *)
LEMMA OneChainPush ==
  ASSUME NEW l \in Ledger, OneChain(l), NEW c \in Height, NEW b \in Block, HeightOf[b] = c,
         c > 0 => l.win[c - 1] \in {NoBlock, Anc[b][c - 1]},
         NEW m, m.win = PushRecentBlockHash(l, c, b)
  PROVE  OneChain(m) /\ m.win[c] = b
<1>0. /\ HashWindow \in Nat /\ HashWindow > 0 /\ c \in Nat /\ Height \subseteq Nat
      /\ b # NoBlock /\ Anc[b][c] = b
      /\ \A x \in Int : 0 <= x /\ x <= c => x \in Height
  BY HashWindowAssumption, ChainAssumption DEF Height
<1>1. \A x \in Height :
        m.win[x] = IF x = c THEN b
                   ELSE IF x < c /\ c < x + HashWindow /\ JoinsWindow(l, c)
                        THEN l.win[x] ELSE NoBlock
  BY DEF PushRecentBlockHash
(* Below c the window is the chain of b.                                   *)
<1>2. ASSUME NEW k \in Height, m.win[k] # NoBlock, k < c, NEW y \in k .. c
      PROVE  y \in Height /\ m.win[y] = Anc[b][y]
  <2>1. /\ l.win[k] # NoBlock /\ c < k + HashWindow /\ JoinsWindow(l, c)
        /\ k \in Nat /\ y \in Nat /\ y \in Height /\ k <= y /\ y <= c /\ c < y + HashWindow
        /\ c - 1 \in Height /\ k <= c - 1 /\ c > 0
    BY <1>0, <1>1, <1>2
  <2>2. l.win[c - 1] # NoBlock
    <3>1. CASE l.win[c] # NoBlock
      <4>1. c - 1 \in k .. c BY <1>0, <2>1
      <4>2. l.win[c - 1] = Anc[l.win[c]][c - 1] BY <1>2, <2>1, <3>1, <4>1 DEF OneChain
      <4>3. l.win[c] \in Block /\ HeightOf[l.win[c]] = c BY <3>1 DEF Ledger, OneChain
      <4>4. c - 1 <= c BY <1>0
      <4> QED BY <2>1, <4>2, <4>3, <4>4, Ancestors, ChainAssumption
    <3>2. CASE l.win[c] = NoBlock BY <2>1, <3>2 DEF JoinsWindow
    <3> QED BY <3>1, <3>2
  <2>3. l.win[c - 1] = Anc[b][c - 1] BY <2>1, <2>2
  <2>4. CASE y = c BY <1>0, <1>1, <2>1, <2>4
  <2>5. CASE y < c
    <3>1. y <= c - 1 /\ c - 1 <= c BY <1>0, <2>1, <2>5
    <3>2. l.win[y] = Anc[l.win[c - 1]][y]
      <4>1. CASE y = c - 1
        <5>1. HeightOf[l.win[c - 1]] = c - 1 /\ l.win[c - 1] \in Block
          BY <2>1, <2>2 DEF OneChain, Ledger
        <5> QED BY <4>1, <5>1, ChainAssumption
      <4>2. CASE y # c - 1
        <5>1. k < c - 1 /\ y \in k .. c - 1 BY <1>0, <2>1, <3>1, <4>2
        <5> QED BY <2>1, <2>2, <5>1 DEF OneChain
      <4> QED BY <4>1, <4>2
    <3>3. Anc[Anc[b][c - 1]][y] = Anc[b][y] BY <2>1, <3>1, Ancestors
    <3>4. m.win[y] = l.win[y]
      <4>1. y # c BY <2>1, <2>5
      <4> QED BY <1>1, <2>1, <2>5, <4>1
    <3> QED BY <2>1, <2>3, <3>2, <3>3, <3>4
  <2> QED BY <2>1, <2>4, <2>5
<1>3. ASSUME NEW h \in Height, m.win[h] # NoBlock
      PROVE  h <= c /\ m.win[h] = Anc[b][h] /\ HeightOf[m.win[h]] = h
  <2>1. h \in Nat /\ (h = c \/ h < c) BY <1>0, <1>1, <1>3
  <2>2. CASE h = c BY <1>0, <1>1, <2>2
  <2>3. CASE h < c
    <3>1. h \in h .. c BY <1>0, <2>1, <2>3
    <3>2. m.win[h] = Anc[b][h] BY <1>2, <1>3, <2>3, <3>1
    <3>3. h <= c BY <1>0, <2>1, <2>3
    <3> QED BY <3>2, <3>3, Ancestors
  <2> QED BY <2>1, <2>2, <2>3
<1>4. ASSUME NEW h \in Height, m.win[h] # NoBlock, NEW k \in Height, m.win[k] # NoBlock, k < h
      PROVE  /\ h - k < HashWindow
             /\ \A x \in k .. h : m.win[x] = Anc[m.win[h]][x]
  <2>1. h <= c /\ m.win[h] = Anc[b][h] BY <1>3, <1>4
  <2>2. k < c /\ k \in Nat /\ h \in Nat BY <1>0, <1>4, <2>1
  <2>3. c < k + HashWindow BY <1>1, <1>4, <2>2
  <2>4. h - k < HashWindow BY <1>0, <2>1, <2>2, <2>3
  <2>5. ASSUME NEW x \in k .. h PROVE m.win[x] = Anc[m.win[h]][x]
    <3>1. x \in k .. c /\ x <= h BY <1>0, <2>1, <2>2
    <3>2. x \in Height /\ m.win[x] = Anc[b][x] BY <1>2, <1>4, <2>2, <3>1
    <3> QED BY <2>1, <3>1, <3>2, Ancestors
  <2> QED BY <2>4, <2>5
<1>5. m.win[c] = b BY <1>1
<1> QED BY <1>3, <1>4, <1>5 DEF OneChain

LEMMA ChainInit == Init => ChainInv
BY TypeInit, OneChainEmpty DEF Init, ChainInv

(* The store's window under host calls, the working copy's under a probe.  *)
LEMMA ChainEnvironment ==
  ASSUME ChainInv, Environment
  PROVE  OneChain(led') /\ UNCHANGED <<work, cur, job, batch>>
<1>0. /\ TypeOK /\ OneChain(led) /\ Height \subseteq Int /\ restore \in Int
      /\ led \in Ledger /\ cursor \in Cursor
      /\ \A h \in Height : h \in Int
      /\ \A h \in Cursor : h \in Int
  BY HeightsAreCursors DEF ChainInv, TypeInv, TypeOK
<1>1. UNCHANGED <<work, cur, job, batch>>
  BY DEF Environment, DaemonMoves, RequestCancel, SetGapLimit, RewindScanCursor, ForceRescan,
         ResetTrackedOutputs, Seal, Unseal, refresh
<1> SUFFICES OneChain(led')
  BY <1>1
<1>2. CASE (\E b \in Block : DaemonMoves(b)) \/ RequestCancel \/ SetGapLimit \/ Seal
  BY <1>0, <1>2 DEF DaemonMoves, RequestCancel, SetGapLimit, Seal, store
<1>3. ASSUME NEW h \in Height, RewindScanCursor(h) PROVE OneChain(led')
  <2>1. Max2(h, restore) \in Int /\ led' = Rewind(led, Max2(h, restore))
    BY <1>0, <1>3 DEF RewindScanCursor, Max2
  <2> QED BY <1>0, <2>1, OneChainRewind
<1>4. CASE \E h \in RescanTargets : ForceRescan(h)
  BY <1>4, OneChainEmpty DEF ForceRescan
<1>5. CASE ResetTrackedOutputs
  <2>1. led'.win = led.win BY <1>5 DEF ResetTrackedOutputs, EmptyLedger
  <2> QED BY <1>0, <2>1, OneChainSame
<1>6. CASE Unseal
  <2>1. CASE led.marker = NoHeight BY <1>0, <1>6, <2>1 DEF Unseal, SpendRescan
  <2>2. CASE led.marker # NoHeight
    <3> DEFINE h == UnsealHeight(led, cursor, restore)
    <3>1. led' = [Rewind(led, h) EXCEPT !.marker = NoHeight]
      BY <1>6, <2>2, Zenon DEF Unseal, SpendRescan
    <3>2. led'.win = Rewind(led, h).win BY <3>1 DEF Rewind
    <3>3. led.marker \in Int /\ cursor \in Int
      <4>1. led.marker \in Height BY <1>0, <2>2 DEF Ledger, HeightOrNone
      <4>2. cursor \in Int BY <1>0
      <4> QED BY <1>0, <4>1, <4>2
    <3>4. h \in Int BY <1>0, <3>3 DEF UnsealHeight, Min2, Max2
    <3> HIDE DEF h
    <3>5. OneChain(Rewind(led, h)) BY <1>0, <3>4, OneChainRewind
    <3> QED BY <3>2, <3>5, OneChainSame
  <2> QED BY <2>1, <2>2
<1> QED BY <1>2, <1>3, <1>4, <1>5, <1>6 DEF Environment

LEMMA ChainProbe ==
  ASSUME ChainInv, StartRefresh \/ Probe
  PROVE  OneChain(led') /\ OneChain(work') /\ job' # "scan"
<1>0. OneChain(led) /\ OneChain(work) /\ Height \subseteq Int
  BY HeightsAreCursors DEF ChainInv
<1>1. CASE StartRefresh BY <1>0, <1>1 DEF StartRefresh
<1>2. CASE ProbeDown \/ ResumeKeeps \/ ResumeFails \/ ParentRetry \/ ParentAborts
  BY <1>0, <1>2 DEF ProbeDown, Answered, Probing, ResumeKeeps, ResumeFails, ParentRetry,
                    ParentAborts, Stop, store, refresh
<1>3. ASSUME NEW h \in Height, ResumeRewinds(h) \/ ParentRewinds(h)
      PROVE  OneChain(led') /\ OneChain(work') /\ job' # "scan"
  <2>1. led' = Rewind(work, h) /\ work' = Rewind(work, h) /\ job' = "loop"
    BY <1>3 DEF ResumeRewinds, ParentRewinds, Commit
  <2> QED BY <1>0, <2>1, OneChainRewind
<1> QED BY <1>1, <1>2, <1>3 DEF Probe

LEMMA ChainBatch ==
  ASSUME ChainInv, Batch
  PROVE  /\ OneChain(led') /\ OneChain(work')
         /\ job' = "scan" /\ cur' > 0 =>
              work'.win[cur' - 1] \in {NoBlock, Anc[batch'][cur' - 1]}
<1>0. /\ TypeOK /\ TypeInv /\ OneChain(led) /\ OneChain(work) /\ work \in Ledger
      /\ cur \in Cursor /\ cur \in Nat
      /\ job = "scan" /\ cur > 0 => work.win[cur - 1] \in {NoBlock, Anc[batch][cur - 1]}
  BY HeightsAreCursors DEF ChainInv, TypeInv, TypeOK
<1>1. CASE LoopCancelled \/ FetchFails \/ ScanStops \/ CommitBatch \/ Finish
  BY <1>0, <1>1 DEF LoopCancelled, FetchFails, ScanStops, CommitBatch, Finish, Commit, Stop,
                    store, refresh
<1>2. CASE PrefetchFails \/ \E t \in Block : PrefetchArrives(t) \/ ProbeParent(t)
  BY <1>0, <1>2 DEF PrefetchFails, PrefetchArrives, ProbeParent, store
<1>3. ASSUME NEW t \in Block, ScanBatch(t), cur > 0
      PROVE  work.win[cur - 1] \in {NoBlock, Anc[t][cur - 1]}
  <2>1. cur <= HeightOf[t]
    BY <1>0, <1>3, ResponseType DEF ScanBatch, Scanning, Fetched, TypeInv, ControlInv
  <2>2. /\ cur \in Height /\ cur - 1 \in Height /\ cur # 0 /\ cur - 1 <= cur
    BY <1>0, <1>3, <2>1, ChainAssumption DEF Height, Cursor
  <2>3. /\ HeightOf[Anc[t][cur]] = cur /\ Anc[Anc[t][cur]][cur - 1] = Anc[t][cur - 1]
    BY <2>1, <2>2, Ancestors
  <2>4. ExpectedPrev(work, cur) = work.win[cur - 1] BY <2>2 DEF ExpectedPrev
  <2>5. Parent(Anc[t][cur]) = Anc[t][cur - 1] BY <2>2, <2>3 DEF Parent
  <2> QED BY <1>3, <2>4, <2>5 DEF ScanBatch, ParentMismatch
<1>4. ASSUME NEW t \in Block, ScanBatch(t)
      PROVE  /\ OneChain(led') /\ OneChain(work')
             /\ cur' > 0 => work'.win[cur' - 1] \in {NoBlock, Anc[batch'][cur' - 1]}
  BY <1>0, <1>3, <1>4 DEF ScanBatch, store
<1>5. ASSUME ScanNext
      PROVE  /\ OneChain(led') /\ OneChain(work')
             /\ work'.win[cur' - 1] \in {NoBlock, Anc[batch'][cur' - 1]}
  <2> DEFINE b == Anc[batch][cur]
             m == ScanBlock(work, b, gap, sealed, replay)
  <2>1. batch \in Block /\ cur <= HeightOf[batch] /\ HeightOf[batch] \in Height
    BY <1>0, <1>5, ChainAssumption DEF ScanNext, TypeInv, ControlInv
  <2>2. cur \in Height /\ (cur > 0 => cur - 1 \in Height) /\ cur - 1 <= cur
    BY <1>0, <2>1, ChainAssumption DEF Height
  <2>3. /\ b \in Block /\ HeightOf[b] = cur
        /\ \A k \in Height : k <= cur => Anc[b][k] = Anc[batch][k]
    BY <2>1, <2>2, Ancestors
  <2>4. cur > 0 => work.win[cur - 1] \in {NoBlock, Anc[b][cur - 1]}
    BY <1>0, <1>5, <2>2, <2>3 DEF ScanNext
  <2>5. m.win = PushRecentBlockHash(work, cur, b) BY <2>3 DEF ScanBlock
  <2>6. work' = m /\ cur' = cur + 1 /\ batch' = batch /\ led' = led
    BY <1>5 DEF ScanNext, store
  <2> HIDE DEF m, b
  <2>7. OneChain(m) /\ m.win[cur] = b BY <1>0, <2>2, <2>3, <2>4, <2>5, OneChainPush
  <2>8. cur' - 1 = cur BY <1>0, <2>6
  <2> QED BY <1>0, <2>6, <2>7, <2>8 DEF b
<1>6. CASE \E t \in Block : ScanBatch(t) BY <1>4, <1>6
<1>7. CASE ScanNext BY <1>5, <1>7
<1> QED BY <1>1, <1>2, <1>6, <1>7 DEF Batch

LEMMA ChainInductive == ChainInv /\ [Next]_vars => ChainInv'
<1> SUFFICES ASSUME ChainInv, [Next]_vars PROVE ChainInv'
  OBVIOUS
<1>1. TypeInv'
  BY TypeEnvironment, TypeProbe, TypeBatch
  DEF Next, RefreshStep, vars, store, refresh, ChainInv, TypeInv, TypeOK, ControlInv, Probing
<1>2. CASE Environment BY <1>1, <1>2, ChainEnvironment DEF ChainInv, OneChain
<1>3. CASE StartRefresh \/ Probe BY <1>1, <1>3, ChainProbe DEF ChainInv, OneChain
<1>4. CASE Batch BY <1>1, <1>4, ChainBatch DEF ChainInv, OneChain
<1>5. CASE UNCHANGED vars BY <1>1, <1>5 DEF vars, store, refresh, ChainInv, OneChain
<1> QED BY <1>2, <1>3, <1>4, <1>5 DEF Next, RefreshStep

LEMMA ChainWindow == ChainInv => WindowIsOneChain
BY DEF ChainInv, OneChain, WindowIsOneChain

(* recent_block_hashes is at all times a gap-free piece of one branch, no  *)
(* longer than its limit, whatever the daemon does and however deep it     *)
(* forks.                                                                  *)
THEOREM WindowCorrect == Spec => []WindowIsOneChain
BY ChainWindow, ChainInit, ChainInductive, PTL DEF Spec
=============================================================================
