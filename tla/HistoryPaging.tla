---------------------------- MODULE HistoryPaging ----------------------------
(***************************************************************************)
(* The paged history query of history.rs: an index over a copy of the      *)
(* ledger, built under the lock of the wallet store and read without it,   *)
(* and readers that fetch one page after another while refreshes, sends,   *)
(* imports and a reopened wallet change the ledger.  The timestamp of a    *)
(* row is that of its block, so the height stands for both.                *)
(***************************************************************************)
EXTENDS Naturals, FiniteSets, SequencesExt

CONSTANTS
  Reader,
  Id,          \* txids
  NoId,
  Rank,        \* Rank[x]: the place of x in the order of txids
  Ledgers,     \* the contents tx_ledger takes
  Identity,    \* the wallets opened under the one wallet_id
  FilterOf,    \* FilterOf[r]: the filter reader r asks with
  Limit,
  MaxChanges   \* bound on changes of the wallet and slips of a reader

(* LedgerEntry; at is 0 without a height.                                  *)
Entry == [id : Id, dir : {"in", "out"}, at : Nat, pending : BOOLEAN]

HistoryFilter == {"all", "received", "sent", "pending"}

ASSUME HistoryAssumption == /\ NoId \notin Id
                            /\ Rank \in [Id -> Nat]
                            /\ \A x, y \in Id : Rank[x] = Rank[y] => x = y
                            /\ Identity # {}
                            /\ {} \in Ledgers
                            /\ FilterOf \in [Reader -> HistoryFilter]
                            /\ Limit \in 1 .. 200
                            /\ MaxChanges \in Nat

(* A ledger is a map from txids.                                           *)
ASSUME LedgersAssumption ==
  \A ledger \in Ledgers : /\ ledger \subseteq Entry
                          /\ IsFiniteSet(ledger)
                          /\ \A e, f \in ledger : e.id = f.id => e = f

VARIABLES
  wallet,    \* its identity, ledger and index; the index is {} or one record
  revision,  \* NEXT_REVISION
  asked,     \* asked[r]: the query of r that has left the lock, {} if none
  session,   \* session[r]: what the reader has got so far
  held,      \* held[r]: what the wallet has shown since the session began
  changes

vars == <<wallet, revision, asked, session, held, changes>>

Shown == [identity : Identity, ledger : Ledgers]

Index == [identity : Identity, ledger : Ledgers, revision : Nat]

Query == [offset : Nat, revision : Nat, anchor : Id \cup {NoId}, filter : HistoryFilter]

Session == [pc : {"idle", "first", "next", "done"}, rows : Seq(Entry), start : Nat,
            query : Query]

TypeOK ==
  /\ wallet \in [identity : Identity, ledger : Ledgers, index : SUBSET Index]
  /\ \A ix, iy \in wallet.index : ix = iy
  /\ revision \in Nat
  /\ \A ix \in wallet.index : ix.revision < revision
  /\ asked \in [Reader -> SUBSET [index : Index, query : Query]]
  /\ session \in [Reader -> Session]
  /\ held \in [Reader -> SUBSET Shown]
  /\ changes \in 0 .. MaxChanges

-----------------------------------------------------------------------------
(* The order of a ledger: pending first, then the newest.                  *)
Precedes(a, b) ==
  \/ a.pending /\ ~b.pending
  \/ a.pending = b.pending /\ a.at > b.at
  \/ a.pending = b.pending /\ a.at = b.at /\ Rank[a.id] < Rank[b.id]

Matches(e, filter) ==
  CASE filter = "all"      -> TRUE
    [] filter = "received" -> e.dir = "in"
    [] filter = "sent"     -> e.dir = "out"
    [] filter = "pending"  -> e.pending

(* The list of some rows in their order.                                   *)
Sorted(rows) ==
  CHOOSE s \in [1 .. Cardinality(rows) -> rows] :
    \A i, j \in DOMAIN s : i < j => Precedes(s[i], s[j])

Matching(ledger, filter) == Sorted({e \in ledger : Matches(e, filter)})

(* A new first query may name a row it wants to see again.                 *)
AnchorAt(rows, anchor) == {i \in 0 .. Len(rows) - 1 : rows[i + 1].id = anchor}

(* Mutant: the page after the row's is taken unless it starts with it.     *)
OffsetRoundedUp(q, rows) ==
  IF q.anchor = NoId THEN q.offset
  ELSE IF AnchorAt(rows, q.anchor) = {} THEN 0
  ELSE LET i == CHOOSE k \in AnchorAt(rows, q.anchor) : TRUE
       IN ((i + Limit - 1) \div Limit) * Limit

OffsetOf(q, rows) ==
  IF q.anchor = NoId THEN q.offset
  ELSE IF AnchorAt(rows, q.anchor) = {} THEN 0
  ELSE LET i == CHOOSE k \in AnchorAt(rows, q.anchor) : TRUE
       IN (i \div Limit) * Limit

(* Mutant: a page that ends with the rows has a next one.                  *)
NextOffsetOneMore(end, count) == IF end <= count THEN {end} ELSE {}

NextOffset(end, count) == IF end < count THEN {end} ELSE {}

(* Mutant: the revision of a query is not looked at.                       *)
AnyRevision(q, ix) == FALSE

Stale(q, ix) == q.revision # 0 /\ q.revision # ix.revision

Invalid(q) == q.offset > 0 /\ q.revision = 0

Page(q, ix) ==
  LET rows   == Matching(ix.ledger, q.filter)
      offset == OffsetOf(q, rows)
      page   == SubSeq(rows, offset + 1, Min({offset + Limit, Len(rows)}))
  IN [rows |-> page, offset |-> offset,
      next |-> NextOffset(offset + Len(page), Len(rows))]

-----------------------------------------------------------------------------
(* The wallet.                                                             *)

Change == changes < MaxChanges /\ changes' = changes + 1

Becomes(w) ==
  /\ wallet' = w
  /\ held' = [r \in Reader |->
                IF session[r].pc \in {"idle", "done"} THEN held[r]
                ELSE held[r] \cup {[identity |-> w.identity, ledger |-> w.ledger]}]

(* A refresh checkpoint, a send, a sweep, a relay, an imported blob: the    *)
(* index stays.                                                            *)
LedgerChanges(ledger) ==
  /\ Change
  /\ Becomes([wallet EXCEPT !.ledger = ledger])
  /\ UNCHANGED <<revision, asked, session>>

(* A rewound cursor, or the rescan an unseal or an import asks for: the    *)
(* index goes.                                                             *)
Replaced(ledger) ==
  /\ Change
  /\ Becomes([identity |-> wallet.identity, ledger |-> ledger, index |-> {}])
  /\ UNCHANGED <<revision, asked, session>>

(* The wallet is opened again, possibly from another seed.                 *)
Opened(identity) ==
  /\ Change
  /\ Becomes([identity |-> identity, ledger |-> {}, index |-> {}])
  /\ UNCHANGED <<revision, asked, session>>

-----------------------------------------------------------------------------
(* The query.                                                              *)

(* Mutant: a ledger with as many rows passes for the same.                 *)
UpToDateByCount(ix) ==
  ix.identity = wallet.identity /\ Cardinality(ix.ledger) = Cardinality(wallet.ledger)

UpToDate(ix) == ix.identity = wallet.identity /\ ix.ledger = wallet.ledger

(* Mutant: the counter is read and not advanced.                           *)
NotAdvanced == revision

(* NEXT_REVISION.fetch_add *)
Advanced == revision + 1

(* Under the lock: the index is built anew unless its ledger is the        *)
(* wallet's.                                                               *)
LockedQuery(r, q) ==
  /\ asked[r] = {}
  /\ \/ /\ \E ix \in wallet.index :
             /\ UpToDate(ix)
             /\ asked' = [asked EXCEPT ![r] = {[index |-> ix, query |-> q]}]
        /\ UNCHANGED <<wallet, revision>>
     \/ /\ ~\E ix \in wallet.index : UpToDate(ix)
        /\ LET ix == [identity |-> wallet.identity, ledger |-> wallet.ledger,
                      revision |-> revision]
           IN /\ wallet' = [wallet EXCEPT !.index = {ix}]
              /\ asked' = [asked EXCEPT ![r] = {[index |-> ix, query |-> q]}]
        /\ revision' = Advanced

(* The first query of a session, and those that continue it.               *)
FirstQuery(r) ==
  /\ session[r].pc = "first"
  /\ LockedQuery(r, session[r].query)
  /\ UNCHANGED <<session, held, changes>>

NextQuery(r) ==
  /\ session[r].pc = "next"
  /\ LockedQuery(r, session[r].query)
  /\ UNCHANGED <<session, held, changes>>

(* A reader that forgets the revision.                                     *)
Slip(r) ==
  /\ Change
  /\ session[r].pc = "next" /\ session[r].query.offset > 0
  /\ LockedQuery(r, [session[r].query EXCEPT !.revision = 0])
  /\ UNCHANGED <<session, held>>

(* The reader starts over, now or after an error, at the top or at a row   *)
(* it has seen.                                                            *)
Starts(r, anchor) ==
  /\ session' = [session EXCEPT ![r] =
                   [pc |-> "first", rows |-> << >>, start |-> 0,
                    query |-> [offset |-> 0, revision |-> 0, anchor |-> anchor,
                               filter |-> FilterOf[r]]]]
  /\ held' = [held EXCEPT ![r] = {[identity |-> wallet.identity,
                                   ledger   |-> wallet.ledger]}]

Open(r) ==
  /\ session[r].pc = "idle"
  /\ Starts(r, NoId)
  /\ UNCHANGED <<wallet, revision, asked, changes>>

Seen(r) == {session[r].rows[i].id : i \in DOMAIN session[r].rows}

(* Without the lock: the answer, from the index taken under it.            *)
Refused(r) ==
  /\ \E a \in asked[r] : Stale(a.query, a.index) \/ Invalid(a.query)
  /\ \E anchor \in Seen(r) \cup {NoId} : Starts(r, anchor)
  /\ asked' = [asked EXCEPT ![r] = {}]
  /\ UNCHANGED <<wallet, revision, changes>>

(* The session after a page.                                               *)
Continued(s, p, rev) ==
  [pc    |-> IF p.next = {} THEN "done" ELSE "next",
   rows  |-> s.rows \o p.rows,
   start |-> IF s.pc = "first" THEN p.offset ELSE s.start,
   query |-> [s.query EXCEPT
                !.offset = IF p.next = {} THEN @ ELSE CHOOSE o \in p.next : TRUE,
                !.revision = rev,
                !.anchor = NoId]]

Answered(r) ==
  /\ \E a \in asked[r] :
       /\ ~Stale(a.query, a.index) /\ ~Invalid(a.query)
       /\ session' = [session EXCEPT ![r] =
                        Continued(@, Page(a.query, a.index), a.index.revision)]
  /\ asked' = [asked EXCEPT ![r] = {}]
  /\ UNCHANGED <<wallet, revision, held, changes>>

-----------------------------------------------------------------------------
Init ==
  /\ wallet \in [identity : {CHOOSE i \in Identity : TRUE}, ledger : Ledgers, index : {{}}]
  /\ revision = 1
  /\ asked = [r \in Reader |-> {}]
  /\ session = [r \in Reader |->
                  [pc |-> "idle", rows |-> << >>, start |-> 0,
                   query |-> [offset |-> 0, revision |-> 0, anchor |-> NoId,
                              filter |-> FilterOf[r]]]]
  /\ held = [r \in Reader |-> {}]
  /\ changes = 0

Reads(r) == FirstQuery(r) \/ NextQuery(r) \/ Refused(r) \/ Answered(r)

Next ==
  \/ \E ledger \in Ledgers : LedgerChanges(ledger) \/ Replaced(ledger)
  \/ \E identity \in Identity : Opened(identity)
  \/ \E r \in Reader : Open(r) \/ Reads(r) \/ Slip(r)

Spec == Init /\ [][Next]_vars

(* A query takes the lock and is answered.                                 *)
FairSpec == Spec /\ \A r \in Reader : WF_vars(Reads(r))

-----------------------------------------------------------------------------
(* Properties.                                                             *)

(* The pages of a session are consecutive pages of one ledger, which the   *)
(* wallet had while the session ran: no row twice and none skipped; and a  *)
(* session that has ended has them to the end.  "A changed ledger returns  *)
(* stale_history_cursor." (docs/history-paging.md)                         *)
PagesOfOneLedger ==
  \A r \in Reader :
    session[r].pc \in {"next", "done"} =>
      \E s \in held[r] :
        LET rows == Matching(s.ledger, session[r].query.filter)
            end  == session[r].start + Len(session[r].rows)
        IN /\ end <= Len(rows)
           /\ session[r].rows = SubSeq(rows, session[r].start + 1, end)
           /\ session[r].pc = "done" => end = Len(rows)

(* A page reloaded around a row shows it whenever the ledger it is taken   *)
(* from has it, whatever came before it meanwhile: "locate a previously    *)
(* visible transaction" (docs/history-paging.md).                          *)
AnchorShown ==
  [][\A r \in Reader :
       Answered(r) =>
         \A a \in asked[r] :
           LET rows == Matching(a.index.ledger, a.query.filter)
           IN AnchorAt(rows, a.query.anchor) # {} =>
                \E e \in ToSet(session'[r].rows) : e.id = a.query.anchor]_vars

(* A reader that starts over when it is told to reaches the end.           *)
ReaderFinishes == \A r \in Reader : (session[r].pc = "first") ~> (session[r].pc = "done")
=============================================================================
