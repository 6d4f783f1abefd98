------------------------ MODULE HistoryPagingProofs ------------------------
(***************************************************************************)
(* What a paged history guarantees for any ledgers, readers, filters and   *)
(* page size, whatever happens to the wallet between two pages.            *)
(***************************************************************************)
EXTENDS HistoryPaging, MinimalCounterexample, FunctionTheorems, SequenceTheorems

-----------------------------------------------------------------------------
(* The order of the rows.                                                  *)

(* Rows as one ledger can have them.                                       *)
Rows(S) == /\ S \subseteq Entry
           /\ IsFiniteSet(S)
           /\ \A e, f \in S : e.id = f.id => e = f

Increasing(s) == \A i, j \in DOMAIN s : i < j => Precedes(s[i], s[j])

LEMMA RowsPart == ASSUME NEW S, Rows(S), NEW T \in SUBSET S PROVE Rows(T)
BY FS_Subset DEF Rows

LEMMA PrecedesOrder ==
  ASSUME NEW S, Rows(S)
  PROVE  /\ \A e \in S : ~Precedes(e, e)
         /\ \A e, f \in S : e # f => Precedes(e, f) \/ Precedes(f, e)
         /\ \A e, f, g \in S : Precedes(e, f) /\ Precedes(f, g) => Precedes(e, g)
<1>1. \A e \in S : /\ e.at \in Nat /\ e.pending \in BOOLEAN
                   /\ e.id \in Id /\ Rank[e.id] \in Nat
  BY HistoryAssumption DEF Rows, Entry
<1>2. \A e, f \in S : e # f => Rank[e.id] # Rank[f.id]
  BY <1>1, HistoryAssumption DEF Rows
<1> QED BY <1>1, <1>2 DEF Precedes

Succession(S) == {p \in S \X S : Precedes(p[1], p[2])}

(* The list of some rows has every one of them, once, in their order.      *)
LEMMA SortedOnce ==
  ASSUME NEW S, Rows(S)
  PROVE  /\ Sorted(S) \in Seq(S) /\ Len(Sorted(S)) = Cardinality(S)
         /\ Increasing(Sorted(S))
         /\ \A e \in S : \E i \in DOMAIN Sorted(S) : Sorted(S)[i] = e
         /\ \A i, j \in DOMAIN Sorted(S) : Sorted(S)[i] = Sorted(S)[j] => i = j
<1> DEFINE R == Succession(S)
           n == Cardinality(S)
<1>1. \A e, f \in S : <<e, f>> \in R <=> Precedes(e, f) BY DEF Succession
<1>2. Orders(R, S) /\ IsFiniteSet(S)
  <2> HIDE DEF R
  <2> QED BY <1>1, PrecedesOrder DEF Orders, Rows
<1> HIDE DEF R
<1>3. ASSUME NEW s \in [1 .. n -> S] PROVE Lists(s, R, S) <=> Increasing(s)
  <2>1. \A i \in DOMAIN s : s[i] \in S OBVIOUS
  <2> HIDE DEF n
  <2>2. Lists(s, R, S) <=> \A i, j \in DOMAIN s : i < j => <<s[i], s[j]>> \in R
    BY DEF Lists, n
  <2> QED BY <1>1, <2>1, <2>2 DEF Increasing
<1>4. \E s \in [1 .. n -> S] : Increasing(s) BY <1>2, <1>3, ListExists DEF Lists
<1>5. Sorted(S) \in [1 .. n -> S] /\ Increasing(Sorted(S))
  BY <1>4 DEF Sorted, Increasing
<1>6. Lists(Sorted(S), R, S) BY <1>3, <1>5
<1> QED BY <1>2, <1>5, <1>6, ListedOnce

-----------------------------------------------------------------------------
(* Pages.                                                                  *)

LEMMA MatchingRows ==
  ASSUME NEW ledger \in Ledgers, NEW filter
  PROVE  Rows({e \in ledger : Matches(e, filter)})
<1>1. Rows(ledger) BY LedgersAssumption DEF Rows
<1> QED BY <1>1, RowsPart

(* A list of a ledger has every matching row, once, in the order of the    *)
(* history.                                                                *)
THEOREM HistoryListed ==
  ASSUME NEW ledger \in Ledgers, NEW filter \in HistoryFilter
  PROVE  LET rows == Matching(ledger, filter)
         IN /\ rows \in Seq(ledger)
            /\ \A e \in ledger : Matches(e, filter) <=> \E i \in DOMAIN rows : rows[i] = e
            /\ \A i, j \in DOMAIN rows : i < j => Precedes(rows[i], rows[j])
            /\ \A i, j \in DOMAIN rows : rows[i] = rows[j] => i = j
<1> DEFINE S == {e \in ledger : Matches(e, filter)}
           rows == Sorted(S)
<1>1. Rows(S) BY MatchingRows
<1> HIDE DEF S
<1>2. /\ rows \in Seq(S) /\ Increasing(rows)
      /\ \A e \in S : \E i \in DOMAIN rows : rows[i] = e
      /\ \A i, j \in DOMAIN rows : rows[i] = rows[j] => i = j
  BY <1>1, SortedOnce
<1> HIDE DEF rows
<1>3. rows \in Seq(ledger) BY <1>2 DEF S
<1>4. \A i \in DOMAIN rows : rows[i] \in S BY <1>2
<1>5. Matching(ledger, filter) = rows BY DEF Matching, S, rows
<1> QED BY <1>2, <1>3, <1>4, <1>5 DEF Increasing, S

LEMMA MatchingType ==
  ASSUME NEW ledger \in Ledgers, NEW filter
  PROVE  /\ Matching(ledger, filter) \in Seq(Entry)
         /\ Len(Matching(ledger, filter)) \in Nat
<1> DEFINE S == {e \in ledger : Matches(e, filter)}
<1>1. Rows(S) BY MatchingRows
<1> HIDE DEF S
<1>2. Sorted(S) \in Seq(S) BY <1>1, SortedOnce
<1>3. Sorted(S) \in Seq(Entry) BY <1>1, <1>2 DEF Rows
<1> QED BY <1>3 DEF Matching, S

LEMMA MinOfTwo ==
  ASSUME NEW a \in Nat, NEW b \in Nat
  PROVE  Min({a, b}) = IF a <= b THEN a ELSE b
BY DEF Min

LEMMA WholePages ==
  ASSUME NEW i \in Nat, NEW n \in Nat, n > 0
  PROVE  /\ (i \div n) * n \in Nat
         /\ (i \div n) * n <= i
         /\ i < (i \div n) * n + n
OBVIOUS

LEMMA OffsetFacts ==
  ASSUME NEW q \in Query, NEW rows \in Seq(Entry)
  PROVE  /\ OffsetOf(q, rows) \in Nat
         /\ q.anchor = NoId => OffsetOf(q, rows) = q.offset
         /\ q.anchor # NoId => OffsetOf(q, rows) <= Len(rows)
         /\ AnchorAt(rows, q.anchor) # {} =>
              \E i \in AnchorAt(rows, q.anchor) :
                OffsetOf(q, rows) <= i /\ i < OffsetOf(q, rows) + Limit
<1>1. q.offset \in Nat /\ Len(rows) \in Nat BY DEF Query
<1>2. ASSUME NEW i \in 1 .. Len(rows) PROVE rows[i].id # NoId
  <2>1. rows[i] \in Entry BY <1>1
  <2> QED BY <2>1, HistoryAssumption DEF Entry
<1>3. q.anchor = NoId => AnchorAt(rows, q.anchor) = {}
  BY <1>1, <1>2 DEF AnchorAt
<1>4. CASE AnchorAt(rows, q.anchor) = {}
  BY <1>1, <1>4 DEF OffsetOf
<1>5. CASE AnchorAt(rows, q.anchor) # {}
  <2> DEFINE i == CHOOSE k \in AnchorAt(rows, q.anchor) : TRUE
  <2>1. i \in AnchorAt(rows, q.anchor) BY <1>5
  <2>2. OffsetOf(q, rows) = (i \div Limit) * Limit BY <1>3, <1>5 DEF OffsetOf
  <2> HIDE DEF i
  <2>3. i \in Nat /\ i < Len(rows) BY <1>1, <2>1 DEF AnchorAt
  <2>4. /\ (i \div Limit) * Limit \in Nat
        /\ (i \div Limit) * Limit <= i
        /\ i < (i \div Limit) * Limit + Limit
    BY <2>3, HistoryAssumption, WholePages
  <2> QED BY <1>1, <1>3, <1>5, <2>1, <2>2, <2>3, <2>4
<1> QED BY <1>4, <1>5

(* A page is a piece of the list, and says where the next one begins.      *)
LEMMA PageFacts ==
  ASSUME NEW q \in Query, NEW ix \in Index
  PROVE  LET rows == Matching(ix.ledger, q.filter)
             p    == Page(q, ix)
             end  == p.offset + Len(p.rows)
         IN /\ p.offset = OffsetOf(q, rows)
            /\ p.rows \in Seq(Entry)
            /\ end \in Nat
            /\ p.next = NextOffset(end, Len(rows))
            /\ p.offset <= Len(rows) =>
                 /\ end <= Len(rows)
                 /\ p.rows = SubSeq(rows, p.offset + 1, end)
                 /\ \A i \in p.offset + 1 .. p.offset + Limit :
                      i <= Len(rows) => i <= end
<1> DEFINE rows == Matching(ix.ledger, q.filter)
           off  == OffsetOf(q, rows)
           last == Min({off + Limit, Len(rows)})
           page == SubSeq(rows, off + 1, last)
<1>1. Page(q, ix) = [rows |-> page, offset |-> off,
                     next |-> NextOffset(off + Len(page), Len(rows))]
  BY DEF Page
<1>2. rows \in Seq(Entry) /\ Len(rows) \in Nat
  BY MatchingType DEF Index
<1> HIDE DEF rows
<1>3. off \in Nat BY <1>2, OffsetFacts
<1>4. Limit \in Nat /\ Limit > 0 BY HistoryAssumption
<1> HIDE DEF off
<1>5. last = IF off + Limit <= Len(rows) THEN off + Limit ELSE Len(rows)
  <2>1. off + Limit \in Nat BY <1>3, <1>4
  <2> QED BY <1>2, <2>1, MinOfTwo
<1> HIDE DEF last
<1>6. /\ page \in Seq(Entry)
      /\ Len(page) = IF off < last THEN last - off ELSE 0
  <2>1. off + 1 \in Int /\ last \in Int /\ \A i \in off + 1 .. last : rows[i] \in Entry
    BY <1>2, <1>3, <1>4, <1>5
  <2> QED BY <1>3, <1>4, <1>5, <2>1, SubSeqProperties
<1>7. ASSUME off <= Len(rows) PROVE off + Len(page) = last /\ last <= Len(rows)
  BY <1>2, <1>3, <1>4, <1>5, <1>6, <1>7
<1>8. off + Len(page) \in Nat BY <1>2, <1>3, <1>4, <1>5, <1>6
<1>9. ASSUME off <= Len(rows), NEW i \in off + 1 .. off + Limit, i <= Len(rows)
      PROVE  i <= last
  BY <1>2, <1>3, <1>4, <1>5, <1>9
<1> DEFINE p == Page(q, ix)
<1>10. p.rows = page /\ p.offset = off /\ p.next = NextOffset(off + Len(page), Len(rows))
  <2> HIDE DEF page
  <2> QED BY <1>1
<1>11. off <= Len(rows) => page = SubSeq(rows, off + 1, off + Len(page))
  BY <1>7
<1>12. off = OffsetOf(q, rows) BY DEF off
<1> HIDE DEF page, p
<1>13. off <= Len(rows) =>
        /\ off + Len(page) <= Len(rows)
        /\ \A i \in off + 1 .. off + Limit : i <= Len(rows) => i <= off + Len(page)
  BY <1>7, <1>9
<1> QED BY <1>6, <1>8, <1>10, <1>11, <1>12, <1>13 DEF rows, p

-----------------------------------------------------------------------------
(* The inductive invariant.                                                *)

(* The indexes a query may still read: the wallet's, and those taken along.*)
Taken == wallet.index \cup UNION {{a.index : a \in asked[r]} : r \in Reader}

(* A revision names one index.                                             *)
RevisionsDistinct ==
  /\ revision # 0
  /\ \A ix \in Taken : ix.revision \in 1 .. revision - 1
  /\ \A ix, iy \in Taken : ix.revision = iy.revision => ix = iy

Reading(s) == s.pc \in {"first", "next"}

(* What a query out of the lock asks, and of what.                         *)
AskedFor(r) ==
  \A a \in asked[r] :
    /\ Reading(session[r])
    /\ \A b \in asked[r] : a = b
    /\ \/ a.query = session[r].query
       \/ /\ session[r].query.offset > 0
          /\ a.query = [session[r].query EXCEPT !.revision = 0]
    /\ session[r].pc = "first" =>
         [identity |-> a.index.identity, ledger |-> a.index.ledger] \in held[r]

(* The pages of session s are a piece of this ledger's list.               *)
PagesOf(s, ledger) ==
  LET rows == Matching(ledger, s.query.filter)
      end  == s.start + Len(s.rows)
  IN /\ end <= Len(rows)
     /\ s.rows = SubSeq(rows, s.start + 1, end)
     /\ s.pc = "done" => end = Len(rows)

(* What a session has come to; it goes on only in the ledger it began with.*)
Progress(r) ==
  /\ session[r].pc = "first" => session[r].rows = << >> /\ session[r].query.offset = 0
  /\ session[r].pc = "next" =>
       /\ session[r].query.anchor = NoId
       /\ session[r].query.offset = session[r].start + Len(session[r].rows)
       /\ session[r].query.revision \in 1 .. revision - 1
  /\ session[r].pc \in {"next", "done"} =>
       \E s \in held[r] :
         /\ PagesOf(session[r], s.ledger)
         /\ session[r].pc = "next" =>
              \A ix \in Taken : ix.revision = session[r].query.revision => ix.ledger = s.ledger
  /\ Reading(session[r]) =>
       [identity |-> wallet.identity, ledger |-> wallet.ledger] \in held[r]

PagingInv ==
  /\ TypeOK
  /\ RevisionsDistinct
  /\ \A r \in Reader : AskedFor(r) /\ Progress(r)

LEMMA PagingInvPages == PagingInv => PagesOfOneLedger
BY DEF PagingInv, Progress, PagesOf, PagesOfOneLedger

-----------------------------------------------------------------------------
(* It holds at first, and every step keeps it.                             *)

LEMMA PagingInit == Init => PagingInv
<1> SUFFICES ASSUME Init PROVE PagingInv
  OBVIOUS
<1> DEFINE first == CHOOSE i \in Identity : TRUE
<1>1. first \in Identity BY HistoryAssumption
<1>2. /\ wallet \in [identity : Identity, ledger : Ledgers, index : {{}}]
      /\ wallet.index = {}
  BY <1>1 DEF Init
<1>4. TypeOK
  <2>1. ASSUME NEW r \in Reader PROVE session[r] \in Session
    BY HistoryAssumption DEF Init, Session, Query
  <2>2. session = [r \in Reader |-> session[r]] BY DEF Init
  <2>3. session \in [Reader -> Session] BY <2>1, <2>2
  <2> QED BY <1>2, <2>3, HistoryAssumption DEF Init, TypeOK
<1>5. \A r \in Reader : asked[r] = {} /\ session[r].pc = "idle"
  BY DEF Init
<1>6. Taken = {} BY <1>2, <1>5 DEF Taken
<1>7. RevisionsDistinct BY <1>6 DEF RevisionsDistinct, Init
<1> QED BY <1>4, <1>5, <1>7 DEF PagingInv, AskedFor, Progress, Reading

(* The wallet changes: a reader goes on in what it took.                   *)
LEMMA WalletStep ==
  ASSUME PagingInv, NEW identity \in Identity, NEW ledger \in Ledgers,
         NEW index \in {{}, wallet.index},
         Change,
         Becomes([identity |-> identity, ledger |-> ledger, index |-> index]),
         UNCHANGED <<revision, asked, session>>
  PROVE  PagingInv'
<1> DEFINE now == [identity |-> identity, ledger |-> ledger]
<1>1. TypeOK BY DEF PagingInv
<1>2. /\ wallet' = [identity |-> identity, ledger |-> ledger, index |-> index]
      /\ held' = [r \in Reader |-> IF session[r].pc \in {"idle", "done"} THEN held[r]
                                   ELSE held[r] \cup {now}]
  BY DEF Becomes
<1>3. now \in Shown BY DEF Shown
<1>4. /\ index \in SUBSET Index /\ \A ix, iy \in index : ix = iy
      /\ \A ix \in index : ix.revision < revision
  BY <1>1 DEF TypeOK
<1>5. TypeOK'
  <2>1. held' \in [Reader -> SUBSET Shown] BY <1>1, <1>2, <1>3 DEF TypeOK
  <2>2. changes' \in 0 .. MaxChanges BY <1>1, HistoryAssumption DEF TypeOK, Change
  <2> QED BY <1>1, <1>2, <1>4, <2>1, <2>2 DEF TypeOK
<1>6. Taken' \subseteq Taken BY <1>2 DEF Taken
<1>7. RevisionsDistinct' BY <1>6 DEF PagingInv, RevisionsDistinct
<1>8. ASSUME NEW r \in Reader PROVE held[r] \subseteq held'[r] /\ (Reading(session[r]) => now \in held'[r])
  BY <1>2 DEF Reading
<1>9. ASSUME NEW r \in Reader PROVE AskedFor(r)'
  <2>1. asked'[r] = asked[r] /\ session'[r] = session[r] OBVIOUS
  <2>2. AskedFor(r) BY DEF PagingInv
  <2>3. held[r] \subseteq held'[r] BY <1>8
  <2> HIDE DEF now
  <2> QED BY <2>1, <2>2, <2>3 DEF AskedFor, Reading
<1>10. ASSUME NEW r \in Reader PROVE Progress(r)'
  BY <1>2, <1>6, <1>8 DEF PagingInv, Progress, Reading, PagesOf
<1> QED BY <1>5, <1>7, <1>9, <1>10 DEF PagingInv

(* A query under the lock, of a reader that waits for no other answer.     *)
LEMMA QueryStep ==
  ASSUME PagingInv, NEW r \in Reader, Reading(session[r]), NEW q \in Query,
         \/ q = session[r].query
         \/ /\ session[r].query.offset > 0
            /\ q = [session[r].query EXCEPT !.revision = 0],
         LockedQuery(r, q), UNCHANGED <<session, held>>, changes' \in 0 .. MaxChanges
  PROVE  PagingInv'
<1> DEFINE now == [identity |-> wallet.identity, ledger |-> wallet.ledger]
<1>1. TypeOK BY DEF PagingInv
<1>2. PICK ix \in Index :
        /\ [identity |-> ix.identity, ledger |-> ix.ledger] = now
        /\ asked' = [asked EXCEPT ![r] = {[index |-> ix, query |-> q]}]
        /\ wallet' = [wallet EXCEPT !.index = {ix}]
        /\ \/ ix \in wallet.index /\ revision' = revision
           \/ ix.revision = revision /\ revision' = revision + 1
  <2>1. CASE \E ix \in wallet.index : UpToDate(ix)
    <3>1. PICK ix \in wallet.index :
            /\ UpToDate(ix)
            /\ asked' = [asked EXCEPT ![r] = {[index |-> ix, query |-> q]}]
            /\ UNCHANGED <<wallet, revision>>
      BY <2>1 DEF LockedQuery
    <3>2. ix \in Index BY <1>1 DEF TypeOK
    <3>3. wallet.index = {ix} BY <1>1 DEF TypeOK
    <3> QED BY <1>1, <3>1, <3>2, <3>3 DEF UpToDate, TypeOK
  <2>2. CASE ~\E ix \in wallet.index : UpToDate(ix)
    <3> DEFINE ix == [identity |-> wallet.identity, ledger |-> wallet.ledger,
                      revision |-> revision]
    <3>1. ix \in Index BY <1>1 DEF TypeOK, Index
    <3>2. /\ wallet' = [wallet EXCEPT !.index = {ix}]
          /\ asked' = [asked EXCEPT ![r] = {[index |-> ix, query |-> q]}]
          /\ revision' = revision + 1
      BY <2>2 DEF LockedQuery, Advanced
    <3> QED BY <3>1, <3>2
  <2> QED BY <2>1, <2>2
<1>3. /\ revision \in Nat /\ revision' \in Nat /\ revision' # 0 /\ revision <= revision'
      /\ ix.revision \in 1 .. revision' - 1
  <2>1. revision \in Nat /\ revision # 0 BY <1>1 DEF PagingInv, TypeOK, RevisionsDistinct
  <2>2. ix \in wallet.index => ix.revision \in 1 .. revision - 1
    BY DEF PagingInv, RevisionsDistinct, Taken
  <2> QED BY <1>2, <2>1, <2>2
<1>4. TypeOK'
  <2>1. wallet' \in [identity : Identity, ledger : Ledgers, index : SUBSET Index]
        /\ wallet'.index = {ix}
    BY <1>1, <1>2 DEF TypeOK
  <2>2. asked' \in [Reader -> SUBSET [index : Index, query : Query]]
    BY <1>1, <1>2 DEF TypeOK
  <2> QED BY <1>1, <1>3, <2>1, <2>2 DEF TypeOK
<1>5. asked'[r] = {[index |-> ix, query |-> q]} /\ \A u \in Reader \ {r} : asked'[u] = asked[u]
  BY <1>1, <1>2 DEF TypeOK
<1>6. Taken' \subseteq Taken \cup {ix}
  <2>1. wallet'.index = {ix} BY <1>1, <1>2 DEF TypeOK
  <2> QED BY <1>5, <2>1 DEF Taken
<1>7. \A iy \in Taken : iy.revision \in 1 .. revision - 1 /\ (iy.revision = ix.revision => iy = ix)
  <2>1. \A iy \in Taken : iy.revision \in 1 .. revision - 1
    BY DEF PagingInv, RevisionsDistinct
  <2>2. CASE ix \in wallet.index
    <3>1. ix \in Taken BY <2>2 DEF Taken
    <3> QED BY <2>1, <3>1 DEF PagingInv, RevisionsDistinct
  <2>3. CASE ix.revision = revision BY <1>3, <2>1, <2>3
  <2> QED BY <1>2, <2>2, <2>3
<1>8. RevisionsDistinct'
  BY <1>3, <1>6, <1>7 DEF PagingInv, RevisionsDistinct
<1>9. now \in held[r] BY DEF PagingInv, Progress
<1>10. ASSUME NEW u \in Reader PROVE AskedFor(u)'
  <2>1. CASE u = r BY <1>2, <1>5, <1>9, <2>1 DEF AskedFor, Reading
  <2>2. CASE u # r
    <3>1. asked'[u] = asked[u] /\ session'[u] = session[u] /\ held'[u] = held[u]
      BY <1>1, <1>2, <1>5, <2>2
    <3>2. AskedFor(u) BY DEF PagingInv
    <3> QED BY <3>1, <3>2 DEF AskedFor, Reading
  <2> QED BY <2>1, <2>2
<1>11. ASSUME NEW u \in Reader PROVE Progress(u)'
  <2>1. wallet'.identity = wallet.identity /\ wallet'.ledger = wallet.ledger
    BY <1>1, <1>2 DEF TypeOK
  <2>2. ASSUME session[u].pc = "next", NEW s \in held[u], NEW iy \in Taken',
               \A iz \in Taken : iz.revision = session[u].query.revision => iz.ledger = s.ledger,
               iy.revision = session[u].query.revision
        PROVE  iy.ledger = s.ledger
    <3>1. session[u].query.revision \in 1 .. revision - 1
      BY <2>2 DEF PagingInv, Progress
    <3>2. CASE iy \in Taken BY <2>2, <3>2
    <3>3. CASE iy = ix /\ ix \in wallet.index
      <4>1. iy \in Taken BY <3>3 DEF Taken
      <4> QED BY <2>2, <4>1
    <3>4. CASE iy = ix /\ ix.revision = revision BY <1>3, <2>2, <3>1, <3>4
    <3> QED BY <1>2, <1>6, <3>2, <3>3, <3>4
  <2>3. session'[u] = session[u] /\ held'[u] = held[u] BY <1>1
  <2>4. Progress(u) BY DEF PagingInv
  <2>5. session[u].pc = "next" => session[u].query.revision \in 1 .. revision' - 1
    BY <1>3, <2>4 DEF Progress
  <2>6. ASSUME session[u].pc \in {"next", "done"}
        PROVE  \E s \in held[u] :
                 /\ PagesOf(session[u], s.ledger)
                 /\ session[u].pc = "next" =>
                      \A iy \in Taken' :
                        iy.revision = session[u].query.revision => iy.ledger = s.ledger
    BY <2>2, <2>4, <2>6 DEF Progress
  <2>7. \A s : PagesOf(session[u], s)' <=> PagesOf(session[u], s) BY <2>3 DEF PagesOf
  <2> QED BY <2>1, <2>3, <2>4, <2>5, <2>6, <2>7 DEF Progress, Reading
<1> QED BY <1>4, <1>8, <1>10, <1>11 DEF PagingInv

(* A reader starts over.                                                   *)
LEMMA StartStep ==
  ASSUME PagingInv, NEW r \in Reader, NEW anchor \in Id \cup {NoId}, Starts(r, anchor),
         asked' = [asked EXCEPT ![r] = {}],
         UNCHANGED <<wallet, revision, changes>>
  PROVE  PagingInv'
<1> DEFINE now == [identity |-> wallet.identity, ledger |-> wallet.ledger]
           new == [pc |-> "first", rows |-> << >>, start |-> 0,
                   query |-> [offset |-> 0, revision |-> 0, anchor |-> anchor,
                              filter |-> FilterOf[r]]]
<1>1. TypeOK BY DEF PagingInv
<1>2. session' = [session EXCEPT ![r] = new] /\ held' = [held EXCEPT ![r] = {now}]
  BY DEF Starts
<1>3. new \in Session /\ now \in Shown
  BY <1>1, HistoryAssumption DEF TypeOK, Session, Query, Shown
<1>4. TypeOK'
  <2>1. session' \in [Reader -> Session] /\ held' \in [Reader -> SUBSET Shown]
        /\ asked' \in [Reader -> SUBSET [index : Index, query : Query]]
    <3> HIDE DEF new, now
    <3> QED BY <1>1, <1>2, <1>3 DEF TypeOK
  <2> QED BY <1>1, <2>1 DEF TypeOK
<1>5. /\ session'[r] = new /\ held'[r] = {now} /\ asked'[r] = {}
      /\ \A u \in Reader \ {r} : session'[u] = session[u] /\ held'[u] = held[u]
                                 /\ asked'[u] = asked[u]
  BY <1>1, <1>2 DEF TypeOK
<1>6. Taken' \subseteq Taken BY <1>5 DEF Taken
<1>7. RevisionsDistinct' BY <1>6 DEF PagingInv, RevisionsDistinct
<1>8. ASSUME NEW u \in Reader PROVE AskedFor(u)' /\ Progress(u)'
  <2>1. CASE u = r BY <1>5, <2>1 DEF AskedFor, Progress, Reading
  <2>2. CASE u # r
    <3>1. session'[u] = session[u] /\ held'[u] = held[u] /\ asked'[u] = asked[u]
      BY <1>5, <2>2
    <3>2. AskedFor(u) /\ Progress(u) BY DEF PagingInv
    <3>3. AskedFor(u)' BY <3>1, <3>2 DEF AskedFor, Reading
    <3>4. Progress(u)' BY <1>6, <3>1, <3>2 DEF Progress, Reading, PagesOf
    <3> QED BY <3>3, <3>4
  <2> QED BY <2>1, <2>2
<1> QED BY <1>4, <1>7, <1>8 DEF PagingInv

(* An answer: the page follows those the session has.                      *)
LEMMA AnswerStep ==
  ASSUME PagingInv, NEW r \in Reader, Answered(r)
  PROVE  PagingInv'
<1>1. TypeOK BY DEF PagingInv
<1>2. PICK a \in asked[r] :
        /\ ~Stale(a.query, a.index) /\ ~Invalid(a.query)
        /\ session' = [session EXCEPT ![r] =
                         Continued(session[r], Page(a.query, a.index), a.index.revision)]
  BY DEF Answered
<1> DEFINE s    == session[r]
           q    == a.query
           rows == Matching(a.index.ledger, q.filter)
           p    == Page(q, a.index)
           end  == p.offset + Len(p.rows)
           query == [s.query EXCEPT
                       !.offset = IF p.next = {} THEN @ ELSE CHOOSE o \in p.next : TRUE,
                       !.revision = a.index.revision,
                       !.anchor = NoId]
           new  == [pc    |-> IF p.next = {} THEN "done" ELSE "next",
                    rows  |-> s.rows \o p.rows,
                    start |-> IF s.pc = "first" THEN p.offset ELSE s.start,
                    query |-> query]
<1>3. session' = [session EXCEPT ![r] = new] BY <1>2 DEF Continued
<1>4. /\ asked' = [asked EXCEPT ![r] = {}]
      /\ UNCHANGED <<wallet, revision, held, changes>>
  BY DEF Answered
<1>5. s \in Session /\ q \in Query /\ a.index \in Index /\ a \in [index : Index, query : Query]
  BY <1>1 DEF TypeOK
<1>6. AskedFor(r) /\ Progress(r) BY DEF PagingInv
<1>7. /\ p.offset = OffsetOf(q, rows) /\ p.offset \in Nat
      /\ p.rows \in Seq(Entry) /\ Len(p.rows) \in Nat
      /\ end \in Nat
      /\ p.next = NextOffset(end, Len(rows))
      /\ p.offset <= Len(rows) =>
           end <= Len(rows) /\ p.rows = SubSeq(rows, p.offset + 1, end)
  <2>1. rows \in Seq(Entry) BY <1>5, MatchingType DEF Index
  <2>2. OffsetOf(q, rows) \in Nat
    <3> HIDE DEF rows, q
    <3> QED BY <1>5, <2>1, OffsetFacts
  <2>3. /\ p.offset = OffsetOf(q, rows)
        /\ p.rows \in Seq(Entry)
        /\ end \in Nat
        /\ p.next = NextOffset(end, Len(rows))
        /\ p.offset <= Len(rows) =>
             end <= Len(rows) /\ p.rows = SubSeq(rows, p.offset + 1, end)
    BY <1>5, PageFacts
  <2> HIDE DEF p, rows
  <2> QED BY <2>2, <2>3
<1>8. rows \in Seq(Entry) /\ Len(rows) \in Nat
  BY <1>5, MatchingType DEF Index
<1>9. a.index \in Taken BY DEF Taken
<1>10. Reading(s) /\ q.filter = s.query.filter
  BY <1>5, <1>6 DEF AskedFor, Session, Query
(* The ledger of the session is the one asked.                             *)
<1>11. \E h \in held[r] :
         /\ h.ledger = a.index.ledger
         /\ p.offset <= Len(rows)
         /\ new.rows = SubSeq(rows, new.start + 1, end)
         /\ new.start + Len(new.rows) = end
  <2> HIDE DEF rows, p, q, query
  <2>1. CASE s.pc = "first"
    <3>1. /\ q = s.query /\ s.rows = << >> /\ q.offset = 0
          /\ [identity |-> a.index.identity, ledger |-> a.index.ledger] \in held[r]
      BY <1>5, <1>6, <2>1 DEF AskedFor, Progress, Session, Query, q
    <3>2. p.offset <= Len(rows)
      BY <1>5, <1>7, <1>8, <3>1, OffsetFacts
    <3>3. << >> \o p.rows = p.rows BY <1>7, ConcatEmptySeq
    <3>4. new.rows = p.rows /\ new.start = p.offset BY <2>1, <3>1, <3>3
    <3> HIDE DEF new
    <3> QED BY <1>7, <3>1, <3>2, <3>4
  <2>2. CASE s.pc = "next"
    <3>1. /\ s.query.revision # 0 /\ s.query.anchor = NoId
          /\ s.query.offset = s.start + Len(s.rows)
      BY <1>1, <1>6, <2>2 DEF Progress, TypeOK
    <3>2. PICK h \in held[r] :
            /\ PagesOf(s, h.ledger)
            /\ \A ix \in Taken : ix.revision = s.query.revision => ix.ledger = h.ledger
      BY <1>6, <2>2 DEF Progress
    <3>3. q = s.query
      <4>1. CASE s.query.offset > 0 /\ q = [s.query EXCEPT !.revision = 0]
        BY <1>2, <1>5, <4>1 DEF Invalid, Session, Query, q
      <4> QED BY <1>6, <4>1 DEF AskedFor, q
    <3>4. a.index.revision = s.query.revision
      BY <1>2, <3>1, <3>3 DEF Stale, q
    <3>5. h.ledger = a.index.ledger BY <1>9, <3>2, <3>4
    <3>6. /\ s.start \in Nat /\ s.rows \in Seq(Entry) /\ Len(s.rows) \in Nat
      BY <1>5 DEF Session
    <3> DEFINE e == s.start + Len(s.rows)
    <3>7. e <= Len(rows) /\ s.rows = SubSeq(rows, s.start + 1, e)
      BY <1>10, <3>2, <3>5 DEF PagesOf, rows
    <3>8. p.offset = e BY <1>5, <1>7, <1>8, <3>1, <3>3, OffsetFacts
    <3> HIDE DEF end
    <3>9. end <= Len(rows) /\ p.rows = SubSeq(rows, e + 1, end)
      BY <1>7, <3>7, <3>8
    <3>10. e \in Nat /\ end = e + Len(p.rows)
      BY <3>6, <3>8 DEF end
    <3>11. SubSeq(rows, s.start + 1, e) \o SubSeq(rows, e + 1, end) = SubSeq(rows, s.start + 1, end)
      <4>1. /\ s.start + 1 \in 1 .. Len(rows) + 1
            /\ e \in (s.start + 1) - 1 .. Len(rows)
            /\ end \in e .. Len(rows)
        <5>1. s.start \in Nat /\ Len(s.rows) \in Nat /\ e = s.start + Len(s.rows)
          BY <3>6
        <5>2. Len(p.rows) \in Nat BY <1>7
        <5>3. end \in Nat /\ e \in Nat /\ end = e + Len(p.rows) BY <1>7, <3>10
        <5>4. e <= Len(rows) /\ end <= Len(rows) /\ Len(rows) \in Nat
          BY <1>8, <3>7, <3>9
        <5> HIDE DEF e, s, p
        <5>5. s.start + 1 \in 1 .. Len(rows) + 1 BY <5>1, <5>3, <5>4
        <5>6. e \in (s.start + 1) - 1 .. Len(rows) BY <5>1, <5>3, <5>4
        <5>7. end \in e .. Len(rows) BY <5>2, <5>3, <5>4
        <5> QED BY <5>5, <5>6, <5>7
      <4> HIDE DEF e, end, s
      <4> QED BY <1>8, <4>1, ConcatAdjacentSubSeq
    <3>12. Len(s.rows \o p.rows) = Len(s.rows) + Len(p.rows)
      BY <1>7, <3>6, ConcatProperties
    <3>13. new.rows = s.rows \o p.rows /\ new.start = s.start BY <2>2
    <3> HIDE DEF new, s
    <3>14. new.rows = SubSeq(rows, s.start + 1, end)
      BY <3>7, <3>9, <3>11, <3>13
    <3>15. new.start + Len(new.rows) = end
      <4>1. new.start + Len(new.rows) = s.start + (Len(s.rows) + Len(p.rows))
        BY <3>12, <3>13
      <4>2. end = (s.start + Len(s.rows)) + Len(p.rows) BY <3>10
      <4>3. Len(p.rows) \in Nat BY <1>7
      <4>4. \A i, j, k \in Nat : i + (j + k) = (i + j) + k OBVIOUS
      <4>5. s.start + (Len(s.rows) + Len(p.rows)) = (s.start + Len(s.rows)) + Len(p.rows)
        BY <3>6, <4>3, <4>4
      <4> QED BY <4>1, <4>2, <4>5
    <3>16. new.rows = SubSeq(rows, new.start + 1, end) BY <3>13, <3>14
    <3> HIDE DEF e
    <3> QED BY <3>5, <3>7, <3>8, <3>15, <3>16
  <2> QED BY <1>10, <2>1, <2>2 DEF Reading
<1>12. p.next # {} => (CHOOSE o \in p.next : TRUE) = end
  BY <1>7 DEF NextOffset
<1>13. /\ query.anchor = NoId /\ query.filter = s.query.filter
       /\ query.revision = a.index.revision
       /\ p.next # {} => query.offset = end
       /\ query \in Query
  <2> HIDE DEF p
  <2> QED BY <1>5, <1>7, <1>12 DEF Session, Query, Index
<1>14. new \in Session
  <2>1. s.rows \o p.rows \in Seq(Entry)
    BY <1>5, <1>7, ConcatProperties DEF Session
  <2> HIDE DEF p, query
  <2> QED BY <1>5, <1>7, <1>13, <2>1 DEF Session
<1>15. TypeOK'
  <2>1. session' \in [Reader -> Session]
    <3> HIDE DEF new
    <3> QED BY <1>1, <1>3, <1>14 DEF TypeOK
  <2>2. asked' \in [Reader -> SUBSET [index : Index, query : Query]]
    BY <1>1, <1>4 DEF TypeOK
  <2> QED BY <1>1, <1>4, <2>1, <2>2 DEF TypeOK
<1>16. /\ session'[r] = new /\ asked'[r] = {}
       /\ \A u \in Reader \ {r} : session'[u] = session[u] /\ asked'[u] = asked[u]
  <2> HIDE DEF new
  <2> QED BY <1>1, <1>3, <1>4 DEF TypeOK
<1>17. Taken' \subseteq Taken BY <1>4, <1>16 DEF Taken
<1>18. RevisionsDistinct' BY <1>4, <1>17 DEF PagingInv, RevisionsDistinct
<1>19. PagesOf(new, a.index.ledger)
  <2>1. rows = Matching(a.index.ledger, new.query.filter) BY <1>10, <1>13
  <2>2. new.pc = "done" => end = Len(rows)
    <3>1. new.pc = "done" => p.next = {} OBVIOUS
    <3> HIDE DEF new, p
    <3> QED BY <1>7, <1>8, <1>11, <3>1 DEF NextOffset
  <2> HIDE DEF new, p, rows
  <2> QED BY <1>7, <1>11, <2>1, <2>2 DEF PagesOf
<1>20. Progress(r)'
  <2>1. /\ new.pc \in {"next", "done"} /\ new.query = query
        /\ new.pc = "next" => p.next # {}
    OBVIOUS
  <2>2. \A ix \in Taken' : ix.revision = query.revision => ix.ledger = a.index.ledger
    BY <1>9, <1>13, <1>17 DEF PagingInv, RevisionsDistinct
  <2>3. query.revision \in 1 .. revision' - 1
    BY <1>4, <1>9, <1>13 DEF PagingInv, RevisionsDistinct
  <2>4. [identity |-> wallet.identity, ledger |-> wallet.ledger] \in held[r]
    BY <1>6, <1>10 DEF Progress
  <2> HIDE DEF new, query, p, s
  <2> QED BY <1>4, <1>11, <1>13, <1>16, <1>19, <2>1, <2>2, <2>3, <2>4
      DEF Progress
<1>21. ASSUME NEW u \in Reader PROVE AskedFor(u)' /\ Progress(u)'
  <2>1. CASE u = r BY <1>16, <1>20, <2>1 DEF AskedFor
  <2>2. CASE u # r
    <3>1. session'[u] = session[u] /\ asked'[u] = asked[u] BY <1>16, <2>2
    <3>2. AskedFor(u) /\ Progress(u) BY DEF PagingInv
    <3>3. AskedFor(u)' BY <1>4, <3>1, <3>2 DEF AskedFor, Reading
    <3>4. Progress(u)' BY <1>4, <1>17, <3>1, <3>2 DEF Progress, Reading, PagesOf
    <3> QED BY <3>3, <3>4
  <2> QED BY <2>1, <2>2
<1> QED BY <1>15, <1>18, <1>21 DEF PagingInv

LEMMA PagingNext == PagingInv /\ [Next]_vars => PagingInv'
<1> SUFFICES ASSUME PagingInv, [Next]_vars PROVE PagingInv'
  OBVIOUS
<1>1. TypeOK BY DEF PagingInv
<1>2. wallet.identity \in Identity /\ wallet.ledger \in Ledgers BY <1>1 DEF TypeOK
<1>3. wallet = [identity |-> wallet.identity, ledger |-> wallet.ledger, index |-> wallet.index]
  BY <1>1 DEF TypeOK
<1>4. ASSUME NEW r \in Reader PROVE session[r] \in Session /\ session[r].query \in Query
  BY <1>1 DEF TypeOK, Session
<1>5. CASE UNCHANGED vars
  <2>1. UNCHANGED <<wallet, revision, asked, session, held, changes>> BY <1>5 DEF vars
  <2>2. TypeOK' BY <1>1, <2>1 DEF TypeOK
  <2>3. Taken' = Taken BY <2>1 DEF Taken
  <2>4. RevisionsDistinct' BY <2>1, <2>3 DEF PagingInv, RevisionsDistinct
  <2>5. \A r \in Reader : AskedFor(r)' BY <2>1 DEF PagingInv, AskedFor, Reading
  <2>6. \A r \in Reader : Progress(r)'
    BY <2>1, <2>3 DEF PagingInv, Progress, Reading, PagesOf
  <2> QED BY <2>2, <2>4, <2>5, <2>6 DEF PagingInv
<1>6. ASSUME NEW ledger \in Ledgers, LedgerChanges(ledger) PROVE PagingInv'
  <2>1. [wallet EXCEPT !.ledger = ledger]
          = [identity |-> wallet.identity, ledger |-> ledger, index |-> wallet.index]
    BY <1>3
  <2> QED BY <1>2, <1>6, <2>1, WalletStep DEF LedgerChanges
<1>7. ASSUME NEW ledger \in Ledgers, Replaced(ledger) PROVE PagingInv'
  BY <1>2, <1>7, WalletStep DEF Replaced
<1>8. ASSUME NEW identity \in Identity, Opened(identity) PROVE PagingInv'
  BY <1>8, HistoryAssumption, WalletStep DEF Opened
<1>9. ASSUME NEW r \in Reader, Open(r) PROVE PagingInv'
  <2>1. asked[r] = {} BY <1>9 DEF PagingInv, AskedFor, Reading, Open
  <2>2. asked' = [asked EXCEPT ![r] = {}] BY <1>1, <1>9, <2>1 DEF TypeOK, Open
  <2> QED BY <1>9, <2>2, StartStep DEF Open
<1>10. ASSUME NEW r \in Reader, FirstQuery(r) \/ NextQuery(r) PROVE PagingInv'
  <2>1. /\ Reading(session[r]) /\ LockedQuery(r, session[r].query)
        /\ UNCHANGED <<session, held>> /\ changes' = changes
    BY <1>10 DEF FirstQuery, NextQuery, Reading
  <2>2. changes' \in 0 .. MaxChanges BY <1>1, <2>1 DEF TypeOK
  <2> QED BY <1>4, <2>1, <2>2, QueryStep
<1>11. ASSUME NEW r \in Reader, Slip(r) PROVE PagingInv'
  <2> DEFINE q == [session[r].query EXCEPT !.revision = 0]
  <2>1. /\ Reading(session[r]) /\ LockedQuery(r, q) /\ session[r].query.offset > 0
        /\ UNCHANGED <<session, held>>
    BY <1>11 DEF Slip, Reading
  <2>2. q \in Query BY <1>4 DEF Query
  <2>3. changes' \in 0 .. MaxChanges
    BY <1>1, <1>11, HistoryAssumption DEF TypeOK, Slip, Change
  <2> QED BY <2>1, <2>2, <2>3, QueryStep
<1>12. ASSUME NEW r \in Reader, Refused(r) PROVE PagingInv'
  <2>1. PICK anchor \in Seen(r) \cup {NoId} : Starts(r, anchor) BY <1>12 DEF Refused
  <2>2. Seen(r) \subseteq Id
    <3>1. session[r].rows \in Seq(Entry) BY <1>4 DEF Session
    <3>2. \A i \in DOMAIN session[r].rows : session[r].rows[i] \in Entry BY <3>1
    <3> QED BY <3>2 DEF Seen, Entry
  <2> QED BY <1>12, <2>1, <2>2, StartStep DEF Refused
<1> QED BY <1>5, <1>6, <1>7, <1>8, <1>9, <1>10, <1>11, <1>12, AnswerStep DEF Next, Reads

THEOREM PagingInvariant == Spec => []PagingInv
<1> QED BY PagingInit, PagingNext, PTL DEF Spec

-----------------------------------------------------------------------------
(* The index, the queries under way and the sessions keep their types; the *)
(* index of a wallet is older than the counter.                            *)
THEOREM PagingTypes == Spec => []TypeOK
<1>1. PagingInv => TypeOK BY DEF PagingInv
<1> QED BY <1>1, PagingInvariant, PTL

(* Whatever refreshes, imports and a wallet opened again do between two    *)
(* queries, the pages of a session are consecutive pages of one ledger.    *)
THEOREM PagesOfOneLedgerHolds == Spec => []PagesOfOneLedger
BY PagingInvariant, PagingInvPages, PTL

(* A page reloaded around a row shows the row.                             *)
THEOREM AnchorShownHolds == Spec => AnchorShown
<1> DEFINE Shows(r) ==
      Answered(r) =>
        \A a \in asked[r] :
          LET rows == Matching(a.index.ledger, a.query.filter)
          IN AnchorAt(rows, a.query.anchor) # {} =>
               \E e \in ToSet(session'[r].rows) : e.id = a.query.anchor
<1>1. ASSUME PagingInv, NEW r \in Reader, Answered(r), NEW a \in asked[r],
             AnchorAt(Matching(a.index.ledger, a.query.filter), a.query.anchor) # {}
      PROVE  \E e \in ToSet(session'[r].rows) : e.id = a.query.anchor
  <2> DEFINE rows == Matching(a.index.ledger, a.query.filter)
             p    == Page(a.query, a.index)
             end  == p.offset + Len(p.rows)
             all  == session[r].rows \o p.rows
  <2>1. TypeOK BY <1>1 DEF PagingInv
  <2>2. \A b \in asked[r] : b = a BY <1>1 DEF PagingInv, AskedFor
  <2>3. session' = [session EXCEPT ![r] = Continued(session[r], p, a.index.revision)]
    BY <1>1, <2>2 DEF Answered
  <2>4. session'[r].rows = all
    <3>1. session'[r] = Continued(session[r], p, a.index.revision)
      BY <2>1, <2>3 DEF TypeOK
    <3>2. \A s, rev : Continued(s, p, rev).rows = s.rows \o p.rows
      <4> HIDE DEF p
      <4> QED BY DEF Continued
    <3> HIDE DEF p
    <3> QED BY <3>1, <3>2
  <2>5. a.query \in Query /\ a.index \in Index /\ session[r].rows \in Seq(Entry)
    BY <2>1 DEF TypeOK, Session
  <2>6. rows \in Seq(Entry) /\ Len(rows) \in Nat BY <2>5, MatchingType DEF Index
  <2>7. PICK i \in AnchorAt(rows, a.query.anchor) :
          /\ OffsetOf(a.query, rows) <= i
          /\ i < OffsetOf(a.query, rows) + Limit
    <3> HIDE DEF rows
    <3> QED BY <1>1, <2>5, <2>6, OffsetFacts DEF rows
  <2>8. i \in Nat /\ i < Len(rows) /\ rows[i + 1].id = a.query.anchor
    BY <2>6, <2>7 DEF AnchorAt
  <2>9. /\ p.offset = OffsetOf(a.query, rows) /\ p.offset \in Nat
        /\ p.rows \in Seq(Entry) /\ Len(p.rows) \in Nat
    <3>1. OffsetOf(a.query, rows) \in Nat
      <4> HIDE DEF rows
      <4> QED BY <2>5, <2>6, OffsetFacts
    <3>2. p.offset = OffsetOf(a.query, rows) /\ p.rows \in Seq(Entry) BY <2>5, PageFacts
    <3> HIDE DEF p, rows
    <3> QED BY <3>1, <3>2
  <2>10. /\ p.offset <= Len(rows) /\ i + 1 \in p.offset + 1 .. p.offset + Limit
         /\ i + 1 <= Len(rows)
    <3> HIDE DEF p, rows
    <3> QED BY <2>6, <2>7, <2>8, <2>9, HistoryAssumption
  <2>11. i + 1 <= end /\ p.rows = SubSeq(rows, p.offset + 1, end)
    BY <2>5, <2>10, PageFacts
  <2> DEFINE j == i + 1 - p.offset
  <2>12. j \in 1 .. Len(p.rows) /\ p.rows[j] = rows[i + 1]
    <3> HIDE DEF p, rows
    <3> DEFINE lo == p.offset + 1
               n  == Len(p.rows)
    <3>1. lo \in Nat /\ n \in Nat /\ end \in Nat /\ end = lo - 1 + n /\ j = i + 2 - lo
      BY <2>8, <2>9
    <3>2. lo <= i + 1 /\ i + 1 <= end BY <2>10, <2>11
    <3>3. end <= Len(rows) BY <2>5, <2>10, PageFacts DEF p, rows
    <3> HIDE DEF lo, n, j, end
    <3>4. j \in 1 .. n /\ j \in 1 .. end - lo + 1 /\ lo + j - 1 = i + 1
      BY <2>8, <3>1, <3>2
    <3>5. ASSUME NEW k \in lo .. end PROVE rows[k] \in Entry
      <4>1. k \in 1 .. Len(rows)
        <5> HIDE DEF rows
        <5> QED BY <2>6, <2>9, <3>1, <3>3 DEF lo
      <4> HIDE DEF rows
      <4> QED BY <2>6, <4>1
    <3>6. \A k \in 1 .. end - lo + 1 : SubSeq(rows, lo, end)[k] = rows[lo + k - 1]
      BY <3>1, <3>5, SubSeqProperties
    <3>7. p.rows = SubSeq(rows, lo, end) BY <2>11 DEF lo
    <3> QED BY <3>4, <3>6, <3>7 DEF n
  <2> DEFINE k == Len(session[r].rows) + j
  <2>13. k \in DOMAIN all /\ all[k] = p.rows[j]
    <3> HIDE DEF p, j
    <3>1. Len(session[r].rows) \in Nat BY <2>5
    <3>2. /\ Len(all) = Len(session[r].rows) + Len(p.rows) /\ all \in Seq(Entry)
          /\ \A m \in 1 .. Len(session[r].rows) + Len(p.rows) :
               all[m] = IF m <= Len(session[r].rows) THEN session[r].rows[m]
                        ELSE p.rows[m - Len(session[r].rows)]
      BY <2>5, <2>9, ConcatProperties
    <3>6. \A x, n \in Nat : \A m \in 1 .. n :
            x + m \in 1 .. x + n /\ ~(x + m <= x) /\ (x + m) - x = m
      OBVIOUS
    <3>3. k \in 1 .. Len(session[r].rows) + Len(p.rows) BY <2>9, <2>12, <3>1, <3>6
    <3>4. ~(k <= Len(session[r].rows)) /\ k - Len(session[r].rows) = j
      BY <2>9, <2>12, <3>1, <3>6
    <3>5. DOMAIN all = 1 .. Len(all) BY <3>2
    <3> HIDE DEF k, all
    <3> QED BY <3>2, <3>3, <3>4, <3>5
  <2>14. all[k].id = a.query.anchor BY <2>8, <2>12, <2>13
  <2> HIDE DEF all, k
  <2> QED BY <2>4, <2>13, <2>14 DEF ToSet
<1>2. ASSUME PagingInv PROVE \A r \in Reader : Shows(r)
  BY <1>1, <1>2
<1>3. PagingInv /\ [Next]_vars => [\A r \in Reader : Shows(r)]_vars
  BY <1>2
<1> QED BY <1>3, PagingInvariant, PTL DEF Spec, AnchorShown
=============================================================================
