--------------------------- MODULE MCHistoryPaging ---------------------------
(***************************************************************************)
(* Values for HistoryPaging: a transaction received, one sent, pending and *)
(* then mined, a third on top of both; and the ledgers of a reorganisation *)
(* that moves or removes one of them.                                      *)
(***************************************************************************)
EXTENDS HistoryPaging

In(x, h)  == [id |-> x, dir |-> "in", at |-> h, pending |-> FALSE]
Sent(x, h) == [id |-> x, dir |-> "out", at |-> h, pending |-> FALSE]
Waiting(x) == [id |-> x, dir |-> "out", at |-> 0, pending |-> TRUE]

MCRank == [a |-> 1, b |-> 2, c |-> 3]

MCFilterOf == [r1 |-> "all", r2 |-> "received"]

MCLedgers == { {},
               {In("a", 1), Waiting("b")},
               {In("a", 1), Sent("b", 2)},
               {In("a", 1), Sent("b", 2), In("c", 2)},
               {In("a", 3), In("c", 2)} }
=============================================================================
