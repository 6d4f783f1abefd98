---------------------------- MODULE MCSpendCalls ----------------------------
(***************************************************************************)
(* Values for SpendQuotes: a large output whose key image is wrong, two    *)
(* small good ones, a foreign transaction over one of these.  Smallest     *)
(* first, a payment over all of them is covered in its second round; when  *)
(* the second small one is gone, that round meets the wrong one, and a     *)
(* filtered send with three rounds slips it through.                       *)
(***************************************************************************)
EXTENDS SpendQuotes

MCAmount   == [c1 |-> 2, c2 |-> 3, c3 |-> 9]
MCPosition == [c1 |-> 1, c2 |-> 2, c3 |-> 3, t1 |-> 4, t2 |-> 5]
MCFee      == [n \in 1 .. 5 |-> n]
MCLargeAmount == [c \in {"c1", "c2", "c3"} |-> 10]
MCDearFee  == [n \in 1 .. 5 |-> 13]    \* between six and seven fee steps
MCForeignIns == [f1 |-> {"c2"}]
MCFilters  == {{"c1", "c2", "c3"}}
=============================================================================
