---------------------------- MODULE MCRefreshScan ----------------------------
(***************************************************************************)
(* A small block tree for TLC:                                             *)
(*                                                                         *)
(*     a0 -- a1 -- a2 -- a3 -- a4 -- a5                                    *)
(*             \-- b2 -- b3 -- b4                                          *)
(*                                                                         *)
(* w exists on the fork only, x is paid below the fork and spent at        *)
(* different heights, y changes height between the branches, z pays a      *)
(* subaddress outside the initial coverage.                                *)
(***************************************************************************)
EXTENDS RefreshScan

TreeBlock == {"a0", "a1", "a2", "a3", "a4", "a5", "b2", "b3", "b4"}
TreeNone == "none"
TreeOutput == {"w", "x", "y", "z"}

TreeHeight == [b \in TreeBlock |->
  CASE b = "a0" -> 0
    [] b = "a1" -> 1
    [] b \in {"a2", "b2"} -> 2
    [] b \in {"a3", "b3"} -> 3
    [] b = "a5" -> 5
    [] OTHER -> 4]

Trunk == <<"a1", "a2", "a3", "a4", "a5">>
Fork == <<"a1", "b2", "b3", "b4">>

TreeAnc == [b \in TreeBlock |-> [h \in 0 .. 5 |->
  IF h > TreeHeight[b] THEN TreeNone
  ELSE IF h = 0 THEN "a0"
  ELSE IF b \in {"b2", "b3", "b4"} THEN Fork[h] ELSE Trunk[h]]]

TreeMinor == [o \in TreeOutput |-> IF o = "z" THEN 1 ELSE 0]

TreeReceives == [b \in TreeBlock |->
  CASE b = "a1" -> {"x"}
    [] b = "a2" -> {"z"}
    [] b = "b2" -> {"w", "y"}
    [] b = "a3" -> {"y"}
    [] b = "b3" -> {"z"}
    [] OTHER -> {}]

TreeSpends == [b \in TreeBlock |->
  CASE b = "a3" -> {"x"}
    [] b = "a4" -> {"y"}
    [] b = "b3" -> {"y"}
    [] b = "b4" -> {"x", "z"}
    [] OTHER -> {}]

(* Any of these tips, lagging nodes included ...                           *)
Tips == {"a2", "a3", "a4", "b3", "b4"}
SwitchAny == [b \in TreeBlock |-> IF b \in Tips THEN Tips \ {b} ELSE {}]

(* ... or only tips at least as high as the last one.                      *)
SwitchUp == [b \in TreeBlock |->
  {t \in (Tips \cup {"a5"}) \ {b} : TreeHeight[t] >= TreeHeight[b]}]

(* A window of three covers every fork of this tree.                       *)
ASSUME TreeFinality == HashWindow >= 3 => Finality
=============================================================================
