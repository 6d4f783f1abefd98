--------------------------- MODULE MCCacheRestart ---------------------------
(***************************************************************************)
(* The block tree of MCRefreshScan for CacheRestart.                       *)
(***************************************************************************)
EXTENDS CacheRestart, MCRefreshScan
=============================================================================
