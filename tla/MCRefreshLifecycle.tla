------------------------- MODULE MCRefreshLifecycle -------------------------
(***************************************************************************)
(* RefreshLifecycle with a history variable for TLC: the wallets that were *)
(* asked to stop since their running refresh claimed them.                 *)
(***************************************************************************)
EXTENDS RefreshLifecycle

VARIABLE asked

HistoryInit == Init /\ asked = {}

HistoryNext ==
  /\ Next
  /\ asked' = {w \in Wallet :
                 /\ Running(w) /\ job'[w] = "running"
                 /\ (w \in asked \/ (~cancel[w] /\ cancel'[w]))}

HistorySpec == HistoryInit /\ [][HistoryNext]_<<vars, asked>>

(* monerowalletcore.h:225: wallet_refresh_cancel "sets a per-wallet cancel *)
(* flag that the refresh loop checks frequently.  The next check will      *)
(* abort the refresh": a request made while the job runs is still there    *)
(* when the loop looks.                                                    *)
CancelHeld == \A w \in asked : cancel[w]
=============================================================================
