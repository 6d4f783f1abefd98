--------------------------- MODULE WalletOwnership ---------------------------
(***************************************************************************)
(* What the refresh registry promises to the rest of the wallet core: the  *)
(* scan state and the keys of a wallet belong to at most one call at a     *)
(* time, be it a refresh from its claim to its result or a call that       *)
(* excludes refreshes, and only the owner changes the keys.                *)
(***************************************************************************)
CONSTANTS Wallet, Thread, KeyState

VARIABLES
  owner,   \* owner[w]: the threads inside a refresh of w or a call on w
  keys     \* keys[w]: what WALLET_STORE holds of the keys of w

Init == /\ owner = [w \in Wallet |-> {}]
        /\ keys \in [Wallet -> KeyState]

Take(t, w) == /\ owner[w] = {}
              /\ owner' = [owner EXCEPT ![w] = {t}]
              /\ UNCHANGED keys

Drop(t, w) == /\ owner[w] = {t}
              /\ owner' = [owner EXCEPT ![w] = {}]
              /\ \E k \in KeyState : keys' = [keys EXCEPT ![w] = k]

Next == \E t \in Thread, w \in Wallet : Take(t, w) \/ Drop(t, w)

Spec == Init /\ [][Next]_<<owner, keys>>
=============================================================================
