-------------------------- MODULE RefreshLifecycle --------------------------
(***************************************************************************)
(* The refresh registry: REFRESH_JOBS, its one mutex for all wallets, its  *)
(* condition variable, and the cancellation cancel, which are set and      *)
(* cleared outside the mutex.  Host threads refresh, cancel, send, open,   *)
(* seal, unseal and close.  A refresh holds its job, not the mutex; a send *)
(* holds the mutex across its RPCs; a lifecycle call waits for the job to  *)
(* end, up to a deadline.                                                  *)
(***************************************************************************)
EXTENDS Naturals

CONSTANTS
  Wallet,     \* wallet ids
  Threads,    \* how many threads call into the library
  NoWallet,
  MaxCalls    \* bound: calls in a behaviour

ASSUME LifecycleAssumption ==
  /\ Threads \in Nat
  /\ NoWallet \notin Wallet
  /\ MaxCalls \in Nat

Thread == 1 .. Threads
NoThread == 0

Lifecycle == {"seal", "unseal", "close"}
Exclusive == {"open", "send"}             \* with_refresh_stopped
Call == Lifecycle \cup Exclusive \cup {"refresh", "none"}
KeyState == {"closed", "unsealed", "sealed"}

VARIABLES
  lock,     \* the thread that holds the REFRESH_JOBS mutex
  job,      \* RefreshJob of each wallet
  cancel,   \* the cancellation token of each wallet
  keys,     \* WALLET_STORE: whether a wallet is open, and its spend keys
  call,     \* the call a thread executes
  on,       \* and the wallet it is about
  pc,       \* where the thread is in it
  copy,     \* the keys a refresh or a send works with
  late,     \* the deadline of a lifecycle call has passed
  calls     \* calls so far

registry == <<lock, job>>
threads == <<call, on, pc, copy, late>>
vars == <<registry, cancel, keys, threads, calls>>

(* "token": the job is claimed, the token not yet reset; "scan": between   *)
(* snapshot and last checkpoint; "finish", "fail": the result is known;    *)
(* "poll": try_lock loop; "wait": in the condition variable; "wake": out   *)
(* of it, the mutex not yet reacquired; "op": the operation runs under the *)
(* mutex; "lift": an unseal that still has to clear the token.             *)
Idle == "idle"
Refreshing == {"token", "scan", "finish", "fail"}
Waiting == {"poll", "wait", "wake"}

TypeOK ==
  /\ lock \in Thread \cup {NoThread}
  /\ job \in [Wallet -> {"idle", "running", "failed"}]
  /\ cancel \in [Wallet -> BOOLEAN]
  /\ keys \in [Wallet -> KeyState]
  /\ call \in [Thread -> Call]
  /\ on \in [Thread -> Wallet \cup {NoWallet}]
  /\ pc \in [Thread -> {Idle, "op", "lift"} \cup Refreshing \cup Waiting]
  /\ copy \in [Thread -> KeyState]
  /\ late \in [Thread -> BOOLEAN]
  /\ calls \in 0 .. MaxCalls

Init ==
  /\ lock = NoThread
  /\ job = [w \in Wallet |-> "idle"]
  /\ cancel = [w \in Wallet |-> FALSE]
  /\ keys = [w \in Wallet |-> "unsealed"]
  /\ call = [t \in Thread |-> "none"]
  /\ on = [t \in Thread |-> NoWallet]
  /\ pc = [t \in Thread |-> Idle]
  /\ copy = [t \in Thread |-> "closed"]
  /\ late = [t \in Thread |-> FALSE]
  /\ calls = 0

-----------------------------------------------------------------------------
Running(w) == job[w] = "running"
LockFree == lock = NoThread

(* Idle threads are alike: the first one takes the next call.              *)
Calls(t) ==
  /\ pc[t] = Idle
  /\ \A u \in Thread : u < t => pc[u] # Idle
  /\ calls < MaxCalls
  /\ calls' = calls + 1

Enter(t, w, c, p) ==
  /\ call' = [call EXCEPT ![t] = c]
  /\ on' = [on EXCEPT ![t] = w]
  /\ pc' = [pc EXCEPT ![t] = p]

Goto(t, p) == pc' = [pc EXCEPT ![t] = p] /\ UNCHANGED <<call, on>>

Return(t) ==
  /\ call' = [call EXCEPT ![t] = "none"]
  /\ on' = [on EXCEPT ![t] = NoWallet]
  /\ copy' = [copy EXCEPT ![t] = "closed"]
  /\ late' = [late EXCEPT ![t] = FALSE]

Request(w) == cancel' = [cancel EXCEPT ![w] = TRUE]

-----------------------------------------------------------------------------
(* wallet_refresh and the worker of wallet_refresh_async.                  *)

(* Mutant: the token is cleared before the claim decides.                  *)
ClaimAfterReset(t, w) ==
  /\ Calls(t)
  /\ LockFree
  /\ IF Running(w)
     THEN /\ cancel' = [cancel EXCEPT ![w] = FALSE]
          /\ UNCHANGED <<job, call, on, pc>>
     ELSE /\ job' = [job EXCEPT ![w] = "running"]
          /\ Enter(t, w, "refresh", "token")
          /\ UNCHANGED cancel
  /\ UNCHANGED <<lock, keys, copy, late>>

(* try_start_refresh_job; a refused claim changes nothing.                 *)
Claim(t, w) ==
  /\ Calls(t)
  /\ LockFree
  /\ ~Running(w)
  /\ job' = [job EXCEPT ![w] = "running"]
  /\ Enter(t, w, "refresh", "token")
  /\ UNCHANGED <<lock, cancel, keys, copy, late>>

(* set_refresh_cancel_for_wallet(id, false), then the snapshot.            *)
BeginScan(t) ==
  /\ pc[t] = "token"
  /\ cancel' = [cancel EXCEPT ![on[t]] = FALSE]
  /\ IF keys[on[t]] = "closed"
     THEN Goto(t, "fail") /\ UNCHANGED copy
     ELSE Goto(t, "scan") /\ copy' = [copy EXCEPT ![t] = keys[on[t]]]
  /\ UNCHANGED <<registry, keys, late, calls>>

(* The check at the loop heads: the refresh ends with -30.                 *)
ScanCancelled(t) ==
  /\ pc[t] = "scan"
  /\ cancel[on[t]]
  /\ Goto(t, "finish")
  /\ UNCHANGED <<registry, cancel, keys, copy, late, calls>>

ScanEnds(t) ==
  /\ pc[t] = "scan"
  /\ \E p \in {"finish", "fail"} : Goto(t, p)
  /\ UNCHANGED <<registry, cancel, keys, copy, late, calls>>

(* Mutant: set_refresh_job without notify_all.                             *)
NotNotified(t, w) == [pc EXCEPT ![t] = Idle]

(* notify_all wakes the waiters of every wallet.                           *)
Notified(t, w) ==
  [u \in Thread |-> IF u = t THEN Idle ELSE IF pc[u] = "wait" THEN "wake" ELSE pc[u]]

(* finish_refresh_job                                                      *)
FinishJob(t) ==
  /\ pc[t] \in {"finish", "fail"}
  /\ LockFree
  /\ job' = [job EXCEPT ![on[t]] = IF pc[t] = "finish" THEN "idle" ELSE "failed"]
  /\ pc' = Notified(t, on[t])
  /\ Return(t)
  /\ UNCHANGED <<lock, cancel, keys, calls>>

(* wallet_refresh_cancel                                                   *)
RequestCancel(t, w) ==
  /\ Calls(t)
  /\ Request(w)
  /\ UNCHANGED <<registry, keys, threads>>

-----------------------------------------------------------------------------
(* Calls under with_refresh_stopped: the mutex is held until they return.  *)

(* Mutant: the job is not looked at.                                       *)
RunsAnyway(w) == TRUE

RefreshStopped(w) == ~Running(w)

TakeLock(t, w, c) ==
  /\ Calls(t)
  /\ LockFree
  /\ RefreshStopped(w)
  /\ c = "send" => keys[w] = "unsealed"
  /\ lock' = t
  /\ Enter(t, w, c, "op")
  /\ copy' = [copy EXCEPT ![t] = keys[w]]
  /\ UNCHANGED <<job, cancel, keys, late>>

EndCall(t) ==
  /\ pc[t] = "op"
  /\ call[t] \in Exclusive
  /\ lock' = NoThread
  /\ keys' = [keys EXCEPT ![on[t]] = IF call[t] = "open" THEN "unsealed" ELSE @]
  /\ pc' = [pc EXCEPT ![t] = Idle]
  /\ Return(t)
  /\ UNCHANGED <<job, cancel, calls>>

-----------------------------------------------------------------------------
(* wallet_seal, wallet_unseal_from_mnemonic, wallet_close, through         *)
(* with_wallet_lifecycle_exclusion.                                        *)

CallLifecycle(t, w, c) ==
  /\ Calls(t)
  /\ Request(w)
  /\ Enter(t, w, c, "poll")
  /\ UNCHANGED <<registry, keys, copy, late>>

Expire(t) ==
  /\ pc[t] \in Waiting
  /\ ~late[t]
  /\ late' = [late EXCEPT ![t] = TRUE]
  /\ UNCHANGED <<registry, cancel, keys, call, on, pc, copy, calls>>

PollTimesOut(t) ==
  /\ pc[t] = "poll"
  /\ ~LockFree
  /\ late[t]
  /\ pc' = [pc EXCEPT ![t] = Idle]
  /\ Return(t)
  /\ UNCHANGED <<registry, cancel, keys, calls>>

(* Mutant: a woken waiter takes the job's end for granted.                 *)
AcquireUnchecked(t) == pc[t] = "wake" \/ ~Running(on[t])

(* The loop condition, looked at again whenever the mutex is held.         *)
Acquirable(t) == ~Running(on[t])

(* The mutex is free: by try_lock, or reacquired on the way out of the     *)
(* condition variable, however long that takes.                            *)
Acquire(t) ==
  /\ pc[t] \in {"poll", "wake"}
  /\ LockFree
  /\ Acquirable(t)
  /\ lock' = t
  /\ Goto(t, "op")
  /\ copy' = [copy EXCEPT ![t] = keys[on[t]]]
  /\ UNCHANGED <<job, cancel, keys, late, calls>>

Sleep(t) ==
  /\ pc[t] \in {"poll", "wake"}
  /\ LockFree
  /\ ~Acquirable(t)
  /\ ~late[t]
  /\ Goto(t, "wait")
  /\ UNCHANGED <<registry, cancel, keys, copy, late, calls>>

GiveUp(t) ==
  /\ pc[t] \in {"poll", "wake"}
  /\ LockFree
  /\ ~Acquirable(t)
  /\ late[t]
  /\ pc' = [pc EXCEPT ![t] = Idle]
  /\ Return(t)
  /\ UNCHANGED <<registry, cancel, keys, calls>>

(* Mutant: wait instead of wait_timeout.                                   *)
NeverTimesOut(t) == FALSE

WaitTimesOut(t) == late[t]

WakeUp(t) ==
  /\ pc[t] = "wait"
  /\ WaitTimesOut(t)
  /\ Goto(t, "wake")
  /\ UNCHANGED <<registry, cancel, keys, copy, late, calls>>

SpuriousWakeUp(t) ==
  /\ pc[t] = "wait"
  /\ ~late[t]
  /\ Goto(t, "wake")
  /\ UNCHANGED <<registry, cancel, keys, copy, late, calls>>

(* What the operation of call c makes of the keys; without the wallet it   *)
(* is an error.                                                            *)
KeysAfter(c, k) ==
  IF k = "closed" \/ c = "close" THEN "closed"
  ELSE IF c = "seal" THEN "sealed" ELSE "unsealed"

(* The operation, and the release of the mutex.  A successful unseal       *)
(* clears the token afterwards.                                            *)
EndLifecycle(t) ==
  /\ pc[t] = "op"
  /\ call[t] \in Lifecycle
  /\ lock' = NoThread
  /\ keys' = [keys EXCEPT ![on[t]] = KeysAfter(call[t], keys[on[t]])]
  /\ IF keys[on[t]] # "closed" /\ call[t] = "unseal"
     THEN /\ Goto(t, "lift")
          /\ copy' = [copy EXCEPT ![t] = "closed"]
          /\ UNCHANGED late
     ELSE pc' = [pc EXCEPT ![t] = Idle] /\ Return(t)
  /\ UNCHANGED <<job, cancel, calls>>

LiftToken(t) ==
  /\ pc[t] = "lift"
  /\ cancel' = [cancel EXCEPT ![on[t]] = FALSE]
  /\ pc' = [pc EXCEPT ![t] = Idle]
  /\ Return(t)
  /\ UNCHANGED <<registry, keys, calls>>

-----------------------------------------------------------------------------
(* What a thread does by itself once it is in a call.                      *)
Proceed(t) ==
  \/ BeginScan(t)
  \/ ScanCancelled(t)
  \/ FinishJob(t)
  \/ EndCall(t)
  \/ PollTimesOut(t)
  \/ Acquire(t)
  \/ Sleep(t)
  \/ GiveUp(t)
  \/ WakeUp(t)
  \/ EndLifecycle(t)
  \/ LiftToken(t)

NewCall(t) == \E w \in Wallet :
  \/ Claim(t, w)
  \/ RequestCancel(t, w)
  \/ \E c \in Exclusive : TakeLock(t, w, c)
  \/ \E c \in Lifecycle : CallLifecycle(t, w, c)

(* The host stops calling, or its bound is reached.                        *)
Quiet == (\A t \in Thread : pc[t] = Idle) /\ UNCHANGED vars

Next ==
  \/ \E t \in Thread : NewCall(t) \/ Proceed(t) \/ ScanEnds(t) \/ Expire(t) \/ SpuriousWakeUp(t)
  \/ Quiet

Spec == Init /\ [][Next]_vars

(* Threads are scheduled, deadlines pass and RPCs of sends end; a scan may *)
(* go on for ever unless its token is set.                                 *)
FairSpec == Spec /\ \A t \in Thread : WF_vars(Proceed(t)) /\ WF_vars(Expire(t))

-----------------------------------------------------------------------------
(* Properties.                                                             *)

(* A call owns a wallet from its claim, or from the moment it holds the    *)
(* mutex, to its end.                                                      *)
Owners == [w \in Wallet |-> {t \in Thread : on[t] = w /\ pc[t] \in Refreshing \cup {"op"}}]

Ownership == INSTANCE WalletOwnership WITH owner <- Owners

(* The registry keeps the promise of WalletOwnership: no host call runs    *)
(* inside a refresh of its wallet and no two refreshes overlap, although   *)
(* a refresh holds no lock and the waiters sleep in between.               *)
OwnersAreExclusive == Ownership!Spec

(* The keys a refresh or a send works with are those of the store: none    *)
(* goes on with spend keys after wallet_seal or wallet_close has returned. *)
CopyIsCurrent == \A t \in Thread :
  pc[t] \in {"scan", "op"} => copy[t] = keys[on[t]]

(* No lost wakeup: whoever sleeps in the condition variable waits for a    *)
(* job that is still running.                                              *)
NoLostWakeup == \A t \in Thread : pc[t] = "wait" => Running(on[t])

(* refresh.rs:5204: a racing restart must not revive the previous worker   *)
(* before it observes cancellation; only the late reset of an unseal may.  *)
RestartRevivesNobody ==
  [][\A t \in Thread : pc[t] = "scan" /\ cancel[on[t]] /\ pc'[t] = "scan"
       => cancel'[on[t]] \/ \E u \in Thread : pc[u] = "lift" /\ on[u] = on[t]]_vars

(* A lifecycle call returns, with success or with -31, even when the       *)
(* refresh it waits for never ends.                                        *)
LifecycleReturns == \A t \in Thread :
  call[t] \in Lifecycle ~> call[t] \notin Lifecycle
=============================================================================
