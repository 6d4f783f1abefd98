----------------------- MODULE RefreshLifecycleProofs -----------------------
(***************************************************************************)
(* What holds of the registry for any number of wallets, threads and       *)
(* calls: types, exclusive ownership, current keys, no lost wakeup, and    *)
(* that a restart revives no cancelled refresh.                            *)
(***************************************************************************)
EXTENDS RefreshLifecycle, TLAPS

(* A thread inside a call is in it about some wallet.                      *)
InCallOnWallet == \A t \in Thread : pc[t] # Idle => on[t] \in Wallet

(* The claim of a refresh lasts as long as the refresh, and is its own.    *)
ClaimsHeld ==
  /\ \A t \in Thread : pc[t] \in Refreshing => Running(on[t])
  /\ \A t, u \in Thread :
       pc[t] \in Refreshing /\ pc[u] \in Refreshing /\ on[t] = on[u] => t = u

(* The mutex is held by the thread whose operation runs, and no refresh of *)
(* that wallet does.                                                       *)
LockHeld == \A t \in Thread :
  /\ pc[t] = "op" <=> lock = t
  /\ pc[t] = "op" => ~Running(on[t])

RegistryInv ==
  TypeOK /\ InCallOnWallet /\ ClaimsHeld /\ LockHeld /\ NoLostWakeup /\ CopyIsCurrent

-----------------------------------------------------------------------------
(* Before the first call the registry invariant holds.                     *)
LEMMA RegistryInit == Init => RegistryInv
  BY LifecycleAssumption
  DEF Init, RegistryInv, TypeOK, InCallOnWallet, ClaimsHeld, LockHeld, NoLostWakeup,
      CopyIsCurrent, Idle, Refreshing, Waiting, Call, KeyState, Running, Thread, NoThread

(* The steps of a refresh keep it.                                         *)
LEMMA RegistryRefresh ==
  ASSUME RegistryInv, NEW t \in Thread,
         \/ \E w \in Wallet : Claim(t, w)
         \/ BeginScan(t)
         \/ ScanCancelled(t)
         \/ ScanEnds(t)
         \/ FinishJob(t)
  PROVE  RegistryInv'
<1> USE LifecycleAssumption DEF RegistryInv, TypeOK, InCallOnWallet, ClaimsHeld, LockHeld,
      NoLostWakeup, CopyIsCurrent, Idle, Refreshing, Waiting, Call, KeyState, Running,
      Thread, NoThread, Calls, Enter, Goto, Return, LockFree, registry
<1>1. CASE \E w \in Wallet : Claim(t, w)
  BY <1>1 DEF Claim
<1>2. CASE BeginScan(t)
  <2>1. /\ pc[t] = "token" /\ on[t] \in Wallet
        /\ cancel' = [cancel EXCEPT ![on[t]] = FALSE]
        /\ UNCHANGED <<lock, job, keys, late, calls, call, on>>
    BY <1>2 DEF BeginScan
  <2>2. PICK p \in {"scan", "fail"} : pc' = [pc EXCEPT ![t] = p]
    BY <1>2 DEF BeginScan
  <2>3. /\ copy' \in [Thread -> {"closed", "unsealed", "sealed"}]
        /\ pc'[t] = "scan" => copy'[t] = keys[on[t]]
        /\ \A u \in Thread \ {t} : copy'[u] = copy[u]
    BY <1>2, <2>1 DEF BeginScan
  <2>4. TypeOK'
    BY <2>1, <2>2, <2>3
  <2>5. InCallOnWallet' /\ ClaimsHeld' /\ LockHeld' /\ NoLostWakeup'
    BY <2>1, <2>2
  <2>6. CopyIsCurrent'
    BY <2>1, <2>2, <2>3
  <2>7. QED
    BY <2>4, <2>5, <2>6
<1>3. CASE ScanCancelled(t)
  BY <1>3 DEF ScanCancelled
<1>4. CASE ScanEnds(t)
  BY <1>4 DEF ScanEnds
<1>5. CASE FinishJob(t)
  BY <1>5 DEF FinishJob, Notified
<1>6. QED
  BY <1>1, <1>2, <1>3, <1>4, <1>5

(* The host's cancellation and its calls under the mutex keep it.          *)
LEMMA RegistryCalls ==
  ASSUME RegistryInv, NEW t \in Thread,
         \/ \E w \in Wallet : RequestCancel(t, w)
         \/ \E w \in Wallet : \E c \in Exclusive : TakeLock(t, w, c)
         \/ EndCall(t)
  PROVE  RegistryInv'
<1> USE LifecycleAssumption DEF RegistryInv, TypeOK, InCallOnWallet, ClaimsHeld, LockHeld,
      NoLostWakeup, CopyIsCurrent, Idle, Refreshing, Waiting, Call, KeyState, Running,
      Thread, NoThread, Calls, Enter, Goto, Return, LockFree, registry, threads, Request
<1>1. CASE \E w \in Wallet : RequestCancel(t, w)
  BY <1>1 DEF RequestCancel
<1>2. CASE \E w \in Wallet : \E c \in Exclusive : TakeLock(t, w, c)
  BY <1>2 DEF TakeLock, RefreshStopped, Exclusive
<1>3. CASE EndCall(t)
  BY <1>3 DEF EndCall
<1>4. QED
  BY <1>1, <1>2, <1>3

(* So do the steps of a lifecycle call.                                    *)
LEMMA RegistryLifecycle ==
  ASSUME RegistryInv, NEW t \in Thread,
         \/ \E w \in Wallet : \E c \in Lifecycle : CallLifecycle(t, w, c)
         \/ Expire(t)
         \/ PollTimesOut(t)
         \/ Acquire(t)
         \/ Sleep(t)
         \/ GiveUp(t)
         \/ WakeUp(t)
         \/ SpuriousWakeUp(t)
         \/ EndLifecycle(t)
         \/ LiftToken(t)
  PROVE  RegistryInv'
<1> USE LifecycleAssumption DEF RegistryInv, TypeOK, InCallOnWallet, ClaimsHeld, LockHeld,
      NoLostWakeup, CopyIsCurrent, Idle, Refreshing, Waiting, Call, KeyState, Running,
      Thread, NoThread, Calls, Enter, Goto, Return, LockFree, registry, threads, Request,
      Acquirable
<1>1. CASE \E w \in Wallet : \E c \in Lifecycle : CallLifecycle(t, w, c)
  BY <1>1 DEF CallLifecycle, Lifecycle
<1>2. CASE Expire(t)
  BY <1>2 DEF Expire
<1>3. CASE PollTimesOut(t)
  BY <1>3 DEF PollTimesOut
<1>4. CASE Acquire(t)
  BY <1>4 DEF Acquire
<1>5. CASE Sleep(t)
  BY <1>5 DEF Sleep
<1>6. CASE GiveUp(t)
  BY <1>6 DEF GiveUp
<1>7. CASE WakeUp(t)
  BY <1>7 DEF WakeUp
<1>8. CASE SpuriousWakeUp(t)
  BY <1>8 DEF SpuriousWakeUp
<1>9. CASE EndLifecycle(t)
  <2>1. /\ pc[t] = "op" /\ lock = t /\ on[t] \in Wallet /\ ~Running(on[t])
        /\ lock' = NoThread
        /\ UNCHANGED <<job, cancel, calls>>
    BY <1>9 DEF EndLifecycle
  <2>2. PICK k \in KeyState : keys' = [keys EXCEPT ![on[t]] = k]
    BY <1>9 DEF EndLifecycle, KeysAfter
  <2>3. PICK p \in {Idle, "lift"} : pc' = [pc EXCEPT ![t] = p]
    BY <1>9 DEF EndLifecycle
  <2>4. /\ call' \in [Thread -> Call]
        /\ on' \in [Thread -> Wallet \cup {NoWallet}]
        /\ copy' \in [Thread -> KeyState]
        /\ late' \in [Thread -> BOOLEAN]
        /\ pc'[t] = "lift" => on'[t] = on[t]
        /\ \A u \in Thread \ {t} : on'[u] = on[u] /\ copy'[u] = copy[u]
    <3>1. CASE keys[on[t]] # "closed" /\ call[t] = "unseal"
      BY <1>9, <2>1, <3>1 DEF EndLifecycle
    <3>2. CASE ~(keys[on[t]] # "closed" /\ call[t] = "unseal")
      <4>1. pc' = [pc EXCEPT ![t] = Idle] /\ Return(t)
        BY <1>9, <3>2 DEF EndLifecycle
      <4>2. QED
        BY <2>1, <4>1
    <3>3. QED
      BY <3>1, <3>2
  <2>5. TypeOK'
    BY <2>1, <2>2, <2>3, <2>4
  <2>6. InCallOnWallet' /\ ClaimsHeld' /\ LockHeld' /\ NoLostWakeup'
    BY <2>1, <2>3, <2>4
  <2>7. CopyIsCurrent'
    BY <2>1, <2>2, <2>3, <2>4
  <2>8. QED
    BY <2>5, <2>6, <2>7
<1>10. CASE LiftToken(t)
  BY <1>10 DEF LiftToken
<1>11. QED
  BY <1>1, <1>2, <1>3, <1>4, <1>5, <1>6, <1>7, <1>8, <1>9, <1>10

(* The invariant is inductive.                                             *)
LEMMA RegistryInductive == RegistryInv /\ [Next]_vars => RegistryInv'
<1> SUFFICES ASSUME RegistryInv, [Next]_vars PROVE RegistryInv'
  OBVIOUS
<1>1. CASE UNCHANGED vars
  BY <1>1 DEF vars, registry, threads, RegistryInv, TypeOK, InCallOnWallet, ClaimsHeld,
     LockHeld, NoLostWakeup, CopyIsCurrent, Running
<1>2. CASE \E t \in Thread : NewCall(t) \/ Proceed(t) \/ ScanEnds(t) \/ Expire(t) \/ SpuriousWakeUp(t)
  BY <1>2, RegistryRefresh, RegistryCalls, RegistryLifecycle DEF NewCall, Proceed
<1>3. QED
  BY <1>1, <1>2 DEF Next, Quiet

LEMMA RegistryAlways == Spec => []RegistryInv
  BY RegistryInit, RegistryInductive, PTL DEF Spec

-----------------------------------------------------------------------------
(* Jobs, tokens, the mutex and the threads' places keep their types.       *)
THEOREM LifecycleTypes == Spec => []TypeOK
<1>1. RegistryInv => TypeOK
  BY DEF RegistryInv
<1>2. QED
  BY <1>1, RegistryAlways, PTL

(* No refresh and no send works with keys the store no longer holds, for   *)
(* any number of concurrent seals, closes, opens and restarts.             *)
THEOREM KeysCurrent == Spec => []CopyIsCurrent
<1>1. RegistryInv => CopyIsCurrent
  BY DEF RegistryInv
<1>2. QED
  BY <1>1, RegistryAlways, PTL

(* A lifecycle call never sleeps on a job that has already ended.          *)
THEOREM NoWakeupLost == Spec => []NoLostWakeup
<1>1. RegistryInv => NoLostWakeup
  BY DEF RegistryInv
<1>2. QED
  BY <1>1, RegistryAlways, PTL

-----------------------------------------------------------------------------
(* The token of a refresh that is under way is cleared by nobody but an    *)
(* unseal that has already let go of the mutex.                            *)
LEMMA TokenStays ==
  ASSUME RegistryInv, [Next]_vars, NEW t \in Thread,
         pc[t] = "scan", cancel[on[t]]
  PROVE  cancel'[on[t]] \/ \E u \in Thread : pc[u] = "lift" /\ on[u] = on[t]
<1>1. /\ on[t] \in Wallet
      /\ cancel \in [Wallet -> BOOLEAN]
      /\ \A u \in Thread : pc[u] \in Refreshing /\ on[u] = on[t] => u = t
  BY DEF RegistryInv, TypeOK, InCallOnWallet, ClaimsHeld, Idle, Refreshing
<1>2. CASE UNCHANGED cancel
  BY <1>2
<1>3. ASSUME NEW w \in Wallet, Request(w)
      PROVE  cancel'[on[t]]
  BY <1>1, <1>3 DEF Request
<1>4. ASSUME NEW u \in Thread, BeginScan(u)
      PROVE  cancel'[on[t]]
  <2>1. pc[u] = "token" /\ cancel' = [cancel EXCEPT ![on[u]] = FALSE]
    BY <1>4 DEF BeginScan
  <2>2. on[u] # on[t]
    BY <1>1, <2>1 DEF Refreshing
  <2>3. QED
    BY <1>1, <2>1, <2>2
<1>5. ASSUME NEW u \in Thread, LiftToken(u)
      PROVE  cancel'[on[t]] \/ (pc[u] = "lift" /\ on[u] = on[t])
  BY <1>1, <1>5 DEF LiftToken
<1>6. ASSUME NEW u \in Thread, NEW w \in Wallet,
             RequestCancel(u, w) \/ \E c \in Lifecycle : CallLifecycle(u, w, c)
      PROVE  cancel'[on[t]]
  BY <1>3, <1>6 DEF RequestCancel, CallLifecycle
<1>7. ASSUME NEW u \in Thread,
             \/ \E w \in Wallet : Claim(u, w) \/ \E c \in Exclusive : TakeLock(u, w, c)
             \/ ScanCancelled(u) \/ ScanEnds(u) \/ FinishJob(u) \/ EndCall(u)
             \/ Expire(u) \/ PollTimesOut(u) \/ Acquire(u) \/ Sleep(u) \/ GiveUp(u)
             \/ WakeUp(u) \/ SpuriousWakeUp(u) \/ EndLifecycle(u)
      PROVE  UNCHANGED cancel
  BY <1>7 DEF Claim, TakeLock, ScanCancelled, ScanEnds, FinishJob, EndCall, Expire,
     PollTimesOut, Acquire, Sleep, GiveUp, WakeUp, SpuriousWakeUp, EndLifecycle
<1>8. CASE \E u \in Thread : NewCall(u) \/ Proceed(u) \/ ScanEnds(u) \/ Expire(u) \/ SpuriousWakeUp(u)
  BY <1>2, <1>4, <1>5, <1>6, <1>7, <1>8 DEF NewCall, Proceed
<1>9. QED
  BY <1>2, <1>8 DEF Next, Quiet, vars

(* A refresh that was asked to stop is not revived by the next one of its  *)
(* wallet resetting the token, whatever the interleaving of claims.        *)
THEOREM RestartRevivesNobodyHolds == Spec => RestartRevivesNobody
<1>1. RegistryInv /\ [Next]_vars =>
        [\A t \in Thread : pc[t] = "scan" /\ cancel[on[t]] /\ pc'[t] = "scan"
           => cancel'[on[t]] \/ \E u \in Thread : pc[u] = "lift" /\ on[u] = on[t]]_vars
  BY TokenStays
<1>2. QED
  BY <1>1, RegistryAlways, PTL DEF Spec, RestartRevivesNobody

-----------------------------------------------------------------------------
(* Refinement: the registry implements WalletOwnership.                    *)

Owning(t) == pc[t] \in Refreshing \cup {"op"}

(* Nobody owns a wallet without a job while the mutex is free.             *)
LEMMA FreeWallet ==
  ASSUME RegistryInv, NEW w \in Wallet, ~Running(w), LockFree
  PROVE  Owners[w] = {}
  BY DEF RegistryInv, ClaimsHeld, LockHeld, Owners, LockFree, Thread, NoThread

(* An owner is the only one.                                               *)
LEMMA SoleOwner ==
  ASSUME RegistryInv, NEW t \in Thread, Owning(t)
  PROVE  on[t] \in Wallet /\ Owners[on[t]] = {t}
<1>1. on[t] \in Wallet
  BY DEF RegistryInv, InCallOnWallet, Owning, Refreshing, Idle
<1>2. \A u \in Thread : Owning(u) /\ on[u] = on[t] => u = t
  BY DEF RegistryInv, ClaimsHeld, LockHeld, Owning
<1>3. QED
  BY <1>1, <1>2 DEF Owners, Owning

(* A thread that starts to own a wallet takes it.                          *)
LEMMA TakesWallet ==
  ASSUME RegistryInv, NEW t \in Thread, NEW w \in Wallet, ~Running(w), LockFree,
         NEW p \in Refreshing \cup {"op"}, ~Owning(t),
         pc' = [pc EXCEPT ![t] = p],
         on'[t] = w, \A u \in Thread \ {t} : on'[u] = on[u],
         UNCHANGED keys
  PROVE  Ownership!Take(t, w)
<1>1. Owners[w] = {}
  BY FreeWallet
<1>2. ASSUME NEW x \in Wallet PROVE Owners'[x] = IF x = w THEN {t} ELSE Owners[x]
  <2>1. \A u \in Thread \ {t} : Owning(u)' <=> Owning(u)
    BY DEF Owning, RegistryInv, TypeOK
  <2>2. Owning(t)'
    BY DEF Owning, RegistryInv, TypeOK
  <2>3. Owners'[x] = {u \in Thread : on'[u] = x /\ Owning(u)'}
    BY DEF Owners, Owning
  <2>4. Owners[x] = {u \in Thread : on[u] = x /\ Owning(u)}
    BY DEF Owners, Owning
  <2>5. QED
    BY <1>1, <2>1, <2>2, <2>3, <2>4
<1>3. Owners' = [Owners EXCEPT ![w] = {t}]
  <2>1. /\ Owners = [x \in Wallet |-> Owners[x]]
        /\ Owners' = [x \in Wallet |-> Owners'[x]]
    BY DEF Owners
  <2>2. QED
    BY <1>2, <2>1
<1>4. QED
  BY <1>1, <1>3 DEF Ownership!Take

(* An owner that stops owning drops its wallet.                            *)
LEMMA DropsWallet ==
  ASSUME RegistryInv, NEW t \in Thread, Owning(t),
         pc' \in [Thread -> {Idle, "op", "lift"} \cup Refreshing \cup Waiting],
         pc'[t] \notin Refreshing \cup {"op"},
         \A u \in Thread \ {t} : /\ on'[u] = on[u]
                                 /\ pc'[u] = pc[u] \/ {pc[u], pc'[u]} \subseteq Waiting,
         NEW k \in KeyState, keys' = [keys EXCEPT ![on[t]] = k]
  PROVE  Ownership!Drop(t, on[t])
<1>1. on[t] \in Wallet /\ Owners[on[t]] = {t}
  BY SoleOwner
<1>2. \A u \in Thread \ {t} : Owning(u)' <=> Owning(u)
  BY DEF Owning, Refreshing, Waiting
<1>3. ~Owning(t)'
  BY DEF Owning
<1>4. ASSUME NEW x \in Wallet PROVE Owners'[x] = IF x = on[t] THEN {} ELSE Owners[x]
  <2>1. Owners'[x] = {u \in Thread : on'[u] = x /\ Owning(u)'}
    BY DEF Owners, Owning
  <2>2. Owners[x] = {u \in Thread : on[u] = x /\ Owning(u)}
    BY DEF Owners, Owning
  <2>3. QED
    BY <1>1, <1>2, <1>3, <2>1, <2>2
<1>5. Owners' = [Owners EXCEPT ![on[t]] = {}]
  <2>1. Owners' = [x \in Wallet |-> Owners'[x]] /\ Owners = [x \in Wallet |-> Owners[x]]
    BY DEF Owners
  <2>2. QED
    BY <1>4, <2>1
<1>6. QED
  BY <1>1, <1>5 DEF Ownership!Drop

(* A thread that moves without starting or ending ownership is not seen.   *)
LEMMA KeepsOwners ==
  ASSUME RegistryInv, NEW t \in Thread,
         \A u \in Thread \ {t} : on'[u] = on[u] /\ pc'[u] = pc[u],
         Owning(t)' <=> Owning(t),
         Owning(t) => on'[t] = on[t],
         UNCHANGED keys
  PROVE  UNCHANGED <<Owners, keys>>
  BY DEF Owners, Owning

(* Every step of the registry is a step of WalletOwnership, or none.       *)
LEMMA OwnershipStep ==
  ASSUME RegistryInv, [Next]_vars
  PROVE  [Ownership!Next]_<<Owners, keys>>
<1> USE DEF Thread
<1>1. ASSUME NEW t \in Thread, NEW w \in Wallet,
             Claim(t, w) \/ \E c \in Exclusive : TakeLock(t, w, c)
      PROVE  Ownership!Take(t, w)
  <2>1. ~Running(w) /\ LockFree /\ ~Owning(t)
    BY <1>1 DEF Claim, TakeLock, RefreshStopped, Calls, Owning, Refreshing, Idle
  <2>2. PICK p \in Refreshing \cup {"op"} : pc' = [pc EXCEPT ![t] = p]
    BY <1>1 DEF Claim, TakeLock, Enter, Refreshing
  <2>3. UNCHANGED keys /\ on' = [on EXCEPT ![t] = w]
    BY <1>1 DEF Claim, TakeLock, Enter
  <2>4. on'[t] = w /\ \A u \in Thread \ {t} : on'[u] = on[u]
    BY <2>3 DEF RegistryInv, TypeOK
  <2>5. QED
    BY <2>1, <2>2, <2>3, <2>4, TakesWallet
<1>2. ASSUME NEW t \in Thread, Acquire(t)
      PROVE  Ownership!Take(t, on[t])
  <2>1. /\ ~Running(on[t]) /\ LockFree /\ ~Owning(t) /\ on[t] \in Wallet
        /\ "op" \in Refreshing \cup {"op"}
        /\ pc' = [pc EXCEPT ![t] = "op"]
        /\ UNCHANGED <<on, keys>>
    BY <1>2 DEF Acquire, Acquirable, Goto, Owning, Refreshing, RegistryInv, InCallOnWallet, Idle
  <2>2. QED
    BY <2>1, TakesWallet
<1>3. ASSUME NEW t \in Thread, FinishJob(t) \/ EndCall(t) \/ EndLifecycle(t)
      PROVE  Ownership!Drop(t, on[t])
  <2>1. Owning(t)
    BY <1>3 DEF FinishJob, EndCall, EndLifecycle, Owning, Refreshing
  <2>2. \E k \in KeyState : keys' = [keys EXCEPT ![on[t]] = k]
    <3>1. on[t] \in Wallet /\ keys \in [Wallet -> KeyState]
      BY <2>1, SoleOwner DEF RegistryInv, TypeOK
    <3>2. CASE FinishJob(t)
      BY <3>1, <3>2 DEF FinishJob
    <3>3. CASE EndCall(t)
      BY <3>1, <3>3 DEF EndCall, KeyState
    <3>4. CASE EndLifecycle(t)
      BY <3>1, <3>4 DEF EndLifecycle, KeysAfter, KeyState
    <3>5. QED
      BY <1>3, <3>2, <3>3, <3>4
  <2>3. pc' \in [Thread -> {Idle, "op", "lift"} \cup Refreshing \cup Waiting]
    BY RegistryInductive DEF RegistryInv, TypeOK
  <2>4. pc'[t] \in {Idle, "lift"}
    BY <1>3 DEF FinishJob, Notified, EndCall, EndLifecycle, Goto, RegistryInv, TypeOK
  <2>5. \A u \in Thread \ {t} : /\ on'[u] = on[u]
                                /\ pc'[u] = pc[u] \/ {pc[u], pc'[u]} \subseteq Waiting
    <3>1. CASE FinishJob(t)
      BY <3>1 DEF FinishJob, Notified, Return, RegistryInv, TypeOK, Waiting
    <3>2. CASE EndCall(t) \/ EndLifecycle(t)
      BY <3>2 DEF EndCall, EndLifecycle, Goto, Return, RegistryInv, TypeOK
    <3>3. QED
      BY <1>3, <3>1, <3>2
  <2>6. QED
    BY <2>1, <2>2, <2>3, <2>4, <2>5, DropsWallet DEF Refreshing, Idle
<1>4. ASSUME NEW t \in Thread,
             \/ \E w \in Wallet : RequestCancel(t, w)
             \/ \E w \in Wallet : \E c \in Lifecycle : CallLifecycle(t, w, c)
             \/ BeginScan(t) \/ ScanCancelled(t) \/ ScanEnds(t)
             \/ Expire(t) \/ PollTimesOut(t) \/ Sleep(t) \/ GiveUp(t)
             \/ WakeUp(t) \/ SpuriousWakeUp(t) \/ LiftToken(t)
      PROVE  UNCHANGED <<Owners, keys>>
  <2>1. UNCHANGED keys
    BY <1>4 DEF RequestCancel, CallLifecycle, BeginScan, ScanCancelled, ScanEnds, Expire,
       PollTimesOut, Sleep, GiveUp, WakeUp, SpuriousWakeUp, LiftToken
  <2>2. \A u \in Thread \ {t} : on'[u] = on[u] /\ pc'[u] = pc[u]
    BY <1>4 DEF RequestCancel, CallLifecycle, BeginScan, ScanCancelled, ScanEnds, Expire,
       PollTimesOut, Sleep, GiveUp, WakeUp, SpuriousWakeUp, LiftToken, Enter, Goto, Return,
       threads, RegistryInv, TypeOK
  <2>3. (Owning(t)' <=> Owning(t)) /\ (Owning(t) => on'[t] = on[t])
    <3>1. CASE \/ \E w \in Wallet : RequestCancel(t, w)
               \/ \E w \in Wallet : \E c \in Lifecycle : CallLifecycle(t, w, c)
      BY <3>1 DEF RequestCancel, CallLifecycle, Calls, Enter, threads, RegistryInv, TypeOK,
         Owning, Refreshing, Idle
    <3>2. CASE BeginScan(t) \/ ScanCancelled(t) \/ ScanEnds(t)
      BY <3>2 DEF BeginScan, ScanCancelled, ScanEnds, Goto, RegistryInv, TypeOK, Owning,
         Refreshing
    <3>3. CASE Expire(t) \/ Sleep(t) \/ WakeUp(t) \/ SpuriousWakeUp(t)
      BY <3>3 DEF Expire, Sleep, WakeUp, SpuriousWakeUp, Goto, RegistryInv, TypeOK, Owning,
         Refreshing
    <3>4. CASE PollTimesOut(t) \/ GiveUp(t) \/ LiftToken(t)
      BY <3>4 DEF PollTimesOut, GiveUp, LiftToken, RegistryInv, TypeOK, Owning,
         Refreshing, Idle
    <3>5. QED
      BY <1>4, <3>1, <3>2, <3>3, <3>4
  <2>4. QED
    BY <2>1, <2>2, <2>3, KeepsOwners
<1>5. CASE UNCHANGED vars
  BY <1>5 DEF vars, threads, Owners
<1>6. CASE \E t \in Thread : NewCall(t) \/ Proceed(t) \/ ScanEnds(t) \/ Expire(t) \/ SpuriousWakeUp(t)
  <2>1. PICK t \in Thread : NewCall(t) \/ Proceed(t) \/ ScanEnds(t) \/ Expire(t) \/ SpuriousWakeUp(t)
    BY <1>6
  <2>2. Owning(t) => on[t] \in Wallet
    BY SoleOwner
  <2>3. CASE Acquire(t) \/ FinishJob(t) \/ EndCall(t) \/ EndLifecycle(t)
    <3>1. on[t] \in Wallet
      BY <2>2, <2>3 DEF Acquire, FinishJob, EndCall, EndLifecycle, Owning, Refreshing,
         RegistryInv, InCallOnWallet, Idle
    <3>2. QED
      BY <1>2, <1>3, <2>3, <3>1 DEF Ownership!Next
  <2>4. CASE \E w \in Wallet : Claim(t, w) \/ \E c \in Exclusive : TakeLock(t, w, c)
    BY <1>1, <2>4 DEF Ownership!Next
  <2>5. QED
    BY <1>4, <2>1, <2>3, <2>4 DEF NewCall, Proceed
<1>7. QED
  BY <1>5, <1>6 DEF Next, Quiet

(* For any number of wallets, threads and calls, a wallet has at most one  *)
(* owner, and only its owner changes its keys: the registry implements     *)
(* WalletOwnership.                                                        *)
THEOREM ImplementsOwnership == Spec => OwnersAreExclusive
<1>1. Init => Ownership!Init
  BY DEF Init, Ownership!Init, Owners, Refreshing, Idle, KeyState
<1>2. RegistryInv /\ [Next]_vars => [Ownership!Next]_<<Owners, keys>>
  BY OwnershipStep
<1>3. QED
  BY <1>1, <1>2, RegistryAlways, PTL DEF Spec, OwnersAreExclusive, Ownership!Spec
=============================================================================
