CONSTANTS
  Wallet = {w1, w2}
  Threads = 3
  NoWallet = none
  MaxCalls = 3
SPECIFICATION FairSpec
INVARIANTS CopyIsCurrent NoLostWakeup
PROPERTIES OwnersAreExclusive RestartRevivesNobody LifecycleReturns
