CONSTANTS
  Block <- TreeBlock
  NoBlock <- TreeNone
  MaxHeight = 5
  HeightOf <- TreeHeight
  Anc <- TreeAnc
  Output <- TreeOutput
  Minor <- TreeMinor
  MaxGap = 1
  Receives <- TreeReceives
  Spends <- TreeSpends
  HashWindow = 2
  BatchSize = 2
  ProbeRetryLimit = 1
  Restores = {1, 2}
  RescanTargets = {2}
  Ops = {"gap", "force", "cancel", "fault"}
  InitialTips = {"a3"}
  Switch <- SwitchUp
  MaxEvents = 4
SPECIFICATION FairSpec
INVARIANTS
  StoreIsPrefixScan
  WindowIsOneChain
PROPERTIES
  FollowsFork
