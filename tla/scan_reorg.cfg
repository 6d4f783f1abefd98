CONSTANTS
  Block <- TreeBlock
  NoBlock <- TreeNone
  MaxHeight = 5
  HeightOf <- TreeHeight
  Anc <- TreeAnc
  Output <- TreeOutput
  Minor <- TreeMinor
  MaxGap = 1
  Receives <- TreeReceives
  Spends <- TreeSpends
  HashWindow = 3
  BatchSize = 2
  ProbeRetryLimit = 1
  Restores = {1, 2}
  RescanTargets = {2}
  Ops = {"gap", "rewind", "force", "reset", "seal", "cancel", "fault"}
  InitialTips = {"a3"}
  Switch <- SwitchAny
  MaxEvents = 5
SPECIFICATION Spec
INVARIANTS
  TypeOK
  StoreIsPrefixScan
  WindowIsOneChain
