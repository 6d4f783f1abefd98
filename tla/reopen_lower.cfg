CONSTANTS
  Block <- TreeBlock
  NoBlock <- TreeNone
  MaxHeight = 5
  HeightOf <- TreeHeight
  Anc <- TreeAnc
  Output <- TreeOutput
  Minor <- TreeMinor
  MaxGap = 1
  Receives <- TreeReceives
  Spends <- TreeSpends
  HashWindow = 6
  BatchSize = 2
  ProbeRetryLimit = 1
  Restores = {1, 2}
  RescanTargets = {}
  Ops = {}
  InitialTips = {"a3"}
  Switch <- SwitchUp
  MaxEvents = 3
SPECIFICATION CacheSpec
INVARIANTS StoreIsPrefixScan
