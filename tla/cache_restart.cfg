CONSTANTS
  Block <- TreeBlock
  NoBlock <- TreeNone
  MaxHeight = 5
  HeightOf <- TreeHeight
  Anc <- TreeAnc
  Output <- TreeOutput
  Minor <- TreeMinor
  MaxGap = 1
  Receives <- TreeReceives
  Spends <- TreeSpends
  HashWindow = 3
  BatchSize = 2
  ProbeRetryLimit = 1
  Restores = {1, 2}
  RescanTargets = {3}
  Ops = {"gap", "rewind", "seal", "cancel", "force"}
  InitialTips = {"a3"}
  Switch <- SwitchUp
  MaxEvents = 5
SPECIFICATION SteadySpec
INVARIANTS StoreIsPrefixScan KeyImagesKnown
PROPERTIES CoverageMonotonic
