CONSTANTS
  Block <- TreeBlock
  NoBlock <- TreeNone
  MaxHeight = 5
  HeightOf <- TreeHeight
  Anc <- TreeAnc
  Output <- TreeOutput
  Minor <- TreeMinor
  MaxGap = 2
  Receives <- TreeReceives
  Spends <- TreeSpends
  HashWindow = 6
  BatchSize = 2
  ProbeRetryLimit = 1
  Restores = {1}
  RescanTargets = {2}
  Ops = {"gap", "seal"}
  InitialTips = {"b3"}
  Switch <- SwitchAny
  MaxEvents = 5
SPECIFICATION Spec
INVARIANTS
  KeyImagesRebuilt
