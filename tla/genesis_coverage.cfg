CONSTANTS
  Block <- TreeBlock
  NoBlock <- TreeNone
  MaxHeight = 5
  HeightOf <- TreeHeight
  Anc <- TreeAnc
  Output <- TreeOutput
  Minor <- TreeMinor
  MaxGap = 1
  Receives <- TreeReceives
  Spends <- TreeSpends
  HashWindow = 6
  BatchSize = 2
  ProbeRetryLimit = 1
  Restores = {0}
  RescanTargets = {2}
  Ops = {"gap"}
  InitialTips = {"a4"}
  Switch <- SwitchUp
  MaxEvents = 2
SPECIFICATION FairSpec
PROPERTIES
  CoverageRevisited
