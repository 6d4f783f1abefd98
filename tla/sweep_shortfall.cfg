CONSTANTS
  Coin = {"c1", "c2", "c3"}
  OwnTx = {"t1", "t2"}
  Foreign = {"f1"}
  NoTx = "none"
  CoinAmount <- MCLargeAmount
  Position <- MCPosition
  NecessaryFee <- MCDearFee
  FeeStep = 2
  MinInput = 2
  LargestFirst = FALSE
  MaxRounds = 24
  Lock = 1
  MaxHeight = 4
  Bad = {"c3"}
  ForeignIns <- MCForeignIns
  Pay = 2
  Filters <- MCFilters
  Kinds = {"sweep"}
  Bisects = {FALSE}
  RetryMax = 1
  MaxEvents = 1
SPECIFICATION Spec
INVARIANT RecipientGetsAmount
CHECK_DEADLOCK FALSE
