CONSTANTS
  Coin = {"c1", "c2", "c3"}
  OwnTx = {"t1", "t2"}
  Foreign = {"f1"}
  NoTx = "none"
  CoinAmount <- MCAmount
  Position <- MCPosition
  NecessaryFee <- MCFee
  FeeStep = 2
  MinInput = 2
  LargestFirst = FALSE
  MaxRounds = 3
  Lock = 1
  MaxHeight = 4
  Bad = {"c3"}
  ForeignIns <- MCForeignIns
  Pay = 2
  Filters <- MCFilters
  Kinds = {"send", "filter", "sweep", "preview"}
  Bisects = {FALSE, TRUE}
  RetryMax = 1
  MaxEvents = 3
SPECIFICATION FairSpec
INVARIANTS TypeOK RefusedStaysOut OnePaymentPerCall BalanceMatchesOutputs
           PendingRowsBacked RecipientGetsAmount LedgerTellsChain RoundsAgree
PROPERTIES RelayIdempotent QuotesHold QuarantineReleased
CHECK_DEADLOCK FALSE
