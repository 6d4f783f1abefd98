CONSTANTS
  Reader = {"r1", "r2"}
  Id = {"a", "b", "c"}
  NoId = "none"
  Rank <- MCRank
  Ledgers <- MCLedgers
  Identity = {"w1", "w2"}
  FilterOf <- MCFilterOf
  Limit = 2
  MaxChanges = 2
SPECIFICATION FairSpec
INVARIANTS TypeOK PagesOfOneLedger
PROPERTIES AnchorShown ReaderFinishes
CHECK_DEADLOCK FALSE
