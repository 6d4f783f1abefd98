CONSTANTS
  Wallet = {w1, w2}
  Threads = 3
  NoWallet = none
  MaxCalls = 3
SPECIFICATION HistorySpec
INVARIANTS CancelHeld
