CONSTANTS
  None = None
  Lot = 5
  BurnWeight = 3
  TotalWeight = 5
  Balances <- MCBalances
  MaxPurchases = 2
  MaxBurns = 3
  Whole = 10000
  Tolerance = 5
  MaxTokens = 2
  FinalAfter = 2
  Life = 1
  Lag = 1
SPECIFICATION Spec
INVARIANTS
  OneUndecidedBurn
  RecordsMatchChain
  DestroyedIsAccounted
\* A blocked coin, or one that has burned what it may, is visited for nothing.
CHECK_DEADLOCK FALSE
