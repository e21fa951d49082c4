CONSTANTS
  Budgets <- MCBudgets
  Weights <- MCWeights
  Balances <- MCBalances
  MaxTxs <- MCMaxTxs
  MaxCrashes = 1
SPECIFICATION FairSpec
INVARIANTS
  WithinBudget
  LastAttemptTells
PROPERTIES
  BuyingEnds
\* A coin whose buying is over does nothing more.
CHECK_DEADLOCK FALSE
