CONSTANTS
  a = a
  b = b
  Wallets <- MCWallets
  Bet <- MCBet
  Backings <- MCBackings
  Full = 2
  Lot = 34
  Rounds = 2
  Sweeps = 1
  BatchSize = 2
  MaxAttempts = 2
  MinTopUp = 2
  MaxLots = 2
  MaxTxs = 3
  MaxCrashes = 1
  MaxEvents = 5
SPECIFICATION Spec
INVARIANTS
  OnePaymentPerRecord
  EveryTransferOnRecord
  FairShare
  ShortfallIsOnRecord
CHECK_DEADLOCK FALSE
