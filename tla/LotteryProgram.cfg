\* One round and its reopening at the same address.
CONSTANTS
  Zero = Zero
  None = None
  w1 = w1
  s1 = s1
  Params <- MCParams
  Amounts <- MCAmounts
  WeightsArgs <- MCWeightsArgs
  SeedArgs <- MCSeedArgs
  MinAmountDefault = 40
  VaultRent = 1
  EmergencyDelay = 2
  MaxDuration = 3
  MaxSeedSlotAge = 2
  LastSlot = 6
  MaxExtra = 45
  MaxRounds = 2
SPECIFICATION FairSpec
INVARIANTS
  VaultCoversPool
  DepositsNeverSwept
PROPERTIES
  AnswerWins
  PoolPromise
  EveryRoundEnds
\* A closed round that nobody opens again is the end of the modelled chain.
CHECK_DEADLOCK FALSE
