SPECIFICATION FairSpec
CONSTANTS
  Rounds <- MCRounds
  Order <- Files
  Lots <- OneLot
  LotAmount = 12000
  Stake <- Stakes
  Ata <- Snapshot
  BatchSize = 2
  MaxLives = 2
  MaxMisses = 1
INVARIANTS
  RefundedOnceALife
  KeeperCovered
PROPERTIES
  NoSecondPass
  OpenRoundFinishes
CHECK_DEADLOCK FALSE
