CONSTANTS
  c1 = c1
  Coins = {c1}
  MaxOthers = 1
  MaxRows = 2
  Kinds = {"refund"}
  MaxLives = 2
  MaxSilences = 1
  MaxSubscribes = 2
SPECIFICATION FairSpec
INVARIANTS RequestsDoNotMultiply
PROPERTIES FinishedIsFinal CatchesUp
CHECK_DEADLOCK FALSE
