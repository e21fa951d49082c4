CONSTANTS
  Coins = {"m1", "m2"}
  Burnable = {"m1"}
  Listed = {"m1"}
  Junk = {}
  Burns = {0, 50}
  MaxEdits = 3
  Wallets = {"phantom", "signer", "sender"}
  MaxAttempts = 2
SPECIFICATION Spec
INVARIANTS
  OfferedIsField
  SentIsReported
\* A dialog that is closed has nothing left to do.
CHECK_DEADLOCK FALSE
