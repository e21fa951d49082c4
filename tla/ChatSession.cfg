CONSTANTS
  Addresses = {"A", "B"}
  MaxEvents = 2
  Messages = {"m1"}
  MaxSendAttempts = 2
  MaxRetries = 1
SPECIFICATION FairSpec
INVARIANTS
  StoredOnce
  NameIsTheWriters
  SessionFollowsWallet
PROPERTIES
  PendingEnds
\* A closed panel with nothing under way has nothing left to do.
CHECK_DEADLOCK FALSE
