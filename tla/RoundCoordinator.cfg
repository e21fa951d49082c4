\* Two deposits, so that one may be early and one late.  Either event path may
\* miss any event.
CONSTANTS
  Deposits = {d1, d2}
  Paths = {events, backfill}
  Elusive = {d1}
  None = None
SPECIFICATION Spec
INVARIANTS
  RowNeverAhead
  CommitmentMissesOnlyLate
  BuyerGetsEveryBet
PROPERTIES
  RowNeverGoesBack
\* A closed round has nothing left to do.
CHECK_DEADLOCK FALSE
