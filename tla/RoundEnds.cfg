\* One path, which is the other one missing everything.
CONSTANTS
  Deposits = {d1}
  Paths = {backfill}
  Elusive = {}
  None = None
SPECIFICATION EndsSpec
PROPERTIES
  EntryLeadsToPayout
  StartedWindowCloses
\* A closed round has nothing left to do.
CHECK_DEADLOCK FALSE
