SPECIFICATION FairSpec
CONSTANTS
  MaxRounds = 2
  MaxCrashes = 1
  MaxStops = 1
INVARIANTS
  OpenRoundIsWatched
  StopCostsOneRound
PROPERTIES
  CycleGoesOn
\* The rounds of the bound run out.
CHECK_DEADLOCK FALSE
