CONSTANTS
  Commits = {"m1", "m2"}
  Cap = 2
  MaxPools = 2
  MaxLeaves = 1
SPECIFICATION FairSpec
PROPERTIES
  NeverGoesBack
  CatchesUp
  NoticeResolves
\* A hidden tab, or a page that was left, may ask for nothing more.
CHECK_DEADLOCK FALSE
