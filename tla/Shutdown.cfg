CONSTANTS
  N = 5
  Compensable = {2}
  AutoReopen = TRUE
  MaxRuns = 1
  MaxFails = 2
  MaxKills = 3
  MaxFaults = 2
SPECIFICATION FairSpec
INVARIANT LeftShutIsExplained
PROPERTY Reopens
CHECK_DEADLOCK FALSE
