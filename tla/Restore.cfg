CONSTANTS
  N = 5
  Compensable = {2, 3}
  AutoReopen = TRUE
  MaxRuns = 2
  MaxFails = 2
  MaxKills = 2
  MaxFaults = 2
SPECIFICATION FairSpec
INVARIANTS OldKept RecordIsTrue
PROPERTY RunEnds
CHECK_DEADLOCK FALSE
