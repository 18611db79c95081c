CONSTANTS
  Schedules = {s1}
  Catchup = {s1}
  Slots = {2, 4}
  Horizon = 3
  MaxTime = 6
  MaxRewinds = 1
  MaxRefused = 1
  MaxBlocks = 1
  MaxFaults = 1
  MaxKills = 1
SPECIFICATION FairSpec
INVARIANT EachSlotOnce
PROPERTY CaughtUp
CHECK_DEADLOCK FALSE
