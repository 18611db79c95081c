CONSTANTS
  Versions = {1, 2}
  Dirs <- MCDirs
  Scripts <- MCScripts
  MaxFiles = 2
  MaxDay = 2
  MaxEntries = 3
  KeepDays = 1
  OrphanDays = 1
  MaxFaults = 1
  MaxRequests = 2
SPECIFICATION Spec
CHECK_DEADLOCK FALSE
INVARIANT VerifiedIsWhole
INVARIANT YoungIsKept
INVARIANT GoneIsExplained
INVARIANT RowMeansComplete
INVARIANT ReportIsTrue
PROPERTY AppliedInOrder
