CONSTANTS
  j1 = j1
  j2 = j2
  j3 = j3
  d1 = d1
  Jobs = {j1, j2}
  Dbs = {d1}
  Target <- OneDb
  QueueCap = 1
  NoJob = NoJob
  MaxFaults = 1
  MaxCrashes = 2
SPECIFICATION FairSpec
INVARIANT StartsOnce
PROPERTIES TerminalIsFinal SentJobsEnd
