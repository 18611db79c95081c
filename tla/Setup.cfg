SPECIFICATION SetupSpec
CONSTANTS
  BaseOf <- MCBaseOf
  DefaultPort = 8
  Folders <- MCFolders
  StdinDocs <- MCStdin
  InitialConfigs <- MCConfigs
  Names = {"ann"}
  NewDatabases <- MCNewDatabases
  NewAgents <- MCNewAgents
  Options <- MCOptions
  MaxRuns = 2
  MaxEdits = 1
INVARIANTS
  ListenIsServable
  RulesAreRecorded
  SecondRunIsQuiet
  OperatorKept
PROPERTY
  RuleBeforeListen
CHECK_DEADLOCK FALSE
