CONSTANTS
  Entries = {e1, e2, e3, e4}
  Genesis = Genesis
  Torn = Torn
  Garbage = Garbage
  Nobody = Nobody
  MaxFaults = 2
  MaxKills = 2
  MaxCuts = 1
SYMMETRY EntrySymmetry
SPECIFICATION Spec
INVARIANTS CleanRestart SerialVerifies CutIsRefused
CHECK_DEADLOCK FALSE
