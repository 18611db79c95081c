CONSTANTS
  Entries = {e1, e2}
  Genesis = Genesis
  Torn = Torn
  Garbage = Garbage
  Nobody = Nobody
  MaxFaults = 0
  MaxKills = 0
  MaxCuts = 0
SYMMETRY EntrySymmetry
SPECIFICATION Spec
INVARIANTS ChainHolds
CHECK_DEADLOCK FALSE
