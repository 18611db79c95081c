CONSTANTS
  i0 = i0
  n0 = n0
  c1 = c1
  c2 = c2
  rp = rp
  gs = gs
  ds = ds
  d1 = d1
  d2 = d2
  d3 = d3
  alice = alice
  none = none
  Lines = {i0, n0, c1, c2}
  Requests = {i0, n0, c1, c2, rp, gs, ds, d1, d2, d3}
  Kind <- MCKind
  Scripts <- MCScripts
  Replay = rp
  GetSlot = gs
  DelSlot = ds
  Directs = {d1, d2, d3}
  Me = alice
  Identities = {alice}
  NoOne = none
  NoSid = 0
  MaxSids = 3
  NoteStatus = {200, 202}
  LimitSets <- Blocks
  FirstLimits <- Small
  Own <- MCOwn
  Autonomous = {}
  MaxFaults = 1
  maxGetRetries = 1
SPECIFICATION FairSpec
CHECK_DEADLOCK FALSE
INVARIANT AnswerIsTrue
INVARIANT LimitsHold
PROPERTY HandlersEnd
