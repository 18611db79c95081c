CONSTANTS
  r1 = r1
  alice = alice
  bob = bob
  Requests = {r1}
  Identities = {alice, bob}
  Callers = {c1, c2}
  Watcher = w
  NoAttempt = NoAttempt
  Owner <- MCOwner
  Tier <- MCTier
  OobOnly <- MCOob
  MaxFaults = 2
  MaxCrashes = 2
SPECIFICATION FairSpec
INVARIANT SingleUse
PROPERTIES RunsWithItsArgs ImplementsConsent PendingResolved ApprovalsDrain
