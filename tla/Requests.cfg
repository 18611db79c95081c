SPECIFICATION Spec
CONSTANTS
  MaxStatements = 3
  MaxWritten = 2
  Db = "db"
  Templates <- MCTemplates
  Followers <- MCFollowers
  OnTexts <- MCOnTexts
  Spoilers <- MCSpoilers
  Callers <- MCCallers
INVARIANTS
  SplitAgrees
  ReadsAreReads
  EffectPaidFor
PROPERTY
  AccessIsKept
