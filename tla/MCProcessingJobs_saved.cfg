SPECIFICATION Spec
CONSTANTS
  d1 = d1
  d2 = d2
  Docs = {d1, d2}
  Workers = {w}
  None = None
  MaxVersion = 3
  MaxActive = 1
  Budget = 1
  MaxAttempt = 1
  MaxFaults = 0
CONSTRAINT OtherStays
INVARIANTS
  JobsInv
  ActiveIsCurrent
