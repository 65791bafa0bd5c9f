SPECIFICATION Spec
CONSTANTS
  d1 = d1
  d2 = d2
  Docs = {d1}
  Workers = {w}
  None = None
  MaxVersion = 1
  MaxActive = 1
  MaxAttempt = 1
  Budget = 1
  MaxFaults = 0
INVARIANT StaleMeansEarlier
