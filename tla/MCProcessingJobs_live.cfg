SPECIFICATION FairSpec
CONSTANTS
  d1 = d1
  d2 = d2
  Docs = {d1}
  Workers = {w, x}
  None = None
  MaxVersion = 1
  MaxActive = 1
  Budget = 3
  MaxAttempt = 3
  MaxFaults = 1
INVARIANT OneExecutor
PROPERTIES
  OutcomeIsFinal
  EveryJobEnds
