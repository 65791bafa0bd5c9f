SPECIFICATION Spec
CONSTANTS
  e1 = e1
  e2 = e2
  s1 = s1
  s2 = s2
  k1 = k1
  k2 = k2
  k3 = k3
  Editors = {e1, e2}
  Sessions = {s1, s2}
  SessionOf <- TwoSessions
  Keys = {k1, k2}
  Original = Original
  None = None
  Policies = {1}
  MaxVersion = 3
  MaxLease = 2
SYMMETRY KeysAreAlike
INVARIANTS
  RevisionsInv
PROPERTIES
  NoCommitAfterHandover
  LapsedStaysLapsed
  ImplementsLog
