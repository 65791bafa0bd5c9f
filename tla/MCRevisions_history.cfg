SPECIFICATION FairSpec
CONSTANTS
  e1 = e1
  e2 = e2
  s1 = s1
  s2 = s2
  k1 = k1
  k2 = k2
  k3 = k3
  Editors = {e1}
  Sessions = {s1}
  SessionOf <- OneSession
  Keys = {k1, k2}
  Original = Original
  None = None
  Policies = {1, 2}
  MaxVersion = 4
  MaxLease = 1
INVARIANTS
  CurrentIsIntact
  PairsAreExact
PROPERTIES
  PruningObeysPolicy
  CopyIsCurrent
  TrashEmpties
  DeletedIsErased
