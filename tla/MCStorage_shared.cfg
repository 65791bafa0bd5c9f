SPECIFICATION Spec
CONSTANTS
  o1 = o1
  o2 = o2
  Owners <- OneOwner
  Ops <- TwoOps
  Owner <- OfOne
  Requests = {a, b}
  Maintainers = {}
  NoProc = NoProc
  Undeclared = Undeclared
  FileBytes = 2
  StagingBytes = 4
  DiskBytes = 4
  Headroom = 1
  Limits <- LimitsShared
  MaxFaults = 1
SYMMETRY RequestsAreAlike
INVARIANTS
  AccountingExact
  HeadroomIsKept
