SPECIFICATION FairSpec
CONSTANTS
  o1 = o1
  o2 = o2
  Owners <- OneOwner
  Ops <- OneOp
  Owner <- OfOne
  Requests = {a, b}
  Maintainers = {m}
  NoProc = NoProc
  Undeclared = Undeclared
  FileBytes = 2
  StagingBytes = 2
  DiskBytes = 5
  Headroom = 1
  Limits <- LimitsLow
  MaxFaults = 1
INVARIANTS
  StorageInv
  ReadyIsIntact
  BytesAreCharged
  StreamsAreIntact
  FailureIsDefinite
PROPERTIES
  ImplementsLedger
  EveryOperationEnds
  DeletionCompletes
