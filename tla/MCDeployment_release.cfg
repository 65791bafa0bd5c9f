SPECIFICATION FairSpec
CONSTANTS
  old = old
  new = new
  Receivers = {p, q}
  Releases = {old, new}
  Graphs <- History
  Root = 0
  Newest = new
  Images <- AllImages
  Archives <- Packages
  Nothing = Nothing
  MaxApplies = 1
  MaxFailures = 1
  Schedulers = {s, t}
  Tasks <- Sweeps
  Cursors = {"operations"}
  Items = {1, 2}
  Batch = 1
  Row = 1
  Nobody = Nobody
  MaxTroubles = 1
  MaxFaults = 1
INVARIANTS
  ServesItsSchema
  MigratesAlone
  RunsTheNamedSource
  InterruptedAreCounted
PROPERTY
  ServesAndSweeps
