SPECIFICATION Spec
CONSTANTS
  Tabs = {tab1}
  Rivals = {rival1}
  None = None
  Kinds = {"save", "restore"}
  Life = 2
  MaxVersion = 3
  MaxLease = 2
  MaxKey = 2
  MaxDraft = 2
  MaxLogin = 2
  MaxFaults = 1
CHECK_DEADLOCK FALSE
INVARIANTS
  EditingIsHeld
  NoLostUpdate
  AcknowledgedIsSaved
  RefusedIsNotSaved
  AskedOnlyWhenEnded
