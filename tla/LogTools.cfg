SPECIFICATION Spec
CONSTANTS
  Entries = 3
  NSamples = 2
  CatVersions = {12, 13}
  MaxCatSamples = 2
  MaxFiles = 2
  Originals = {"alpha", "beta", "gamma", "bash"}
  Standard = {"bash"}
  Times = {1, 2, 3}
  MaxHide = 3
  FakeLimit = 2
  Radix = 2
INVARIANTS
  Faithful
  NotInvented
  WholeSamples
  Concatenates
  CutOut
  Anonymous
CHECK_DEADLOCK FALSE
