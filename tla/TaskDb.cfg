SPECIFICATION FairSpec
CONSTANTS
  Pids = {1}
  MaxGen = 2
  Gap = 2
  MaxUse = 1
  MaxAcctProcs = 1
INVARIANTS
  NoDouble
  DbSound
PROPERTIES
  AllCounted
  Forgets
CHECK_DEADLOCK FALSE
