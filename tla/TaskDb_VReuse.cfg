SPECIFICATION Spec
CONSTANTS
  Pids = {1}
  MaxGen = 2
  Gap = 2
  MaxUse = 1
  MaxAcctProcs = 1
INVARIANT
  IdsTold
CHECK_DEADLOCK FALSE
