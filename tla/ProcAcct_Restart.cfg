SPECIFICATION Spec
CONSTANTS
  c1 = c1
  Clients = {c1}
  Inodes <- MCInodes
  NoInode = NoInode
  MaxShadowRec = 2
  MaxBatch = 2
  MaxOrig = 3
  SemTotal = 3
  MaxAcctProcs = 1
  MaxSeq = 2
  MaxExits = 4
  MaxStarts = 2
  MaxKills = 1
  MayStop = TRUE
  MayFail = TRUE
INVARIANTS
  NoGap
  ReadsEnd
PROPERTIES
  ImplementsStream
  StaysInStep
CHECK_DEADLOCK FALSE
