SPECIFICATION Spec
CONSTANTS
  c1 = c1
  c2 = c2
  Clients = {c1, c2}
  Inodes <- MCInodes
  NoInode = NoInode
  MaxShadowRec = 2
  MaxBatch = 2
  MaxOrig = 100
  SemTotal = 3
  MaxAcctProcs = 10
  MaxSeq = 2
  MaxExits = 3
  MaxStarts = 1
  MaxKills = 0
  MayStop = FALSE
  MayFail = FALSE
SYMMETRY Symmetry
INVARIANTS
  AcctInv
  ResetAlone
PROPERTIES
  ProtectedStays
CHECK_DEADLOCK FALSE
