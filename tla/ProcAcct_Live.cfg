SPECIFICATION FairSpec
CONSTANTS
  c1 = c1
  Clients = {c1}
  Inodes <- MCInodes
  NoInode = NoInode
  MaxShadowRec = 1
  MaxBatch = 1
  MaxOrig = 100
  SemTotal = 3
  MaxAcctProcs = 10
  MaxSeq = 2
  MaxExits = 2
  MaxStarts = 1
  MaxKills = 0
  MayStop = TRUE
  MayFail = FALSE
PROPERTIES
  CatchesUp
  Answers
CHECK_DEADLOCK FALSE
