SPECIFICATION FairSpec
CONSTANTS
  a1 = a1
  a2 = a2
  Atops = {a1, a2}
  NoAtop = NoAtop
  MaxAcctProcs = 1
  MaxFile = 1
  SignalAt <- MCSignalAt
  MayFail = TRUE
  MaxStarts = 3
  MaxExits = 2
  MaxKills = 1
INVARIANTS
  PrivateSound
  LastStops
PROPERTIES
  EveryExitSeen
  Responds
CHECK_DEADLOCK FALSE
