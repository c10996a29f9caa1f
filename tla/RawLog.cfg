SPECIFICATION FairSpec
CONSTANTS
  HeadLen = 2
  DataLen = 1
  Modes = {TRUE, FALSE}
  EndTimes = {0, 2}
  MayFail = TRUE
  MaxSamples = 3
  MaxStarts = 2
  MaxKills = 1
INVARIANTS
  LogSound
  ShownWhole
  Navigates
PROPERTIES
  EndsForCause
  Answered
CHECK_DEADLOCK FALSE
