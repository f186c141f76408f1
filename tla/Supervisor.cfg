SPECIFICATION FairSpec
CONSTANTS
  Shells = {s1, s2}
  Children = {c1, c2}
  None = None
  JobObject = FALSE
  MaxVersions = 1
  MaxFaults = 2
INVARIANTS OneReader StopIsFinal
PROPERTIES KeptAlive RestartIsHonoured
CHECK_DEADLOCK FALSE
