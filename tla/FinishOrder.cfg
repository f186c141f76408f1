SPECIFICATION Spec
CONSTANTS
  Tags = {r1, r2, r3}
  Formats <- Criterium
  LateBy = 0
  EpochReads = FALSE
  Verdicts = {}
  MaxTime = 8
SYMMETRY Riders
PROPERTY FinishOrderStands
CHECK_DEADLOCK FALSE
