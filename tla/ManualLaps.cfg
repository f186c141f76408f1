SPECIFICATION ReportedSpec
CONSTANTS
  Tags = {r1, r2}
  Threads = {t1}
  Main = t1
  Formats <- AllFormats
  Requests <- Kinds
  Verdicts = {}
  LateBy = 0
  EpochReads = FALSE
  MaxTime = 5
  MaxRows = 3
SYMMETRY TagSymmetry
INVARIANT ManualLapsLeftOut
CHECK_DEADLOCK FALSE
