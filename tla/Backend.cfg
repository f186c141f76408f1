SPECIFICATION DaySpec
CONSTANTS
  Tags = {r1, r2}
  Threads = {t1}
  Main = t1
  Formats <- AllFormats
  Requests <- Kinds
  Verdicts = {"dnf"}
  LateBy = 2
  EpochReads = FALSE
  MaxTime = 5
  MaxRows = 3
SYMMETRY TagSymmetry
INVARIANTS RaceRulesHold LapsSurvive RestartIsInvisible SheetIsRight
CHECK_DEADLOCK FALSE
