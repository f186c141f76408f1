SPECIFICATION DaySpec
CONSTANTS
  RaceIds = {r1, r2}
  LapCounts = {1, 2}
  None = None
  MaxPasses = 2
  MaxRequests = 4
  MaxFaults = 2
  Keep = 4
  MaxStems = 6
INVARIANTS ActiveExists RestartKeepsRace RestartKeepsLaps
PROPERTIES SwitchIsClean SnapshotSurvives
CHECK_DEADLOCK FALSE
