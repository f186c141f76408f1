SPECIFICATION EventSpec
CONSTANTS
  Tags = {r1, r2}
  Formats <- AllFormats
  LateBy = 3
  EpochReads = TRUE
  Verdicts = {"racing", "dnf"}
  MaxTime = 6
  Rider = r1
  LapTimes = {19, 20, 21}
  MaxGap = 2
  MaxCrossings = 8
  Workers = {w1, w2}
  Distance = 2
  Cooldown = 2
  MaxRequests = 3
SYMMETRY Hands
INVARIANTS RulesHold WinnerUnbeaten MissesAreFound HarmHasItsOverlap
PROPERTIES DecisionsStand LapsToGoFalls
CHECK_DEADLOCK FALSE
