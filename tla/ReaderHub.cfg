SPECIFICATION Spec
CONSTANTS
  Callers = {c1, c2}
  States <- Reports
  StaleAfter = 3
  RefreshAfter = 2
  MaxCommands = 3
INVARIANTS ShownIsCurrent SearchIsAwaited
PROPERTIES KeepsPromise SilenceIsNoticed
