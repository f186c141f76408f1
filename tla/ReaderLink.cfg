SPECIFICATION LinkSpec
CONSTANTS
  Callers = {c1, c2}
  States <- Reports
  StaleAfter = 1
  RefreshAfter = 1
  MaxCommands = 2
  MaxPosts = 2
SYMMETRY CallerSymmetry
PROPERTY Obeyed
CHECK_DEADLOCK FALSE
