SPECIFICATION FrontSpec
CONSTANTS
  Browsers = {b1}
  Attempts = {1, 2}
  Threads = {w1, w2}
  MaxChanges = 2
  MaxFaults = 2
  Tags = {t1, t2}
  Races = {r1, r2}
  None = None
  Numbers <- TwoNumbers
  QueueCap = 2
  MaxReads = 2
  MaxKeys = 4
  MaxUpsets = 1
INVARIANTS OneStream NoGap CouplesWhatWasTyped NumbersGoOnce TagsOfThisRace
PROPERTY Heals
CHECK_DEADLOCK FALSE
