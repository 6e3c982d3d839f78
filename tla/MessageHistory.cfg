SPECIFICATION Spec
CONSTANTS
  Sessions = {s1, s2}
  Ids = {m1, m2}
  Timeout = 2
  MaxTime = 6
  MaxEvents = 4
SYMMETRY Symmetry
INVARIANTS FreshOnce HistoryWasNew
CHECK_DEADLOCK FALSE
