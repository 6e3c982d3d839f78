SPECIFICATION Spec
CONSTANTS
  Callers = {c1, c2}
  Items = 3
  PageSize = 2
  MaxCalls = 5
SYMMETRY Symmetry
INVARIANTS NoGap EndIsTheEnd EachOnce
CHECK_DEADLOCK FALSE
