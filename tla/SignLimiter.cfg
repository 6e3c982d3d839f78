SPECIFICATION Spec
CONSTANTS
  Callers = {a, b, c}
  Minute = 10
  Hour = 20
  Advertised <- SomeLimits
  MaxTime = 12
  MaxTakes = 6
SYMMETRY Symmetry
INVARIANTS TypeOK PermitsSpaced WaitsItsTurn
CHECK_DEADLOCK FALSE
