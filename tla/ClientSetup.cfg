SPECIFICATION Spec
CONSTANTS
  p1 = p1
  p2 = p2
  px = px
  Proxies = {p1, p2, px}
  Known = {p1, p2}
  MaxOptions = 3
SYMMETRY Symmetry
INVARIANTS AllOrNothing LastProxyWins ProxyForBothUnlessDebug NoConnLeft
CHECK_DEADLOCK FALSE
