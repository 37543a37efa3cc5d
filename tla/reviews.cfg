CONSTANTS
  Rows = {v1, v2}
  Externals = {x1}
  Buyers = {b1, b2}
  Ips = {a1, a2}
  Nobody = Nobody
  Procs = {p1, p2}
  Scenes <- MCScenes
  MaxFaults = 1
SPECIFICATION Spec
INVARIANTS
  TypeOK
  OnlyVettedIsShown
  FiguresAreCurrent
PROPERTY RequestIsMailed
CHECK_DEADLOCK FALSE
