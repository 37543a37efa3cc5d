CONSTANTS
  Items = {i1, i2}
  Requests = {r1, r2, r3}
  Nobody = Nobody
  Procs = {p1, p2}
  Scenes <- MCScenes
  MaxFaults = 2
SPECIFICATION Spec
SYMMETRY RefundSymmetry
INVARIANTS
  TypeOK
  RefundedIsAnswered
  ReturnedOnce
  PendingHasRequest
CHECK_DEADLOCK FALSE
