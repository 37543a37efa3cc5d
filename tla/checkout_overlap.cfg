CONSTANTS
  Orders = {o1}
  Keys = {k1}
  Procs = {p1, p2}
  Worker = worker
  NoId = NoId
  Origins <- ToBePaid
  Roles <- ChargeRoles
  MaxOverlap = 3
  MaxFaults = 1
SPECIFICATION FairSpec
INVARIANT ChargeIsAccounted
PROPERTY ChargeIsBooked
