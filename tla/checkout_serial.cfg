CONSTANTS
  Orders = {o1, o2}
  Keys = {k1, k2}
  Procs = {p1}
  Worker = worker
  NoId = NoId
  Origins <- NotPackage
  Roles <- TableRoles
  MaxOverlap = 1
  MaxFaults = 2
SPECIFICATION Spec
SYMMETRY KeySymmetry
INVARIANTS
  TypeOK
  AtMostOneActiveIntent
  ChargedAtMostOnce
  PayableCartHasConfirmedOrder
  CompletedHasPaidIntent
  BookedOnce
PROPERTY WritesFollowTables
