CONSTANTS
  Payouts = {r1, r2}
  Disputes = {d1, d2}
  NoId = NoId
  Procs = {p1, p2}
  Scenes <- MCScenes
  Closing = "SERVICE_ACT"
  Invoices = TRUE
  VatPayer = FALSE
  MaxAmount = 2
  MaxSold = 3
  MaxNumbers = 6
  MaxFaults = 1
SPECIFICATION Spec
SYMMETRY FinanceSymmetry
INVARIANTS
  TypeOK
  DisputedIsFrozen
  NumbersAreUnique
PROPERTY KeepsAccount
CHECK_DEADLOCK FALSE
