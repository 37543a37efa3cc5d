CONSTANTS
  Items = {1, 2, 3, 4}
  NoItem = 0
  External = {4}
  Provider <- MixedProviders
  Price <- EachOne
  Discount = 0
  Paying <- PaidLate
  Worker = worker
  Admins = {a1}
  AdminRoles = {"retry", "partial"}
  MaxOverlap = 1
  MaxOrders = 1
  MaxFaults = 1
SPECIFICATION FairSpec
INVARIANTS
  RefundedIsAnswered
  RefundsCoverLosses
PROPERTIES
  LinesSettleOnce
  LinesSettle
CHECK_DEADLOCK FALSE
