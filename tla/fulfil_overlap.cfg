CONSTANTS
  Items = {2, 3}
  NoItem = 0
  External = {}
  Provider <- MixedProviders
  Price <- EachOne
  Discount = 0
  Paying <- PaidInTime
  Worker = worker
  Admins = {a1}
  AdminRoles = {"retry", "partial", "full"}
  MaxOverlap = 2
  MaxOrders = 1
  MaxFaults = 0
SPECIFICATION Spec
INVARIANTS
  TypeOK
  ConfirmedIsBooked
  RefundedIsAnswered
CHECK_DEADLOCK FALSE
