CONSTANTS
  Items = {1, 2, 3}
  NoItem = 0
  External = {}
  Provider <- InternalOnly
  Price <- EachOne
  Discount = 0
  Paying <- PaidInTime
  Worker = worker
  Admins = {}
  AdminRoles = {}
  MaxOverlap = 1
  MaxOrders = 1
  MaxFaults = 1
SPECIFICATION Spec
INVARIANT NoLineIsReturnedTwice
CHECK_DEADLOCK FALSE
