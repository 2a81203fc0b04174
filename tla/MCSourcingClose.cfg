SPECIFICATION Spec
CONSTANTS
  c1 = c1
  c2 = c2
  o1 = o1
  o2 = o2
  o3 = o3
  a1 = a1
  a2 = a2
  Checkout = {c1, c2}
  Order = {o1, o2, o3}
  CheckoutOf <- TwoAndOne
  Call = {}
  Nothing = Nothing
PROPERTIES
  ReleasedUnpaid
CHECK_DEADLOCK FALSE
