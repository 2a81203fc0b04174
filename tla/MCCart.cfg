SPECIFICATION Spec
CONSTANTS
  b1 = b1
  b2 = b2
  s1 = s1
  s2 = s2
  k1 = k1
  Nobody = Nobody
  Buyer = {b1, b2}
  Listing = {1, 2}
  Session = {s1, s2}
  Key = {k1}
  Device <- DeviceCart
  Price = {1, 2}
  Stock = 1
  MaxItems = 2
SYMMETRY Sessions
VIEW Seen
INVARIANTS
  NothingLost
  NoCircularWait
PROPERTIES
  PricedAsAgreed
CHECK_DEADLOCK FALSE
