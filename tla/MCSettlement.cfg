SPECIFICATION FairSpec
CONSTANTS
  c1 = c1
  o1 = o1
  o2 = o2
  p1 = p1
  p2 = p2
  g1 = g1
  g2 = g2
  Checkout = {c1}
  Order = {o1, o2}
  Payment = {p1, p2}
  Produce = {g1, g2}
  CheckoutOf <- TheCheckoutOf
  ProduceOf <- TheProduceOf
  Qty <- TheQty
  AttemptOf <- TheAttemptOf
  Stock <- TheStock
  MaxVerified = 1
INVARIANTS
  MoneySettled
  StockAccounted
PROPERTIES
  ImplementsSale
  OverdueIsDecided
  ChargeIsSettled
CHECK_DEADLOCK FALSE
