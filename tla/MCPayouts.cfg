SPECIFICATION FairSpec
CONSTANTS
  o1 = o1
  c1 = c1
  a1 = a1
  a2 = a2
  Checkout = {c1}
  Nothing = Nothing
  Order = {o1}
  Farmers = 2
  FarmerOf <- TheFarmer
  CheckoutOf <- TheCheckout
  Approval = {a1, a2}
  MaxPayouts = 2
  FirstAccount <- TheAccounts
  MaxAccounts = 2
INVARIANTS
  PaidOnce
  NoCircularWait
PROPERTIES
  TakenSettles
  AccountHeld
CHECK_DEADLOCK FALSE
