SPECIFICATION OneApart
CONSTANTS
  c1 = c1
  c2 = c2
  o1 = o1
  o2 = o2
  o3 = o3
  a1 = a1
  a2 = a2
  b = b
  r1 = r1
  r2 = r2
  v1 = v1
  Checkout = {c1, c2}
  Order = {o1, o2, o3}
  CheckoutOf <- TwoAndOne
  Call = {a1}
  Nothing = Nothing
  Bought = {o1, o2}
  MaxRefunds = 3
  MaxResults = 2
  Share <- Shares
  Charged = 5
  Whole = Whole
  Talked = {o1}
  Buyer = b
  Agent = {a1}
  Reader = {b}
  ClientId = {1, 2}
  Rank <- Ranked
  Request = {r1, r2}
  PageSize = 1
  MaxTime = 2
  Kind = {"APPLICANT"}
  Approval = {v1}
  MaxUid = 1
  MaxCode = 1
  MaxAttempts = 1
  MaxFaults = 0
  Document = {"id"}
  MaxKey = 1
  MaxFarm = 1
  Parts = {"refunds"}
INVARIANTS
  WithinCharged
  LoneRefundTrue
CHECK_DEADLOCK FALSE
