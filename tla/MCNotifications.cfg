SPECIFICATION FairSpec
CONSTANTS
  d1 = d1
  w1 = w1
  w2 = w2
  c1 = c1
  c2 = c2
  a1 = a1
  a2 = a2
  Nobody = Nobody
  Delivery = {d1}
  Worker = {w1, w2}
  Caller = {c1, c2}
  Admin = {a1, a2}
  MaxAttempts = 2
  MaxRounds = 1
  MaxFaults = 1
INVARIANTS
  SentOnce
PROPERTIES
  RetryKept
  PendingSettles
  ImplementsOutbox
CHECK_DEADLOCK FALSE
