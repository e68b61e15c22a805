CONSTANTS
  b1 = b1
  b2 = b2
  s1 = s1
  s2 = s2
  w1 = w1
  w2 = w2
  h1 = h1
  h2 = h2
  Nobody = Nobody
  Orders = {b1, b2, s1, s2}
  Buys = {b1, b2}
  Wallets = {w1}
  Handlers = {h1, h2}
  MaxPlans = 1
  MaxFaults = 0
SPECIFICATION Spec
INVARIANT OneRecordPerTrade
SYMMETRY Interchangeable
CHECK_DEADLOCK FALSE
