CONSTANTS
  NumRequests = 2
  Redeemers = {}
  Chargers = {}
  Codes = {}
  Estimates = {2}
  Costs = {2}
  Opening = 2
  CodeValue = 2
  ChargeValue = 2
  Warm = FALSE
  Faults = {}
  p1 = p1
  p2 = p2
  t1 = t1
  c1 = c1
SPECIFICATION Spec
CHECK_DEADLOCK FALSE
INVARIANT NoOverspend
