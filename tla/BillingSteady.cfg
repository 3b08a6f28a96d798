\* Warm key, no top-ups, no failures.
CONSTANTS
  NumRequests = 3
  Redeemers = {}
  Chargers = {}
  Codes = {}
  Estimates = {2}
  Costs = {1, 3}
  Opening = 4
  CodeValue = 2
  ChargeValue = 2
  Warm = TRUE
  Faults = {}
  p1 = p1
  p2 = p2
  t1 = t1
  c1 = c1
SPECIFICATION Spec
CHECK_DEADLOCK FALSE
INVARIANTS NoOverspend DriftIsShortfall
PROPERTIES ImplementsWallet PriceReachesLedger
