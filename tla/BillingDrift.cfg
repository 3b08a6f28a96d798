\* As BillingSteady, two requests: after a price above the estimate nothing
\* brings the two stores together.
CONSTANTS
  NumRequests = 2
  Redeemers = {}
  Chargers = {}
  Codes = {}
  Estimates = {2}
  Costs = {1, 3}
  Opening = 3
  CodeValue = 2
  ChargeValue = 2
  Warm = TRUE
  Faults = {}
  p1 = p1
  p2 = p2
  t1 = t1
  c1 = c1
SPECIFICATION Spec
CHECK_DEADLOCK FALSE
PROPERTY Reconciled
