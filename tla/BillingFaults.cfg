CONSTANTS
  NumRequests = 1
  Redeemers = {p1, p2}
  Chargers = {t1}
  Codes = {c1}
  Estimates = {2}
  Costs = {1, 3}
  Opening = 2
  CodeValue = 2
  ChargeValue = 2
  Warm = TRUE
  Faults = {"redis", "mysql", "crash", "evict"}
  p1 = p1
  p2 = p2
  t1 = t1
  c1 = c1
SPECIFICATION Spec
CHECK_DEADLOCK FALSE
INVARIANTS TypeOK LedgerConserved BooksClose OneCreditPerCode
