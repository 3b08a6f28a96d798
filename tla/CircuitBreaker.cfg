CONSTANTS
  Callers = {r1, r2}
  MinSamples = 2
  CloseAfter = 2
  Window = 1
  CooldownBase = 1
  CooldownMax = 2
  TTL = 4
  MaxLag = 1
  MaxSamples = 2
  MaxErrors = 1
  Unlucky = {r1}
  r1 = r1
  r2 = r2
SPECIFICATION Spec
INVARIANTS TypeOK FailuresCounted NoAmnesia
PROPERTIES ProbedAgain Recovers
