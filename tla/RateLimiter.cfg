CONSTANTS
  Requests = {r1, r2}
  Who <- OneUser
  Tokens <- UnitTokens
  RuleSets <- RateSlotsTokens
  Minute = 2
  TTL = 3
  MaxLag = 1
  MaxAge = 2
  MaxErrors = 1
  MaxCount = 2
  r1 = r1
  r2 = r2
SPECIFICATION Spec
INVARIANTS TypeOK ConcurrencyRespected RateRespected TokensRespected 
SYMMETRY Symmetry
