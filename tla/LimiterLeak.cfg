CONSTANTS
  Requests = {r1, r2}
  Who <- OneUser
  Tokens <- UnitTokens
  RuleSets <- SlotThenRate
  Minute = 2
  TTL = 3
  MaxLag = 1
  MaxAge = 2
  MaxErrors = 0
  MaxCount = 0
  r1 = r1
  r2 = r2
SPECIFICATION Spec
PROPERTY LeakHeals
