CONSTANTS
  NumRequests = 2
  Asks <- AllAsks
  Accounts = {a1, a2, a3}
  Models = {tokenModel, callModel}
  ModelOf <- TwoModels
  Estimate <- Prices
  PerCall = {callModel}
  Usages = {0, 1}
  Opening = 5
  Slots = 2
  MayLeave = {1}
  MaxAttempts = 2
  a1 = a1
  a2 = a2
  a3 = a3
  tokenModel = tokenModel
  callModel = callModel
SPECIFICATION Spec
CHECK_DEADLOCK FALSE
INVARIANT ConsumptionPaid
