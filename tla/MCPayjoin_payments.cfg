\* Two payments, which may spend the same coin, over all routes and modes.
SPECIFICATION Spec
CONSTANTS
  a1 = a1
  a2 = a2
  Attempts <- MCAttempts
  RouteChoices <- MCRoutes
  SCoins = {c1}
  RCoin = r1
  WChange = w1
  WExact = w2
  TheirCoin = x1
  Nobody = nobody
  Amount = 3
  Change = 4
  Fee = 2
  RValue = 2
  InputFee = 2
  Mafc = 1
CHECK_DEADLOCK FALSE
INVARIANTS SenderLossBounded FallbackArmed
PROPERTIES PayjoinIsNotReplaced 
