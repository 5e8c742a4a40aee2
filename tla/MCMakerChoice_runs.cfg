SPECIFICATION Spec
CONSTANTS
  m1 = m1
  m2 = m2
  m3 = m3
  Makers = {m1, m2, m3}
  Configured = {}
  MaxTime = 3
  Cooldown = 1
  Threshold = 2
  Window = 1
  AutoBan = 0
  Offers <- MCOffers
  N = 2
  Amount = 500
  TxFee = 20
  MaxAbs = 20
  MaxRel = 5
  RelaxCooldowns = TRUE
  u1 = u1
  u2 = u2
  Coins = {u1, u2}
  Value <- MCValue
  MergeAlgorithm = "greedy"
  External = {x1}
  Order = 101
  Generators = {0, 1, 2}
  Sha256 <- MCSha256
  Reveals = 1
  Tries = 2
  MaxRetries = 1
  Judged = {m1}
  MaxRuns = 2
CHECK_DEADLOCK FALSE
INVARIANTS ExcludedNotChosen AmountsFit CommitmentsFresh
PROPERTIES ImplementsPolicy
