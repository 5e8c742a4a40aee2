CONSTANTS
  Takers = {t1, t2}
  Commits = {k1, k2}
  Amounts = {5}
  Coins <- TwoCoins
  CoinValue <- Value
  CjFee <- MCCjFee
  MaxMixdepth = 1
  DustThreshold = 2
  TxFee = 1
  MinSize = 1
  SerialTakers = TRUE
  ConfirmInTime = TRUE
  MaxFills = 2
  MaxCrashes = 1
  MaxLoops = 3
SPECIFICATION Spec
SYMMETRY Symm
CHECK_DEADLOCK FALSE
INVARIANTS WalletMatchesChain NoAddressReuse OffersAgree
PROPERTIES WalletNeverShrinks
