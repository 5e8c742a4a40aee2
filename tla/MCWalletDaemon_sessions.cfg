SPECIFICATION FairSpec
CONSTANTS
  Wallets = {w1, w2}
  NoWallet = NoWallet
  Entries = 2
  MaxSessions = 2
  MaxIssues = 2
  MaxParties = 2
  PromptConnect = TRUE
  Careful = TRUE
CHECK_DEADLOCK FALSE
INVARIANTS   TokensFollowSession
PROPERTIES Stage2Ends
