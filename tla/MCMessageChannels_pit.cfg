SPECIFICATION FairSpec
CONSTANTS
  Channels = {c1, c2}
  Nicks = {n1}
  MaxCalls = 2
  MaxVerifying = 1
  MaxSigning = 1
  None = None
CHECK_DEADLOCK FALSE
INVARIANTS ActiveIsSeen SentOverLiveChannel WelcomedOnce BookEmptyWhenDown
PROPERTIES WelcomeComes
