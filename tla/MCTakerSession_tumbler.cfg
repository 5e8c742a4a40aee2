SPECIFICATION FairSpec
CONSTANTS
  m1 = m1
  m2 = m2
  Makers = {m1, m2}
  Inputs = {1}
  MinMakers = 1
  PromptLink = TRUE
  MakerTimeout = 1
  MaxTxs = 2
  ScheduleLen = 2
  Tumbling = TRUE
  MaxReplacements = 0
  StallTimeout = 4
  RestartDelay = 1
  WaitTime = 0
  UnconfirmTimeout = 2
  SelfPush = TRUE
  MaxStarts = 2
CHECK_DEADLOCK FALSE
INVARIANT TypeOK
PROPERTY WatchedAttemptEnds
