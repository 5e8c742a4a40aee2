SPECIFICATION Spec
CONSTANTS
  m1 = m1
  m2 = m2
  Makers = {m1, m2}
  Inputs = {1, 2}
  MinMakers = 1
  PromptLink = TRUE
  MakerTimeout = 1
  MaxTxs = 2
  ScheduleLen = 1
  Tumbling = FALSE
  MaxReplacements = 1
  StallTimeout = 3
  RestartDelay = 1
  WaitTime = 0
  UnconfirmTimeout = 2
  SelfPush = TRUE
  MaxStarts = 2
CHECK_DEADLOCK FALSE
SYMMETRY Symmetry
INVARIANTS  PushedIsComplete AttemptsKeptApart
