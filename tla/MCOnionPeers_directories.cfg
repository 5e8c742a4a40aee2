SPECIFICATION OnionFairSpec
CONSTANTS
  d1 = d1
  d2 = d2
  Dirs <- MCDirs
  PingDirs <- MCPingDirs
  Answers <- MCAnswers
  WaitTicks = 2
INVARIANTS PeersFollowNetwork 
PROPERTIES  EventuallyWelcomed
