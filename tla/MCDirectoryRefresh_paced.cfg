SPECIFICATION RefreshFairSpec
CONSTANTS
  d1 = d1
  d2 = d2
  Nodes <- MCDirs
  Silent <- MCSilent
  Interval = 1
  Target = 2
  Cooldown = 1
  MaxMissing = 1
  MaxHooksDue = 1
PROPERTIES AskedIsSpaced ConnectedIsAsked
