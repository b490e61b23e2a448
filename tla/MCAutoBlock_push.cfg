SPECIFICATION Spec
CONSTANTS
  daemon = daemon
  once = once
  evil = evil
  worse = worse
  Nobody = Nobody
  Scanners <- TwoProcesses
  Domains <- TwoDomains
  HitsThreshold = 2
  WindowDays = 0
  MaxHits = 2
  MaxDay = 1
INVARIANTS
  TypeOK
  NoHitLost
  BlockIsEarned
PROPERTIES
  PushIsComplete
