SPECIFICATION Spec
CONSTANTS
  daemon = daemon
  once = once
  evil = evil
  worse = worse
  Nobody = Nobody
  Scanners <- JustDaemon
  Domains <- OneDomain
  HitsThreshold = 2
  WindowDays = 0
  MaxHits = 2
  MaxDay = 1
PROPERTIES
  BlockIsRecent
