SPECIFICATION FairSpec
CONSTANTS
  Delay <- ShortDelay
  Window = 6
  Burst = 3
  Threshold = 2
INVARIANTS
  TypeOK
  WatchdogPagesOnce
PROPERTIES
  FailedIsPaged
