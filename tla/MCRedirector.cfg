SPECIFICATION FairSpec
CONSTANTS
  m1 = m1
  m2 = m2
  idle = idle
  catchup = catchup
  once = once
  NoOne = NoOne
  Messages <- TwoMessages
  Threads <- IdleAndCatchUp
  Others <- Once
  Archivers <- Once
  MaxFaults = 2
  MaxRuns = 2
INVARIANTS
  TypeOK
  NoMailLost
  RemovedAfterAppend
  DeliveredOnce
PROPERTIES
  ImplementsRelay
  EventuallyDelivered
CHECK_DEADLOCK FALSE
