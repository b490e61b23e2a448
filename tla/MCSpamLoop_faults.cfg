SPECIFICATION Spec
CONSTANTS
  m1 = m1
  m2 = m2
  daemon = daemon
  Messages <- TwoMessages
  HasId <- OnlyM1
  Scanners <- Daemon
  Faults <- AllFaults
  MaxUid = 2
INVARIANTS
  TypeOK
  RecordedBeforeMoved
  BiasGuard
  NoMailLost
  FeedbackIsTrue
CONSTRAINT
  Bounded
