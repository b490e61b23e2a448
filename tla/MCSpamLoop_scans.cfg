SPECIFICATION FairSpec
CONSTANTS
  m1 = m1
  m2 = m2
  daemon = daemon
  Messages <- TwoMessages
  HasId <- OnlyM1
  Scanners <- Daemon
  Faults <- MoveFaults
  MaxUid = 2
INVARIANTS
  KnownMeansSettled
  SpamOncePerArrival
  HamMeansRescued
PROPERTIES
  JunkIsLearned
