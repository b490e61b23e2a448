SPECIFICATION Spec
CONSTANTS
  Delay <- UnitFileDelay
  Window = 144
  Burst = 20
  Threshold = 6
INVARIANTS
  SustainedOutagePaged
