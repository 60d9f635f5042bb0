\* How and when the --pid mode ends.
SPECIFICATION Spec
CONSTANTS RingCapacity = 2
INVARIANTS
  TypeOK
  NormalEndIsTrue
  FatalMeansError
  LoopStopsForAReason
  NoEndlessWait
PROPERTIES
  DeathEndsIt
  SignalEndsIt
CHECK_DEADLOCK FALSE
