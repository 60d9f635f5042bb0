\* Deaths are noticed and event loops stop, without LSM hooks.
SPECIFICATION Spec
CONSTANTS
  MaxRestarts = 1
  RingCapacity = 1
  Enforcement = "Reactive"
  CatchesTerm = FALSE
PROPERTIES
  ImplementsContract
  HandshakeResolves
  DeathIsNoticed
  ViolationEndsAgent
  LoopStopsWhenQuiet
CHECK_DEADLOCK FALSE
