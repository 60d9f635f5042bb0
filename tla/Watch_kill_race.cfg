\* run() reads kill_reason before the handler stores it.
SPECIFICATION SafetySpec
CONSTANTS
  MaxRestarts = 1
  RingCapacity = 1
  Enforcement = "Reactive"
  CatchesTerm = FALSE
INVARIANTS
  NoRestartAfterViolation
CHECK_DEADLOCK FALSE
