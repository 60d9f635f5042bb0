\* Safety of the supervisor, its child and its loop threads, LSM hooks attached.
SPECIFICATION SafetySpec
CONSTANTS
  MaxRestarts = 1
  RingCapacity = 1
  Enforcement = "Sync"
  CatchesTerm = FALSE
INVARIANTS
  TypeOK
  HookedBeforeExec
  OrphanStopped
  PolicyKillAccounted
  OutcomeFits
  NoWaitCycle
PROPERTIES
  RestartOnlyInWindow
CHECK_DEADLOCK FALSE
