\* The agent handles SIGTERM.
SPECIFICATION SafetySpec
CONSTANTS
  MaxRestarts = 0
  RingCapacity = 1
  Enforcement = "Reactive"
  CatchesTerm = TRUE
INVARIANTS
  NoAgentWithoutSupervisor
CHECK_DEADLOCK FALSE
