\* A dry run on a running process.
SPECIFICATION SafetySpec
CONSTANTS
  target = target
  stranger = stranger
  a = a
  b = b
  Nobody = Nobody
  Target = target
  Stranger = stranger
  Tasks <- FourTasks
  Enforcement = "Sync"
  MapCapacity = 4
SYMMETRY Unborn
INVARIANTS
  DryRunOnlyAudits
CHECK_DEADLOCK FALSE
