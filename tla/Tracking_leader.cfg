\* The first thread exits, the others go on.
SPECIFICATION SafetySpec
CONSTANTS
  target = target
  stranger = stranger
  a = a
  b = b
  Nobody = Nobody
  Target = target
  Stranger = stranger
  Tasks <- FourTasks
  Enforcement = "Sync"
  MapCapacity = 4
SYMMETRY Unborn
INVARIANTS
  ThreadsObserved
CHECK_DEADLOCK FALSE
