\* Forks, threads, exits and execs around an attachment, in both modes.
SPECIFICATION SafetySpec
CONSTANTS
  target = target
  stranger = stranger
  a = a
  b = b
  Nobody = Nobody
  Target = target
  Stranger = stranger
  Tasks <- FourTasks
  Enforcement = "Sync"
  MapCapacity = 3
SYMMETRY Unborn
INVARIANTS
  TypeOK
  FamilyObserved
  StrangersLeftAlone
  KillHitsFamily
  OpensJudgedByPolicy
CHECK_DEADLOCK FALSE
