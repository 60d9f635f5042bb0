\* Verdicts and kills of both modes, with and without LSM hooks.
SPECIFICATION Spec
CONSTANTS
  i1 = i1
  i2 = i2
  good = good
  bad = bad
  work = work
  secret = secret
  shell = shell
  script = script
  None = None
  Missed = Missed
  Paths <- MCPaths
  AllowedReads = {work}
  AllowedWrites = {}
  Programs <- MCPrograms
  DeniedPrograms = {shell, script}
  KillPrograms = {shell}
  PtraceDenied = FALSE
  Ips <- MCIps
  Domains <- MCDomains
  AllowedDomains = {good}
  DenyAllElse = TRUE
  Messages <- MCMessages
  RingCapacity = 2
INVARIANTS
  TypeOK
  CachesAgree
  AnswersInOrder
  ConnectJudgedByAnswer
  OnlyViolationsKill
  MonitorModeOnlyLogs
PROPERTIES
  ViolationsNotDropped
  ViolationsPunished
CHECK_DEADLOCK FALSE
