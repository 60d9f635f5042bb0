\* ptrace under a rule with kill_on_deny.
SPECIFICATION Spec
CONSTANTS
  i1 = i1
  i2 = i2
  good = good
  bad = bad
  work = work
  secret = secret
  shell = shell
  script = script
  None = None
  Missed = Missed
  Paths <- MCPaths
  AllowedReads = {work}
  AllowedWrites = {}
  Programs <- MCPrograms
  DeniedPrograms = {shell, script}
  KillPrograms = {shell}
  PtraceDenied = TRUE
  Ips <- MCIps
  Domains <- MCDomains
  AllowedDomains = {good}
  DenyAllElse = TRUE
  Messages <- MCMessages
  RingCapacity = 1
PROPERTIES
  PtracePunished
CHECK_DEADLOCK FALSE
