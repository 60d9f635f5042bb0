\* An IPv6 connection under deny_all_else: false.
SPECIFICATION SafetySpec
CONSTANTS
  i1 = i1
  i2 = i2
  good = good
  bad = bad
  work = work
  secret = secret
  shell = shell
  script = script
  None = None
  Missed = Missed
  Paths <- MCPaths
  AllowedReads = {work}
  AllowedWrites = {}
  Programs <- MCPrograms
  DeniedPrograms = {shell, script}
  KillPrograms = {shell}
  PtraceDenied = TRUE
  Ips <- MCIps
  Domains <- MCDomains
  AllowedDomains = {good}
  DenyAllElse = FALSE
  Messages <- MCMessages
  RingCapacity = 1
INVARIANTS
  Ipv6Blocked
CHECK_DEADLOCK FALSE
