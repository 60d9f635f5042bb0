-------------------------------- MODULE Pipeline --------------------------------
(***************************************************************************)
(* From a system call to a verdict: the eBPF programs of                   *)
(* syscallcage-ebpf/src/main.rs that see one monitored process, the EVENTS *)
(* ring buffer, the event loop of Monitor::start() with its two DNS caches *)
(* (monitor/mod.rs), and Enforcer::enforce() with the policy's questions.  *)
(*                                                                         *)
(* Paths, programs, addresses and domain names are values without inner    *)
(* structure: what a glob or a prefix matches is decided by the constants  *)
(* AllowedReads, AllowedWrites and AllowedDomains. Every event carries, in *)
(* `op` and `told`, what the process did and what DNS had told it by then: *)
(* history, which no action reads.                                         *)
(***************************************************************************)
EXTENDS Naturals, Sequences, FiniteSets

CONSTANTS
  Paths, AllowedReads, AllowedWrites,    \* filesystem section of the policy
  Programs, DeniedPrograms,              \* syscalls.deny, "execve:<program>"
  KillPrograms,                          \* those of them with kill_on_deny
  PtraceDenied,                          \* TRUE: a rule {"ptrace", kill_on_deny: true}
  Ips, Domains, AllowedDomains,          \* network.allow_domains
  DenyAllElse,                           \* network.deny_all_else
  Messages,                              \* what recvfrom may return, see Message
  RingCapacity,                          \* events the ring holds (16 MB in the code)
  None,                                  \* no domain, no address
  Missed                                 \* an answer that did not reach the ring

ASSUME PolicyAssumption ==
  /\ AllowedReads \subseteq Paths /\ AllowedWrites \subseteq Paths
  /\ DeniedPrograms \subseteq Programs /\ KillPrograms \subseteq DeniedPrograms
  /\ AllowedDomains \subseteq Domains
  /\ PtraceDenied \in BOOLEAN /\ DenyAllElse \in BOOLEAN
ASSUME NoneAssumption ==
  None \notin Domains \union Ips /\ Missed \notin Domains \union {None}
ASSUME RingCapacityAssumption == RingCapacity \in Nat \ {0}

ParseError == "<dns-parse-error>"
Ipv6Text   == "<ipv6-nao-suportado>"

\* The first 256 bytes recvfrom left in the buffer, as parse_dns_answers sees
\* them: `answers` when the answer count is not 0, `readable` when the names
\* are well formed, and the A records among the answers.
Message ==
  [answers : BOOLEAN, readable : BOOLEAN, name : Domains \union {Ipv6Text},
   ips : SUBSET Ips]

\* No name an answer is about is the text of the IPv6 marker.
ASSUME MessagesAssumption ==
  /\ Messages \subseteq Message /\ \A message \in Messages : message.name \in Domains
  /\ Ipv6Text \notin Domains

VARIABLES
  mode,              \* "Enforce" or "Monitor", fixed by Init
  enforcement,       \* "Sync": LSM hooks; "Reactive": kprobes; fixed by Init
  alive,             \* the monitored process
  told,              \* the domains DNS answers gave for each address (history)
  latest,            \* the last of them, Missed if it was lost on its way (history)
  ring,              \* EVENTS
  ip_to_domain,      \* IP_TO_DOMAIN, the kernel's map
  local_dns_cache,   \* Monitor.local_dns_cache
  current,           \* the event the loop is at, Idle when it is between two
  to_publish,        \* addresses of its answer not yet in the caches
  unwritten          \* addresses the kernel's map did not take (history)

vars == <<mode, enforcement, alive, told, latest, ring, ip_to_domain, local_dns_cache,
          current, to_publish, unwritten>>

config  == <<mode, enforcement>>
process == <<config, alive, told, latest>>
caches  == <<ip_to_domain, local_dns_cache, unwritten>>

Idle == [type |-> "none", resolved |-> 0, target |-> None, op |-> "none", told |-> {}, latest |-> None]

Event(type, resolved, target, op) ==
  [type |-> type, resolved |-> resolved, target |-> target, op |-> op,
   told |-> {}, latest |-> None]

\* try_compile_for_sync() refuses a rule that is not "execve:"; a kernel without
\* BPF LSM falls back to kprobes as well.
Init ==
  /\ mode \in {"Enforce", "Monitor"}
  /\ enforcement \in {"Sync", "Reactive"}
  /\ enforcement = "Sync" => ~PtraceDenied
  /\ alive = TRUE
  /\ told = [ip \in Ips |-> {}]
  /\ latest = [ip \in Ips |-> None]
  /\ ring = <<>>
  /\ ip_to_domain = [ip \in Ips |-> None]
  /\ local_dns_cache = [ip \in Ips |-> None]
  /\ current = Idle
  /\ to_publish = {}
  /\ unwritten = {}

--------------------------------------------------------------------------------
(* The policy's questions (policy/matcher.rs, policy/mod.rs).              *)

PathAllowed(path, forWrite) == path \in IF forWrite THEN AllowedWrites ELSE AllowedReads

DomainAllowed(name) == name \in AllowedDomains \/ ~DenyAllElse

SyscallDenied(type, target) ==
  \/ type = "EXEC" /\ target \in DeniedPrograms
  \/ type = "SYSCALL" /\ PtraceDenied

KillOnDeny(type, target) ==
  \/ type = "EXEC" /\ target \in KillPrograms
  \/ type = "SYSCALL" /\ PtraceDenied

--------------------------------------------------------------------------------
(* The process and the hooks that see it.                                  *)

\* Mutants of Emit: the ring has no limit; a full one drops its oldest event.
EmitAlways(e) == ring' = Append(ring, e)

EmitOverwriting(e) ==
  ring' = IF Len(ring) < RingCapacity THEN Append(ring, e) ELSE Append(Tail(ring), e)

\* EVENTS.reserve() fails when the ring is full and the program returns 0.
Emit(e) == ring' = IF Len(ring) < RingCapacity THEN Append(ring, e) ELSE ring

\* handle_open has no access mode to report: every open is a READ.
HandleOpen(path, forWrite) ==
  /\ enforcement = "Reactive"
  /\ Emit(Event("READ", 0, path, IF forWrite THEN "write" ELSE "read"))

\* lsm_file_open has: in monitor mode it reports what the policy does not allow.
\* In enforce mode it refuses it, in both a path that does not fit into its buffer,
\* and nobody is told: no step of the model.
LsmFileOpen(path, forWrite) ==
  /\ enforcement = "Sync" /\ mode = "Monitor"
  /\ ~PathAllowed(path, forWrite)
  /\ IF forWrite THEN Emit(Event("WRITE", 0, path, "write"))
                 ELSE Emit(Event("READ", 0, path, "read"))

OpenFile(path, forWrite) ==
  /\ alive
  /\ HandleOpen(path, forWrite) \/ LsmFileOpen(path, forWrite)
  /\ UNCHANGED <<process, caches, current, to_publish>>

HandleExecve(program) ==
  /\ enforcement = "Reactive"
  /\ Emit(Event("EXEC", 0, program, "exec"))
  /\ UNCHANGED alive

\* lsm_exec_check: a report in monitor mode, bpf_send_signal(9) in enforce mode, and
\* neither for a program whose path does not fit.
LsmExecCheck(program) ==
  /\ enforcement = "Sync"
  /\ \/ /\ mode = "Monitor" /\ program \in DeniedPrograms
        /\ Emit(Event("EXEC", 0, program, "exec"))
        /\ UNCHANGED alive
     \/ /\ mode = "Enforce" /\ program \in KillPrograms
        /\ alive' = FALSE
        /\ UNCHANGED ring

Execve(program) ==
  /\ alive
  /\ HandleExecve(program) \/ LsmExecCheck(program)
  /\ UNCHANGED <<config, told, latest, caches, current, to_publish>>

\* handle_ptrace, attached in reactive mode only.
Ptrace ==
  /\ alive
  /\ enforcement = "Reactive"
  /\ Emit(Event("SYSCALL", 0, None, "ptrace"))
  /\ UNCHANGED <<process, caches, current, to_publish>>

\* handle_enter_recvfrom and handle_exit_recvfrom: whatever was received goes
\* to user space as an answer, if it is longer than a DNS header. The call's entry
\* in DNS_RECV_BUFF, an LRU map, may be gone by its return; the call goes on.
Receive(message, kept) ==
  /\ alive
  /\ IF kept THEN Emit(Event("NETWORK", 1, message, "receive")) ELSE UNCHANGED ring
  /\ LET ips  == IF message.answers /\ message.readable THEN message.ips ELSE {}
         last == IF kept /\ Len(ring) < RingCapacity THEN message.name ELSE Missed IN
     /\ told' = [ip \in Ips |-> IF ip \in ips THEN told[ip] \union {message.name} ELSE told[ip]]
     /\ latest' = [ip \in Ips |-> IF ip \in ips THEN last ELSE latest[ip]]
  /\ UNCHANGED <<config, alive, caches, current, to_publish>>

\* handle_connect over IPv4: the kernel's map names the domain (resolved 2), or
\* the address goes raw (tag 0xAA, resolved 0).
ConnectEvent(ip) ==
  LET known == ip_to_domain[ip] # None IN
  [type |-> "NETWORK", resolved |-> IF known THEN 2 ELSE 0,
   target |-> IF known THEN ip_to_domain[ip] ELSE ip, op |-> "connect",
   told |-> told[ip], latest |-> IF known THEN None ELSE latest[ip]]

Connect(ip) ==
  /\ alive
  /\ Emit(ConnectEvent(ip))
  /\ UNCHANGED <<process, caches, current, to_publish>>

\* handle_connect over IPv6: a text in place of the address, with resolved 1.
\* As a DNS message it is not readable: its byte 12, 'p', is no label length.
Connect6 ==
  /\ alive
  /\ Emit(Event("NETWORK", 1,
            [answers |-> TRUE, readable |-> FALSE, name |-> Ipv6Text, ips |-> {}], "connect6"))
  /\ UNCHANGED <<process, caches, current, to_publish>>

\* IP_TO_DOMAIN is an LRU map: an entry may go at any time.
EvictIp(ip) ==
  /\ ip_to_domain[ip] # None
  /\ ip_to_domain' = [ip_to_domain EXCEPT ![ip] = None]
  /\ UNCHANGED <<process, ring, local_dns_cache, unwritten, current, to_publish>>

--------------------------------------------------------------------------------
(* The event loop and the handler.                                         *)

\* Mutant of HandledTypes: an arm of the match is missing.
HandledWithoutRead == {"EXEC", "NETWORK"}

\* The types `match bpf_event.event_type` names; the others are skipped.
HandledTypes == {"READ", "EXEC", "NETWORK"}

IsDns(e) == e.type = "NETWORK" /\ e.resolved = 1
IsRaw(e) == e.type = "NETWORK" /\ e.resolved = 0

Parsed(message) == message.answers /\ message.readable

\* Mutant of TakeEvent: of an answer only one address is kept.
TakeOneAddress ==
  /\ current = Idle
  /\ ring # <<>>
  /\ ring' = Tail(ring)
  /\ current' = Head(ring)
  /\ to_publish' = IF IsDns(Head(ring)) /\ Parsed(Head(ring).target) /\ Head(ring).target.ips # {}
                   THEN {CHOOSE ip \in Head(ring).target.ips : TRUE} ELSE {}
  /\ UNCHANGED <<process, caches>>

TakeEvent ==
  /\ current = Idle
  /\ ring # <<>>
  /\ ring' = Tail(ring)
  /\ LET e == Head(ring) IN
       IF e.type \in HandledTypes
       THEN /\ current' = e
            /\ to_publish' = IF IsDns(e) /\ Parsed(e.target) THEN e.target.ips ELSE {}
       ELSE UNCHANGED <<current, to_publish>>
  /\ UNCHANGED <<process, caches>>

\* Mutant of PublishIp: the kernel's map alone is written.
PublishToKernel(ip, written) ==
  /\ ip \in to_publish
  /\ to_publish' = to_publish \ {ip}
  /\ ip_to_domain' = [ip_to_domain EXCEPT ![ip] = current.target.name]
  /\ UNCHANGED <<process, ring, local_dns_cache, unwritten, current>>

\* One address of an answer: into the local cache, then into the kernel's map, in one
\* step, since nobody but the loop reads the first. When the second insertion fails it
\* is logged, and the map keeps what it said before.
PublishIp(ip, written) ==
  /\ ip \in to_publish
  /\ to_publish' = to_publish \ {ip}
  /\ local_dns_cache' = [local_dns_cache EXCEPT ![ip] = current.target.name]
  /\ IF written THEN /\ ip_to_domain' = [ip_to_domain EXCEPT ![ip] = current.target.name]
                     /\ unwritten' = unwritten \ {ip}
                ELSE UNCHANGED ip_to_domain /\ unwritten' = unwritten \union {ip}
  /\ UNCHANGED <<process, ring, current>>

\* The domain an event is judged by, None for an address nothing resolved.
JudgedDomain(e) ==
  CASE IsDns(e) -> IF Parsed(e.target) THEN e.target.name ELSE ParseError
    [] IsRaw(e) -> local_dns_cache[e.target]
    [] OTHER    -> e.target

Allowed(e) ==
  CASE e.type = "READ"    -> PathAllowed(e.target, FALSE)
    [] e.type = "WRITE"   -> PathAllowed(e.target, TRUE)
    [] e.type = "NETWORK" -> JudgedDomain(e) \notin {Ipv6Text, None} /\ DomainAllowed(JudgedDomain(e))
    [] OTHER              -> ~SyscallDenied(e.type, e.target)

ShouldKill(e) == e.type \in {"EXEC", "SYSCALL"} => KillOnDeny(e.type, e.target)

\* Mutants of Action: kill_on_deny is not asked for; the mode is not asked for.
ActionWithoutRule(e) == IF Allowed(e) THEN "Allow" ELSE IF mode = "Enforce" THEN "Kill" ELSE "Log"

ActionWithoutMode(e) == IF Allowed(e) THEN "Allow" ELSE IF ShouldKill(e) THEN "Kill" ELSE "Log"

\* What Enforcer::enforce() returns when kill(2) succeeds. It fails for a process that
\* is gone, and then changes nothing; module Watch tells the two apart.
Action(e) ==
  IF Allowed(e) THEN "Allow"
  ELSE IF mode = "Enforce" /\ ShouldKill(e) THEN "Kill" ELSE "Log"

Ready == current # Idle /\ to_publish = {}

Enforce ==
  /\ Ready
  /\ alive' = (alive /\ Action(current) # "Kill")
  /\ current' = Idle
  /\ UNCHANGED <<config, told, latest, ring, caches, to_publish>>

Loop == TakeEvent \/ (\E ip \in Ips, written \in BOOLEAN : PublishIp(ip, written)) \/ Enforce

Next ==
  \/ \E path \in Paths, forWrite \in BOOLEAN : OpenFile(path, forWrite)
  \/ \E program \in Programs : Execve(program)
  \/ Ptrace
  \/ \E message \in Messages, kept \in BOOLEAN : Receive(message, kept)
  \/ \E ip \in Ips : Connect(ip) \/ EvictIp(ip)
  \/ Connect6
  \/ Loop

SafetySpec == Init /\ [][Next]_vars

\* The loop thread is scheduled; nothing is assumed of the process.
Spec == SafetySpec /\ WF_vars(Loop)

--------------------------------------------------------------------------------
(* Properties.                                                             *)

Targets == Paths \union Programs \union Ips \union Domains \union Message \union {None}

EventRecords ==
  [type : {"READ", "WRITE", "EXEC", "NETWORK", "SYSCALL", "none"}, resolved : 0..2,
   op : {"read", "write", "exec", "ptrace", "receive", "connect", "connect6", "none"},
   told : SUBSET Domains, latest : Domains \union {None, Missed}, target : Targets]

TypeOK ==
  /\ mode \in {"Enforce", "Monitor"} /\ enforcement \in {"Sync", "Reactive"}
  /\ alive \in BOOLEAN
  /\ told \in [Ips -> SUBSET Domains]
  /\ latest \in [Ips -> Domains \union {None, Missed}]
  /\ ip_to_domain \in [Ips -> Domains \union {None}]
  /\ local_dns_cache \in [Ips -> Domains \union {None}]
  /\ ring \in Seq(EventRecords) /\ Len(ring) <= RingCapacity
  /\ current \in EventRecords
  /\ to_publish \subseteq Ips /\ unwritten \subseteq Ips

\* The kernel's map says nothing the local cache does not say, unless it did not
\* take what the cache did, and nothing DNS did not say: an eviction loses speed,
\* never a verdict.
CachesAgree ==
  \A ip \in Ips :
    /\ ip_to_domain[ip] # None =>
         /\ ip_to_domain[ip] = local_dns_cache[ip] \/ ip \in unwritten
         /\ ip_to_domain[ip] \in told[ip]
    /\ local_dns_cache[ip] # None => local_dns_cache[ip] \in told[ip]

Tells(e, ip) == IsDns(e) /\ Parsed(e.target) /\ ip \in e.target.ips

\* The last name the first n events of the queue q tell of an address, `base` if
\* none of them does.
LastTold(q, base, ip, n, name) ==
  \/ \E j \in 1..n : /\ Tells(q[j], ip) /\ name = q[j].target.name
                    /\ \A k \in (j + 1)..n : ~Tells(q[k], ip)
  \/ /\ \A j \in 1..n : ~Tells(q[j], ip)
     /\ name = base

\* What the local cache says of an address when the loop is done with its event.
Cached(ip) == IF ip \in to_publish THEN current.target.name ELSE local_dns_cache[ip]

\* Nothing overtakes: what DNS has said last of an address, if it reached the ring,
\* is what the loop will have in its cache by the end of the ring, and a connect by
\* address in the ring will find there what DNS had said last when it was made. An
\* answer that was lost matters for its addresses only, and for them only until the
\* next one.
AnswersInOrder ==
  /\ \A ip \in Ips :
       latest[ip] # Missed => LastTold(ring, Cached(ip), ip, Len(ring), latest[ip])
  /\ \A i \in 1..Len(ring) :
       IsRaw(ring[i]) /\ ring[i].latest # Missed =>
         LastTold(ring, Cached(ring[i].target), ring[i].target, i - 1, ring[i].latest)
  /\ IsRaw(current) /\ current.latest # Missed =>
       local_dns_cache[current.target] = current.latest

\* As the ring is a queue and the loop publishes an answer before it takes the
\* next event, a connect is judged by a domain that was answered for its address
\* before it, however far behind the loop is, or by none; by none only if no answer
\* came before it or the last one was lost; and if the kernel did not know the
\* address, by the last one.
ConnectJudgedByAnswer ==
  Ready /\ current.op = "connect" =>
    /\ JudgedDomain(current) \in current.told \union {None}
    /\ JudgedDomain(current) = None => current.told = {} \/ current.latest = Missed
    /\ IsRaw(current) /\ current.latest # Missed => JudgedDomain(current) = current.latest

\* What the policy allows when read as a policy. Writes are judged as reads in
\* reactive mode, and nothing is said of them.
Innocent(e) ==
  CASE e.op = "read"    -> e.target \in AllowedReads
    [] e.op = "exec"    -> e.target \notin KillPrograms
    [] e.op = "connect" -> e.told # {} /\ \A name \in e.told : DomainAllowed(name)
    [] e.op = "receive" -> Parsed(e.target) /\ DomainAllowed(e.target.name)
    [] OTHER            -> FALSE

\* A process that does what the policy allows is not killed for it, whatever the
\* loop's delay, the evictions and the order of its calls: unless the last answer
\* about the address it connects to was lost, and nothing is known of it.
OnlyViolationsKill ==
  Ready /\ Innocent(current) /\ Action(current) = "Kill" =>
    IsRaw(current) /\ current.latest = Missed /\ local_dns_cache[current.target] = None

\* What must be punished: of the events the loop handles, those no reading of
\* the policy allows.
Violates(e) ==
  CASE e.op = "read"    -> e.target \notin AllowedReads
    [] e.op = "exec"    -> e.target \in KillPrograms
    [] e.op = "connect" -> e.told = {} \/ \A name \in e.told : ~DomainAllowed(name)
    [] e.op = "receive" -> Parsed(e.target) /\ ~DomainAllowed(e.target.name)
    [] OTHER            -> FALSE

\* In enforce mode a violation that reached the ring kills the process in the end.
ViolationsPunished ==
  mode = "Enforce" /\ (\E i \in 1..Len(ring) : Violates(ring[i])) ~> ~alive

\* The loop's event and those in the ring.
Underway == {current} \union {ring[i] : i \in 1..Len(ring)}

\* Nor does a violation get lost on its way: it stays where the loop will come to it,
\* and leaves the pipeline only with the process's death. This holds when answers
\* were lost too: a lost one only takes away from what a connect is judged by.
ViolationsNotDropped ==
  [][mode = "Enforce" =>
       \A e \in Underway : Violates(e) => e \in Underway' \/ ~alive']_vars

\* In monitor mode nothing kills, neither the enforcer nor the LSM program. (What
\* the LSM programs refuse before the mode is set is module Tracking's.)
MonitorModeOnlyLogs == mode = "Monitor" => alive

--------------------------------------------------------------------------------
(* What documents and comments say and the code does not do.               *)

\* enforcer/mod.rs:105: IPv6 is blocked explicitly. The text is parsed as DNS.
Ipv6Blocked == mode = "Enforce" /\ Ready /\ current.op = "connect6" => Action(current) = "Kill"

\* spec/00-mvp.md:46: a deny rule for ptrace blocks it. The event is skipped.
PtracePunished ==
  PtraceDenied /\ mode = "Enforce" /\ (\E i \in 1..Len(ring) : ring[i].op = "ptrace") ~> ~alive
================================================================================
