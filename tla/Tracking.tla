-------------------------------- MODULE Tracking --------------------------------
(***************************************************************************)
(* Which tasks the eBPF programs look at. Monitor::new (monitor/mod.rs)    *)
(* puts the target into MONITORED_PIDS and then attaches its programs one  *)
(* after the other; handle_fork and handle_exit (syscallcage-ebpf) keep    *)
(* the map up to date. Their tracepoints name tasks, that is threads, and  *)
(* the other programs ask for the thread group. An event carries the       *)
(* group's number, and the enforcer kills whoever has it by then.          *)
(*                                                                         *)
(* In watch mode the target is held until Monitor::new returns; in --pid   *)
(* mode it has run before and goes on running.                             *)
(***************************************************************************)
EXTENDS Naturals, FiniteSets

CONSTANTS
  Tasks,           \* task numbers, reused when they are free
  Target,          \* the pid given to Monitor::new
  Stranger,        \* a process that has nothing to do with it
  Enforcement,     \* "Sync": the LSM programs are attached; "Reactive": they are not
  MapCapacity,     \* entries of MONITORED_PIDS (10240 in the code)
  Nobody           \* no task number

ASSUME TasksAssumption == Target \in Tasks /\ Stranger \in Tasks \ {Target}
ASSUME EnforcementAssumption == Enforcement \in {"Sync", "Reactive"}
ASSUME CapacityAssumption == MapCapacity \in Nat \ {0}
ASSUME NobodyAssumption == Nobody \notin Tasks

VARIABLES
  held,        \* TRUE: watch mode, FALSE: --pid mode; fixed by Init
  hooks,       \* how far Monitor::new has come
  monitored,   \* the keys of MONITORED_PIDS
  state,       \* of each task number
  group,       \* the thread group it belongs to
  family,      \* processes that descend from the target (history)
  unseen,      \* tasks begun where no program could see it, or whose entry the
               \* full map has dropped, see Born and Exec (history)
  leaked,      \* keys left in the map by tasks no program saw exit (history)
  suspect,     \* the number in the event of a violation, from the hook to the kill
  mistaken     \* TRUE: it was a leaked key, or has been freed since (history)

vars == <<held, hooks, monitored, state, group, family, unseen, leaked,
          suspect, mistaken>>

history == <<family, unseen, leaked>>
tasks   == <<state, group>>
event   == <<suspect, mistaken>>

Stages == {"none", "registered", "lsm", "mode", "configured", "fork", "exit",
           "attached", "failed"}

Init ==
  /\ held \in BOOLEAN
  /\ hooks = "none"
  /\ monitored = {}
  /\ state = [t \in Tasks |-> IF t \in {Target, Stranger} THEN "alive" ELSE "free"]
  /\ group = [t \in Tasks |-> t]
  /\ family = {Target}
  /\ unseen = {}
  /\ leaked = {}
  /\ suspect = Nobody /\ mistaken = FALSE

\* The keys that are nobody's any more, once the map has changed.
Leaves(numbers) == leaked' = (leaked \union numbers) \intersect monitored'

LsmHook  == Enforcement = "Sync" /\ hooks \in Stages \ {"none", "registered", "failed"}
ForkHook == hooks \in {"fork", "exit", "attached"}
ExitHook == hooks \in {"exit", "attached"}

--------------------------------------------------------------------------------
(* Monitor::new().                                                         *)

\* process_exists(), Ebpf::load and the insertion of the target: the process that
\* has its number by now. kill(pid, 0) succeeds for a zombie and a thread as well.
Register ==
  /\ hooks = "none"
  /\ state[Target] # "free"
  /\ hooks' = "registered"
  /\ monitored' = {Target}
  /\ IF state[Target] = "alive" /\ group[Target] = Target
     THEN family' = family \union {Target} /\ Leaves({})
     ELSE UNCHANGED family /\ Leaves({Target})
  /\ UNCHANGED <<held, tasks, unseen, event>>

Attach(from, to) ==
  /\ hooks = from
  /\ hooks' = to
  /\ UNCHANGED <<held, monitored, tasks, history, event>>

\* The LSM programs come before the map that holds the mode, that one before
\* the prefixes of the policy, and all of them before the tracepoints.
AttachLsm    == Enforcement = "Sync" /\ Attach("registered", "lsm")
SetMode      == Attach("lsm", "mode")
SetPrefixes  == Attach("mode", "configured")
AttachFork   == Attach(IF Enforcement = "Sync" THEN "configured" ELSE "registered", "fork")
AttachExit   == Attach("fork", "exit")
AttachOthers == Attach("exit", "attached")

\* An error drops what was loaded and attached so far.
NewFails ==
  /\ hooks \notin {"attached", "failed"}
  /\ hooks' = "failed"
  /\ monitored' = {}
  /\ Leaves({})
  /\ UNCHANGED <<held, tasks, family, unseen, event>>

NewMonitor ==
  \/ Register \/ AttachLsm \/ SetMode \/ SetPrefixes
  \/ AttachFork \/ AttachExit \/ AttachOthers \/ NewFails

--------------------------------------------------------------------------------
(* Tasks, and the programs that follow them.                               *)

\* Mutant of MayAct: the child is released before Monitor::new has returned.
MayActAlways(t) == state[t] = "alive"

\* A held target is in await_parent_release() until Monitor::new has returned.
MayAct(t) ==
  /\ state[t] = "alive"
  /\ held /\ group[t] \in family => hooks = "attached"

\* Mutant of Insert: the map has no limit.
InsertAlways(n) == monitored' = monitored \union {n}

\* An insertion into the full LRU map drops another entry.
Insert(n) ==
  \/ /\ n \in monitored \/ Cardinality(monitored) < MapCapacity
     /\ monitored' = monitored \union {n}
  \/ /\ n \notin monitored /\ Cardinality(monitored) >= MapCapacity
     /\ \E e \in monitored : monitored' = (monitored \ {e}) \union {n}

\* Mutant of HandleFork: the group of the parent is looked up.
HandleForkByGroup(t, n) ==
  IF ForkHook /\ group[t] \in monitored THEN Insert(n) ELSE UNCHANGED monitored

\* handle_fork: parent_pid and child_pid are the tasks'.
HandleFork(t, n) ==
  IF ForkHook /\ t \in monitored THEN Insert(n) ELSE UNCHANGED monitored

\* Mutant of HandleExit: nothing is removed.
HandleExitNot(exited) == UNCHANGED monitored

\* handle_exit, for the tasks that have exited.
HandleExit(exited) ==
  monitored' = IF ExitHook THEN monitored \ exited ELSE monitored

\* Tasks whose exit handle_exit does not see.
Unreported(exited) == IF ExitHook THEN {} ELSE exited

\* The tasks whose entry has gone from the map.
Dropped == {e \in monitored \ monitored' : state[e] # "free"}

Born(t, n) ==
  /\ MayAct(t)
  /\ state[n] = "free"
  /\ state' = [state EXCEPT ![n] = "alive"]
  /\ HandleFork(t, n)
  /\ unseen' = unseen \union Dropped \union IF t \in unseen \/ ~ForkHook THEN {n} ELSE {}
  /\ Leaves(IF t \in leaked THEN {n} ELSE {})
  /\ UNCHANGED <<held, hooks, event>>

ForkProcess(t, n) ==
  /\ Born(t, n)
  /\ family' = IF group[t] \in family THEN family \union {n} ELSE family
  /\ UNCHANGED group

CloneThread(t, n) ==
  /\ Born(t, n)
  /\ group' = [group EXCEPT ![n] = group[t]]
  /\ UNCHANGED family

\* The numbers may be given to new tasks.
Free(numbers) ==
  /\ group' = [t \in Tasks |-> IF t \in numbers THEN t ELSE group[t]]
  /\ family' = family \ numbers
  /\ mistaken' = (mistaken \/ suspect \in numbers)
  /\ UNCHANGED suspect

\* A task exits or is killed; the number of a thread is free at once, that of a
\* process once its parent has waited for it.
ExitTask(t) ==
  /\ state[t] = "alive"
  /\ HandleExit({t})
  /\ \/ /\ group[t] = t
        /\ state' = [state EXCEPT ![t] = "zombie"]
        /\ UNCHANGED <<group, family, unseen, event>>
     \/ /\ group[t] # t
        /\ state' = [state EXCEPT ![t] = "free"]
        /\ Free({t})
        /\ unseen' = unseen \ {t}
  /\ Leaves(Unreported({t}))
  /\ UNCHANGED <<held, hooks>>

\* In watch mode the supervisor collects the target, and drops its Monitor.
Collect(p) ==
  /\ state[p] = "zombie"
  /\ \A t \in Tasks \ {p} : group[t] = p => state[t] = "free"
  /\ ~(held /\ p = Target)
  /\ state' = [state EXCEPT ![p] = "free"]
  /\ Free({p})
  /\ unseen' = unseen \ {p}
  /\ UNCHANGED <<held, hooks, monitored, leaked>>

\* execve ends the other threads; a thread that is not the first one takes over
\* the first one's number and leaves its own, which no tracepoint reports.
Exec(t) ==
  LET first  == group[t]
      others == {u \in Tasks \ {t} : state[u] # "free" /\ group[u] = first}
      freed  == (others \union {t}) \ {first}
  IN
  /\ MayAct(t)
  /\ others # {}
  /\ state' = [u \in Tasks |-> IF u = first THEN "alive"
                               ELSE IF u \in freed THEN "free" ELSE state[u]]
  /\ HandleExit(others)
  /\ Free(freed)
  /\ unseen' = (unseen \ freed) \union (IF t = first THEN {} ELSE {first})
  /\ Leaves(Unreported(others \ {first}) \union ({t} \ {first}))
  /\ UNCHANGED <<held, hooks>>

\* A hook sees what the policy forbids and queues the number of the group; of the
\* events on their way the model keeps one.
Report(t) ==
  /\ MayAct(t)
  /\ hooks = "attached" /\ group[t] \in monitored
  /\ suspect = Nobody
  /\ suspect' = group[t]
  /\ mistaken' = (group[t] \in leaked)
  /\ UNCHANGED <<held, hooks, monitored, tasks, history>>

\* RealKiller::kill(): SIGKILL for the whole group of the task that has the number
\* now, if there is one.
KillSuspect ==
  LET hit == {t \in Tasks : group[t] = group[suspect] /\ state[t] = "alive"}
      threads == hit \ {group[suspect]}
  IN
  /\ hooks = "attached"
  /\ suspect # Nobody
  /\ suspect' = Nobody /\ mistaken' = FALSE
  /\ IF state[suspect] = "free" THEN UNCHANGED <<monitored, tasks, history>>
     ELSE /\ state' = [t \in Tasks |-> IF t \in threads THEN "free"
                                      ELSE IF t \in hit THEN "zombie" ELSE state[t]]
          /\ group' = [t \in Tasks |-> IF t \in threads THEN t ELSE group[t]]
          /\ family' = family \ threads /\ unseen' = unseen \ threads
          /\ HandleExit(hit)
          /\ Leaves({})
  /\ UNCHANGED <<held, hooks>>

\* lsm_file_open, for a task that opens a path the policy allows or not. A path
\* that does not fit into the buffer is refused before anything is asked. The mode
\* is taken for enforce while its map is empty, and no prefix matches before
\* there is one. The file is refused and nothing else changes.
Refuses(t, mode, allowed, fits) ==
  /\ MayAct(t)
  /\ LsmHook /\ group[t] \in monitored
  /\ \/ ~fits
     \/ /\ hooks = "lsm" \/ mode = "Enforce"
        /\ ~allowed \/ hooks \in {"lsm", "mode"}

Next ==
  \/ NewMonitor
  \/ \E t, n \in Tasks : ForkProcess(t, n) \/ CloneThread(t, n)
  \/ \E t \in Tasks : ExitTask(t) \/ Collect(t) \/ Exec(t) \/ Report(t)
  \/ KillSuspect

SafetySpec == Init /\ [][Next]_vars

--------------------------------------------------------------------------------
(* Properties.                                                             *)

TypeOK ==
  /\ held \in BOOLEAN
  /\ hooks \in Stages
  /\ monitored \subseteq Tasks /\ Cardinality(monitored) <= MapCapacity
  /\ state \in [Tasks -> {"free", "alive", "zombie"}]
  /\ group \in [Tasks -> Tasks]
  /\ family \subseteq Tasks /\ unseen \subseteq Tasks
  /\ leaked \subseteq monitored
  /\ suspect \in Tasks \union {Nobody} /\ mistaken \in BOOLEAN

\* The monitoring is inherited: a descendant of the target is looked at as long
\* as its first thread lives, however many threads fork and exec around it. Not
\* seen are those born before handle_fork was attached, a process in which another
\* thread than the first called execve, and one whose entry the full map dropped,
\* with what they fork: an eviction costs the process it meets and no other.
FamilyObserved ==
  hooks = "attached" =>
    \A p \in family \ unseen : group[p] = p /\ state[p] = "alive" => p \in monitored

\* No process is looked at, let alone killed, that does not descend from the
\* target, though task numbers are used again, unless it was given a key that
\* the map was left with: of a task that exited before handle_exit was attached,
\* or of a thread that took over another number by execve.
StrangersLeftAlone ==
  \A t \in monitored \ leaked : state[t] = "alive" => group[t] \in family

\* The kill for a violation hits the target's family, however late it comes and
\* whatever forks, execs and exits in between: unless the process was collected
\* meanwhile, when its number may be anybody's, or had been given a leaked key.
KillHitsFamily ==
  suspect # Nobody /\ ~mistaken =>
    /\ state[suspect] # "free" /\ group[suspect] = suspect
    /\ suspect \in family

\* In watch mode lsm_file_open refuses what the policy refuses, though it is
\* attached before it is told the mode and the prefixes, and else only the paths
\* it cannot read.
OpensJudgedByPolicy ==
  held => \A t \in Tasks, allowed, fits \in BOOLEAN, mode \in {"Enforce", "Monitor"} :
            Refuses(t, mode, allowed, fits) => ~fits \/ (mode = "Enforce" /\ ~allowed)

--------------------------------------------------------------------------------
(* What documents and comments say and the code does not do.               *)

\* spec/00-mvp.md:6: a process and its children are observed. When the first
\* thread exits, handle_exit drops the number of the whole process.
ThreadsObserved ==
  hooks = "attached" =>
    \A t \in Tasks : state[t] = "alive" /\ group[t] \in family \ unseen => group[t] \in monitored

\* main.rs:113: in a dry run violations are only audited. The LSM programs are
\* attached before the mode is set, and then refuse even a path they can read.
DryRunOnlyAudits ==
  \A t \in Tasks, allowed \in BOOLEAN : ~Refuses(t, "Monitor", allowed, TRUE)
================================================================================
