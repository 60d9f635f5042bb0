--------------------------------- MODULE Watch ---------------------------------
(***************************************************************************)
(* `syscallcage watch -- cmd` (syscallcage/src/watch.rs): the supervisor's *)
(* main thread, the process it forks for each attempt, the thread that     *)
(* runs Monitor::start() for that attempt, and the kernel's part in the    *)
(* death of each of them.                                                  *)
(*                                                                         *)
(* Every attempt has a pipe, a Monitor and a kill_reason of its own, and   *)
(* the loop thread of an attempt may outlive it: those variables are       *)
(* functions of the attempt's number, which is restart_count.              *)
(*                                                                         *)
(* Of an event the supervisor only tells apart what Enforcer::enforce makes*)
(* of it: `denied` stands for "not allowed, mode Enforce, should_kill".    *)
(***************************************************************************)
EXTENDS Naturals, Sequences

CONSTANTS
  MaxRestarts,    \* config.max_restarts.unwrap_or(0)
  RingCapacity,   \* events an EVENTS ring buffer holds (16 MB in the code)
  Enforcement,    \* "Sync": the LSM hooks are attached; "Reactive": they are not
  CatchesTerm     \* TRUE: the program under watch handles SIGTERM and goes on

ASSUME MaxRestartsAssumption == MaxRestarts \in Nat
ASSUME RingCapacityAssumption == RingCapacity \in Nat \ {0}
ASSUME EnforcementAssumption == Enforcement \in {"Sync", "Reactive"}
ASSUME CatchesTermAssumption == CatchesTerm \in BOOLEAN

VARIABLES
  sup,            \* where the supervisor's main thread is
  outcome,        \* what run() returned
  restart_count,
  child,          \* state of the forked process of each attempt
  cause,          \* what ended it, when a signal did (history variable)
  descendant,     \* one process forked by the agent, alive or not
  write_fd,       \* TRUE while the supervisor holds the pipe's write end
  pipe,           \* TRUE while the release byte is in the pipe, unread
  thread,         \* the thread running Monitor::start()
  closed,         \* Monitor.closed
  events,         \* the ring buffer of the attempt's Monitor
  kill_reason     \* TRUE: Some(KillReason::PolicyViolation)

vars == <<sup, outcome, restart_count, child, cause, descendant, write_fd,
          pipe, thread, closed, events, kill_reason>>

Attempts == 0..MaxRestarts

SupStates ==
  {"fork", "setup", "release", "spawn", "wait", "close", "judge", "sleep",
   "waitfailed", "return", "exiting", "gone"}

Outcomes == {"none", "Ok", "PolicyViolationHalt", "Monitor", "Errno"}

\* Before execvp: `armed` has the parent-death signal set, `waiting` has also
\* seen its parent alive and reads the pipe, `released` has read the byte.
Starting == {"start", "armed", "waiting", "released"}
Armed    == {"armed", "waiting", "released", "agent"}
Live     == Starting \union {"agent"}
Dead     == {"exited0", "exitedN", "signaled"}
Looping  == {"check", "poll", "drain", "record"}

Event == [pid : {"agent", "descendant"}, denied : BOOLEAN]

Init ==
  /\ sup = "fork"
  /\ outcome = "none"
  /\ restart_count = 0
  /\ child = [g \in Attempts |-> "unborn"]
  /\ cause = [g \in Attempts |-> "none"]
  /\ descendant = [g \in Attempts |-> "none"]
  /\ write_fd = [g \in Attempts |-> FALSE]
  /\ pipe = [g \in Attempts |-> FALSE]
  /\ thread = [g \in Attempts |-> "none"]
  /\ closed = [g \in Attempts |-> FALSE]
  /\ events = [g \in Attempts |-> <<>>]
  /\ kill_reason = [g \in Attempts |-> FALSE]

Running == sup \notin {"exiting", "gone"}   \* the supervisor's threads run

\* waitpid has collected the child: its pid no longer names a process.
Reaped(g) ==
  \/ g < restart_count
  \/ g = restart_count /\ child[g] \in Dead /\ sup \in {"close", "judge", "sleep"}

\* The Monitor of attempt g exists, and with it its eBPF programs: run() holds
\* one Arc until the end of the iteration, the loop thread the other.
Attached(g) ==
  \/ /\ g = restart_count
     /\ sup \in {"release", "spawn", "wait", "close", "judge", "sleep", "waitfailed"}
  \/ thread[g] \in Looping

--------------------------------------------------------------------------------
(* The supervisor's main thread: run().                                    *)

Return(result) ==
  /\ sup' = "return"
  /\ outcome' = result

\* pipe2 and fork, or the failure of either.
ForkChild ==
  /\ sup = "fork"
  /\ \/ /\ sup' = "setup"
        /\ child' = [child EXCEPT ![restart_count] = "start"]
        /\ write_fd' = [write_fd EXCEPT ![restart_count] = TRUE]
        /\ UNCHANGED outcome
     \/ /\ Return("Errno")
        /\ UNCHANGED <<child, write_fd>>
  /\ UNCHANGED <<restart_count, cause, descendant, pipe, thread, closed, events, kill_reason>>

\* Monitor::new: on an error the write end is closed, unwritten.
NewMonitor ==
  /\ sup = "setup"
  /\ \/ /\ sup' = "release"
        /\ UNCHANGED <<outcome, write_fd>>
     \/ /\ Return("Monitor")
        /\ write_fd' = [write_fd EXCEPT ![restart_count] = FALSE]
  /\ UNCHANGED <<restart_count, child, cause, descendant, pipe, thread, closed, events, kill_reason>>

\* Mutant of Release: neither the byte is written nor the write end closed.
ReleaseForgotten ==
  /\ sup = "release"
  /\ sup' = "spawn"
  /\ UNCHANGED <<outcome, restart_count, child, cause, descendant, write_fd, pipe, thread,
                 closed, events, kill_reason>>

\* write(write_fd, [1]); close(write_fd). EPIPE when the child is dead.
Release ==
  /\ sup = "release"
  /\ \/ /\ child[restart_count] \in Live
        /\ pipe' = [pipe EXCEPT ![restart_count] = TRUE]
        /\ sup' = "spawn"
        /\ UNCHANGED outcome
     \/ /\ child[restart_count] \in Dead
        /\ Return("Errno")
        /\ UNCHANGED pipe
  /\ write_fd' = [write_fd EXCEPT ![restart_count] = FALSE]
  /\ UNCHANGED <<restart_count, child, cause, descendant, thread, closed, events, kill_reason>>

SpawnLoop ==
  /\ sup = "spawn"
  /\ sup' = "wait"
  /\ thread' = [thread EXCEPT ![restart_count] = "check"]
  /\ UNCHANGED <<outcome, restart_count, child, cause, descendant, write_fd, pipe,
                 closed, events, kill_reason>>

\* Mutant of WaitChild: WIFEXITED is not handled, only signals end the wait.
WaitSignaledOnly ==
  /\ sup = "wait"
  /\ child[restart_count] = "signaled"
  /\ sup' = "close"
  /\ UNCHANGED <<outcome, restart_count, child, cause, descendant, write_fd, pipe,
                 thread, closed, events, kill_reason>>

\* waitpid(child, None) returns the child's status ...
WaitChild ==
  /\ sup = "wait"
  /\ child[restart_count] \in Dead
  /\ sup' = "close"
  /\ UNCHANGED <<outcome, restart_count, child, cause, descendant, write_fd, pipe,
                 thread, closed, events, kill_reason>>

\* ... or an error, which `wait_res?` returns after the close.
WaitFails ==
  /\ sup = "wait"
  /\ sup' = "waitfailed"
  /\ UNCHANGED <<outcome, restart_count, child, cause, descendant, write_fd, pipe,
                 thread, closed, events, kill_reason>>

\* monitor.close(), then `match wait_res?`.
CloseMonitor ==
  /\ \/ /\ sup = "close"
        /\ sup' = "judge"
        /\ UNCHANGED outcome
     \/ /\ sup = "waitfailed"
        /\ Return("Errno")
  /\ closed' = [closed EXCEPT ![restart_count] = TRUE]
  /\ UNCHANGED <<restart_count, child, cause, descendant, write_fd, pipe, thread,
                 events, kill_reason>>

\* Mutant of RetryOrGiveUp: `restart_count > max` in place of `>=`.
RetryOnceMore ==
  \/ /\ restart_count > MaxRestarts
     /\ Return("Ok")
  \/ /\ restart_count <= MaxRestarts
     /\ sup' = "sleep"
     /\ UNCHANGED outcome

\* `restart_count >= max` ends the supervision with Ok, otherwise it sleeps.
RetryOrGiveUp ==
  \/ /\ restart_count >= MaxRestarts
     /\ Return("Ok")
  \/ /\ restart_count < MaxRestarts
     /\ sup' = "sleep"
     /\ UNCHANGED outcome

\* Mutants of JudgeSignaled: every signal halts; kill_reason is not looked at.
JudgeAlwaysHalts == child[restart_count] = "signaled" /\ Return("PolicyViolationHalt")

JudgeAlwaysRetries == child[restart_count] = "signaled" /\ RetryOrGiveUp

JudgeSignaled ==
  /\ child[restart_count] = "signaled"
  /\ IF kill_reason[restart_count]
     THEN Return("PolicyViolationHalt")
     ELSE RetryOrGiveUp

JudgeExited ==
  \/ child[restart_count] = "exited0" /\ Return("Ok")
  \/ child[restart_count] = "exitedN" /\ RetryOrGiveUp

Judge ==
  /\ sup = "judge"
  /\ JudgeSignaled \/ JudgeExited
  /\ UNCHANGED <<restart_count, child, cause, descendant, write_fd, pipe, thread,
                 closed, events, kill_reason>>

\* The end of the iteration: `restart_count += 1` and round again.
NextAttempt ==
  /\ sup = "sleep"
  /\ sup' = "fork"
  /\ restart_count' = restart_count + 1
  /\ UNCHANGED <<outcome, child, cause, descendant, write_fd, pipe, thread, closed,
                 events, kill_reason>>

\* The process ends, by main's exit(0|1) after run() returned or by a SIGKILL
\* at any point: its threads stop and the kernel closes its files, the pipe's
\* write end, the eBPF links and the ring buffers among them ...
EndProcess ==
  /\ sup' = "exiting"
  /\ write_fd' = [g \in Attempts |-> FALSE]
  /\ thread' = [g \in Attempts |-> IF thread[g] \in Looping THEN "ended" ELSE thread[g]]
  /\ events' = [g \in Attempts |-> <<>>]
  /\ UNCHANGED <<outcome, restart_count, child, cause, descendant, pipe, closed,
                 kill_reason>>

ExitMain == sup = "return" /\ EndProcess
Crash    == Running /\ sup # "return" /\ EndProcess

\* ... then it reparents the children: getppid() changes for them, and each one
\* that set PR_SET_PDEATHSIG gets SIGTERM, which no program before execvp
\* handles. A process forked by the agent does not inherit the setting.
SurvivesTerm(g) == CatchesTerm /\ child[g] = "agent"

\* Mutant of Orphan: prctl(PR_SET_PDEATHSIG) is not called.
OrphanUnarmed(g) == child[g]

Orphan(g) ==
  IF child[g] \in Armed /\ ~SurvivesTerm(g) THEN "signaled" ELSE child[g]

Reparent ==
  /\ sup = "exiting"
  /\ sup' = "gone"
  /\ child' = [g \in Attempts |-> Orphan(g)]
  /\ cause' = [g \in Attempts |-> IF Orphan(g) # child[g] THEN "orphan" ELSE cause[g]]
  /\ UNCHANGED <<outcome, restart_count, descendant, write_fd, pipe, thread, closed,
                 events, kill_reason>>

Supervisor ==
  \/ ForkChild \/ NewMonitor \/ Release \/ SpawnLoop \/ WaitChild \/ CloseMonitor
  \/ Judge \/ NextAttempt \/ ExitMain

--------------------------------------------------------------------------------
(* The forked process up to execvp.                                        *)

ChildBecomes(g, state) == child' = [child EXCEPT ![g] = state]

\* close(write_fd) and set_parent_death_signal().
ArmDeathSignal(g) ==
  /\ child[g] = "start"
  /\ ChildBecomes(g, "armed")

\* Mutant of CheckParent: getppid() is not compared.
CheckNothing(g) ==
  /\ child[g] = "armed"
  /\ ChildBecomes(g, "waiting")

\* check_parent_alive(): getppid() is still the supervisor's pid.
CheckParent(g) ==
  /\ child[g] = "armed"
  /\ IF sup = "gone" THEN ChildBecomes(g, "exitedN") ELSE ChildBecomes(g, "waiting")

\* Mutant of AwaitRelease: end of file and the byte are not waited for.
AwaitNothing(g) ==
  /\ child[g] = "waiting"
  /\ ChildBecomes(g, "released")
  /\ UNCHANGED pipe

\* await_parent_release(): the byte, or end of file once no write end is open.
AwaitRelease(g) ==
  /\ child[g] = "waiting"
  /\ \/ /\ pipe[g]
        /\ pipe' = [pipe EXCEPT ![g] = FALSE]
        /\ ChildBecomes(g, "released")
     \/ /\ ~pipe[g] /\ ~write_fd[g]
        /\ ChildBecomes(g, "exitedN")
        /\ UNCHANGED pipe

ExecAgent(g) ==
  /\ child[g] = "released"
  /\ ChildBecomes(g, "agent")

\* Any of the calls fails and the child exits with 127, or 2 for the command.
AbortStart(g) ==
  /\ child[g] \in Starting
  /\ ChildBecomes(g, "exitedN")

ChildStart(g) ==
  /\ \/ (ArmDeathSignal(g) \/ CheckParent(g) \/ ExecAgent(g)) /\ UNCHANGED pipe
     \/ AwaitRelease(g)
  /\ UNCHANGED <<sup, outcome, restart_count, cause, descendant, write_fd, thread,
                 closed, events, kill_reason>>

ChildAborts(g) ==
  /\ AbortStart(g)
  /\ UNCHANGED <<sup, outcome, restart_count, cause, descendant, write_fd, pipe,
                 thread, closed, events, kill_reason>>

--------------------------------------------------------------------------------
(* The agent and its descendant.                                           *)

\* It exits, or dies of a signal that is not SyscallCage's.
AgentEnds(g) ==
  /\ \/ /\ child[g] = "agent"
        /\ \E code \in {"exited0", "exitedN"} : ChildBecomes(g, code)
        /\ UNCHANGED cause
     \/ /\ child[g] \in Live
        /\ ChildBecomes(g, "signaled")
        /\ cause' = [cause EXCEPT ![g] = "self"]
  /\ UNCHANGED <<sup, outcome, restart_count, descendant, write_fd, pipe, thread,
                 closed, events, kill_reason>>

AgentForks(g) ==
  /\ child[g] = "agent"
  /\ descendant[g] = "none"
  /\ descendant' = [descendant EXCEPT ![g] = "alive"]
  /\ UNCHANGED <<sup, outcome, restart_count, child, cause, write_fd, pipe, thread,
                 closed, events, kill_reason>>

DescendantEnds(g) ==
  /\ descendant[g] = "alive"
  /\ descendant' = [descendant EXCEPT ![g] = "dead"]
  /\ UNCHANGED <<sup, outcome, restart_count, child, cause, write_fd, pipe, thread,
                 closed, events, kill_reason>>

Acts(g, pid) ==
  \/ pid = "agent" /\ child[g] \in {"released", "agent"}
  \/ pid = "descendant" /\ descendant[g] = "alive"

\* A hook fires and queues an event. With the ring full it is lost, and the
\* process goes on: no step of the model.
EmitEvent(g) ==
  /\ Attached(g)
  /\ Len(events[g]) < RingCapacity
  /\ \E e \in Event :
       /\ Acts(g, e.pid)
       /\ events' = [events EXCEPT ![g] = Append(@, e)]
  /\ UNCHANGED <<sup, outcome, restart_count, child, cause, descendant, write_fd, pipe,
                 thread, closed, kill_reason>>

\* SIGKILL reaches the process pid of attempt g, by `why`.
Killed(g, pid, why) ==
  \/ /\ pid = "agent"
     /\ IF child[g] \in Live
        THEN /\ ChildBecomes(g, "signaled")
             /\ cause' = [cause EXCEPT ![g] = why]
        ELSE UNCHANGED <<child, cause>>
     /\ UNCHANGED descendant
  \/ /\ pid = "descendant"
     /\ descendant' = [descendant EXCEPT ![g] = "dead"]
     /\ UNCHANGED <<child, cause>>

\* lsm_exec_check denies an exec with kill_on_deny: bpf_send_signal(9) in the
\* kernel, and in enforce mode no event for user space.
LsmKills(g) ==
  /\ Enforcement = "Sync"
  /\ Attached(g)
  /\ \E pid \in {"agent", "descendant"} : Acts(g, pid) /\ Killed(g, pid, "lsm")
  /\ UNCHANGED <<sup, outcome, restart_count, write_fd, pipe, thread, closed, events,
                 kill_reason>>

--------------------------------------------------------------------------------
(* The threads of Monitor::start().                                        *)

LoopBecomes(g, state) == thread' = [thread EXCEPT ![g] = state]

\* Mutant of PollEvents: closed is looked at when there is an event only.
PollWhenReadable(g) ==
  /\ \/ thread[g] = "check" /\ LoopBecomes(g, "poll")
     \/ /\ thread[g] = "poll"
        /\ LoopBecomes(g, IF events[g] = <<>> THEN "check"
                          ELSE IF closed[g] THEN "ended" ELSE "drain")
  /\ UNCHANGED <<sup, outcome, restart_count, child, cause, descendant, write_fd, pipe,
                 closed, events, kill_reason>>

\* `while !closed { poll(fd, 500 ms); if readable { ... } }`: closed is looked at
\* first, and an event or a close() may come between that and the answer of poll.
PollEvents(g) ==
  /\ \/ /\ thread[g] = "check"
        /\ LoopBecomes(g, IF closed[g] THEN "ended" ELSE "poll")
     \/ /\ thread[g] = "poll"
        /\ LoopBecomes(g, IF events[g] = <<>> THEN "check" ELSE "drain")
  /\ UNCHANGED <<sup, outcome, restart_count, child, cause, descendant, write_fd, pipe,
                 closed, events, kill_reason>>

\* take_map or poll fails: start() returns an error that is only logged.
LoopFails(g) ==
  /\ thread[g] = "poll"
  /\ LoopBecomes(g, "failed")
  /\ UNCHANGED <<sup, outcome, restart_count, child, cause, descendant, write_fd, pipe,
                 closed, events, kill_reason>>

\* kill(2) fails with ESRCH only: a zombie can be signalled. The agent is
\* collected by waitpid; when the descendant is, is its parent's business.
KillFinds(g, pid)   == pid = "agent" => ~Reaped(g)
KillMisses(g, pid)  ==
  \/ pid = "agent" /\ Reaped(g)
  \/ pid = "descendant" /\ descendant[g] = "dead"

\* Mutant of HandleEvent: the handler drops what enforce() returned.
HandleWithoutRecord(g) ==
  /\ thread[g] = "drain"
  /\ events[g] # <<>>
  /\ events' = [events EXCEPT ![g] = Tail(@)]
  /\ LET e == Head(events[g]) IN
       IF e.denied /\ KillFinds(g, e.pid) THEN Killed(g, e.pid, "policy")
       ELSE UNCHANGED <<child, cause, descendant>>
  /\ UNCHANGED <<sup, outcome, restart_count, thread, write_fd, pipe, closed, kill_reason>>

\* `while let Some(item) = ring_buf.next()` and the handler's enforce() on it.
HandleEvent(g) ==
  /\ thread[g] = "drain"
  /\ \/ /\ events[g] = <<>>
        /\ LoopBecomes(g, "check")
        /\ UNCHANGED <<events, child, cause, descendant>>
     \/ /\ events[g] # <<>>
        /\ events' = [events EXCEPT ![g] = Tail(@)]
        /\ LET e == Head(events[g]) IN
             \/ /\ ~e.denied \/ KillMisses(g, e.pid)
                /\ UNCHANGED <<thread, child, cause, descendant>>
             \/ /\ e.denied /\ KillFinds(g, e.pid)
                /\ Killed(g, e.pid, "policy")
                /\ LoopBecomes(g, "record")
  /\ UNCHANGED <<sup, outcome, restart_count, write_fd, pipe, closed, kill_reason>>

\* The handler, after enforce() returned Ok(Action::Kill).
RecordKill(g) ==
  /\ thread[g] = "record"
  /\ kill_reason' = [kill_reason EXCEPT ![g] = TRUE]
  /\ LoopBecomes(g, "drain")
  /\ UNCHANGED <<sup, outcome, restart_count, child, cause, descendant, write_fd, pipe,
                 closed, events>>

\* The liveness thread start() spawns: the target's pid no longer exists.
NoticeDeath(g) ==
  /\ Running
  /\ thread[g] # "none" /\ ~closed[g]
  /\ Reaped(g)
  /\ closed' = [closed EXCEPT ![g] = TRUE]
  /\ UNCHANGED <<sup, outcome, restart_count, child, cause, descendant, write_fd, pipe,
                 thread, events, kill_reason>>

Loop(g) == PollEvents(g) \/ HandleEvent(g) \/ RecordKill(g)

--------------------------------------------------------------------------------
Next ==
  \/ Supervisor \/ WaitFails \/ Crash \/ Reparent
  \/ \E g \in Attempts :
       \/ ChildStart(g) \/ ChildAborts(g)
       \/ AgentEnds(g) \/ AgentForks(g) \/ DescendantEnds(g)
       \/ EmitEvent(g) \/ LsmKills(g)
       \/ Loop(g) \/ LoopFails(g) \/ NoticeDeath(g)

\* The scheduler runs a thread that can go on, and the kernel finishes an exit.
\* Nothing is assumed of the agent, of its descendant or of crashes.
Fairness ==
  /\ WF_vars(Supervisor)
  /\ WF_vars(Reparent)
  /\ \A g \in Attempts : WF_vars(ChildStart(g)) /\ WF_vars(Loop(g))

SafetySpec == Init /\ [][Next]_vars

Spec == SafetySpec /\ Fairness

--------------------------------------------------------------------------------
(* Properties.                                                             *)

TypeOK ==
  /\ sup \in SupStates
  /\ outcome \in Outcomes
  /\ restart_count \in Attempts
  /\ child \in [Attempts -> {"unborn"} \union Live \union Dead]
  /\ cause \in [Attempts -> {"none", "self", "policy", "lsm", "orphan"}]
  /\ descendant \in [Attempts -> {"none", "alive", "dead"}]
  /\ write_fd \in [Attempts -> BOOLEAN]
  /\ pipe \in [Attempts -> BOOLEAN]
  /\ thread \in [Attempts -> {"none", "ended", "failed"} \union Looping]
  /\ closed \in [Attempts -> BOOLEAN]
  /\ events \in [Attempts -> Seq(Event)]
  /\ kill_reason \in [Attempts -> BOOLEAN]

\* The pipe holds the child back: it is past await_parent_release(), let alone
\* running the agent, only while the Monitor of its attempt exists, for as long
\* as run() has not returned and its process is whole.
HookedBeforeExec ==
  \A g \in Attempts :
    /\ Running /\ sup # "return"
    /\ child[g] \in {"released", "agent"}
    => Attached(g)

\* Once the supervisor's process is gone no child of it runs the agent or can
\* still come to: the death signal, the getppid() check and the end of file on
\* the pipe leave no gap between them, whenever the supervisor dies.
OrphanStopped ==
  sup = "gone" => \A g \in Attempts : child[g] \in {"unborn", "start", "armed"} \union Dead

\* A SIGKILL of the enforcer's that ended the agent is in kill_reason, or the
\* handler that sent it is about to put it there.
PolicyKillAccounted ==
  \A g \in Attempts :
    Running /\ cause[g] = "policy" => kill_reason[g] \/ thread[g] = "record"

\* run() takes an agent the enforcer killed for one that crashed only when it
\* reads kill_reason in the window between the handler's kill(2) and its store.
RestartOnlyInWindow ==
  [][sup = "judge" /\ sup' = "sleep" =>
       cause[restart_count] # "policy" \/ thread[restart_count] = "record"]_vars

\* The two ends of the pipe never wait for each other: a child that has not got
\* past read() is the current one and run() has still to answer it, or its byte is
\* in the pipe, or the write end is closed and run() is not in waitpid for it.
NoWaitCycle ==
  \A g \in Attempts : child[g] \in {"start", "armed", "waiting"} =>
    \/ g = restart_count /\ sup \in {"setup", "release"}
    \/ pipe[g]
    \/ ~write_fd[g] /\ sup \notin {"spawn", "wait"}

\* What run() returned fits what happened: a halt for a violation follows a
\* signal and a recorded kill, and Ok with restarts left follows exit code 0.
OutcomeFits ==
  /\ outcome = "PolicyViolationHalt" =>
       child[restart_count] = "signaled" /\ kill_reason[restart_count]
  /\ outcome = "Ok" /\ restart_count < MaxRestarts => child[restart_count] = "exited0"

\* The watch mode implements the contract of module Supervision.
ContractAgent ==
  CASE child[restart_count] = "unborn"     -> "idle"
    [] child[restart_count] \in Starting   -> "held"
    [] child[restart_count] = "agent"      -> "running"
    [] child[restart_count] \in Dead       -> "stopped"

Contract == INSTANCE Supervision WITH
  attempt <- restart_count,
  agent   <- ContractAgent,
  watcher <- IF sup = "gone" THEN "over" ELSE "guarding"

ImplementsContract == Contract!Spec

\* A forked child does not wait for ever: it runs the agent or it ends. Those of
\* earlier attempts have ended.
HandshakeResolves ==
  child[restart_count] = "start" ~> child[restart_count] \in Dead \union {"agent"}

\* A dead agent is noticed: run() moves on to the next attempt or ends.
DeathIsNoticed ==
  \A g \in Attempts :
    child[g] \in Dead ~> restart_count > g \/ sup = "gone"

\* An agent that the policy is against, as an event in its ring says.
Convicted(g) ==
  child[g] = "agent" /\ \E i \in DOMAIN events[g] : events[g][i] = [pid |-> "agent", denied |-> TRUE]

\* What an agent did against the policy, once its event is in the ring, ends the agent:
\* by the enforcer's kill, or with run() and the supervisor's process, whose end stops
\* the agent too. Only an error of the loop thread, which run() does not notice, lets
\* it go on. The agents of earlier attempts are dead.
ViolationEndsAgent ==
  Convicted(restart_count) ~> child[restart_count] # "agent" \/ thread[restart_count] = "failed"

\* The loop thread of a closed Monitor stops, once nothing feeds its ring.
LoopStopsWhenQuiet ==
  \A g \in Attempts :
    <>[](closed[g] /\ descendant[g] # "alive") => <>[](thread[g] \notin Looping)

--------------------------------------------------------------------------------
(* What documents and comments say and the code does not do.               *)

\* enforcer/mod.rs:25-26, README.md:232: a violation never leads to a restart.
\* The handler stores kill_reason after the kill, and run() may read it before;
\* lsm_exec_check's SIGKILL is not reported at all.
NoRestartAfterViolation ==
  sup = "sleep" => cause[restart_count] \notin {"policy", "lsm"}

\* watch.rs:36-39: without a supervisor the supervised program does not run. A
\* program that handles SIGTERM does.
NoAgentWithoutSupervisor ==
  sup = "gone" => \A g \in Attempts : child[g] # "agent"
================================================================================
