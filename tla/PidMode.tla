--------------------------------- MODULE PidMode ---------------------------------
(***************************************************************************)
(* `syscallcage --pid N` (syscallcage/src/main.rs) and the life cycle of   *)
(* its Monitor (monitor/mod.rs): the main task's select! over SIGINT,      *)
(* SIGTERM and the end of Monitor::start(), the event loop, the liveness   *)
(* thread that start() spawns, and close(). They share exit_reason, set by *)
(* compare_exchange, and closed.                                           *)
(***************************************************************************)
EXTENDS Naturals

CONSTANT RingCapacity   \* events the ring holds (16 MB in the code)

ASSUME RingCapacityAssumption == RingCapacity \in Nat \ {0}

VARIABLES
  main,          \* where the main task is
  outcome,       \* how the process ended
  signal,        \* TRUE: SIGINT or SIGTERM has arrived
  target,        \* the monitored process: "alive", "zombie", "collected"
  descendants,   \* TRUE while a process that inherited the monitoring lives
  loop,          \* Monitor::start(): where it is, or what it returned
  ring,          \* number of events waiting
  watcher,       \* the liveness thread
  exit_reason,   \* "None", "UserRequested", "TargetDied"
  closed

vars ==
  <<main, outcome, signal, target, descendants, loop, ring, watcher, exit_reason, closed>>
monitor == <<loop, watcher, exit_reason, closed>>
world   == <<signal, target, descendants, ring>>

Init ==
  /\ main = "new"
  /\ outcome = "none"
  /\ signal = FALSE
  /\ target = "alive"
  /\ descendants = FALSE
  /\ loop = "none"
  /\ ring = 0
  /\ watcher = "none"
  /\ exit_reason = "None"
  /\ closed = FALSE

Up == main # "ended"     \* the process exists, and its threads with it

End(how) ==
  /\ main' = "ended"
  /\ outcome' = how

\* Mutant of SetReason: a store in place of the compare_exchange.
OverwriteReason(reason) == exit_reason' = reason

\* exit_reason.compare_exchange(None, reason)
SetReason(reason) ==
  exit_reason' = IF exit_reason = "None" THEN reason ELSE exit_reason

--------------------------------------------------------------------------------
(* The main task.                                                          *)

\* Monitor::new, which wants the pid to exist, and spawn_blocking(start).
NewMonitor ==
  /\ main = "new"
  /\ \/ /\ target # "collected"
        /\ main' = "register"
        /\ loop' = "starting"
        /\ UNCHANGED outcome
     \/ End("failed") /\ UNCHANGED loop
  /\ UNCHANGED <<world, watcher, exit_reason, closed>>

\* The handlers for both signals; an error of either ends the program.
RegisterSignals ==
  /\ main = "register"
  /\ \/ main' = "select" /\ UNCHANGED outcome
     \/ End("failed")
  /\ UNCHANGED <<world, monitor>>

\* A branch `_ = sigint.recv()` or `_ = sigterm.recv()`, which calls close().
TakeSignal ==
  /\ main = "select"
  /\ signal
  /\ main' = "stopping"
  /\ UNCHANGED <<outcome, world, monitor>>

\* The branch `res = &mut monitor_handle`, which calls close() too.
TakeResult ==
  /\ main = "select"
  /\ loop \in {"ok", "error"}
  /\ main' = "failing"
  /\ UNCHANGED <<outcome, world, monitor>>

\* Monitor::close(): the reason, unless there is one, and then the store into
\* closed. The main task then waits for the loop, or has its result already.
CloseReason ==
  /\ \/ main = "stopping" /\ main' = "stopClosing"
     \/ main = "failing" /\ main' = "failClosing"
  /\ SetReason("UserRequested")
  /\ UNCHANGED <<outcome, world, loop, watcher, closed>>

\* Mutant of CloseStore: close() leaves closed alone.
CloseReasonOnly ==
  /\ \/ main = "stopClosing" /\ main' = "joining"
     \/ main = "failClosing" /\ main' = "report"
  /\ UNCHANGED <<outcome, world, monitor>>

CloseStore ==
  /\ \/ main = "stopClosing" /\ main' = "joining"
     \/ main = "failClosing" /\ main' = "report"
  /\ closed' = TRUE
  /\ UNCHANGED <<outcome, world, loop, watcher, exit_reason>>

JoinLoop ==
  /\ main = "joining"
  /\ loop \in {"ok", "error"}
  /\ End("stopped")
  /\ UNCHANGED <<world, monitor>>

\* exited_because_target_died() tells the normal end from the fatal one.
Report ==
  /\ main = "report"
  /\ End(IF exit_reason = "TargetDied" THEN "targetDied" ELSE "fatal")
  /\ UNCHANGED <<world, monitor>>

\* Until a handler is registered a signal has its default effect.
SignalArrives ==
  /\ Up
  /\ ~signal
  /\ signal' = TRUE
  /\ IF main \in {"new", "register"} THEN End("killed") ELSE UNCHANGED <<main, outcome>>
  /\ UNCHANGED <<target, descendants, ring, monitor>>

--------------------------------------------------------------------------------
(* Monitor::start(): the event loop and the liveness thread.               *)

\* The liveness thread is spawned first; then take_map and RingBuf may fail.
StartLoop ==
  /\ Up
  /\ loop = "starting"
  /\ watcher' = "checking"
  /\ loop' \in {"check", "error"}
  /\ UNCHANGED <<main, outcome, world, exit_reason, closed>>

\* `while !closed { poll(fd, 500 ms); if readable { ... } }`: closed is looked at
\* first, and an event or a close() may come between that and the answer of poll.
PollRing ==
  /\ Up
  /\ \/ loop = "check" /\ loop' = IF closed THEN "ok" ELSE "poll"
     \/ loop = "poll" /\ loop' = IF ring = 0 THEN "check" ELSE "drain"
  /\ UNCHANGED <<main, outcome, world, watcher, exit_reason, closed>>

PollFails ==
  /\ Up
  /\ loop = "poll"
  /\ loop' = "error"
  /\ UNCHANGED <<main, outcome, world, watcher, exit_reason, closed>>

\* Mutant of DrainRing: an item is taken without asking whether there is one.
DrainUnchecked ==
  /\ Up
  /\ loop = "drain"
  /\ ring' = ring - 1
  /\ loop' \in {"drain", "check"}
  /\ UNCHANGED <<main, outcome, signal, target, descendants, watcher, exit_reason, closed>>

\* `while let Some(item) = ring_buf.next()` does not look at closed.
DrainRing ==
  /\ Up
  /\ loop = "drain"
  /\ \/ ring > 0 /\ ring' = ring - 1 /\ UNCHANGED loop
     \/ ring = 0 /\ loop' = "check" /\ UNCHANGED ring
  /\ UNCHANGED <<main, outcome, signal, target, descendants, watcher, exit_reason, closed>>

\* The liveness thread: closed is looked at, two seconds pass, process_exists()
\* is asked. A zombie still exists for kill(pid, 0).
LookAtClosed ==
  /\ Up
  /\ watcher = "checking"
  /\ watcher' = IF closed THEN "ended" ELSE "sleeping"
  /\ UNCHANGED <<main, outcome, world, loop, exit_reason, closed>>

\* Mutant of LookAtTarget: any failure of kill(pid, 0), EPERM too, means death.
LookAtTargetDenied ==
  /\ Up
  /\ watcher = "sleeping"
  /\ watcher' \in {"marking", "checking"}
  /\ UNCHANGED <<main, outcome, world, loop, exit_reason, closed>>

LookAtTarget ==
  /\ Up
  /\ watcher = "sleeping"
  /\ watcher' = IF target = "collected" THEN "marking" ELSE "checking"
  /\ UNCHANGED <<main, outcome, world, loop, exit_reason, closed>>

\* Mutant of MarkDied: the reason is not set before the store into closed.
MarkNothing ==
  /\ Up
  /\ watcher = "marking"
  /\ watcher' = "closing"
  /\ UNCHANGED <<main, outcome, world, loop, exit_reason, closed>>

\* compare_exchange first, the store into closed after it.
MarkDied ==
  /\ Up
  /\ watcher = "marking"
  /\ SetReason("TargetDied")
  /\ watcher' = "closing"
  /\ UNCHANGED <<main, outcome, world, loop, closed>>

\* Mutant of CloseLoop: closed is left alone.
CloseNothing ==
  /\ Up
  /\ watcher = "closing"
  /\ watcher' = "ended"
  /\ UNCHANGED <<main, outcome, world, loop, exit_reason, closed>>

CloseLoop ==
  /\ Up
  /\ watcher = "closing"
  /\ closed' = TRUE
  /\ watcher' = "ended"
  /\ UNCHANGED <<main, outcome, world, loop, exit_reason>>

--------------------------------------------------------------------------------
(* The monitored process and what it forks.                                *)

\* A hook fires for one of them and queues an event, unless the ring is full.
TargetActs ==
  /\ Up
  /\ loop # "none"
  /\ target = "alive" \/ descendants
  /\ ring < RingCapacity
  /\ ring' = ring + 1
  /\ UNCHANGED <<main, outcome, signal, target, descendants, monitor>>

\* handle_fork inherits the monitoring, while the programs are attached.
TargetForks ==
  /\ Up
  /\ loop # "none"
  /\ target = "alive"
  /\ ~descendants
  /\ descendants' = TRUE
  /\ UNCHANGED <<main, outcome, signal, target, ring, monitor>>

DescendantsEnd ==
  /\ descendants
  /\ descendants' = FALSE
  /\ UNCHANGED <<main, outcome, signal, target, ring, monitor>>

TargetDies ==
  /\ target = "alive"
  /\ target' = "zombie"
  /\ UNCHANGED <<main, outcome, signal, descendants, ring, monitor>>

\* Its parent waits for it.
TargetCollected ==
  /\ target = "zombie"
  /\ target' = "collected"
  /\ UNCHANGED <<main, outcome, signal, descendants, ring, monitor>>

MainTask ==
  \/ NewMonitor \/ RegisterSignals \/ TakeSignal \/ TakeResult
  \/ CloseReason \/ CloseStore \/ JoinLoop \/ Report
EventLoop == StartLoop \/ PollRing \/ DrainRing
Watcher == LookAtClosed \/ LookAtTarget \/ MarkDied \/ CloseLoop

Next ==
  \/ MainTask \/ EventLoop \/ Watcher
  \/ SignalArrives \/ PollFails
  \/ TargetActs \/ TargetForks \/ DescendantsEnd \/ TargetDies \/ TargetCollected

\* The runtime schedules the three threads. Nothing is assumed of the monitored
\* process, of its parent, of signals or of poll's errors.
Fairness == WF_vars(MainTask) /\ WF_vars(EventLoop) /\ WF_vars(Watcher)

SafetySpec == Init /\ [][Next]_vars

Spec == SafetySpec /\ Fairness

--------------------------------------------------------------------------------
(* Properties.                                                             *)

TypeOK ==
  /\ main \in {"new", "register", "select", "stopping", "stopClosing", "failing",
              "failClosing", "joining", "report", "ended"}
  /\ outcome \in {"none", "stopped", "targetDied", "fatal", "failed", "killed"}
  /\ signal \in BOOLEAN
  /\ target \in {"alive", "zombie", "collected"}
  /\ descendants \in BOOLEAN
  /\ loop \in {"none", "starting", "check", "poll", "drain", "ok", "error"}
  /\ ring \in 0..RingCapacity
  /\ watcher \in {"none", "sleeping", "checking", "marking", "closing", "ended"}
  /\ exit_reason \in {"None", "UserRequested", "TargetDied"}
  /\ closed \in BOOLEAN

\* "The process ended, all is well" is only ever said of a process that ended.
NormalEndIsTrue == outcome = "targetDied" => target = "collected"

\* "No longer protecting the PID" (exit code 1) is only said after an error of
\* the event loop: the death of the target, however it falls together with
\* close(), is never reported as a failure.
FatalMeansError == outcome = "fatal" => loop = "error"

\* The event loop stops without an error only if someone asked it to: it was a
\* signal that main has taken, or the target is dead and the reason says so.
LoopStopsForAReason ==
  loop = "ok" =>
    \/ signal /\ main \in {"stopClosing", "joining", "ended"}
    \/ exit_reason = "TargetDied"

\* Nobody waits for what will not come: while main stands in select and the loop
\* turns, the liveness thread is there to look at the target, or closed is set; and
\* main waits for the loop only once closed is.
NoEndlessWait ==
  /\ main \in {"register", "select"} /\ loop \in {"check", "poll", "drain"} =>
       closed \/ watcher \in {"checking", "sleeping", "marking", "closing"}
  /\ main = "joining" => closed

\* After a signal the program ends, once what is monitored comes to rest.
SignalEndsIt ==
  <>[](target # "alive" /\ ~descendants) => (signal ~> main = "ended")

\* When the target is dead and collected the program ends, though a descendant
\* that keeps acting may hold it up.
DeathEndsIt ==
  <>[](~descendants) => (target = "collected" ~> main = "ended")
================================================================================
