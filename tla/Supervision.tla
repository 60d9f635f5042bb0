------------------------------ MODULE Supervision ------------------------------
(***************************************************************************)
(* What `syscallcage watch` promises about the program it starts, with     *)
(* nothing said about pipes, hooks or threads: each attempt is first held, *)
(* then let run, at most MaxRestarts attempts follow the first, a new one  *)
(* begins only when the one before has stopped, and once the watcher is    *)
(* over nothing that was held is ever let run, and what ran is stopped.    *)
(* Module Watch implements this specification.                             *)
(***************************************************************************)
EXTENDS Naturals

CONSTANT MaxRestarts    \* WatchConfig.max_restarts.unwrap_or(0)

VARIABLES
  attempt,   \* which attempt is current, 0 is the first
  agent,     \* the process of the current attempt
  watcher    \* "guarding" while the supervisor's process exists, then "over"

svars == <<attempt, agent, watcher>>

Phases == {"idle", "held", "running", "stopped"}

Init ==
  /\ attempt = 0
  /\ agent = "idle"
  /\ watcher = "guarding"

Hold ==
  /\ watcher = "guarding"
  /\ agent = "idle"
  /\ agent' = "held"
  /\ UNCHANGED <<attempt, watcher>>

Let ==
  /\ watcher = "guarding"
  /\ agent = "held"
  /\ agent' = "running"
  /\ UNCHANGED <<attempt, watcher>>

Stop ==
  /\ agent \in {"held", "running"}
  /\ agent' = "stopped"
  /\ UNCHANGED <<attempt, watcher>>

Retry ==
  /\ watcher = "guarding"
  /\ agent = "stopped"
  /\ attempt < MaxRestarts
  /\ attempt' = attempt + 1
  /\ agent' = "idle"
  /\ UNCHANGED watcher

\* A held process may outlive the watcher for a moment: it still has to find
\* out that its parent is gone. A running one is stopped with the watcher.
Over ==
  /\ watcher = "guarding"
  /\ watcher' = "over"
  /\ \/ /\ agent \in {"held", "running"}
        /\ agent' = "stopped"
     \/ /\ agent # "running"
        /\ agent' = agent
  /\ UNCHANGED attempt

Next == Hold \/ Let \/ Stop \/ Retry \/ Over

\* The orphan is stopped in the end.
StopOrphan == watcher = "over" /\ Stop

SafetySpec == Init /\ [][Next]_svars

Spec == SafetySpec /\ WF_svars(StopOrphan)

================================================================================
