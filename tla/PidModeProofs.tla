----------------------------- MODULE PidModeProofs -----------------------------
(***************************************************************************)
(* Proofs about PidMode, for every size of the ring buffer: the reason the *)
(* program gives for its end is the true one, however a signal, an error   *)
(* of the event loop, the death of the target and the two writers of       *)
(* exit_reason and closed fall together.                                   *)
(***************************************************************************)
EXTENDS PidMode, TLAPS

\* The inductive invariant that explains what is reported: who has set the reason,
\* and where main and the liveness thread are then.
ClosedHasReason ==
  /\ watcher \in {"marking", "closing"} \/ exit_reason = "TargetDied" => target = "collected"
  /\ closed \/ watcher = "closing" => exit_reason # "None"
  /\ main \in {"stopClosing", "failClosing"} => exit_reason # "None"
  /\ main \in {"joining", "report"} => closed
  /\ loop = "ok" => closed
  /\ exit_reason = "UserRequested" =>
       \/ main \in {"stopClosing", "joining"} /\ signal
       \/ main \in {"failClosing", "report"} /\ loop = "error"
       \/ main = "ended" /\ (signal \/ loop = "error")
  /\ main \in {"failing", "failClosing", "report"} => loop \in {"ok", "error"}
  /\ main \in {"stopping", "stopClosing", "joining"} => signal
  /\ outcome = "targetDied" => exit_reason = "TargetDied"
  /\ outcome = "fatal" => loop = "error"
  /\ main # "ended" => outcome = "none"

\* Every step keeps the variables in their types.
LEMMA TypeStep ==
  ASSUME TypeOK, Next
  PROVE  TypeOK'
<1> USE RingCapacityAssumption DEF TypeOK
<1>1. CASE NewMonitor
  BY <1>1 DEF NewMonitor, End, monitor, world
<1>2. CASE RegisterSignals
  BY <1>2 DEF RegisterSignals, End, monitor, world
<1>3. CASE TakeSignal
  BY <1>3 DEF TakeSignal, monitor, world
<1>4. CASE TakeResult
  BY <1>4 DEF TakeResult, monitor, world
<1>5. CASE CloseReason
  BY <1>5 DEF CloseReason, SetReason, monitor, world
<1>6. CASE CloseStore
  BY <1>6 DEF CloseStore, monitor, world
<1>7. CASE JoinLoop
  BY <1>7 DEF JoinLoop, End, monitor, world
<1>8. CASE Report
  BY <1>8 DEF Report, End, monitor, world
<1>9. CASE StartLoop
  BY <1>9 DEF StartLoop, monitor, world
<1>10. CASE PollRing
  BY <1>10 DEF PollRing, monitor, world
<1>11. CASE DrainRing
  BY <1>11 DEF DrainRing, monitor, world
<1>12. CASE LookAtClosed
  BY <1>12 DEF LookAtClosed, monitor, world
<1>13. CASE LookAtTarget
  BY <1>13 DEF LookAtTarget, monitor, world
<1>14. CASE MarkDied
  BY <1>14 DEF MarkDied, SetReason, monitor, world
<1>15. CASE CloseLoop
  BY <1>15 DEF CloseLoop, monitor, world
<1>16. CASE SignalArrives
  BY <1>16 DEF SignalArrives, End, monitor, world
<1>17. CASE PollFails
  BY <1>17 DEF PollFails, monitor, world
<1>18. CASE TargetActs
  BY <1>18 DEF TargetActs, monitor, world
<1>19. CASE TargetForks
  BY <1>19 DEF TargetForks, monitor, world
<1>20. CASE DescendantsEnd
  <2>1. descendants' \in BOOLEAN
    BY <1>20 DEF DescendantsEnd
  <2>2. UNCHANGED <<main, outcome, signal, target, ring, monitor>>
    BY <1>20 DEF DescendantsEnd
  <2>3. QED
    BY <2>1, <2>2 DEF monitor
<1>21. CASE TargetDies
  BY <1>21 DEF TargetDies, monitor, world
<1>22. CASE TargetCollected
  BY <1>22 DEF TargetCollected, monitor, world
<1>23. QED
  BY <1>1, <1>2, <1>3, <1>4, <1>5, <1>6, <1>7, <1>8, <1>9, <1>10, <1>11, <1>12, <1>13, <1>14, <1>15, <1>16, <1>17, <1>18, <1>19, <1>20, <1>21, <1>22 DEF Next, MainTask, EventLoop, Watcher

\* Whoever stores into closed has made sure of a reason before.
LEMMA ReasonStep ==
  ASSUME TypeOK, ClosedHasReason, Next
  PROVE  ClosedHasReason'
<1> USE DEF TypeOK, ClosedHasReason
<1>1. CASE NewMonitor
  BY <1>1 DEF NewMonitor, End, monitor, world
<1>2. CASE RegisterSignals
  BY <1>2 DEF RegisterSignals, End, monitor, world
<1>3. CASE TakeSignal
  BY <1>3 DEF TakeSignal, monitor, world
<1>4. CASE TakeResult
  BY <1>4 DEF TakeResult, monitor, world
<1>5. CASE CloseReason
  BY <1>5 DEF CloseReason, SetReason, monitor, world
<1>6. CASE CloseStore
  BY <1>6 DEF CloseStore, monitor, world
<1>7. CASE JoinLoop
  BY <1>7 DEF JoinLoop, End, monitor, world
<1>8. CASE Report
  BY <1>8 DEF Report, End, monitor, world
<1>9. CASE StartLoop
  BY <1>9 DEF StartLoop, monitor, world
<1>10. CASE PollRing
  BY <1>10 DEF PollRing, monitor, world
<1>11. CASE DrainRing
  BY <1>11 DEF DrainRing, monitor, world
<1>12. CASE LookAtClosed
  BY <1>12 DEF LookAtClosed, monitor, world
<1>13. CASE LookAtTarget
  BY <1>13 DEF LookAtTarget, monitor, world
<1>14. CASE MarkDied
  BY <1>14 DEF MarkDied, SetReason, monitor, world
<1>15. CASE CloseLoop
  BY <1>15 DEF CloseLoop, monitor, world
<1>16. CASE SignalArrives
  BY <1>16 DEF SignalArrives, End, monitor, world
<1>17. CASE PollFails
  BY <1>17 DEF PollFails, monitor, world
<1>18. CASE TargetActs
  BY <1>18 DEF TargetActs, monitor, world
<1>19. CASE TargetForks
  BY <1>19 DEF TargetForks, monitor, world
<1>20. CASE DescendantsEnd
  BY <1>20 DEF DescendantsEnd, monitor, world
<1>21. CASE TargetDies
  BY <1>21 DEF TargetDies, monitor, world
<1>22. CASE TargetCollected
  BY <1>22 DEF TargetCollected, monitor, world
<1>23. QED
  BY <1>1, <1>2, <1>3, <1>4, <1>5, <1>6, <1>7, <1>8, <1>9, <1>10, <1>11, <1>12, <1>13, <1>14, <1>15, <1>16, <1>17, <1>18, <1>19, <1>20, <1>21, <1>22 DEF Next, MainTask, EventLoop, Watcher

\* A reachable state satisfies the inductive invariant.
LEMMA Inductive == SafetySpec => [](TypeOK /\ ClosedHasReason)
<1>1. Init => TypeOK /\ ClosedHasReason
  <2> SUFFICES ASSUME Init
               PROVE  TypeOK /\ ClosedHasReason
    OBVIOUS
  <2>1. ring \in 0..RingCapacity
    BY RingCapacityAssumption DEF Init
  <2>2. signal \in BOOLEAN /\ descendants \in BOOLEAN /\ closed \in BOOLEAN
    BY Zenon DEF Init
  <2>3. TypeOK
    BY <2>1, <2>2 DEF Init, TypeOK
  <2>4. ~closed
    BY DEF Init
  <2>5. ClosedHasReason
    BY <2>4 DEF Init, ClosedHasReason
  <2>6. QED
    BY <2>3, <2>5
<1>2. ASSUME TypeOK, ClosedHasReason, [Next]_vars
      PROVE  TypeOK' /\ ClosedHasReason'
  <2>1. CASE Next
    BY <1>2, <2>1, TypeStep, ReasonStep
  <2>2. CASE UNCHANGED vars
    BY <1>2, <2>2 DEF vars, TypeOK, ClosedHasReason
  <2>3. QED
    BY <1>2, <2>1, <2>2
<1>3. QED
  BY <1>1, <1>2, PTL DEF SafetySpec

\* The variables of main(), of the two threads and of the target stay in their types.
THEOREM TypeCorrect == SafetySpec => []TypeOK
BY Inductive, PTL

\* Whoever finds closed set finds the reason for it: exit_reason comes first in
\* close() and in the liveness thread, however the two overtake each other.
THEOREM ClosedHasReasonHolds == SafetySpec => []ClosedHasReason
BY Inductive, PTL

\* The program says "the monitored process ended" only of one that ended.
THEOREM NormalEndIsTrueHolds == SafetySpec => []NormalEndIsTrue
<1>1. ClosedHasReason => NormalEndIsTrue
  BY DEF ClosedHasReason, NormalEndIsTrue
<1>2. QED
  BY <1>1, Inductive, PTL

\* The program ends with "no longer protecting" only after an error of the event
\* loop, never because the target's death and close() met.
THEOREM FatalMeansErrorHolds == SafetySpec => []FatalMeansError
<1>1. ClosedHasReason => FatalMeansError
  BY DEF ClosedHasReason, FatalMeansError
<1>2. QED
  BY <1>1, Inductive, PTL

\* Monitor::start() returns Ok only for a signal that was taken or a dead target.
THEOREM LoopStopsForAReasonHolds == SafetySpec => []LoopStopsForAReason
<1>1. TypeOK /\ ClosedHasReason => LoopStopsForAReason
  BY DEF TypeOK, ClosedHasReason, LoopStopsForAReason
<1>2. QED
  BY <1>1, Inductive, PTL

--------------------------------------------------------------------------------
(* Nobody waits for ever.                                                  *)

\* While the event loop turns, the liveness thread has been spawned; and it leaves
\* its own loop only when closed is set, by itself or by another.
Attended ==
  /\ loop \in {"check", "poll", "drain"} => watcher # "none"
  /\ watcher = "ended" => closed

\* The thread is spawned before the loop is entered, and closed is never taken back.
LEMMA AttendedStep ==
  ASSUME Attended, Next
  PROVE  Attended'
<1> USE DEF Attended
<1>1. CASE NewMonitor
  BY <1>1 DEF NewMonitor, End, monitor, world
<1>2. CASE RegisterSignals
  BY <1>2 DEF RegisterSignals, End, monitor, world
<1>3. CASE TakeSignal
  BY <1>3 DEF TakeSignal, monitor, world
<1>4. CASE TakeResult
  BY <1>4 DEF TakeResult, monitor, world
<1>5. CASE CloseReason
  BY <1>5 DEF CloseReason, SetReason, monitor, world
<1>6. CASE CloseStore
  BY <1>6 DEF CloseStore, monitor, world
<1>7. CASE JoinLoop
  BY <1>7 DEF JoinLoop, End, monitor, world
<1>8. CASE Report
  BY <1>8 DEF Report, End, monitor, world
<1>9. CASE StartLoop
  BY <1>9 DEF StartLoop, monitor, world
<1>10. CASE PollRing
  BY <1>10 DEF PollRing, monitor, world
<1>11. CASE DrainRing
  BY <1>11 DEF DrainRing, monitor, world
<1>12. CASE LookAtClosed
  BY <1>12 DEF LookAtClosed, monitor, world
<1>13. CASE LookAtTarget
  BY <1>13 DEF LookAtTarget, monitor, world
<1>14. CASE MarkDied
  BY <1>14 DEF MarkDied, SetReason, monitor, world
<1>15. CASE CloseLoop
  BY <1>15 DEF CloseLoop, monitor, world
<1>16. CASE SignalArrives
  BY <1>16 DEF SignalArrives, End, monitor, world
<1>17. CASE PollFails
  BY <1>17 DEF PollFails, monitor, world
<1>18. CASE TargetActs
  BY <1>18 DEF TargetActs, monitor, world
<1>19. CASE TargetForks
  BY <1>19 DEF TargetForks, monitor, world
<1>20. CASE DescendantsEnd
  BY <1>20 DEF DescendantsEnd, monitor, world
<1>21. CASE TargetDies
  BY <1>21 DEF TargetDies, monitor, world
<1>22. CASE TargetCollected
  BY <1>22 DEF TargetCollected, monitor, world
<1>23. QED
  BY <1>1, <1>2, <1>3, <1>4, <1>5, <1>6, <1>7, <1>8, <1>9, <1>10, <1>11, <1>12, <1>13, <1>14, <1>15, <1>16, <1>17, <1>18, <1>19, <1>20, <1>21, <1>22 DEF Next, MainTask, EventLoop, Watcher

\* Nobody waits for what will not come: the select! of main() always has somebody
\* to end it, the liveness thread or closed, and main() joins the loop only after
\* closed. What is left to fairness is that those who can move do.
THEOREM NoEndlessWaitHolds == SafetySpec => []NoEndlessWait
<1>1. Init => Attended
  BY DEF Init, Attended
<1>2. ASSUME Attended, [Next]_vars
      PROVE  Attended'
  <2>1. CASE Next
    BY <1>2, <2>1, AttendedStep
  <2>2. CASE UNCHANGED vars
    BY <1>2, <2>2 DEF vars, Attended
  <2>3. QED
    BY <1>2, <2>1, <2>2
<1>3. SafetySpec => []Attended
  BY <1>1, <1>2, PTL DEF SafetySpec
<1>4. TypeOK /\ ClosedHasReason /\ Attended => NoEndlessWait
  BY DEF TypeOK, ClosedHasReason, Attended, NoEndlessWait
<1>5. QED
  BY <1>3, <1>4, Inductive, PTL
================================================================================
