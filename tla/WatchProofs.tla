------------------------------ MODULE WatchProofs ------------------------------
(***************************************************************************)
(* Proofs about Watch, for every number of restarts, every ring size, with *)
(* and without the LSM hooks. The induction is split in one lemma for each *)
(* part of the invariant; a step that leaves the part's variables alone is *)
(* covered once, by its UNCHANGED case.                                    *)
(***************************************************************************)
EXTENDS Watch, TLAPS

(* The inductive invariant is TypeOK with these three and PolicyKillAccounted. *)

\* Attempts not begun are untouched, past ones are over.
AttemptsInOrder ==
  /\ \A g \in Attempts : g < restart_count => child[g] \in Dead
  /\ \A g \in Attempts :
       (g > restart_count \/ (g = restart_count /\ sup = "fork")) =>
         child[g] = "unborn" /\ ~pipe[g] /\ thread[g] = "none"
  /\ sup \in {"setup", "release", "spawn"} => thread[restart_count] = "none"
  /\ sup \in {"close", "judge", "sleep"} => child[restart_count] \in Dead
  /\ sup = "sleep" => restart_count < MaxRestarts

\* The child is past the pipe only after the byte, the byte after the Monitor.
ByteAfterMonitor ==
  pipe[restart_count] \/ child[restart_count] \in {"released", "agent"} =>
    sup \notin {"fork", "setup", "release"}

\* What is known of the cause of death fits the state of the child.
CauseFits ==
  \A g \in Attempts : cause[g] # "none" => child[g] = "signaled"

IndInv == AttemptsInOrder /\ ByteAfterMonitor /\ CauseFits /\ PolicyKillAccounted

\* A SIGKILL changes the three variables of its target within their types, and
\* changes no child that is not alive.
LEMMA KilledKeeps ==
  ASSUME TypeOK, NEW g \in Attempts, NEW pid \in {"agent", "descendant"},
         NEW why \in {"policy", "lsm"}, Killed(g, pid, why)
  PROVE  /\ child' \in [Attempts -> {"unborn"} \union Live \union Dead]
         /\ cause' \in [Attempts -> {"none", "self", "policy", "lsm", "orphan"}]
         /\ descendant' \in [Attempts -> {"none", "alive", "dead"}]
         /\ \A h \in Attempts : child[h] \notin Live => child'[h] = child[h]
         /\ \A h \in Attempts : child[h] \in Live => child'[h] \in {child[h], "signaled"}
<1> USE DEF TypeOK, Live, Starting, Dead
<1>1. CASE pid = "agent" /\ child[g] \in Live
  <2>1. /\ child' = [child EXCEPT ![g] = "signaled"]
        /\ cause' = [cause EXCEPT ![g] = why]
        /\ UNCHANGED descendant
    BY <1>1 DEF Killed, ChildBecomes
  <2>2. child' \in [Attempts -> {"unborn"} \union Live \union Dead]
    BY <2>1
  <2>3. cause' \in [Attempts -> {"none", "self", "policy", "lsm", "orphan"}]
    BY <2>1
  <2>4. \A h \in Attempts : child'[h] = IF h = g THEN "signaled" ELSE child[h]
    BY <2>1
  <2>5. QED
    BY <1>1, <2>1, <2>2, <2>3, <2>4
<1>2. CASE pid = "agent" /\ child[g] \notin Live
  BY <1>2 DEF Killed
<1>3. CASE pid = "descendant"
  BY <1>3 DEF Killed
<1>4. QED
  BY <1>1, <1>2, <1>3

\* Every step keeps the variables in their types.
LEMMA TypeStep ==
  ASSUME TypeOK, AttemptsInOrder, Next
  PROVE  TypeOK'
<1> USE DEF TypeOK, SupStates, Outcomes, Live, Starting, Dead, Looping
<1>1. CASE ForkChild
  BY <1>1 DEF ForkChild, Return
<1>2. CASE NewMonitor
  BY <1>2 DEF NewMonitor, Return
<1>3. CASE Release
  BY <1>3 DEF Release, Return
<1>4. CASE SpawnLoop
  BY <1>4 DEF SpawnLoop
<1>5. CASE WaitChild
  BY <1>5 DEF WaitChild
<1>6. CASE WaitFails
  BY <1>6 DEF WaitFails
<1>7. CASE CloseMonitor
  BY <1>7 DEF CloseMonitor, Return
<1>8. CASE Judge
  BY <1>8 DEF Judge, JudgeSignaled, JudgeExited, RetryOrGiveUp, Return
<1>9. CASE NextAttempt
  BY <1>9, MaxRestartsAssumption DEF NextAttempt, AttemptsInOrder, Attempts
<1>10. CASE ExitMain
  BY <1>10 DEF ExitMain, EndProcess
<1>11. CASE Crash
  BY <1>11 DEF Crash, EndProcess, Running
<1>12. CASE Reparent
  BY <1>12 DEF Reparent, Orphan, SurvivesTerm
<1>13. ASSUME NEW g \in Attempts, ChildStart(g)
       PROVE  TypeOK'
  <2>1. \E s \in Live \union Dead : child' = [child EXCEPT ![g] = s]
    BY <1>13 DEF ChildStart, ArmDeathSignal, CheckParent, AwaitRelease, ExecAgent, ChildBecomes
  <2>2. child' \in [Attempts -> {"unborn"} \union Live \union Dead]
    BY <2>1
  <2>3. pipe' \in [Attempts -> BOOLEAN]
    BY <1>13 DEF ChildStart, AwaitRelease
  <2>4. QED
    BY <1>13, <2>2, <2>3 DEF ChildStart
<1>14. ASSUME NEW g \in Attempts, ChildAborts(g)
       PROVE  TypeOK'
  BY <1>14 DEF ChildAborts, AbortStart, ChildBecomes
<1>15. ASSUME NEW g \in Attempts, AgentEnds(g)
       PROVE  TypeOK'
  <2>1. \E s \in Dead : child' = [child EXCEPT ![g] = s]
    BY <1>15 DEF AgentEnds, ChildBecomes
  <2>2. child' \in [Attempts -> {"unborn"} \union Live \union Dead]
    BY <2>1
  <2>3. cause' \in [Attempts -> {"none", "self", "policy", "lsm", "orphan"}]
    BY <1>15 DEF AgentEnds
  <2>4. QED
    BY <1>15, <2>2, <2>3 DEF AgentEnds
<1>16. ASSUME NEW g \in Attempts, AgentForks(g)
       PROVE  TypeOK'
  BY <1>16 DEF AgentForks
<1>17. ASSUME NEW g \in Attempts, DescendantEnds(g)
       PROVE  TypeOK'
  BY <1>17 DEF DescendantEnds
<1>18. ASSUME NEW g \in Attempts, EmitEvent(g)
       PROVE  TypeOK'
  BY <1>18 DEF EmitEvent
<1>19. ASSUME NEW g \in Attempts, LsmKills(g)
       PROVE  TypeOK'
  <2> SUFFICES ASSUME NEW pid \in {"agent", "descendant"}, Killed(g, pid, "lsm")
                PROVE  TypeOK'
    BY <1>19 DEF LsmKills
  <2>1. QED
    BY <1>19, KilledKeeps DEF LsmKills
<1>20. ASSUME NEW g \in Attempts, PollEvents(g)
       PROVE  TypeOK'
  BY <1>20 DEF PollEvents, LoopBecomes
<1>21. ASSUME NEW g \in Attempts, HandleEvent(g)
       PROVE  TypeOK'
  <2>1. CASE events[g] = <<>>
    BY <1>21, <2>1 DEF HandleEvent, LoopBecomes
  <2>2. ASSUME events[g] # <<>>
        PROVE  TypeOK'
    <3>1. Head(events[g]) \in Event /\ Tail(events[g]) \in Seq(Event)
      BY <2>2
    <3> DEFINE rest == Tail(events[g])
    <3>6. events' = [events EXCEPT ![g] = rest]
      BY <1>21, <2>2 DEF HandleEvent
    <3>7. rest \in Seq(Event)
      BY <3>1
    <3> HIDE DEF rest
    <3>2. events' \in [Attempts -> Seq(Event)]
      BY <3>6, <3>7
    <3>3. CASE UNCHANGED <<thread, child, cause, descendant>>
      BY <1>21, <3>2, <3>3 DEF HandleEvent
    <3>4. CASE Killed(g, Head(events[g]).pid, "policy") /\ LoopBecomes(g, "record")
      <4>1. Head(events[g]).pid \in {"agent", "descendant"}
        BY <3>1 DEF Event
      <4>2. thread' \in [Attempts -> {"none", "ended", "failed"} \union Looping]
        BY <3>4 DEF LoopBecomes
      <4>3. /\ child' \in [Attempts -> {"unborn"} \union Live \union Dead]
            /\ cause' \in [Attempts -> {"none", "self", "policy", "lsm", "orphan"}]
            /\ descendant' \in [Attempts -> {"none", "alive", "dead"}]
        BY <3>4, <4>1, KilledKeeps
      <4>4. UNCHANGED <<sup, outcome, restart_count, write_fd, pipe, closed, kill_reason>>
        BY <1>21 DEF HandleEvent
      <4>5. QED
        BY <3>2, <4>2, <4>3, <4>4
    <3>5. QED
      BY <1>21, <2>2, <3>3, <3>4 DEF HandleEvent
  <2>3. QED
    BY <2>1, <2>2
<1>22. ASSUME NEW g \in Attempts, RecordKill(g)
       PROVE  TypeOK'
  BY <1>22 DEF RecordKill, LoopBecomes
<1>23. ASSUME NEW g \in Attempts, LoopFails(g)
       PROVE  TypeOK'
  BY <1>23 DEF LoopFails, LoopBecomes
<1>24. ASSUME NEW g \in Attempts, NoticeDeath(g)
       PROVE  TypeOK'
  BY <1>24 DEF NoticeDeath
<1>25. QED
  BY <1>1, <1>2, <1>3, <1>4, <1>5, <1>6, <1>7, <1>8, <1>9, <1>10, <1>11, <1>12, <1>13, <1>14, <1>15, <1>16, <1>17, <1>18, <1>19, <1>20, <1>21, <1>22, <1>23, <1>24 DEF Next, Supervisor, Loop

\* A step of a live child, or of what acts on it, leaves the order alone.
LEMMA OrderKept ==
  ASSUME TypeOK, AttemptsInOrder, UNCHANGED <<sup, restart_count, thread>>,
         \A h \in Attempts :
           child[h] \notin Live => child'[h] = child[h] /\ pipe'[h] = pipe[h]
  PROVE  AttemptsInOrder'
BY DEF TypeOK, AttemptsInOrder, Attempts, Live, Starting, Dead

\* Attempts begin one after the other, each in a fresh state.
LEMMA OrderStep ==
  ASSUME TypeOK, AttemptsInOrder, Next
  PROVE  AttemptsInOrder'
<1> USE MaxRestartsAssumption DEF TypeOK, AttemptsInOrder, Attempts, Live, Starting, Dead, Looping
<1>1. CASE ForkChild
  BY <1>1 DEF ForkChild, Return
<1>2. CASE NewMonitor
  BY <1>2 DEF NewMonitor, Return
<1>3. CASE Release
  BY <1>3 DEF Release, Return
<1>4. CASE SpawnLoop
  BY <1>4 DEF SpawnLoop
<1>5. CASE WaitChild
  BY <1>5 DEF WaitChild
<1>6. CASE WaitFails
  BY <1>6 DEF WaitFails
<1>7. CASE CloseMonitor
  BY <1>7 DEF CloseMonitor, Return
<1>8. CASE Judge
  BY <1>8 DEF Judge, JudgeSignaled, JudgeExited, RetryOrGiveUp, Return
<1>9. CASE NextAttempt
  BY <1>9 DEF NextAttempt
<1>10. CASE ExitMain
  BY <1>10 DEF ExitMain, EndProcess
<1>11. CASE Crash
  BY <1>11 DEF Crash, EndProcess, Running
<1>12. CASE Reparent
  <2>1. \A h \in Attempts : child[h] \notin Live => child'[h] = child[h]
    BY <1>12 DEF Reparent, Orphan, Armed
  <2>2. QED
    BY <1>12, <2>1 DEF Reparent
<1>13. ASSUME NEW g \in Attempts, ChildStart(g)
       PROVE  AttemptsInOrder'
  <2>1. child[g] \in Live /\ \A h \in Attempts \ {g} : child'[h] = child[h] /\ pipe'[h] = pipe[h]
    BY <1>13 DEF ChildStart, ArmDeathSignal, CheckParent, AwaitRelease, ExecAgent, ChildBecomes
  <2>2. QED
    BY <1>13, <2>1, OrderKept DEF ChildStart
<1>14. ASSUME NEW g \in Attempts, ChildAborts(g)
       PROVE  AttemptsInOrder'
  <2>1. child[g] \in Live /\ \A h \in Attempts \ {g} : child'[h] = child[h]
    BY <1>14 DEF ChildAborts, AbortStart, ChildBecomes
  <2>2. QED
    BY <1>14, <2>1, OrderKept DEF ChildAborts
<1>15. ASSUME NEW g \in Attempts, AgentEnds(g)
       PROVE  AttemptsInOrder'
  <2>1. child[g] \in Live /\ \A h \in Attempts \ {g} : child'[h] = child[h]
    BY <1>15 DEF AgentEnds, ChildBecomes
  <2>2. QED
    BY <1>15, <2>1, OrderKept DEF AgentEnds
<1>16. ASSUME NEW g \in Attempts, LsmKills(g)
       PROVE  AttemptsInOrder'
  <2>1. \A h \in Attempts : child[h] \notin Live => child'[h] = child[h]
    BY <1>16, KilledKeeps DEF LsmKills
  <2>2. QED
    BY <1>16, <2>1, OrderKept DEF LsmKills
<1>17. ASSUME NEW g \in Attempts, PollEvents(g)
       PROVE  AttemptsInOrder'
  BY <1>17 DEF PollEvents, LoopBecomes
<1>18. ASSUME NEW g \in Attempts, HandleEvent(g)
       PROVE  AttemptsInOrder'
  <2>1. CASE UNCHANGED child
    <3>1. /\ thread[g] = "drain" /\ UNCHANGED <<sup, restart_count, pipe>>
          /\ \A h \in Attempts \ {g} : thread'[h] = thread[h]
      BY <1>18 DEF HandleEvent, LoopBecomes
    <3>2. QED
      BY <2>1, <3>1
  <2>2. CASE events[g] # <<>> /\ Killed(g, Head(events[g]).pid, "policy")
    <3>1. Head(events[g]).pid \in {"agent", "descendant"}
      <4>1. events[g] \in Seq(Event) /\ events[g] # <<>>
        BY <2>2
      <4>2. Head(events[g]) \in Event
        BY <4>1
      <4>3. QED
        BY <4>2 DEF Event
    <3>2. \A h \in Attempts : child[h] \notin Live => child'[h] = child[h]
      BY <2>2, <3>1, KilledKeeps
    <3>3. thread[g] # "none" /\ \A h \in Attempts \ {g} : thread'[h] = thread[h]
      BY <1>18 DEF HandleEvent, LoopBecomes
    <3>4. UNCHANGED <<sup, restart_count, pipe>>
      BY <1>18 DEF HandleEvent
    <3>5. QED
      BY <3>2, <3>3, <3>4
  <2>3. QED
    BY <1>18, <2>1, <2>2 DEF HandleEvent
<1>19. ASSUME NEW g \in Attempts, RecordKill(g)
       PROVE  AttemptsInOrder'
  BY <1>19 DEF RecordKill, LoopBecomes
<1>20. ASSUME NEW g \in Attempts, LoopFails(g)
       PROVE  AttemptsInOrder'
  BY <1>20 DEF LoopFails, LoopBecomes
<1>21. CASE UNCHANGED <<sup, restart_count, child, pipe, thread>>
  BY <1>21
<1>22. QED
  BY <1>1, <1>2, <1>3, <1>4, <1>5, <1>6, <1>7, <1>8, <1>9, <1>10, <1>11, <1>12, <1>13, <1>14, <1>15, <1>16, <1>17, <1>18, <1>19, <1>20, <1>21 DEF Next, Supervisor, Loop, AgentForks, DescendantEnds, EmitEvent, NoticeDeath

\* Only the current attempt has a live child.
LEMMA CurrentOnly ==
  ASSUME TypeOK, AttemptsInOrder, NEW g \in Attempts, child[g] \in Live
  PROVE  g = restart_count
<1>1. ~(g < restart_count)
  BY DEF AttemptsInOrder, Dead, Live, Starting
<1>2. ~(g > restart_count)
  BY DEF AttemptsInOrder, Live, Starting
<1>3. QED
  BY <1>1, <1>2, MaxRestartsAssumption DEF TypeOK, Attempts

\* Nothing puts a byte in the pipe before Monitor::new has returned.
LEMMA ByteStep ==
  ASSUME TypeOK, AttemptsInOrder, ByteAfterMonitor, Next
  PROVE  ByteAfterMonitor'
<1> USE MaxRestartsAssumption DEF TypeOK, AttemptsInOrder, ByteAfterMonitor, Attempts, Live, Starting, Dead, Looping
<1>1. CASE ForkChild
  BY <1>1 DEF ForkChild, Return
<1>2. CASE NewMonitor
  BY <1>2 DEF NewMonitor, Return
<1>3. CASE Release
  BY <1>3 DEF Release, Return
<1>4. CASE SpawnLoop
  BY <1>4 DEF SpawnLoop
<1>5. CASE WaitChild
  BY <1>5 DEF WaitChild
<1>6. CASE WaitFails
  BY <1>6 DEF WaitFails
<1>7. CASE CloseMonitor
  BY <1>7 DEF CloseMonitor, Return
<1>8. CASE Judge
  BY <1>8 DEF Judge, JudgeSignaled, JudgeExited, RetryOrGiveUp, Return
<1>9. CASE NextAttempt
  BY <1>9 DEF NextAttempt
<1>10. CASE ExitMain
  BY <1>10 DEF ExitMain, EndProcess
<1>11. CASE Crash
  BY <1>11 DEF Crash, EndProcess, Running
<1>12. CASE Reparent
  BY <1>12 DEF Reparent, Orphan, SurvivesTerm
<1>13. ASSUME NEW g \in Attempts, ChildStart(g)
       PROVE  ByteAfterMonitor'
  BY <1>13 DEF ChildStart, ArmDeathSignal, CheckParent, AwaitRelease, ExecAgent, ChildBecomes
<1>14. ASSUME NEW g \in Attempts, ChildAborts(g)
       PROVE  ByteAfterMonitor'
  BY <1>14 DEF ChildAborts, AbortStart, ChildBecomes
<1>15. ASSUME NEW g \in Attempts, AgentEnds(g)
       PROVE  ByteAfterMonitor'
  BY <1>15 DEF AgentEnds, ChildBecomes
<1>16. ASSUME NEW g \in Attempts, LsmKills(g)
       PROVE  ByteAfterMonitor'
  BY <1>16 DEF LsmKills, Killed, ChildBecomes, Acts
<1>17. ASSUME NEW g \in Attempts, HandleEvent(g)
       PROVE  ByteAfterMonitor'
  BY <1>17 DEF HandleEvent, Killed, ChildBecomes, LoopBecomes
<1>18. CASE UNCHANGED <<sup, restart_count, child, pipe>>
  BY <1>18
<1>19. QED
  BY <1>1, <1>2, <1>3, <1>4, <1>5, <1>6, <1>7, <1>8, <1>9, <1>10, <1>11, <1>12, <1>13, <1>14, <1>15, <1>16, <1>17, <1>18 DEF Next, Supervisor, Loop, AgentForks, DescendantEnds, EmitEvent, PollEvents, RecordKill, LoopFails, NoticeDeath

\* A cause of death is set with the state it explains, which is final.
LEMMA CauseStep ==
  ASSUME TypeOK, AttemptsInOrder, CauseFits, Next
  PROVE  CauseFits'
<1> USE MaxRestartsAssumption DEF TypeOK, AttemptsInOrder, CauseFits, Attempts, Live, Starting, Dead, Looping
<1>1. CASE ForkChild
  BY <1>1 DEF ForkChild, Return
<1>2. CASE NewMonitor
  BY <1>2 DEF NewMonitor, Return
<1>3. CASE Release
  BY <1>3 DEF Release, Return
<1>4. CASE SpawnLoop
  BY <1>4 DEF SpawnLoop
<1>5. CASE WaitChild
  BY <1>5 DEF WaitChild
<1>6. CASE WaitFails
  BY <1>6 DEF WaitFails
<1>7. CASE CloseMonitor
  BY <1>7 DEF CloseMonitor, Return
<1>8. CASE Judge
  BY <1>8 DEF Judge, JudgeSignaled, JudgeExited, RetryOrGiveUp, Return
<1>9. CASE NextAttempt
  BY <1>9 DEF NextAttempt
<1>10. CASE ExitMain
  BY <1>10 DEF ExitMain, EndProcess
<1>11. CASE Crash
  BY <1>11 DEF Crash, EndProcess, Running
<1>12. CASE Reparent
  BY <1>12 DEF Reparent, Orphan, SurvivesTerm
<1>13. ASSUME NEW g \in Attempts, ChildStart(g)
       PROVE  CauseFits'
  BY <1>13 DEF ChildStart, ArmDeathSignal, CheckParent, AwaitRelease, ExecAgent, ChildBecomes
<1>14. ASSUME NEW g \in Attempts, ChildAborts(g)
       PROVE  CauseFits'
  BY <1>14 DEF ChildAborts, AbortStart, ChildBecomes
<1>15. ASSUME NEW g \in Attempts, AgentEnds(g)
       PROVE  CauseFits'
  BY <1>15 DEF AgentEnds, ChildBecomes
<1>16. ASSUME NEW g \in Attempts, LsmKills(g)
       PROVE  CauseFits'
  BY <1>16 DEF LsmKills, Killed, ChildBecomes, Acts
<1>17. ASSUME NEW g \in Attempts, HandleEvent(g)
       PROVE  CauseFits'
  BY <1>17 DEF HandleEvent, Killed, ChildBecomes, LoopBecomes
<1>18. CASE UNCHANGED <<sup, child, cause>>
  BY <1>18
<1>19. QED
  BY <1>1, <1>2, <1>3, <1>4, <1>5, <1>6, <1>7, <1>8, <1>9, <1>10, <1>11, <1>12, <1>13, <1>14, <1>15, <1>16, <1>17, <1>18 DEF Next, Supervisor, Loop, AgentForks, DescendantEnds, EmitEvent, PollEvents, RecordKill, LoopFails, NoticeDeath

\* Between kill(2) and the store into kill_reason the loop does nothing else.
LEMMA KillStep ==
  ASSUME TypeOK, AttemptsInOrder, CauseFits, PolicyKillAccounted, Next
  PROVE  PolicyKillAccounted'
<1> USE MaxRestartsAssumption DEF TypeOK, AttemptsInOrder, CauseFits, PolicyKillAccounted, Running, Attempts, Live, Starting, Dead, Looping
<1>1. CASE ForkChild
  BY <1>1 DEF ForkChild, Return
<1>2. CASE NewMonitor
  BY <1>2 DEF NewMonitor, Return
<1>3. CASE Release
  BY <1>3 DEF Release, Return
<1>4. CASE SpawnLoop
  BY <1>4 DEF SpawnLoop
<1>5. CASE WaitChild
  BY <1>5 DEF WaitChild
<1>6. CASE WaitFails
  BY <1>6 DEF WaitFails
<1>7. CASE CloseMonitor
  BY <1>7 DEF CloseMonitor, Return
<1>8. CASE Judge
  BY <1>8 DEF Judge, JudgeSignaled, JudgeExited, RetryOrGiveUp, Return
<1>9. CASE NextAttempt
  BY <1>9 DEF NextAttempt
<1>10. CASE ExitMain
  BY <1>10 DEF ExitMain, EndProcess
<1>11. CASE Crash
  BY <1>11 DEF Crash, EndProcess, Running
<1>12. CASE Reparent
  BY <1>12 DEF Reparent, Orphan, SurvivesTerm
<1>13. ASSUME NEW g \in Attempts, AgentEnds(g)
       PROVE  PolicyKillAccounted'
  BY <1>13 DEF AgentEnds, ChildBecomes
<1>14. ASSUME NEW g \in Attempts, LsmKills(g)
       PROVE  PolicyKillAccounted'
  BY <1>14 DEF LsmKills, Killed, ChildBecomes, Acts
<1>15. ASSUME NEW g \in Attempts, PollEvents(g)
       PROVE  PolicyKillAccounted'
  BY <1>15 DEF PollEvents, LoopBecomes
<1>16. ASSUME NEW g \in Attempts, HandleEvent(g)
       PROVE  PolicyKillAccounted'
  BY <1>16 DEF HandleEvent, Killed, ChildBecomes, LoopBecomes
<1>17. ASSUME NEW g \in Attempts, RecordKill(g)
       PROVE  PolicyKillAccounted'
  BY <1>17 DEF RecordKill, LoopBecomes
<1>18. ASSUME NEW g \in Attempts, LoopFails(g)
       PROVE  PolicyKillAccounted'
  BY <1>18 DEF LoopFails, LoopBecomes
<1>19. CASE UNCHANGED <<sup, cause, thread, kill_reason>>
  BY <1>19
<1>20. QED
  BY <1>1, <1>2, <1>3, <1>4, <1>5, <1>6, <1>7, <1>8, <1>9, <1>10, <1>11, <1>12, <1>13, <1>14, <1>15, <1>16, <1>17, <1>18, <1>19 DEF Next, Supervisor, Loop, ChildStart, ChildAborts, AgentForks, DescendantEnds, EmitEvent, NoticeDeath

--------------------------------------------------------------------------------
(* The theorems.                                                           *)

\* A reachable state satisfies the whole inductive invariant.
LEMMA Inductive == SafetySpec => [](TypeOK /\ IndInv)
<1>1. Init => TypeOK /\ IndInv
  BY MaxRestartsAssumption
  DEF Init, TypeOK, IndInv, AttemptsInOrder, ByteAfterMonitor, CauseFits, PolicyKillAccounted,
      SupStates, Outcomes, Attempts, Live, Starting, Dead, Looping
<1>2. ASSUME TypeOK, IndInv, [Next]_vars
      PROVE  TypeOK' /\ IndInv'
  <2>1. CASE Next
    BY <1>2, <2>1, TypeStep, OrderStep, ByteStep, CauseStep, KillStep DEF IndInv
  <2>2. CASE UNCHANGED vars
    BY <1>2, <2>2
    DEF vars, TypeOK, IndInv, AttemptsInOrder, ByteAfterMonitor, CauseFits,
        PolicyKillAccounted, Running
  <2>3. QED
    BY <1>2, <2>1, <2>2
<1>3. QED
  BY <1>1, <1>2, PTL DEF SafetySpec

\* The variables of the watch mode stay in their types.
THEOREM TypeCorrect == SafetySpec => []TypeOK
BY Inductive, PTL

\* What ties run() to the pipe and to the handler of its loop thread: attempts one
\* after the other, the byte after Monitor::new, and kills that are accounted for.
THEOREM IndInvHolds == SafetySpec => []IndInv
BY Inductive, PTL

\* await_parent_release() holds the child until its Monitor exists: no agent
\* runs, or is about to, that the eBPF programs of its attempt do not see.
THEOREM HookedBeforeExecHolds == SafetySpec => []HookedBeforeExec
<1>1. TypeOK /\ IndInv => HookedBeforeExec
  <2> SUFFICES ASSUME TypeOK, AttemptsInOrder, ByteAfterMonitor, Running, sup # "return",
                      NEW g \in Attempts, child[g] \in {"released", "agent"}
               PROVE  Attached(g)
    BY DEF IndInv, HookedBeforeExec
  <2>1. g = restart_count
    <3>1. ~(g < restart_count)
      BY DEF AttemptsInOrder, Dead
    <3>2. ~(g > restart_count)
      BY DEF AttemptsInOrder
    <3>3. QED
      BY <3>1, <3>2, MaxRestartsAssumption DEF TypeOK, Attempts
  <2>2. QED
    BY <2>1 DEF ByteAfterMonitor, Attached, Running, TypeOK, SupStates
<1>2. QED
  BY <1>1, Inductive, PTL

\* The handler's kill is never lost: it is recorded or about to be.
THEOREM PolicyKillAccountedHolds == SafetySpec => []PolicyKillAccounted
BY Inductive, PTL DEF IndInv

\* run() restarts an agent the enforcer killed only in the window between
\* kill(2) and the store.
THEOREM RestartWindow == SafetySpec => RestartOnlyInWindow
<1>1. TypeOK /\ IndInv /\ [Next]_vars =>
        [sup = "judge" /\ sup' = "sleep" =>
           cause[restart_count] # "policy" \/ thread[restart_count] = "record"]_vars
  <2> SUFFICES ASSUME TypeOK, IndInv, Next, sup = "judge", sup' = "sleep",
                      cause[restart_count] = "policy"
               PROVE  thread[restart_count] = "record"
    OBVIOUS
  <2>1. JudgeSignaled \/ JudgeExited
    BY DEF Next, Supervisor, ForkChild, NewMonitor, Release, SpawnLoop, WaitChild, WaitFails,
           CloseMonitor, Judge, NextAttempt, ExitMain, Crash, EndProcess, Reparent,
           ChildStart, ChildAborts, AgentEnds, AgentForks, DescendantEnds, EmitEvent,
           LsmKills, Loop, PollEvents, HandleEvent, RecordKill, LoopFails, NoticeDeath
  <2>2. restart_count \in Attempts /\ child[restart_count] = "signaled"
    BY DEF TypeOK, IndInv, CauseFits
  <2>3. kill_reason[restart_count] \/ thread[restart_count] = "record"
    BY <2>2 DEF IndInv, PolicyKillAccounted, Running
  <2>4. ~kill_reason[restart_count]
    BY <2>1, <2>2 DEF JudgeSignaled, JudgeExited, RetryOrGiveUp, Return
  <2>5. QED
    BY <2>3, <2>4
<1>2. QED
  BY <1>1, Inductive, PTL DEF SafetySpec, RestartOnlyInWindow

\* A step of the children alone that puts none of them before the pipe, and takes
\* no byte from one that stays there.
LEMMA WaitKept ==
  ASSUME NoWaitCycle, UNCHANGED <<sup, restart_count, write_fd>>,
         \A h \in Attempts :
           \/ child'[h] \notin {"start", "armed", "waiting"}
           \/ child[h] \in {"start", "armed", "waiting"} /\ pipe'[h] = pipe[h]
  PROVE  NoWaitCycle'
BY DEF NoWaitCycle

\* Whichever end moves first, fails or dies, the other one can go on.
LEMMA WaitStep ==
  ASSUME TypeOK, AttemptsInOrder, NoWaitCycle, Next
  PROVE  NoWaitCycle'
<1> USE DEF TypeOK, NoWaitCycle, Live, Starting, Dead
<1>0. /\ restart_count \in Attempts
      /\ \A h \in Attempts : child[h] \in Live => h = restart_count
  BY CurrentOnly
<1>1. CASE ForkChild
  BY <1>0, <1>1 DEF ForkChild, Return
<1>2. CASE NewMonitor
  BY <1>0, <1>2 DEF NewMonitor, Return
<1>3. CASE Release
  BY <1>0, <1>3 DEF Release, Return
<1>4. CASE SpawnLoop
  BY <1>0, <1>4 DEF SpawnLoop
<1>5. CASE WaitChild \/ WaitFails
  BY <1>0, <1>5 DEF WaitChild, WaitFails
<1>6. CASE CloseMonitor
  BY <1>0, <1>6 DEF CloseMonitor, Return
<1>7. CASE Judge
  BY <1>0, <1>7 DEF Judge, JudgeSignaled, JudgeExited, RetryOrGiveUp, Return
<1>8. CASE NextAttempt
  <2>1. child[restart_count] \in Dead
    BY <1>8 DEF NextAttempt, AttemptsInOrder
  <2>2. QED
    BY <1>0, <1>8, <2>1 DEF NextAttempt
<1>9. CASE ExitMain \/ Crash
  <2>1. sup' = "exiting" /\ write_fd' = [h \in Attempts |-> FALSE]
    BY <1>9 DEF ExitMain, Crash, EndProcess
  <2>2. QED
    BY <2>1
<1>10. CASE Reparent
  <2>1. sup' = "gone" /\ UNCHANGED <<write_fd, pipe>> /\ sup = "exiting"
    BY <1>10 DEF Reparent
  <2>2. \A h \in Attempts : child'[h] \in {child[h], "signaled"}
    BY <1>10 DEF Reparent, Orphan
  <2>3. QED
    BY <2>1, <2>2
<1>11. ASSUME NEW g \in Attempts, ChildStart(g)
       PROVE  NoWaitCycle'
  <2>1. \A h \in Attempts :
          \/ child'[h] \notin {"start", "armed", "waiting"}
          \/ child[h] \in {"start", "armed", "waiting"} /\ pipe'[h] = pipe[h]
    BY <1>11 DEF ChildStart, ArmDeathSignal, CheckParent, AwaitRelease, ExecAgent, ChildBecomes
  <2>2. UNCHANGED <<sup, restart_count, write_fd>>
    BY <1>11 DEF ChildStart
  <2>3. QED
    BY <2>1, <2>2, WaitKept
<1>12. ASSUME NEW g \in Attempts, ChildAborts(g) \/ AgentEnds(g)
       PROVE  NoWaitCycle'
  <2>1. /\ \A h \in Attempts : child'[h] \in {child[h]} \union Dead
        /\ UNCHANGED <<sup, restart_count, write_fd, pipe>>
    BY <1>12 DEF ChildAborts, AbortStart, AgentEnds, ChildBecomes
  <2>2. QED
    BY <2>1, WaitKept
<1>13. ASSUME NEW g \in Attempts, LsmKills(g)
       PROVE  NoWaitCycle'
  <2>1. /\ \A h \in Attempts : child'[h] \in {child[h], "signaled"}
        /\ UNCHANGED <<sup, restart_count, write_fd, pipe>>
    BY <1>13, KilledKeeps DEF LsmKills
  <2>2. QED
    BY <2>1, WaitKept
<1>14. ASSUME NEW g \in Attempts, HandleEvent(g)
       PROVE  NoWaitCycle'
  <2>1. UNCHANGED <<sup, restart_count, write_fd, pipe>>
    BY <1>14 DEF HandleEvent
  <2>2. CASE UNCHANGED child
    BY <2>1, <2>2
  <2>3. CASE events[g] # <<>> /\ Killed(g, Head(events[g]).pid, "policy")
    <3>1. events[g] \in Seq(Event) /\ events[g] # <<>>
      BY <2>3
    <3>2. Head(events[g]) \in Event
      BY <3>1
    <3>3. Head(events[g]).pid \in {"agent", "descendant"}
      BY <3>2 DEF Event
    <3>4. \A h \in Attempts : child'[h] \in {child[h], "signaled"}
      BY <2>3, <3>3, KilledKeeps
    <3>5. QED
      BY <2>1, <3>4, WaitKept
  <2>4. QED
    BY <1>14, <2>2, <2>3 DEF HandleEvent
<1>15. CASE UNCHANGED <<sup, restart_count, child, write_fd, pipe>>
  BY <1>15
<1>16. QED
  BY <1>1, <1>2, <1>3, <1>4, <1>5, <1>6, <1>7, <1>8, <1>9, <1>10, <1>11, <1>12, <1>13, <1>14, <1>15
  DEF Next, Supervisor, Loop, AgentForks, DescendantEnds, EmitEvent, PollEvents, RecordKill,
      LoopFails, NoticeDeath

\* The supervisor and a child in the handshake never block on each other: the part
\* of HandshakeResolves that needs no fairness, for every number of restarts.
THEOREM NoWaitCycleHolds == SafetySpec => []NoWaitCycle
<1>1. Init => NoWaitCycle
  BY DEF Init, NoWaitCycle
<1>2. TypeOK /\ IndInv /\ NoWaitCycle /\ [Next]_vars => NoWaitCycle'
  <2> SUFFICES ASSUME TypeOK, IndInv, NoWaitCycle, [Next]_vars
               PROVE  NoWaitCycle'
    OBVIOUS
  <2>1. CASE Next
    BY <2>1, WaitStep DEF IndInv
  <2>2. CASE UNCHANGED vars
    BY <2>2 DEF vars, NoWaitCycle
  <2>3. QED
    BY <2>1, <2>2
<1>3. QED
  BY <1>1, <1>2, Inductive, PTL DEF SafetySpec

\* Only run()'s return gives a result, and what it rests on does not change after it:
\* a dead child stays dead, and kill_reason is not reset.
Settled ==
  /\ outcome # "none" => sup \in {"return", "exiting", "gone"}
  /\ OutcomeFits

LEMMA SettledStep ==
  ASSUME TypeOK, AttemptsInOrder, Settled, Next
  PROVE  Settled'
<1> USE DEF TypeOK, Settled, OutcomeFits, Outcomes
<1>1. CASE ForkChild
  BY <1>1 DEF ForkChild, Return
<1>2. CASE NewMonitor
  BY <1>2 DEF NewMonitor, Return
<1>3. CASE Release
  BY <1>3 DEF Release, Return
<1>4. CASE SpawnLoop
  BY <1>4 DEF SpawnLoop
<1>5. CASE WaitChild \/ WaitFails
  BY <1>5 DEF WaitChild, WaitFails
<1>6. CASE CloseMonitor
  BY <1>6 DEF CloseMonitor, Return
<1>7. CASE Judge
  BY <1>7, MaxRestartsAssumption
  DEF Judge, JudgeSignaled, JudgeExited, RetryOrGiveUp, Return, Attempts
<1>8. CASE NextAttempt
  BY <1>8 DEF NextAttempt
<1>9. CASE ExitMain \/ Crash
  BY <1>9 DEF ExitMain, Crash, EndProcess, Running
<1>10. CASE UNCHANGED <<sup, outcome, restart_count, kill_reason>>
           /\ \A h \in Attempts : child[h] \in Dead => child'[h] = child[h]
  BY <1>10 DEF Dead
<1>11. CASE Reparent
  BY <1>11 DEF Reparent, Orphan, Armed, Dead
<1>12. ASSUME NEW g \in Attempts, ChildStart(g) \/ ChildAborts(g) \/ AgentEnds(g)
       PROVE  Settled'
  <2>1. child[g] \in Live /\ \A h \in Attempts \ {g} : child'[h] = child[h]
    BY <1>12 DEF ChildStart, ArmDeathSignal, CheckParent, AwaitRelease, ExecAgent, ChildAborts,
                 AbortStart, AgentEnds, ChildBecomes, Live, Starting
  <2>2. UNCHANGED <<sup, outcome, restart_count, kill_reason>>
    BY <1>12 DEF ChildStart, ChildAborts, AgentEnds
  <2>3. QED
    BY <2>1, <2>2, <1>10 DEF Dead, Live, Starting
<1>13. ASSUME NEW g \in Attempts, LsmKills(g)
       PROVE  Settled'
  <2>1. \A h \in Attempts : child[h] \notin Live => child'[h] = child[h]
    BY <1>13, KilledKeeps DEF LsmKills
  <2>2. QED
    BY <1>13, <2>1, <1>10 DEF LsmKills, Dead, Live, Starting
<1>14. ASSUME NEW g \in Attempts, HandleEvent(g)
       PROVE  Settled'
  <2>1. CASE UNCHANGED child
    BY <1>14, <2>1, <1>10 DEF HandleEvent
  <2>2. CASE events[g] # <<>> /\ Killed(g, Head(events[g]).pid, "policy")
    <3>1. Head(events[g]) \in Event
      BY <2>2
    <3>2. \A h \in Attempts : child[h] \notin Live => child'[h] = child[h]
      BY <2>2, <3>1, KilledKeeps DEF Event
    <3>3. QED
      BY <1>14, <3>2, <1>10 DEF HandleEvent, Dead, Live, Starting
  <2>3. QED
    BY <1>14, <2>1, <2>2 DEF HandleEvent
<1>15. ASSUME NEW g \in Attempts, RecordKill(g)
       PROVE  Settled'
  BY <1>15 DEF RecordKill
<1>16. QED
  BY <1>1, <1>2, <1>3, <1>4, <1>5, <1>6, <1>7, <1>8, <1>9, <1>10, <1>11, <1>12, <1>13, <1>14, <1>15
  DEF Next, Supervisor, Loop, AgentForks, DescendantEnds, EmitEvent, PollEvents, LoopFails, NoticeDeath

\* What run() returns fits what happened to the agent, whatever the other threads
\* still do after it.
THEOREM OutcomeFitsHolds == SafetySpec => []OutcomeFits
<1>1. Init => Settled
  BY DEF Init, Settled, OutcomeFits
<1>2. TypeOK /\ IndInv /\ Settled /\ [Next]_vars => Settled'
  <2> SUFFICES ASSUME TypeOK, IndInv, Settled, [Next]_vars
               PROVE  Settled'
    OBVIOUS
  <2>1. CASE Next
    BY <2>1, SettledStep DEF IndInv
  <2>2. CASE UNCHANGED vars
    BY <2>2 DEF vars, Settled, OutcomeFits
  <2>3. QED
    BY <2>1, <2>2
<1>3. Settled => OutcomeFits
  BY DEF Settled
<1>4. QED
  BY <1>1, <1>2, <1>3, Inductive, PTL DEF SafetySpec

\* Whenever the supervisor's process dies, no child of it is left running or
\* able to run a program, if the program leaves SIGTERM to its default.
THEOREM OrphanStoppedHolds == ASSUME ~CatchesTerm PROVE SafetySpec => []OrphanStopped
<1> USE MaxRestartsAssumption DEF OrphanStopped, TypeOK, Attempts, Live, Starting, Dead, Armed
<1>1. Init => OrphanStopped
  BY DEF Init
<1>2. ASSUME TypeOK, OrphanStopped, [Next]_vars
      PROVE  OrphanStopped'
  <2>1. CASE Reparent
    BY <1>2, <2>1 DEF Reparent, Orphan, SurvivesTerm
  <2>2. ASSUME NEW g \in Attempts, ChildStart(g)
        PROVE  OrphanStopped'
    BY <1>2, <2>2 DEF ChildStart, ArmDeathSignal, CheckParent, AwaitRelease, ExecAgent, ChildBecomes
  <2>3. ASSUME NEW g \in Attempts, ChildAborts(g) \/ AgentEnds(g)
        PROVE  OrphanStopped'
    BY <1>2, <2>3 DEF ChildAborts, AbortStart, AgentEnds, ChildBecomes
  <2>4. ASSUME NEW g \in Attempts, LsmKills(g)
        PROVE  OrphanStopped'
    BY <1>2, <2>4, KilledKeeps DEF LsmKills
  <2>5. ASSUME NEW g \in Attempts, HandleEvent(g)
        PROVE  OrphanStopped'
    <3>1. UNCHANGED sup
      BY <2>5 DEF HandleEvent
    <3>2. CASE UNCHANGED child
      BY <1>2, <3>1, <3>2
    <3>3. CASE events[g] # <<>> /\ Killed(g, Head(events[g]).pid, "policy")
      <4>1. events[g] \in Seq(Event) /\ events[g] # <<>>
        BY <1>2, <3>3
      <4>2. Head(events[g]) \in Event
        BY <4>1
      <4>3. Head(events[g]).pid \in {"agent", "descendant"}
        BY <4>2 DEF Event
      <4>4. \A h \in Attempts : child'[h] \in {child[h], "signaled"}
        BY <1>2, <3>3, <4>3, KilledKeeps
      <4>5. QED
        BY <1>2, <3>1, <4>4
    <3>4. QED
      BY <2>5, <3>2, <3>3 DEF HandleEvent
  <2>6. CASE sup' # "gone"
    BY <2>6
  <2>7. CASE UNCHANGED <<sup, child>>
    BY <1>2, <2>7
  <2>8. QED
    BY <1>2, <2>1, <2>2, <2>3, <2>4, <2>5, <2>6, <2>7
    DEF Next, Supervisor, ForkChild, NewMonitor, Release, SpawnLoop, WaitChild, WaitFails,
        CloseMonitor, Judge, JudgeSignaled, JudgeExited, RetryOrGiveUp, Return, NextAttempt,
        ExitMain, Crash, EndProcess, AgentForks, DescendantEnds, EmitEvent, Loop, PollEvents,
        RecordKill, LoopFails, NoticeDeath, vars
<1>3. QED
  BY <1>1, <1>2, TypeCorrect, PTL DEF SafetySpec

--------------------------------------------------------------------------------
(* The refinement.                                                         *)

\* A step that ends at most live children is a Stop of the contract, or nothing.
LEMMA EndsRefine ==
  ASSUME TypeOK, AttemptsInOrder, UNCHANGED <<sup, restart_count>>,
         \A h \in Attempts : child'[h] = child[h] \/ (child[h] \in Live /\ child'[h] \in Dead)
  PROVE  Contract!Stop \/ UNCHANGED Contract!svars
<1> USE DEF ContractAgent, Live, Starting, Dead
<1>1. restart_count \in Attempts
  BY DEF TypeOK
<1>2. CASE child'[restart_count] = child[restart_count]
  BY <1>1, <1>2 DEF Contract!svars
<1>3. CASE child[restart_count] \in Live /\ child'[restart_count] \in Dead
  <2>1. ContractAgent \in {"held", "running"} /\ ContractAgent' = "stopped"
    BY <1>1, <1>3
  <2>2. QED
    BY <2>1 DEF Contract!Stop
<1>4. QED
  BY <1>1, <1>2, <1>3

\* Watch implements the safety part of Supervision: an agent is held before it
\* runs, runs at most MaxRestarts + 1 times, one at a time, and none is let run
\* once the supervisor is gone.
THEOREM Implements == ASSUME ~CatchesTerm PROVE SafetySpec => Contract!SafetySpec
<1> USE MaxRestartsAssumption
<1>1. Init => Contract!Init
  <2> SUFFICES ASSUME Init
               PROVE  Contract!Init
    OBVIOUS
  <2>1. restart_count = 0 /\ child[restart_count] = "unborn" /\ sup = "fork"
    BY DEF Init, Attempts
  <2>2. ContractAgent = "idle"
    BY <2>1 DEF ContractAgent, Starting, Dead
  <2>3. QED
    BY <2>1, <2>2 DEF Contract!Init
<1>2. ASSUME TypeOK, IndInv, OrphanStopped, [Next]_vars
      PROVE  [Contract!Next]_(Contract!svars)
  <2> USE DEF ContractAgent, Contract!Next
  <2>0. restart_count \in Attempts /\ AttemptsInOrder
    BY <1>2 DEF TypeOK, IndInv
  <2>1. CASE UNCHANGED <<restart_count, child>> /\ (sup = "gone" <=> sup' = "gone")
    BY <2>1 DEF Contract!svars
  <2>2. CASE ForkChild /\ sup' = "setup"
    <3>1. child[restart_count] = "unborn" /\ child'[restart_count] = "start"
      BY <1>2, <2>0, <2>2 DEF ForkChild, Return, AttemptsInOrder, TypeOK
    <3>2. UNCHANGED restart_count /\ sup = "fork"
      BY <2>2 DEF ForkChild
    <3>3. ContractAgent = "idle" /\ ContractAgent' = "held"
      BY <3>1, <3>2 DEF Starting, Dead
    <3>4. Contract!Hold
      BY <2>2, <3>2, <3>3 DEF Contract!Hold
    <3>5. QED
      BY <3>4
  <2>3. CASE NextAttempt
    <3>1. restart_count < MaxRestarts /\ child[restart_count] \in Dead
      BY <2>0, <2>3 DEF NextAttempt, AttemptsInOrder
    <3>2. restart_count' \in Attempts /\ restart_count' > restart_count
      BY <2>0, <2>3, <3>1 DEF NextAttempt, Attempts
    <3>3. child'[restart_count'] = "unborn"
      BY <2>0, <2>3, <3>2 DEF NextAttempt, AttemptsInOrder
    <3>4. ContractAgent = "stopped" /\ ContractAgent' = "idle"
      BY <3>1, <3>3 DEF Dead, Starting
    <3>5. Contract!Retry
      BY <2>3, <3>1, <3>4 DEF NextAttempt, Contract!Retry
    <3>6. QED
      BY <3>5
  <2>4. CASE Reparent
    <3>1. child'[restart_count] = Orphan(restart_count) /\ UNCHANGED restart_count
      BY <1>2, <2>0, <2>4 DEF Reparent
    <3>2. \/ child[restart_count] \in Armed /\ child'[restart_count] = "signaled"
          \/ child[restart_count] \notin Armed /\ child'[restart_count] = child[restart_count]
      BY <3>1 DEF Orphan, SurvivesTerm
    <3>3. child[restart_count] \in {"unborn"} \union Live \union Dead
      BY <1>2, <2>0 DEF TypeOK
    <3>4. \/ ContractAgent \in {"held", "running"} /\ ContractAgent' = "stopped"
          \/ ContractAgent # "running" /\ ContractAgent' = ContractAgent
      BY <3>1, <3>2, <3>3 DEF Armed, Starting, Dead, Live
    <3>5. Contract!Over
      BY <2>4, <3>1, <3>4 DEF Reparent, Contract!Over
    <3>6. QED
      BY <3>5
  <2>5. ASSUME NEW g \in Attempts, ChildStart(g)
        PROVE  [Contract!Next]_(Contract!svars)
    <3>1. UNCHANGED <<sup, restart_count>>
      BY <2>5 DEF ChildStart
    <3>2. g = restart_count
      BY <1>2, <2>0, <2>5, CurrentOnly
      DEF ChildStart, ArmDeathSignal, CheckParent, AwaitRelease, ExecAgent, Live, Starting
    <3>3. CASE ExecAgent(g)
      <4>1. sup # "gone"
        BY <1>2, <3>3 DEF ExecAgent, OrphanStopped, Dead
      <4>2. child[restart_count] = "released" /\ child'[restart_count] = "agent"
        BY <1>2, <3>2, <3>3 DEF ExecAgent, ChildBecomes, TypeOK
      <4>3. ContractAgent = "held" /\ ContractAgent' = "running"
        BY <3>1, <4>2 DEF Starting, Dead
      <4>4. Contract!Let
        BY <3>1, <4>1, <4>3 DEF Contract!Let
      <4>5. QED
        BY <4>4
    <3>4. CASE child[g] \in Starting /\ child'[g] \in Starting
      <4>1. ContractAgent = "held" /\ ContractAgent' = "held"
        BY <3>1, <3>2, <3>4 DEF Starting, Dead
      <4>2. QED
        BY <3>1, <4>1 DEF Contract!svars
    <3>5. CASE child[g] \in Starting /\ child'[g] = "exitedN"
      <4>1. Contract!Stop
        BY <3>1, <3>2, <3>5 DEF Contract!Stop, Starting, Dead
      <4>2. QED
        BY <4>1
    <3>6. QED
      BY <1>2, <2>5, <3>3, <3>4, <3>5
      DEF ChildStart, ArmDeathSignal, CheckParent, AwaitRelease, ChildBecomes, Starting, TypeOK
  <2>6. ASSUME NEW g \in Attempts, ChildAborts(g) \/ AgentEnds(g)
        PROVE  [Contract!Next]_(Contract!svars)
    <3>1. \A h \in Attempts :
            child'[h] = child[h] \/ (child[h] \in Live /\ child'[h] \in Dead)
      BY <1>2, <2>6 DEF ChildAborts, AbortStart, AgentEnds, ChildBecomes, Live, Dead, TypeOK
    <3>2. QED
      BY <1>2, <2>0, <2>6, <3>1, EndsRefine DEF ChildAborts, AgentEnds
  <2>7. ASSUME NEW g \in Attempts, LsmKills(g)
        PROVE  [Contract!Next]_(Contract!svars)
    <3>1. \A h \in Attempts :
            child'[h] = child[h] \/ (child[h] \in Live /\ child'[h] \in Dead)
      BY <1>2, <2>7, KilledKeeps DEF LsmKills, Dead
    <3>2. QED
      BY <1>2, <2>0, <2>7, <3>1, EndsRefine DEF LsmKills
  <2>8. ASSUME NEW g \in Attempts, HandleEvent(g), ~UNCHANGED child
        PROVE  [Contract!Next]_(Contract!svars)
    <3>1. events[g] # <<>> /\ Killed(g, Head(events[g]).pid, "policy")
      BY <2>8 DEF HandleEvent
    <3>2. events[g] \in Seq(Event)
      BY <1>2 DEF TypeOK
    <3>3. Head(events[g]) \in Event
      BY <3>1, <3>2
    <3>4. Head(events[g]).pid \in {"agent", "descendant"}
      BY <3>3 DEF Event
    <3>5. \A h \in Attempts :
            child'[h] = child[h] \/ (child[h] \in Live /\ child'[h] \in Dead)
      BY <1>2, <3>1, <3>4, KilledKeeps DEF Dead
    <3>6. QED
      BY <1>2, <2>0, <2>8, <3>5, EndsRefine DEF HandleEvent
  <2>9. QED
    <3>1. CASE Next
      BY <3>1, <2>1, <2>2, <2>3, <2>4, <2>5, <2>6, <2>7, <2>8
      DEF Next, Supervisor, ForkChild, NewMonitor, Release, SpawnLoop, WaitChild, WaitFails,
          CloseMonitor, Judge, JudgeSignaled, JudgeExited, RetryOrGiveUp, Return, ExitMain,
          Crash, EndProcess, Running, AgentForks, DescendantEnds, EmitEvent, Loop, PollEvents,
          HandleEvent, RecordKill, LoopFails, NoticeDeath
    <3>2. CASE UNCHANGED vars
      BY <2>1, <3>2 DEF vars
    <3>3. QED
      BY <1>2, <3>1, <3>2
<1>3. QED
  BY <1>1, <1>2, Inductive, OrphanStoppedHolds, PTL DEF SafetySpec, Contract!SafetySpec

================================================================================
