----------------------------- MODULE TrackingProofs -----------------------------
(***************************************************************************)
(* Who is looked at, and who is killed, for every set of task numbers and  *)
(* every capacity of MONITORED_PIDS.                                       *)
(***************************************************************************)
EXTENDS Tracking, FiniteSetTheorems, TLAPS

Typed ==
  /\ held \in BOOLEAN /\ hooks \in Stages
  /\ state \in [Tasks -> {"free", "alive", "zombie"}] /\ group \in [Tasks -> Tasks]
  /\ monitored \subseteq Tasks /\ leaked \subseteq monitored
  /\ family \subseteq Tasks /\ unseen \subseteq Tasks
  /\ suspect \in Tasks \union {Nobody} /\ mistaken \in BOOLEAN

\* A thread's group is named by its first thread, which is there as long as it is.
Grouped ==
  \A t \in Tasks :
    /\ group[group[t]] = group[t]
    /\ state[t] # "free" => state[group[t]] # "free"
    /\ state[t] # "alive" => group[t] = t

Kinship == \A p \in family : group[p] = p /\ state[p] # "free"

\* Every key that is not left over is a live task's of the family.
KeysFit == \A t \in monitored \ leaked : state[t] = "alive" /\ group[t] \in family

\* Of the family's tasks, threads as well, all that were seen have a key.
Seen ==
  hooks # "failed" =>
    \A t \in Tasks : state[t] = "alive" /\ group[t] \in family /\ t \notin unseen =>
      IF hooks = "none" THEN t = Target ELSE t \in monitored

\* Threads begun before Monitor::new are not seen.
Early == hooks = "none" => \A t \in Tasks : state[t] = "alive" /\ t \notin unseen => group[t] = t

\* In watch mode the target does not act before Monitor::new has returned.
HeldBack ==
  /\ hooks = "none" => monitored = {}
  /\ held => Target \in family /\ (hooks # "attached" => monitored \subseteq {Target})

IInv == Typed /\ Grouped /\ Kinship /\ KeysFit /\ Seen /\ Early /\ HeldBack /\ KillHitsFamily

Bounded == IsFiniteSet(monitored) /\ Cardinality(monitored) <= MapCapacity

--------------------------------------------------------------------------------
(* IInv is inductive: one lemma per action.                                *)

LEMMA RegisterKeeps ==
  ASSUME IInv, Register
  PROVE  IInv'
<1> USE TasksAssumption DEF IInv, Register, Leaves, tasks, event
<1>1. Typed' /\ Grouped' /\ Kinship'
  BY DEF Typed, Grouped, Kinship, Stages
<1>2. KeysFit'
  BY DEF Typed, KeysFit
<1>3. Seen'
  BY DEF Typed, Grouped, Kinship, Seen, Early
<1>4. Early' /\ HeldBack'
  BY DEF Early, HeldBack
<1>5. KillHitsFamily'
  BY DEF KillHitsFamily
<1> QED
  BY <1>1, <1>2, <1>3, <1>4, <1>5

\* The programs are attached, or Monitor::new fails.
LEMMA AttachKeeps ==
  ASSUME IInv, NewMonitor
  PROVE  IInv'
<1> USE DEF IInv
<1>1. CASE Register
  BY <1>1, RegisterKeeps
<1>2. CASE NewFails
  BY <1>2 DEF NewFails, Leaves, tasks, event, Typed, Grouped, Kinship, KeysFit, Seen, Early, HeldBack,
              KillHitsFamily, Stages
<1>3. ASSUME NEW from \in Stages \ {"none", "failed"}, NEW to \in Stages \ {"none", "failed"},
             from # "attached", Attach(from, to)
      PROVE  IInv'
  BY <1>3 DEF Attach, tasks, history, event, Typed, Grouped, Kinship, KeysFit, Seen, Early, HeldBack,
              KillHitsFamily
<1> QED
  BY <1>1, <1>2, <1>3 DEF NewMonitor, AttachLsm, SetMode, SetPrefixes, AttachFork, AttachExit,
                          AttachOthers, Stages

\* A task is born: to a parent that is looked at, looked at itself.
LEMMA BornKeeps ==
  ASSUME IInv, NEW t \in Tasks, NEW n \in Tasks, ForkProcess(t, n) \/ CloneThread(t, n)
  PROVE  IInv'
<1> USE DEF IInv
<1>1. /\ state[t] = "alive" /\ state[n] = "free" /\ t # n /\ group[n] = n /\ n \notin family
      /\ state' = [state EXCEPT ![n] = "alive"]
      /\ hooks' = hooks /\ held' = held /\ suspect' = suspect /\ mistaken' = mistaken
  BY DEF ForkProcess, CloneThread, Born, MayAct, event, Typed, Grouped, Kinship
<1>2. \/ group' = group /\ family' = IF group[t] \in family THEN family \union {n} ELSE family
      \/ group' = [group EXCEPT ![n] = group[t]] /\ family' = family
  BY DEF ForkProcess, CloneThread
<1>3. /\ \A u \in Tasks \ {n} : group'[u] = group[u]
      /\ group'[n] \in {n, group[t]}
      /\ group'[n] \in family' <=> group[t] \in family
      /\ \A g \in Tasks \ {n} : g \in family' <=> g \in family
  BY <1>1, <1>2 DEF Typed, Grouped
<1>4. /\ unseen' = unseen \union Dropped \union IF t \in unseen \/ ~ForkHook THEN {n} ELSE {}
      /\ leaked' = (leaked \union IF t \in leaked THEN {n} ELSE {}) \intersect monitored'
  BY DEF ForkProcess, CloneThread, Born, Leaves
<1>5. /\ monitored' \subseteq monitored \union {n}
      /\ n \in monitored' => n \in monitored \/ t \in monitored
      /\ \A u \in monitored \ monitored' : state[u] # "free" => u \in Dropped
      /\ ForkHook /\ t \in monitored => n \in monitored'
      /\ Dropped \subseteq monitored \ {n}
  <2> USE DEF Dropped
  <2>1. CASE UNCHANGED monitored /\ ~(ForkHook /\ t \in monitored)
    BY <2>1
  <2>2. CASE Insert(n) /\ ForkHook /\ t \in monitored
    <3>1. CASE monitored' = monitored \union {n}
      BY <2>2, <3>1
    <3>2. CASE \E e \in monitored : monitored' = (monitored \ {e}) \union {n}
      BY <1>1, <2>2, <3>2
    <3> QED
      BY <2>2, <3>1, <3>2 DEF Insert
  <2> QED
    BY <2>1, <2>2 DEF ForkProcess, CloneThread, Born, HandleFork
<1> HIDE DEF IInv
<1>6. Typed'
  BY <1>1, <1>2, <1>3, <1>4, <1>5 DEF IInv, Typed
<1>7. Grouped' /\ Kinship'
  BY <1>1, <1>2, <1>3 DEF IInv, Typed, Grouped, Kinship
<1>8. KeysFit'
  BY <1>1, <1>3, <1>4, <1>5 DEF IInv, Typed, Grouped, KeysFit
<1>9. Seen'
  <2> SUFFICES ASSUME hooks # "failed", NEW u \in Tasks,
                      state'[u] = "alive", group'[u] \in family', u \notin unseen'
               PROVE  IF hooks = "none" THEN u = Target ELSE u \in monitored'
    BY <1>1 DEF Seen
  <2>1. CASE u = n
    BY <1>1, <1>3, <1>4, <1>5, <2>1 DEF IInv, Seen, ForkHook
  <2>2. CASE u # n
    <3>1. state[u] = "alive" /\ group[u] \in family /\ u \notin unseen
      BY <1>1, <1>3, <1>4, <2>2 DEF IInv, Typed, Grouped
    <3> QED
      BY <1>4, <1>5, <3>1 DEF IInv, Seen
  <2> QED
    BY <2>1, <2>2
<1>10. Early' /\ HeldBack'
  <2>1. Early'
    BY <1>1, <1>3, <1>4 DEF IInv, Early, Typed, ForkHook
  <2>2. t \in monitored => ~held \/ hooks = "attached"
    BY DEF IInv, HeldBack, Kinship, ForkProcess, CloneThread, Born, MayAct
  <2> QED
    BY <1>1, <1>3, <1>5, <2>1, <2>2, TasksAssumption DEF IInv, HeldBack
<1>11. KillHitsFamily'
  BY <1>1, <1>3, NobodyAssumption DEF IInv, Typed, KillHitsFamily
<1> QED
  BY <1>6, <1>7, <1>8, <1>9, <1>10, <1>11 DEF IInv

\* Tasks leave: those in `freed` give back their numbers, those in `ended` are
\* zombies from now on, and those in `reborn` live, though they may have been
\* zombies; of their keys only those no program saw them leave stay.
Leave(freed, ended, reborn) ==
  /\ freed \in SUBSET Tasks /\ ended \in SUBSET Tasks /\ reborn \in SUBSET Tasks
  /\ hooks' = hooks /\ held' = held
  /\ state' = [t \in Tasks |-> IF t \in freed THEN "free" ELSE IF t \in reborn THEN "alive"
                               ELSE IF t \in ended THEN "zombie" ELSE state[t]]
  /\ group' = [t \in Tasks |-> IF t \in freed THEN t ELSE group[t]]
  /\ family' = family \ freed
  /\ unseen \ freed \subseteq unseen' /\ unseen' \subseteq Tasks
  /\ \A t \in freed : group[t] = t => \A u \in Tasks \ freed : group[u] # t
  /\ \A t \in ended \union reborn : group[t] = t
  /\ \A t \in reborn : state[t] # "free" /\ (state[t] = "alive" \/ t \in unseen')
  /\ reborn \intersect ended = {}
  /\ held => Target \notin freed
  /\ monitored' \subseteq monitored
  /\ \A t \in monitored \ monitored' : t \in freed \union ended \union unseen'
  /\ \A t \in (freed \union ended) \intersect monitored' : t \in leaked'
  /\ leaked \intersect monitored' \subseteq leaked' /\ leaked' \subseteq monitored'
  /\ suspect' = suspect
  /\ mistaken' \in BOOLEAN /\ (mistaken' <=> mistaken \/ suspect \in freed)

LEMMA LeaveKeeps ==
  ASSUME IInv, NEW freed, NEW ended, NEW reborn, Leave(freed, ended, reborn)
  PROVE  IInv'
<1> USE DEF Leave
<1>1. Typed'
  BY DEF IInv, Typed
<1>2. Grouped' /\ Kinship'
  BY DEF IInv, Typed, Grouped, Kinship
<1>3. KeysFit'
  BY DEF IInv, Typed, Grouped, Kinship, KeysFit
<1>4. Seen' /\ Early'
  BY DEF IInv, Typed, Grouped, Kinship, Seen, Early
<1>5. HeldBack'
  BY DEF IInv, HeldBack
<1>6. KillHitsFamily'
  BY DEF IInv, Typed, KillHitsFamily
<1> QED
  BY <1>1, <1>2, <1>3, <1>4, <1>5, <1>6 DEF IInv

LEMMA ExitKeeps ==
  ASSUME IInv, NEW t \in Tasks, ExitTask(t)
  PROVE  IInv'
<1> DEFINE freed == IF group[t] = t THEN {} ELSE {t}
           ended == IF group[t] = t THEN {t} ELSE {}
<1>1. /\ state[t] = "alive" /\ held' = held /\ hooks' = hooks
      /\ monitored' = IF ExitHook THEN monitored \ {t} ELSE monitored
      /\ leaked' = (leaked \union (IF ExitHook THEN {} ELSE {t})) \intersect monitored'
  BY DEF ExitTask, HandleExit, Leaves, Unreported
<1>2. /\ state' = [u \in Tasks |-> IF u \in freed THEN "free" ELSE IF u \in {} THEN "alive"
                                   ELSE IF u \in ended THEN "zombie" ELSE state[u]]
      /\ group' = [u \in Tasks |-> IF u \in freed THEN u ELSE group[u]]
      /\ family' = family \ freed /\ unseen' = unseen \ freed
      /\ suspect' = suspect /\ mistaken' \in BOOLEAN
      /\ mistaken' <=> mistaken \/ suspect \in freed
  <2>1. CASE group[t] = t
    <3>1. state' = [state EXCEPT ![t] = "zombie"] /\ UNCHANGED <<group, family, unseen, event>>
      BY <2>1 DEF ExitTask
    <3> QED
      BY <2>1, <3>1 DEF IInv, Typed, event
  <2>2. CASE group[t] # t
    <3>1. state' = [state EXCEPT ![t] = "free"] /\ Free({t}) /\ unseen' = unseen \ {t}
      BY <2>2 DEF ExitTask
    <3> QED
      BY <2>2, <3>1 DEF IInv, Typed, Free
  <2> QED
    BY <2>1, <2>2
<1>3. held => Target \notin freed
  BY DEF IInv, HeldBack, Kinship
<1>4. Leave(freed, ended, {})
  BY <1>1, <1>2, <1>3 DEF IInv, Typed, Leave
<1> QED
  BY <1>4, LeaveKeeps

LEMMA CollectKeeps ==
  ASSUME IInv, NEW p \in Tasks, Collect(p)
  PROVE  IInv'
<1>1. group[p] = p /\ \A u \in Tasks \ {p} : group[u] # p
  BY DEF Collect, IInv, Typed, Grouped
<1>2. /\ state' = [u \in Tasks |-> IF u \in {p} THEN "free" ELSE IF u \in {} THEN "alive"
                                   ELSE IF u \in {} THEN "zombie" ELSE state[u]]
      /\ group' = [u \in Tasks |-> IF u \in {p} THEN u ELSE group[u]]
      /\ family' = family \ {p} /\ unseen' = unseen \ {p}
      /\ suspect' = suspect /\ mistaken' \in BOOLEAN
      /\ mistaken' <=> mistaken \/ suspect \in {p}
      /\ held' = held /\ hooks' = hooks
      /\ monitored' = monitored /\ leaked' = leaked
      /\ held => p # Target
  BY DEF IInv, Typed, Collect, Free
<1>3. p \in monitored => p \in leaked
  BY DEF Collect, IInv, KeysFit
<1>4. Leave({p}, {}, {})
  BY <1>1, <1>2, <1>3 DEF IInv, Typed, Leave
<1> QED
  BY <1>4, LeaveKeeps

LEMMA ExecKeeps ==
  ASSUME IInv, NEW t \in Tasks, Exec(t)
  PROVE  IInv'
<1> DEFINE first  == group[t]
           others == {u \in Tasks \ {t} : state[u] # "free" /\ group[u] = first}
           freed  == (others \union {t}) \ {first}
<1>1. /\ state[t] = "alive" /\ first \in Tasks /\ group[first] = first /\ state[first] # "free"
      /\ t = first \/ first \in others
  BY DEF Exec, MayAct, IInv, Typed, Grouped
<1>2. \A u \in freed : group[u] # u /\ u \in Tasks
  BY <1>1
<1>3. /\ state' = [u \in Tasks |-> IF u \in freed THEN "free" ELSE IF u \in {first} THEN "alive"
                                   ELSE IF u \in {} THEN "zombie" ELSE state[u]]
      /\ group' = [u \in Tasks |-> IF u \in freed THEN u ELSE group[u]]
      /\ family' = family \ freed
      /\ unseen' = (unseen \ freed) \union (IF t = first THEN {} ELSE {first})
      /\ suspect' = suspect /\ mistaken' \in BOOLEAN
      /\ mistaken' <=> mistaken \/ suspect \in freed
      /\ held' = held /\ hooks' = hooks
  BY DEF IInv, Typed, Exec, Free
<1>4. /\ monitored' = IF ExitHook THEN monitored \ others ELSE monitored
      /\ leaked' = (leaked \union (IF ExitHook THEN {} ELSE others \ {first}) \union ({t} \ {first}))
                   \intersect monitored'
  BY DEF Exec, HandleExit, Leaves, Unreported
<1>5. /\ freed \in SUBSET Tasks /\ {first} \in SUBSET Tasks
      /\ unseen \ freed \subseteq unseen' /\ unseen' \subseteq Tasks
      /\ \A u \in freed : group[u] # u
      /\ state[first] # "free" /\ group[first] = first
      /\ state[first] = "alive" \/ first \in unseen'
  BY <1>1, <1>2, <1>3 DEF IInv, Typed
<1>6. /\ monitored' \subseteq monitored
      /\ \A u \in monitored \ monitored' : u \in freed \union unseen'
      /\ leaked \intersect monitored' \subseteq leaked' /\ leaked' \subseteq monitored'
  BY <1>1, <1>3, <1>4 DEF IInv, Typed
<1>7. \A u \in freed \intersect monitored' : u \in leaked'
  BY <1>1, <1>4
<1>8. held => Target \notin freed
  BY <1>2 DEF IInv, HeldBack, Kinship
<1> HIDE DEF first, freed
<1>9. Leave(freed, {}, {first})
  BY <1>3, <1>5, <1>6, <1>7, <1>8 DEF Leave
<1> QED
  BY <1>9, LeaveKeeps

LEMMA ReportKeeps ==
  ASSUME IInv, NEW t \in Tasks, Report(t)
  PROVE  IInv'
<1>1. UNCHANGED <<held, hooks, monitored, state, group, family, unseen, leaked>>
  BY DEF Report, tasks, history
<1>2. Typed' /\ KillHitsFamily'
  <2>1. group[t] \in Tasks /\ group[group[t]] = group[t] /\ state[group[t]] # "free"
    BY DEF IInv, Typed, Grouped, Report, MayAct
  <2>2. group[t] \notin leaked => group[t] \in family
    BY <2>1 DEF IInv, KeysFit, Report
  <2>3. suspect' = group[t] /\ (mistaken' <=> group[t] \in leaked) /\ mistaken' \in BOOLEAN
    <3>1. suspect' = group[t] /\ mistaken' = (group[t] \in leaked)
      BY DEF Report
    <3>2. (group[t] \in leaked) \in BOOLEAN
      OBVIOUS
    <3>3. mistaken' \in BOOLEAN
      BY <3>1, <3>2, Zenon
    <3> QED
      BY <3>1, <3>3, Zenon
  <2>4. group[t] \notin leaked => KillHitsFamily'
    BY <1>1, <2>1, <2>2, <2>3 DEF KillHitsFamily
  <2>5. Typed'
    BY <1>1, <2>1, <2>3 DEF IInv, Typed
  <2> QED
    BY <2>3, <2>4, <2>5 DEF KillHitsFamily
<1> QED
  BY <1>1, <1>2 DEF IInv, Grouped, Kinship, KeysFit, Seen, Early, HeldBack

LEMMA KillKeeps ==
  ASSUME IInv, KillSuspect
  PROVE  IInv'
<1> DEFINE hit     == {t \in Tasks : group[t] = group[suspect] /\ state[t] = "alive"}
           threads == hit \ {group[suspect]}
           first   == hit \ threads
<1>1. suspect \in Tasks /\ hooks = "attached" /\ suspect' = Nobody /\ mistaken' = FALSE
  BY DEF KillSuspect, IInv, Typed
<1>2. CASE state[suspect] = "free"
  <2>1. UNCHANGED <<held, hooks, monitored, state, group, family, unseen, leaked>>
    BY <1>2 DEF KillSuspect, tasks, history
  <2> QED
    BY <1>1, <2>1 DEF IInv, Typed, Grouped, Kinship, KeysFit, Seen, Early, HeldBack, KillHitsFamily
<1>3. CASE state[suspect] # "free"
  <2>1. /\ state' = [t \in Tasks |-> IF t \in threads THEN "free"
                                    ELSE IF t \in hit THEN "zombie" ELSE state[t]]
        /\ group' = [t \in Tasks |-> IF t \in threads THEN t ELSE group[t]]
        /\ family' = family \ threads /\ unseen' = unseen \ threads
        /\ monitored' = monitored \ hit /\ leaked' = leaked \intersect monitored'
        /\ held' = held /\ hooks' = hooks
    BY <1>1, <1>3 DEF KillSuspect, HandleExit, ExitHook, Leaves
  <2>2. \A t \in threads : group[t] # t
    BY <1>1 DEF IInv, Grouped
  <2>3. \A t \in hit \ threads : group[t] = t
    BY <1>1 DEF IInv, Grouped
  <2> HIDE DEF hit, threads
  <2>4. threads \in SUBSET Tasks /\ hit \in SUBSET Tasks /\ threads \subseteq hit
    BY DEF hit, threads
  <2>5. Typed'
    BY <1>1, <2>1, <2>4 DEF IInv, Typed
  <2>6. Grouped' /\ Kinship'
    BY <2>1, <2>2, <2>3, <2>4 DEF IInv, Typed, Grouped, Kinship
  <2>7. KeysFit' /\ Seen' /\ Early' /\ HeldBack' /\ KillHitsFamily'
    BY <1>1, <2>1, <2>2, <2>4, TasksAssumption
    DEF IInv, Typed, Grouped, Kinship, KeysFit, Seen, Early, HeldBack, KillHitsFamily
  <2> QED
    BY <2>5, <2>6, <2>7 DEF IInv
<1> QED
  BY <1>2, <1>3

--------------------------------------------------------------------------------
(* Theorems.                                                               *)

LEMMA IInvHolds == SafetySpec => []IInv
<1>1. Init => IInv
  <2> SUFFICES ASSUME Init
               PROVE  IInv
    OBVIOUS
  <2> USE TasksAssumption DEF Init
  <2>1. Typed
    BY DEF Stages, Typed
  <2>2. Grouped /\ Kinship /\ KeysFit
    BY DEF Grouped, Kinship, KeysFit
  <2>3. Seen /\ Early /\ HeldBack
    BY DEF Seen, Early, HeldBack
  <2>4. KillHitsFamily
    BY NobodyAssumption DEF KillHitsFamily
  <2> QED
    BY <2>1, <2>2, <2>3, <2>4 DEF IInv
<1>2. IInv /\ [Next]_vars => IInv'
  <2> SUFFICES ASSUME IInv, [Next]_vars
               PROVE  IInv'
    OBVIOUS
  <2>1. CASE UNCHANGED vars
    BY <2>1 DEF vars, IInv, Typed, Grouped, Kinship, KeysFit, Seen, Early, HeldBack, KillHitsFamily
  <2>2. CASE NewMonitor
    BY <2>2, AttachKeeps
  <2>3. ASSUME NEW t \in Tasks, NEW n \in Tasks, ForkProcess(t, n) \/ CloneThread(t, n)
        PROVE  IInv'
    BY <2>3, BornKeeps
  <2>4. ASSUME NEW t \in Tasks, ExitTask(t) \/ Collect(t) \/ Exec(t) \/ Report(t)
        PROVE  IInv'
    BY <2>4, ExitKeeps, CollectKeeps, ExecKeeps, ReportKeeps
  <2>5. CASE KillSuspect
    BY <2>5, KillKeeps
  <2> QED
    BY <2>1, <2>2, <2>3, <2>4, <2>5 DEF Next
<1> QED
  BY <1>1, <1>2, PTL DEF SafetySpec

LEMMA BoundedHolds == SafetySpec => []Bounded
<1>1. Init => Bounded
  BY FS_EmptySet, CapacityAssumption DEF Init, Bounded
<1>2. Bounded /\ IInv /\ [Next]_vars => Bounded'
  <2> SUFFICES ASSUME Bounded, IInv, [Next]_vars
               PROVE  Bounded'
    OBVIOUS
  <2>1. \/ monitored' \subseteq monitored
        \/ monitored' = {Target}
        \/ \E n \in Tasks : Insert(n)
    BY DEF Next, vars, NewMonitor, Register, AttachLsm, SetMode, SetPrefixes, AttachFork, AttachExit,
           AttachOthers, Attach, NewFails, ForkProcess, CloneThread, Born, HandleFork, ExitTask,
           HandleExit, Collect, Exec, Report, KillSuspect
  <2>2. CASE monitored' \subseteq monitored
    BY <2>2, FS_Subset, FS_CardinalityType, CapacityAssumption DEF Bounded
  <2>3. CASE monitored' = {Target}
    BY <2>3, FS_Singleton, CapacityAssumption DEF Bounded
  <2>4. ASSUME NEW n \in Tasks, Insert(n)
        PROVE  Bounded'
    <3>1. CASE n \in monitored /\ monitored' = monitored \union {n}
      BY <3>1 DEF Bounded
    <3>2. CASE Cardinality(monitored) < MapCapacity /\ monitored' = monitored \union {n}
      <4>1. /\ IsFiniteSet(monitored')
            /\ Cardinality(monitored') \in {Cardinality(monitored), Cardinality(monitored) + 1}
        BY <3>2, FS_AddElement DEF Bounded
      <4>2. Cardinality(monitored) \in Nat
        BY FS_CardinalityType DEF Bounded
      <4> QED
        BY <3>2, <4>1, <4>2, CapacityAssumption DEF Bounded
    <3>3. ASSUME NEW e \in monitored, n \notin monitored, monitored' = (monitored \ {e}) \union {n}
          PROVE  Bounded'
      <4>1. IsFiniteSet(monitored \ {e}) /\ Cardinality(monitored \ {e}) = Cardinality(monitored) - 1
        BY FS_RemoveElement DEF Bounded
      <4>2. Cardinality(monitored') = Cardinality(monitored \ {e}) + 1 /\ IsFiniteSet(monitored')
        BY <3>3, <4>1, FS_AddElement
      <4> QED
        BY <4>1, <4>2, FS_CardinalityType DEF Bounded
    <3> QED
      BY <2>4, <3>1, <3>2, <3>3 DEF Insert
  <2> QED
    BY <2>1, <2>2, <2>3, <2>4
<1> QED
  BY <1>1, <1>2, IInvHolds, PTL DEF SafetySpec

\* MONITORED_PIDS never exceeds its capacity, and keys left over are keys.
THEOREM TypeCorrect == SafetySpec => []TypeOK
<1>1. IInv /\ Bounded => TypeOK
  BY DEF IInv, Typed, Bounded, TypeOK
<1> QED
  BY <1>1, IInvHolds, BoundedHolds, PTL

\* handle_fork and handle_exit lose no member of the family, whatever the number
\* of tasks and the order of forks, clones, execs and exits.
THEOREM FamilyObservedHolds == SafetySpec => []FamilyObserved
<1>1. IInv => FamilyObserved
  BY DEF IInv, Typed, Seen, FamilyObserved
<1> QED
  BY <1>1, IInvHolds, PTL

\* So where a thread of the family is not observed, its process having been seen, the
\* first thread of it has exited: there is no other way to the state that
\* ThreadsObserved excludes.
THEOREM ThreadsLostWithTheFirst ==
  SafetySpec => [](hooks = "attached" =>
                     \A t \in Tasks :
                       state[t] = "alive" /\ group[t] \in family \ unseen =>
                         group[t] \in monitored \/ state[group[t]] = "zombie")
<1> DEFINE Kept == hooks = "attached" =>
                     \A t \in Tasks :
                       state[t] = "alive" /\ group[t] \in family \ unseen =>
                         group[t] \in monitored \/ state[group[t]] = "zombie"
<1>1. ASSUME IInv, hooks = "attached", NEW t \in Tasks, state[t] = "alive",
             group[t] \in family \ unseen, group[t] \notin monitored
      PROVE  state[group[t]] = "zombie"
  <2>1. group[t] \in Tasks /\ group[group[t]] = group[t] /\ state[group[t]] # "free"
    BY <1>1 DEF IInv, Typed, Grouped
  <2> QED
    BY <1>1, <2>1 DEF IInv, Typed, Seen
<1>2. IInv => Kept
  BY <1>1
<1> QED
  BY <1>2, IInvHolds, PTL

\* And they follow nobody else, though numbers are used again.
THEOREM StrangersLeftAloneHolds == SafetySpec => []StrangersLeftAlone
<1>1. IInv => StrangersLeftAlone
  BY DEF IInv, KeysFit, StrangersLeftAlone
<1> QED
  BY <1>1, IInvHolds, PTL

\* A kill that is on its way hits the family, or a number that was given back.
THEOREM KillHitsFamilyHolds == SafetySpec => []KillHitsFamily
<1>1. IInv => KillHitsFamily
  BY DEF IInv
<1> QED
  BY <1>1, IInvHolds, PTL

\* lsm_file_open refuses nothing that it can read before it has been told what to
\* refuse, in watch mode: no process that it looks at acts until then.
THEOREM OpensJudgedByPolicyHolds == SafetySpec => []OpensJudgedByPolicy
<1>1. IInv => OpensJudgedByPolicy
  <2> SUFFICES ASSUME IInv, held, NEW t \in Tasks, NEW allowed \in BOOLEAN, NEW fits \in BOOLEAN,
                      NEW mode \in {"Enforce", "Monitor"}, Refuses(t, mode, allowed, fits), fits
               PROVE  mode = "Enforce" /\ ~allowed
    BY DEF OpensJudgedByPolicy
  <2>1. hooks = "attached"
    BY DEF IInv, HeldBack, Refuses, MayAct
  <2> QED
    BY <2>1 DEF Refuses
<1> QED
  BY <1>1, IInvHolds, PTL

\* In a dry run it refuses a path that does not fit into its buffer, and one that does
\* in --pid mode only, while the mode is not set: the window that DryRunOnlyAudits
\* shows and the unreadable path are the only ways.
THEOREM DryRunRefusesOnlyEarly ==
  SafetySpec => [](\A t \in Tasks, allowed, fits \in BOOLEAN :
                     Refuses(t, "Monitor", allowed, fits) => ~fits \/ (~held /\ hooks = "lsm"))
<1> DEFINE Only == \A t \in Tasks, allowed, fits \in BOOLEAN :
                     Refuses(t, "Monitor", allowed, fits) => ~fits \/ (~held /\ hooks = "lsm")
<1>1. ASSUME IInv, NEW t \in Tasks, NEW allowed \in BOOLEAN, NEW fits \in BOOLEAN,
             Refuses(t, "Monitor", allowed, fits), fits
      PROVE  ~held /\ hooks = "lsm"
  BY <1>1 DEF IInv, HeldBack, Refuses, MayAct
<1>2. IInv => Only
  BY <1>1
<1> QED
  BY <1>2, IInvHolds, PTL
================================================================================
