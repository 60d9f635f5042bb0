----------------------------- MODULE PipelineProofs -----------------------------
(***************************************************************************)
(* Invariants of Pipeline for every policy, every set of addresses and     *)
(* messages, and every capacity of the ring: its types, what the caches    *)
(* may say, and the order of answers and connects on their way.            *)
(***************************************************************************)
EXTENDS Pipeline, TLAPS

\* What the hooks write into an event, and what the history in it says.
Shaped(e) ==
  /\ e \in EventRecords
  /\ e.op = "read" => e.type = "READ" /\ e.target \in Paths
  /\ e.op = "exec" => e.type = "EXEC" /\ e.target \in Programs
  /\ e.op = "receive" => IsDns(e)
  /\ e.op = "connect" => e.type = "NETWORK" /\ e.resolved \in {0, 2}
  /\ e.op = "connect6" => IsDns(e) /\ ~Parsed(e.target)
  /\ IsDns(e) => e.target \in Message /\ (Parsed(e.target) => e.target.name \in Domains)
  /\ IsRaw(e) => e.target \in Ips /\ e.op = "connect"
  /\ IsRaw(e) /\ e.told # {} => e.latest \in e.told \union {Missed}
  /\ e.op = "connect" /\ e.resolved = 2 => e.target \in e.told

\* What an event in the ring or at the loop tells has been told.
Remembered(e) == \A ip \in Ips : Tells(e, ip) => e.target.name \in told[ip]

Types ==
  /\ TypeOK
  /\ Shaped(current) /\ \A i \in 1..Len(ring) : Shaped(ring[i])
  /\ \A ip \in to_publish : Tells(current, ip)

Sources ==
  /\ CachesAgree
  /\ Remembered(current) /\ \A i \in 1..Len(ring) : Remembered(ring[i])
  /\ \A ip \in Ips : told[ip] # {} => latest[ip] \in told[ip] \union {Missed}

\* What a raw connect on its way finds in the cache, or what may get there before it,
\* DNS had told of its address when it was made: no later answer makes it innocent.
ToldAhead ==
  /\ \A i \in 1..Len(ring) : IsRaw(ring[i]) =>
       /\ local_dns_cache[ring[i].target] \in ring[i].told \union {None}
       /\ Tells(current, ring[i].target) => current.target.name \in ring[i].told
       /\ \A j \in 1..(i - 1) :
            Tells(ring[j], ring[i].target) => ring[j].target.name \in ring[i].told
  /\ IsRaw(current) => local_dns_cache[current.target] \in current.told \union {None}

\* The ring after a hook has sent the event e, if there was room for it.
LEMMA EmitKeeps ==
  ASSUME NEW e, Shaped(e), ring \in Seq(EventRecords), Len(ring) <= RingCapacity,
         \A i \in 1..Len(ring) : Shaped(ring[i]), Emit(e)
  PROVE  /\ ring' \in Seq(EventRecords) /\ Len(ring') <= RingCapacity
         /\ \A i \in 1..Len(ring') : Shaped(ring'[i])
         /\ \A i \in 1..Len(ring') : (i \in 1..Len(ring) /\ ring'[i] = ring[i]) \/ ring'[i] = e
<1>0. e \in EventRecords
  BY DEF Shaped
<1>1. CASE ring' = Append(ring, e) /\ Len(ring) < RingCapacity
  <2>1. ring' \in Seq(EventRecords) /\ Len(ring') = Len(ring) + 1
    BY <1>0, <1>1
  <2>2. \A i \in 1..Len(ring') : (i \in 1..Len(ring) /\ ring'[i] = ring[i]) \/ ring'[i] = e
    BY <1>0, <1>1
  <2> QED
    BY <2>1, <2>2, <1>1, RingCapacityAssumption
<1>2. CASE ring' = ring
  BY <1>2
<1> QED
  BY <1>1, <1>2 DEF Emit

\* A hook sends e and the rest of the machine stays as it is.
LEMMA SendKeeps ==
  ASSUME Types, NEW e, Shaped(e), Emit(e),
         UNCHANGED <<mode, enforcement, caches, current, to_publish>>,
         alive' \in BOOLEAN,
         told' \in [Ips -> SUBSET Domains], latest' \in [Ips -> Domains \union {None, Missed}]
  PROVE  Types'
<1>1. /\ ring' \in Seq(EventRecords) /\ Len(ring') <= RingCapacity
      /\ \A i \in 1..Len(ring') : Shaped(ring'[i])
  BY EmitKeeps DEF Types, TypeOK
<1>2. TypeOK'
  BY <1>1 DEF Types, TypeOK, caches
<1>3. Shaped(current)' /\ (\A i \in 1..Len(ring) : Shaped(ring[i]))'
  BY <1>1 DEF Types, Shaped, EventRecords, Targets
<1>4. (\A ip \in to_publish : Tells(current, ip))'
  BY DEF Types, Tells
<1> QED
  BY <1>2, <1>3, <1>4 DEF Types

\* The hooks whose events tell no address and are no connects that ask for one.
PlainHook ==
  \/ \E path \in Paths, forWrite \in BOOLEAN : OpenFile(path, forWrite)
  \/ \E program \in Programs : Execve(program)
  \/ Ptrace
  \/ Connect6

LEMMA PlainHooks ==
  ASSUME Types, PlainHook
  PROVE  /\ UNCHANGED <<mode, enforcement, told, latest, caches, current, to_publish>>
         /\ alive' \in BOOLEAN
         /\ \/ UNCHANGED ring
            \/ \E e \in EventRecords : /\ Shaped(e) /\ Emit(e) /\ e.op # "connect"
                                       /\ \A ip \in Ips : ~Tells(e, ip)
<1> DEFINE Sent(e) == /\ Shaped(e) /\ e \in EventRecords /\ e.op # "connect"
                      /\ \A ip \in Ips : ~Tells(e, ip)
<1> USE DEF process, config
<1>1. ASSUME NEW path \in Paths, NEW forWrite \in BOOLEAN, OpenFile(path, forWrite)
      PROVE  /\ UNCHANGED <<mode, enforcement, alive, told, latest, caches, current, to_publish>>
             /\ \E e : Sent(e) /\ Emit(e)
  <2>1. Sent(Event("READ", 0, path, IF forWrite THEN "write" ELSE "read"))
    BY DEF Shaped, Event, EventRecords, Targets, IsDns, IsRaw, Tells
  <2>2. Sent(Event("READ", 0, path, "read")) /\ Sent(Event("WRITE", 0, path, "write"))
    BY DEF Shaped, Event, EventRecords, Targets, IsDns, IsRaw, Tells
  <2>3. \E e : Sent(e) /\ Emit(e)
    <3> HIDE DEF Sent
    <3> QED
      BY <1>1, <2>1, <2>2 DEF OpenFile, HandleOpen, LsmFileOpen
  <2> QED
    BY <1>1, <2>3 DEF OpenFile
<1>2. ASSUME NEW program \in Programs, Execve(program)
      PROVE  /\ UNCHANGED <<mode, enforcement, told, latest, caches, current, to_publish>>
             /\ alive' \in BOOLEAN
             /\ UNCHANGED ring \/ \E e : Sent(e) /\ Emit(e)
  <2>1. Sent(Event("EXEC", 0, program, "exec"))
    BY DEF Shaped, Event, EventRecords, Targets, IsDns, IsRaw, Tells
  <2>2. UNCHANGED ring \/ \E e : Sent(e) /\ Emit(e)
    <3> HIDE DEF Sent
    <3> QED
      BY <1>2, <2>1 DEF Execve, HandleExecve, LsmExecCheck
  <2>3. alive' \in BOOLEAN
    BY <1>2 DEF Execve, HandleExecve, LsmExecCheck, Types, TypeOK
  <2> QED
    BY <1>2, <2>2, <2>3 DEF Execve
<1>3. ASSUME Ptrace
      PROVE  /\ UNCHANGED <<mode, enforcement, alive, told, latest, caches, current, to_publish>>
             /\ \E e : Sent(e) /\ Emit(e)
  <2>1. Sent(Event("SYSCALL", 0, None, "ptrace"))
    BY DEF Shaped, Event, EventRecords, Targets, IsDns, IsRaw, Tells
  <2> QED
    BY <1>3, <2>1 DEF Ptrace
<1>4. ASSUME Connect6
      PROVE  /\ UNCHANGED <<mode, enforcement, alive, told, latest, caches, current, to_publish>>
             /\ \E e : Sent(e) /\ Emit(e)
  <2> DEFINE marker == [answers |-> TRUE, readable |-> FALSE, name |-> Ipv6Text, ips |-> {}]
  <2>1. marker \in Message /\ ~Parsed(marker)
    BY DEF Message, Parsed
  <2>2. Sent(Event("NETWORK", 1, marker, "connect6"))
    BY <2>1 DEF Shaped, Event, EventRecords, Targets, IsDns, IsRaw, Tells
  <2> QED
    BY <1>4, <2>2 DEF Connect6
<1>5. alive \in BOOLEAN
  BY DEF Types, TypeOK
<1> HIDE DEF process, config
<1> QED
  BY <1>1, <1>2, <1>3, <1>4, <1>5 DEF PlainHook

LEMMA ConnectShaped ==
  ASSUME Types, Sources, NEW ip \in Ips
  PROVE  Shaped(ConnectEvent(ip))
<1>1. told[ip] \in SUBSET Domains /\ latest[ip] \in Domains \union {None, Missed}
      /\ (told[ip] # {} => latest[ip] \in told[ip] \union {Missed})
  BY DEF Types, TypeOK, Sources
<1>2. CASE ip_to_domain[ip] # None
  <2>1. ip_to_domain[ip] \in told[ip] /\ ip_to_domain[ip] \in Targets
    BY <1>1, <1>2 DEF Sources, CachesAgree, Targets
  <2>2. ConnectEvent(ip) = [type |-> "NETWORK", resolved |-> 2, target |-> ip_to_domain[ip],
                            op |-> "connect", told |-> told[ip], latest |-> None]
    BY <1>2 DEF ConnectEvent
  <2>3. ConnectEvent(ip) \in EventRecords
    BY <1>1, <2>1, <2>2 DEF EventRecords
  <2> QED
    BY <1>1, <2>1, <2>2, <2>3 DEF Shaped, IsDns, IsRaw
<1>3. CASE ip_to_domain[ip] = None
  <2>1. ConnectEvent(ip) = [type |-> "NETWORK", resolved |-> 0, target |-> ip,
                            op |-> "connect", told |-> told[ip], latest |-> latest[ip]]
    BY <1>3 DEF ConnectEvent
  <2>2. ConnectEvent(ip) \in EventRecords
    BY <1>1, <2>1 DEF EventRecords, Targets
  <2> QED
    BY <1>1, <2>1, <2>2 DEF Shaped, IsDns, IsRaw
<1> QED
  BY <1>2, <1>3

LEMMA TypesStep ==
  ASSUME Types, Sources, Next
  PROVE  Types'
<1> USE DEF process, config
<1>1. CASE PlainHook
  <2>1. UNCHANGED ring => Types'
    BY <1>1, PlainHooks DEF Types, TypeOK, Shaped, Tells, EventRecords, Targets, caches
  <2>2. ASSUME NEW e \in EventRecords, Shaped(e), Emit(e)
        PROVE  Types'
    BY <1>1, <2>2, PlainHooks, SendKeeps DEF Types, TypeOK
  <2> QED
    BY <1>1, <2>1, <2>2, PlainHooks
<1>4. ASSUME NEW message \in Messages, NEW kept \in BOOLEAN, Receive(message, kept)
      PROVE  Types'
  <2>1. message \in Message /\ message.name \in Domains
    BY MessagesAssumption
  <2>2. Shaped(Event("NETWORK", 1, message, "receive"))
    BY <2>1 DEF Shaped, Event, EventRecords, Targets, IsDns, IsRaw
  <2>3. alive' \in BOOLEAN
        /\ told' \in [Ips -> SUBSET Domains] /\ latest' \in [Ips -> Domains \union {None, Missed}]
    BY <1>4, <2>1 DEF Receive, Types, TypeOK
  <2>4. CASE kept
    BY <1>4, <2>2, <2>3, <2>4, SendKeeps DEF Receive
  <2>5. CASE UNCHANGED ring
    BY <1>4, <2>3, <2>5 DEF Receive, Types, TypeOK, Shaped, Tells, EventRecords, Targets, caches
  <2> QED
    BY <1>4, <2>4, <2>5 DEF Receive
<1>5. ASSUME NEW ip \in Ips, Connect(ip)
      PROVE  Types'
  <2>1. Shaped(ConnectEvent(ip))
    BY ConnectShaped
  <2>2. alive' \in BOOLEAN
        /\ told' \in [Ips -> SUBSET Domains] /\ latest' \in [Ips -> Domains \union {None, Missed}]
    BY <1>5 DEF Connect, Types, TypeOK
  <2> QED
    BY <1>5, <2>1, <2>2, SendKeeps DEF Connect
<1>7. ASSUME NEW ip \in Ips, EvictIp(ip)
      PROVE  Types'
  <2>1. TypeOK'
    BY <1>7 DEF EvictIp, Types, TypeOK
  <2> QED
    BY <1>7, <2>1 DEF EvictIp, Types, Shaped, Tells, EventRecords, Targets
<1>8. CASE TakeEvent
  <2> DEFINE e == Head(ring)
  <2>1. /\ ring' \in Seq(EventRecords) /\ Len(ring') <= RingCapacity
        /\ \A i \in 1..Len(ring') : i + 1 \in 1..Len(ring) /\ ring'[i] = ring[i + 1]
        /\ e = ring[1] /\ e \in EventRecords /\ Len(ring) > 0
    BY <1>8, RingCapacityAssumption DEF TakeEvent, Types, TypeOK
  <2>2. (\A i \in 1..Len(ring) : Shaped(ring[i]))'
    BY <2>1 DEF Types, Shaped, EventRecords, Targets
  <2>3. Shaped(e)
    BY <2>1 DEF Types
  <2>4. CASE e.type \in HandledTypes
    <3>1. current' = e /\ to_publish' = (IF IsDns(e) /\ Parsed(e.target) THEN e.target.ips ELSE {})
      BY <1>8, <2>4 DEF TakeEvent
    <3>2. to_publish' \subseteq Ips /\ \A ip \in to_publish' : Tells(e, ip)
      BY <2>3, <3>1 DEF Shaped, Tells, Message
    <3> HIDE DEF e
    <3>3. TypeOK'
      BY <1>8, <2>1, <3>1, <3>2 DEF TakeEvent, Types, TypeOK, EventRecords, Targets, caches
    <3>4. Shaped(current)'
      BY <2>3, <3>1 DEF Shaped, EventRecords, Targets
    <3>5. (\A ip \in to_publish : Tells(current, ip))'
      BY <3>1, <3>2 DEF Tells
    <3> QED
      BY <2>2, <3>3, <3>4, <3>5 DEF Types
  <2>5. CASE UNCHANGED <<current, to_publish>>
    <3>1. TypeOK'
      BY <1>8, <2>1, <2>5 DEF TakeEvent, Types, TypeOK, EventRecords, Targets, caches
    <3> QED
      BY <2>2, <2>5, <3>1 DEF Types, Shaped, Tells, EventRecords, Targets
  <2> QED
    BY <1>8, <2>4, <2>5 DEF TakeEvent
<1>9. ASSUME NEW ip \in Ips, NEW written \in BOOLEAN, PublishIp(ip, written)
      PROVE  Types'
  <2>1. current.target.name \in Domains
    BY <1>9 DEF PublishIp, Types, Shaped, Tells
  <2>2. TypeOK'
    BY <1>9, <2>1 DEF PublishIp, Types, TypeOK, EventRecords, Targets
  <2> QED
    BY <1>9, <2>2 DEF PublishIp, Types, Shaped, Tells, EventRecords, Targets
<1>10. CASE Enforce
  <2>1. Shaped(Idle)
    BY DEF Shaped, Idle, EventRecords, Targets, IsDns, IsRaw
  <2>2. TypeOK'
    BY <1>10, <2>1 DEF Enforce, Ready, Types, TypeOK, Shaped, EventRecords, Targets, caches
  <2>3. Shaped(current)'
    BY <1>10, <2>1 DEF Enforce, Shaped, EventRecords, Targets
  <2> QED
    BY <1>10, <2>2, <2>3 DEF Enforce, Ready, Types, Shaped, Tells, EventRecords, Targets
<1> QED
  BY <1>1, <1>4, <1>5, <1>7, <1>8, <1>9, <1>10 DEF Next, Loop, PlainHook

\* Only Receive and Connect send events that tell an address or are told one; the
\* others leave the history as it is.
LEMMA SourcesStep ==
  ASSUME Types, Sources, Next
  PROVE  Sources'
<1> USE DEF process, config, caches
<1>1. ASSUME NEW e, Shaped(e), Remembered(e), Emit(e),
             UNCHANGED <<told, latest, caches, current>>
      PROVE  Sources'
  <2>1. \A i \in 1..Len(ring') : (i \in 1..Len(ring) /\ ring'[i] = ring[i]) \/ ring'[i] = e
    BY <1>1, EmitKeeps DEF Types, TypeOK
  <2> QED
    BY <1>1, <2>1 DEF Sources, CachesAgree, Remembered, Tells
<1>2. ASSUME UNCHANGED <<told, latest, caches, current, ring>>
      PROVE  Sources'
  BY <1>2 DEF Sources, CachesAgree, Remembered, Tells
<1>3. CASE PlainHook
  <2>1. ASSUME NEW e \in EventRecords, Shaped(e), Emit(e), \A ip \in Ips : ~Tells(e, ip)
        PROVE  Sources'
    BY <1>1, <1>3, <2>1, PlainHooks DEF Remembered
  <2> QED
    BY <1>2, <1>3, <2>1, PlainHooks
<1>4. ASSUME NEW message \in Messages, NEW kept \in BOOLEAN, Receive(message, kept)
      PROVE  Sources'
  <2> DEFINE e == Event("NETWORK", 1, message, "receive")
             ips == IF Parsed(message) THEN message.ips ELSE {}
             last == IF kept /\ Len(ring) < RingCapacity THEN message.name ELSE Missed
  <2>1. message \in Message /\ message.name \in Domains /\ ips \subseteq Ips
    BY MessagesAssumption DEF Message
  <2>2. Shaped(e)
    BY <2>1 DEF Shaped, Event, EventRecords, Targets, IsDns, IsRaw
  <2>3. /\ told' = [ip \in Ips |-> IF ip \in ips THEN told[ip] \union {message.name} ELSE told[ip]]
        /\ latest' = [ip \in Ips |-> IF ip \in ips THEN last ELSE latest[ip]]
        /\ UNCHANGED <<caches, current>>
    BY <1>4 DEF Receive, Parsed
  <2>4. \A i \in 1..Len(ring') : (i \in 1..Len(ring) /\ ring'[i] = ring[i]) \/ ring'[i] = e
    <3>1. CASE kept
      BY <1>4, <2>2, <3>1, EmitKeeps DEF Receive, Types, TypeOK
    <3>2. CASE ~kept
      BY <1>4, <3>2 DEF Receive
    <3> QED
      BY <3>1, <3>2
  <2>5. Remembered(e)'
    BY <2>1, <2>3 DEF Remembered, Tells, Event, IsDns, Parsed
  <2> HIDE DEF ips, e
  <2>0. last \in {message.name, Missed}
    OBVIOUS
  <2> HIDE DEF last
  <2>6. \A ip \in Ips : told[ip] \subseteq told'[ip]
    BY <2>3
  <2>7. CachesAgree'
    BY <2>3, <2>6 DEF Sources, CachesAgree
  <2>8. Remembered(current)' /\ (\A i \in 1..Len(ring) : Remembered(ring[i]))'
    BY <2>3, <2>4, <2>5, <2>6 DEF Sources, Remembered, Tells
  <2>9. (\A ip \in Ips : told[ip] # {} => latest[ip] \in told[ip] \union {Missed})'
    BY <2>0, <2>3 DEF Sources
  <2> QED
    BY <2>7, <2>8, <2>9 DEF Sources
<1>5. ASSUME NEW ip \in Ips, Connect(ip)
      PROVE  Sources'
  <2>1. Shaped(ConnectEvent(ip))
    BY ConnectShaped
  <2>2. Remembered(ConnectEvent(ip))
    BY DEF ConnectEvent, Remembered, Tells, IsDns
  <2> QED
    BY <1>1, <1>5, <2>1, <2>2 DEF Connect
<1>6. ASSUME NEW ip \in Ips, EvictIp(ip)
      PROVE  Sources'
  BY <1>6 DEF EvictIp, Sources, CachesAgree, Remembered, Tells, Types, TypeOK
<1>7. CASE TakeEvent
  <2>1. /\ \A i \in 1..Len(ring') : i + 1 \in 1..Len(ring) /\ ring'[i] = ring[i + 1]
        /\ 1 \in 1..Len(ring) /\ current' \in {ring[1], current}
        /\ UNCHANGED <<told, latest, caches>>
    BY <1>7 DEF TakeEvent, Types, TypeOK
  <2>2. CachesAgree'
    BY <2>1 DEF Sources, CachesAgree
  <2>3. (\A i \in 1..Len(ring) : Remembered(ring[i]))'
    BY <2>1 DEF Sources, Remembered, Tells
  <2>4. Remembered(current)'
    BY <2>1 DEF Sources, Remembered, Tells
  <2> QED
    BY <2>1, <2>2, <2>3, <2>4 DEF Sources
<1>8. ASSUME NEW ip \in Ips, NEW written \in BOOLEAN, PublishIp(ip, written)
      PROVE  Sources'
  <2>1. current.target.name \in told[ip]
    BY <1>8 DEF PublishIp, Types, Sources, Remembered
  <2>2. CachesAgree'
    BY <1>8, <2>1 DEF PublishIp, Sources, CachesAgree, Types, TypeOK
  <2> QED
    BY <1>8, <2>2 DEF PublishIp, Sources, Remembered, Tells
<1>9. CASE Enforce
  <2>1. Remembered(Idle)'
    BY DEF Remembered, Tells, Idle, IsDns
  <2> QED
    BY <1>9, <2>1 DEF Enforce, Sources, CachesAgree, Remembered, Tells
<1> QED
  BY <1>3, <1>4, <1>5, <1>6, <1>7, <1>8, <1>9 DEF Next, Loop, PlainHook

--------------------------------------------------------------------------------
(* Nothing a connect is judged by is newer than the connect.               *)

\* A hook appends e, or finds the ring full.
LEMMA AheadSent ==
  ASSUME Types, Sources, ToldAhead, NEW e \in EventRecords, Emit(e),
         UNCHANGED <<local_dns_cache, current>>,
         IsRaw(e) => e.target \in Ips /\ e.told = told[e.target]
  PROVE  ToldAhead'
<1> DEFINE n == Len(ring)
<1>1. CASE ring' = ring
  BY <1>1 DEF ToldAhead
<1>2. CASE ring' = Append(ring, e)
  <2>1. /\ n \in Nat /\ Len(ring') = n + 1 /\ ring'[n + 1] = e
        /\ \A i \in 1..n : ring'[i] = ring[i]
    BY <1>2 DEF Types, TypeOK
  <2> HIDE DEF n
  <2>2. ASSUME NEW i \in 1..n, IsRaw(ring[i])
        PROVE  /\ local_dns_cache[ring[i].target] \in ring[i].told \union {None}
               /\ Tells(current, ring[i].target) => current.target.name \in ring[i].told
               /\ \A j \in 1..(i - 1) :
                    Tells(ring'[j], ring[i].target) => ring'[j].target.name \in ring[i].told
    <3>1. \A j \in 1..(i - 1) : ring'[j] = ring[j]
      BY <2>1
    <3> QED
      BY <2>2, <3>1 DEF ToldAhead, n
  <2>3. ASSUME IsRaw(e)
        PROVE  /\ local_dns_cache[e.target] \in e.told \union {None}
               /\ Tells(current, e.target) => current.target.name \in e.told
               /\ \A j \in 1..n : Tells(ring'[j], e.target) => ring'[j].target.name \in e.told
    BY <2>1, <2>3 DEF Sources, CachesAgree, Remembered, n
  <2>4. ASSUME NEW i \in 1..(n + 1)
        PROVE  i \in 1..n \/ (i = n + 1 /\ i - 1 = n)
    BY <2>1
  <2>5. \A i \in 1..Len(ring') : IsRaw(ring'[i]) =>
          /\ local_dns_cache'[ring'[i].target] \in ring'[i].told \union {None}
          /\ Tells(current', ring'[i].target) => current'.target.name \in ring'[i].told
          /\ \A j \in 1..(i - 1) :
               Tells(ring'[j], ring'[i].target) => ring'[j].target.name \in ring'[i].told
    BY <2>1, <2>2, <2>3, <2>4
  <2> QED
    BY <2>5 DEF ToldAhead
<1> QED
  BY <1>1, <1>2 DEF Emit

LEMMA AheadStep ==
  ASSUME Types, Sources, ToldAhead, Next
  PROVE  ToldAhead'
<1>0. ASSUME UNCHANGED <<ring, local_dns_cache, current>>
      PROVE  ToldAhead'
  BY <1>0 DEF ToldAhead, Tells
<1>1. CASE PlainHook
  <2>1. ASSUME NEW e \in EventRecords, Shaped(e), Emit(e), e.op # "connect"
        PROVE  ToldAhead'
    BY <1>1, <2>1, PlainHooks, AheadSent DEF Shaped, caches
  <2> QED
    BY <1>0, <1>1, <2>1, PlainHooks DEF caches
<1>2. ASSUME NEW message \in Messages, NEW kept \in BOOLEAN, Receive(message, kept)
      PROVE  ToldAhead'
  <2> DEFINE e == Event("NETWORK", 1, message, "receive")
  <2>1. e \in EventRecords /\ ~IsRaw(e)
    BY MessagesAssumption DEF Event, EventRecords, Targets, IsRaw
  <2>2. UNCHANGED <<local_dns_cache, current>> /\ (Emit(e) \/ UNCHANGED ring)
    BY <1>2 DEF Receive, caches
  <2> HIDE DEF e
  <2> QED
    BY <1>0, <2>1, <2>2, AheadSent
<1>3. ASSUME NEW ip \in Ips, Connect(ip)
      PROVE  ToldAhead'
  <2>1. ConnectEvent(ip) \in EventRecords
    BY ConnectShaped DEF Shaped
  <2>2. IsRaw(ConnectEvent(ip)) => ConnectEvent(ip).target = ip /\ ConnectEvent(ip).told = told[ip]
    BY DEF ConnectEvent, IsRaw
  <2> QED
    BY <1>3, <2>1, <2>2, AheadSent DEF Connect, caches
<1>4. ASSUME NEW ip \in Ips, EvictIp(ip)
      PROVE  ToldAhead'
  BY <1>0, <1>4 DEF EvictIp
<1>5. CASE TakeEvent
  <2> DEFINE n == Len(ring)
  <2>1. /\ n \in Nat \ {0} /\ Len(ring') = n - 1
        /\ \A i \in 1..(n - 1) : ring'[i] = ring[i + 1]
        /\ current' \in {ring[1], current} /\ UNCHANGED local_dns_cache
    BY <1>5 DEF TakeEvent, Types, TypeOK, caches
  <2> HIDE DEF n
  <2>2. ASSUME NEW i \in 1..(n - 1), IsRaw(ring[i + 1])
        PROVE  /\ local_dns_cache[ring[i + 1].target] \in ring[i + 1].told \union {None}
               /\ Tells(current', ring[i + 1].target) => current'.target.name \in ring[i + 1].told
               /\ \A j \in 1..(i - 1) :
                    Tells(ring'[j], ring[i + 1].target) => ring'[j].target.name \in ring[i + 1].told
    <3>1. /\ i + 1 \in 1..n /\ 1 \in 1..((i + 1) - 1)
          /\ \A j \in 1..(i - 1) : ring'[j] = ring[j + 1] /\ j + 1 \in 1..((i + 1) - 1)
      BY <2>1
    <3>2. /\ local_dns_cache[ring[i + 1].target] \in ring[i + 1].told \union {None}
          /\ Tells(current, ring[i + 1].target) => current.target.name \in ring[i + 1].told
          /\ \A j \in 1..((i + 1) - 1) :
               Tells(ring[j], ring[i + 1].target) => ring[j].target.name \in ring[i + 1].told
      BY <2>2, <3>1 DEF ToldAhead, n
    <3> QED
      BY <2>1, <3>1, <3>2
  <2>3. IsRaw(current') => local_dns_cache[current'.target] \in current'.told \union {None}
    BY <2>1 DEF ToldAhead, n
  <2> QED
    BY <2>1, <2>2, <2>3 DEF ToldAhead
<1>6. ASSUME NEW ip \in Ips, NEW written \in BOOLEAN, PublishIp(ip, written)
      PROVE  ToldAhead'
  <2>1. /\ UNCHANGED <<ring, current>> /\ Tells(current, ip)
        /\ local_dns_cache' = [local_dns_cache EXCEPT ![ip] = current.target.name]
    BY <1>6 DEF PublishIp, Types
  <2>2. ASSUME NEW i \in 1..Len(ring), IsRaw(ring[i])
        PROVE  local_dns_cache'[ring[i].target] \in ring[i].told \union {None}
    <3>1. ring[i].target \in Ips
      BY <2>2 DEF Types, Shaped
    <3>2. CASE ring[i].target = ip
      BY <2>1, <2>2, <3>1, <3>2 DEF ToldAhead, Types, TypeOK
    <3>3. CASE ring[i].target # ip
      BY <2>1, <2>2, <3>1, <3>3 DEF ToldAhead, Types, TypeOK
    <3> QED
      BY <3>2, <3>3
  <2>3. ~IsRaw(current)
    BY <2>1 DEF Tells, IsDns, IsRaw
  <2> QED
    BY <2>1, <2>2, <2>3 DEF ToldAhead, Tells
<1>7. CASE Enforce
  <2>1. ~IsRaw(Idle) /\ \A ip : ~Tells(Idle, ip)
    BY DEF Idle, IsRaw, IsDns, Tells
  <2>2. UNCHANGED <<ring, local_dns_cache>> /\ current' = Idle
    BY <1>7 DEF Enforce, caches
  <2> QED
    BY <2>1, <2>2 DEF ToldAhead
<1> QED
  BY <1>1, <1>2, <1>3, <1>4, <1>5, <1>6, <1>7 DEF Next, Loop, PlainHook

--------------------------------------------------------------------------------
(* The order of answers and connects.                                      *)

\* Only the first n events matter.
LEMMA ToldAgree ==
  ASSUME NEW q, NEW r, NEW base, NEW ip, NEW n \in Nat, NEW name,
         \A j \in 1..n : q[j] = r[j], LastTold(q, base, ip, n, name)
  PROVE  LastTold(r, base, ip, n, name)
BY DEF LastTold

\* One more event that tells nothing of the address.
LEMMA ToldBefore ==
  ASSUME NEW q, NEW base, NEW ip, NEW n \in Nat, NEW name,
         ~Tells(q[n + 1], ip), LastTold(q, base, ip, n, name)
  PROVE  LastTold(q, base, ip, n + 1, name)
<1>1. \A k \in 1..(n + 1) : k \in 1..n \/ k = n + 1
  OBVIOUS
<1>2. CASE \E j \in 1..n : /\ Tells(q[j], ip) /\ name = q[j].target.name
                           /\ \A k \in (j + 1)..n : ~Tells(q[k], ip)
  <2>1. PICK j \in 1..n : /\ Tells(q[j], ip) /\ name = q[j].target.name
                          /\ \A k \in (j + 1)..n : ~Tells(q[k], ip)
    BY <1>2
  <2>2. \A k \in (j + 1)..(n + 1) : k \in (j + 1)..n \/ k = n + 1
    OBVIOUS
  <2>3. j \in 1..(n + 1) /\ \A k \in (j + 1)..(n + 1) : ~Tells(q[k], ip)
    BY <2>1, <2>2
  <2> QED
    BY <2>1, <2>3 DEF LastTold
<1>3. CASE (\A j \in 1..n : ~Tells(q[j], ip)) /\ name = base
  BY <1>1, <1>3 DEF LastTold
<1> QED
  BY <1>2, <1>3 DEF LastTold

\* One more event that does.
LEMMA ToldNow ==
  ASSUME NEW q, NEW base, NEW ip, NEW n \in Nat, Tells(q[n + 1], ip)
  PROVE  LastTold(q, base, ip, n + 1, q[n + 1].target.name)
<1>1. n + 1 \in 1..(n + 1) /\ \A k \in ((n + 1) + 1)..(n + 1) : ~Tells(q[k], ip)
  OBVIOUS
<1> QED
  BY <1>1 DEF LastTold

\* The first event leaves the queue, and what it told becomes the base.
LEMMA ToldTail ==
  ASSUME NEW q, NEW r, NEW base, NEW ip, NEW n \in Nat \ {0}, NEW name,
         \A j \in 1..(n - 1) : r[j] = q[j + 1], LastTold(q, base, ip, n, name)
  PROVE  LastTold(r, IF Tells(q[1], ip) THEN q[1].target.name ELSE base, ip, n - 1, name)
<1>1. ASSUME NEW j \in 1..n, j # 1, Tells(q[j], ip), name = q[j].target.name,
             \A k \in (j + 1)..n : ~Tells(q[k], ip)
      PROVE  \E i \in 1..(n - 1) : /\ Tells(r[i], ip) /\ name = r[i].target.name
                                   /\ \A k \in (i + 1)..(n - 1) : ~Tells(r[k], ip)
  <2>1. j - 1 \in 1..(n - 1) /\ r[j - 1] = q[j]
    BY <1>1
  <2>2. ASSUME NEW k \in ((j - 1) + 1)..(n - 1)
        PROVE  ~Tells(r[k], ip)
    <3>1. r[k] = q[k + 1] /\ k + 1 \in (j + 1)..n
      BY <2>1
    <3> QED
      BY <1>1, <3>1
  <2> QED
    BY <1>1, <2>1, <2>2
<1>2. ASSUME \A k \in 2..n : ~Tells(q[k], ip)
      PROVE  \A j \in 1..(n - 1) : ~Tells(r[j], ip)
  <2>1. ASSUME NEW j \in 1..(n - 1)
        PROVE  r[j] = q[j + 1] /\ j + 1 \in 2..n
    OBVIOUS
  <2> QED
    BY <1>2, <2>1
<1>3. CASE \E j \in 1..n : /\ Tells(q[j], ip) /\ name = q[j].target.name
                           /\ \A k \in (j + 1)..n : ~Tells(q[k], ip)
  <2>1. PICK j \in 1..n : /\ Tells(q[j], ip) /\ name = q[j].target.name
                          /\ \A k \in (j + 1)..n : ~Tells(q[k], ip)
    BY <1>3
  <2>2. CASE j = 1
    BY <1>2, <2>1, <2>2 DEF LastTold
  <2>3. CASE j # 1
    BY <1>1, <2>1, <2>3 DEF LastTold
  <2> QED
    BY <2>2, <2>3
<1>4. CASE (\A j \in 1..n : ~Tells(q[j], ip)) /\ name = base
  <2>1. ~Tells(q[1], ip) /\ \A k \in 2..n : ~Tells(q[k], ip)
    BY <1>4
  <2> QED
    BY <1>2, <1>4, <2>1 DEF LastTold
<1> QED
  BY <1>3, <1>4 DEF LastTold

\* A hook has sent e: what was in the ring stays in order, and e joins it if it is
\* no answer, or the latest one, and if what it says of DNS is what DNS said last.
LEMMA SendInOrder ==
  ASSUME Types, AnswersInOrder, NEW e, e \in EventRecords,
         ring' = Append(ring, e), UNCHANGED <<caches, current, to_publish>>,
         \A ip \in Ips : latest'[ip] = IF Tells(e, ip) THEN e.target.name ELSE latest[ip],
         IsRaw(e) => e.target \in Ips /\ e.latest = latest[e.target]
  PROVE  AnswersInOrder'
<1> DEFINE n == Len(ring)
<1>1. /\ n \in Nat /\ Len(ring') = n + 1 /\ ring'[n + 1] = e
      /\ \A i \in 1..n : ring'[i] = ring[i]
  BY DEF Types, TypeOK
<1>2. \A ip : Cached(ip)' = Cached(ip)
  BY DEF Cached, caches
<1> HIDE DEF n
<1>3. ASSUME NEW ip \in Ips, NEW m \in Nat, m <= n, NEW name, LastTold(ring, Cached(ip), ip, m, name)
      PROVE  LastTold(ring', Cached(ip)', ip, m, name)
  <2>1. \A j \in 1..m : ring[j] = ring'[j]
    BY <1>1, <1>3
  <2> QED
    BY <1>2, <1>3, <2>1, ToldAgree
<1>4. \A ip \in Ips : latest[ip] # Missed => LastTold(ring, Cached(ip), ip, n, latest[ip])
  BY DEF AnswersInOrder, n
<1>5. ASSUME NEW ip \in Ips, latest'[ip] # Missed
      PROVE  LastTold(ring', Cached(ip)', ip, n + 1, latest'[ip])
  <2>2. CASE Tells(e, ip)
    <3>1. LastTold(ring', Cached(ip)', ip, n + 1, ring'[n + 1].target.name)
      BY <1>1, <2>2, ToldNow
    <3> QED
      BY <1>1, <2>2, <3>1
  <2>3. CASE ~Tells(e, ip)
    <3>1. latest'[ip] = latest[ip]
      BY <2>3
    <3>2. LastTold(ring', Cached(ip)', ip, n, latest[ip])
      BY <1>1, <1>3, <1>4, <1>5, <3>1
    <3>3. LastTold(ring', Cached(ip)', ip, n + 1, latest[ip])
      BY <1>1, <2>3, <3>2, ToldBefore
    <3> QED
      BY <3>1, <3>3
  <2> QED
    BY <2>2, <2>3
<1>6. ASSUME NEW i \in 1..(n + 1), NEW c, c = ring'[i], IsRaw(c), c.latest # Missed
      PROVE  LastTold(ring', Cached(c.target)', c.target, i - 1, c.latest)
  <2>1. CASE i \in 1..n
    <3>1. c = ring[i] /\ c.target \in Ips /\ i - 1 \in Nat /\ i - 1 <= n
      BY <1>1, <1>6, <2>1 DEF Types, Shaped, n
    <3>2. LastTold(ring, Cached(c.target), c.target, i - 1, c.latest)
      BY <1>6, <2>1, <3>1 DEF AnswersInOrder, n
    <3> QED
      BY <1>3, <3>1, <3>2
  <2>2. CASE i = n + 1
    <3>1. c = e /\ c.target \in Ips /\ c.latest = latest[c.target] /\ i - 1 = n
      BY <1>1, <1>6, <2>2
    <3> QED
      BY <1>1, <1>3, <1>4, <1>6, <3>1
  <2> QED
    BY <1>1, <2>1, <2>2
<1>7. (IsRaw(current) /\ current.latest # Missed =>
         local_dns_cache[current.target] = current.latest)'
  BY DEF AnswersInOrder, caches
<1> QED
  BY <1>1, <1>5, <1>6, <1>7 DEF AnswersInOrder

\* The ring stays as it is, and so does what the cache will say; what DNS has said
\* last does too, or is lost.
LEMMA OrderKept ==
  ASSUME Types, AnswersInOrder, UNCHANGED ring,
         \A ip \in Ips : latest'[ip] \in {latest[ip], Missed},
         \A ip \in Ips : Cached(ip)' = Cached(ip),
         IsRaw(current') /\ current'.latest # Missed =>
           local_dns_cache'[current'.target] = current'.latest
  PROVE  AnswersInOrder'
<1>1. ASSUME NEW ip \in Ips, NEW n, NEW name, LastTold(ring, Cached(ip), ip, n, name)
      PROVE  LastTold(ring', Cached(ip)', ip, n, name)
  BY <1>1
<1>2. \A ip \in Ips :
        latest'[ip] # Missed => LastTold(ring', Cached(ip)', ip, Len(ring'), latest'[ip])
  BY <1>1 DEF AnswersInOrder
<1>3. ASSUME NEW i \in 1..Len(ring'), NEW c, c = ring'[i], IsRaw(c), c.latest # Missed
      PROVE  LastTold(ring', Cached(c.target)', c.target, i - 1, c.latest)
  BY <1>1, <1>3 DEF AnswersInOrder, Types, Shaped
<1> QED
  BY <1>2, <1>3 DEF AnswersInOrder

LEMMA OrderStep ==
  ASSUME Types, Sources, AnswersInOrder, Next
  PROVE  AnswersInOrder'
<1> USE DEF process, config, caches
<1>0. IsRaw(current) /\ current.latest # Missed =>
        local_dns_cache[current.target] = current.latest
  BY DEF AnswersInOrder
<1>1. CASE PlainHook
  <2>1. CASE UNCHANGED ring
    BY <1>0, <1>1, <2>1, PlainHooks, OrderKept DEF Cached
  <2>2. ASSUME NEW e \in EventRecords, Shaped(e), Emit(e), e.op # "connect",
               \A ip \in Ips : ~Tells(e, ip)
        PROVE  AnswersInOrder'
    <3>1. CASE ring' = ring
      BY <1>0, <1>1, <3>1, PlainHooks, OrderKept DEF Cached
    <3>2. CASE ring' = Append(ring, e)
      <4>1. ~IsRaw(e) /\ UNCHANGED <<latest, caches, current, to_publish>>
        BY <1>1, <2>2, PlainHooks DEF Shaped
      <4> QED
        BY <2>2, <3>2, <4>1, SendInOrder
    <3> QED
      BY <2>2, <3>1, <3>2 DEF Emit
  <2> QED
    BY <1>1, <2>1, <2>2, PlainHooks
<1>2. ASSUME NEW message \in Messages, NEW kept \in BOOLEAN, Receive(message, kept)
      PROVE  AnswersInOrder'
  <2> DEFINE e == Event("NETWORK", 1, message, "receive")
  <2>1. message \in Message /\ message.name \in Domains
    BY MessagesAssumption
  <2>2. e \in EventRecords /\ e.op = "receive"
    BY <2>1 DEF Event, EventRecords, Targets
  <2> DEFINE reached == kept /\ Len(ring) < RingCapacity
             ips == IF Parsed(message) THEN message.ips ELSE {}
  <2>3. /\ UNCHANGED <<caches, current, to_publish>>
        /\ \A ip \in Ips : latest'[ip] = IF ip \in ips THEN IF reached THEN message.name ELSE Missed
                                         ELSE latest[ip]
    BY <1>2 DEF Receive, Parsed
  <2>4. ring' = IF reached THEN Append(ring, e) ELSE ring
    BY <1>2 DEF Receive, Emit
  <2>5. \A ip : Tells(e, ip) <=> ip \in ips
    BY <2>1 DEF Tells, Event, IsDns
  <2>6. e.target = message /\ ~IsRaw(e)
    BY DEF Event, IsRaw
  <2> HIDE DEF e, ips, reached
  <2>7. CASE reached
    BY <2>2, <2>3, <2>4, <2>5, <2>6, <2>7, SendInOrder
  <2>8. CASE ~reached
    BY <1>0, <2>3, <2>4, <2>8, OrderKept DEF Cached
  <2> QED
    BY <2>7, <2>8
<1>3. ASSUME NEW ip \in Ips, Connect(ip)
      PROVE  AnswersInOrder'
  <2>1. /\ ~IsDns(ConnectEvent(ip))
        /\ IsRaw(ConnectEvent(ip)) =>
             ConnectEvent(ip).target = ip /\ ConnectEvent(ip).latest = latest[ip]
    BY DEF ConnectEvent, IsRaw, IsDns
  <2>2. CASE ring' = ring
    BY <1>0, <1>3, <2>2, OrderKept DEF Connect, Cached
  <2>3. CASE ring' = Append(ring, ConnectEvent(ip))
    <3>1. ConnectEvent(ip) \in EventRecords
      BY ConnectShaped DEF Shaped
    <3>2. /\ \A i \in Ips : ~Tells(ConnectEvent(ip), i)
          /\ UNCHANGED <<latest, caches, current, to_publish>>
      BY <1>3, <2>1 DEF Connect, Tells
    <3> QED
      BY <2>1, <2>3, <3>1, <3>2, SendInOrder
  <2> QED
    BY <1>3, <2>2, <2>3 DEF Connect, Emit
<1>4. ASSUME NEW ip \in Ips, EvictIp(ip)
      PROVE  AnswersInOrder'
  BY <1>0, <1>4, OrderKept DEF EvictIp, Cached
<1>5. CASE TakeEvent
  <2> DEFINE n == Len(ring)
  <2>1. /\ n \in Nat \ {0} /\ Len(ring') = n - 1
        /\ \A j \in 1..(n - 1) : ring'[j] = ring[j + 1]
        /\ Head(ring) = ring[1] /\ ring[1] \in EventRecords
        /\ UNCHANGED <<latest, caches>>
    BY <1>5 DEF TakeEvent, Types, TypeOK
  <2>2. to_publish = {}
    BY <1>5 DEF TakeEvent, Types, Tells, Idle, IsDns
  <2>3. ASSUME NEW ip \in Ips
        PROVE  Cached(ip)' = IF Tells(ring[1], ip) THEN ring[1].target.name ELSE Cached(ip)
    <3>1. CASE Head(ring).type \in HandledTypes
      BY <1>5, <2>1, <2>2, <3>1 DEF TakeEvent, Cached, Tells
    <3>2. CASE Head(ring).type \notin HandledTypes
      BY <1>5, <2>1, <2>2, <3>2 DEF TakeEvent, Cached, Tells, IsDns, HandledTypes
    <3> QED
      BY <3>1, <3>2
  <2>4. ASSUME NEW ip \in Ips, NEW m \in Nat \ {0}, m <= n, NEW name,
               LastTold(ring, Cached(ip), ip, m, name)
        PROVE  LastTold(ring', Cached(ip)', ip, m - 1, name)
    <3>1. \A j \in 1..(m - 1) : ring'[j] = ring[j + 1]
      BY <2>1, <2>4
    <3> QED
      BY <2>3, <2>4, <3>1, ToldTail
  <2>5. \A ip \in Ips :
          latest'[ip] # Missed => LastTold(ring', Cached(ip)', ip, n - 1, latest'[ip])
    BY <2>1, <2>4 DEF AnswersInOrder
  <2>6. ASSUME NEW i \in 1..(n - 1), NEW c, c = ring'[i], IsRaw(c), c.latest # Missed
        PROVE  LastTold(ring', Cached(c.target)', c.target, i - 1, c.latest)
    <3>1. c = ring[i + 1] /\ i + 1 \in 1..n /\ (i + 1) - 1 = i /\ c.target \in Ips
      BY <2>1, <2>6 DEF Types, Shaped
    <3>2. LastTold(ring, Cached(c.target), c.target, i, c.latest)
      BY <2>6, <3>1 DEF AnswersInOrder
    <3> QED
      BY <2>1, <2>4, <3>1, <3>2
  <2>7. IsRaw(current') /\ current'.latest # Missed =>
          local_dns_cache'[current'.target] = current'.latest
    <3>1. CASE current' = current
      BY <1>0, <2>1, <3>1
    <3>2. CASE current' = ring[1]
      <4> SUFFICES ASSUME IsRaw(ring[1]), ring[1].latest # Missed
                   PROVE  local_dns_cache[ring[1].target] = ring[1].latest
        BY <2>1, <3>2
      <4>1. LastTold(ring, Cached(ring[1].target), ring[1].target, 0, ring[1].latest)
        BY <2>1 DEF AnswersInOrder
      <4> QED
        BY <2>2, <4>1 DEF LastTold, Cached
    <3> QED
      BY <1>5, <2>1, <3>1, <3>2 DEF TakeEvent
  <2> QED
    BY <2>1, <2>5, <2>6, <2>7 DEF AnswersInOrder
<1>6. ASSUME NEW ip \in Ips, NEW written \in BOOLEAN, PublishIp(ip, written)
      PROVE  AnswersInOrder'
  <2>1. IsDns(current) /\ current' = current
    BY <1>6 DEF PublishIp, Types, Tells
  <2>2. ~IsRaw(current')
    BY <2>1 DEF IsDns, IsRaw
  <2>3. \A i \in Ips : Cached(i)' = Cached(i)
    BY <1>6 DEF PublishIp, Cached, Types, TypeOK
  <2> QED
    BY <1>0, <1>6, <2>2, <2>3, OrderKept DEF PublishIp
<1>7. CASE Enforce
  <2>1. /\ UNCHANGED <<ring, latest, local_dns_cache>> /\ current' = Idle
        /\ to_publish = {} /\ to_publish' = {}
    BY <1>7 DEF Enforce, Ready
  <2>2. ~IsRaw(Idle)
    BY DEF Idle, IsRaw
  <2>3. \A ip \in Ips : Cached(ip)' = Cached(ip)
    BY <2>1 DEF Cached
  <2> QED
    BY <2>1, <2>2, <2>3, OrderKept
<1> QED
  BY <1>1, <1>2, <1>3, <1>4, <1>5, <1>6, <1>7 DEF Next, Loop, PlainHook

--------------------------------------------------------------------------------
(* Theorems.                                                               *)

LEMMA Inductive == SafetySpec => [](Types /\ Sources /\ ToldAhead /\ AnswersInOrder)
<1>1. Init => Types /\ Sources /\ ToldAhead /\ AnswersInOrder
  <2> SUFFICES ASSUME Init
               PROVE  Types /\ Sources /\ ToldAhead /\ AnswersInOrder
    OBVIOUS
  <2>1. Shaped(Idle) /\ Idle \in EventRecords /\ \A ip : ~Tells(Idle, ip)
    BY DEF Shaped, Idle, EventRecords, Targets, IsDns, IsRaw, Tells
  <2>2. Types
    <3>1. /\ ring = <<>> /\ ring \in Seq(EventRecords) /\ Len(ring) = 0
          /\ current = Idle /\ to_publish = {}
      BY DEF Init
    <3>2. /\ told \in [Ips -> SUBSET Domains] /\ latest \in [Ips -> Domains \union {None, Missed}]
          /\ ip_to_domain \in [Ips -> Domains \union {None}]
          /\ local_dns_cache \in [Ips -> Domains \union {None}]
      BY DEF Init
    <3>3. mode \in {"Enforce", "Monitor"} /\ enforcement \in {"Sync", "Reactive"}
          /\ alive \in BOOLEAN /\ unwritten = {}
      BY DEF Init
    <3>4. TypeOK
      BY <2>1, <3>1, <3>2, <3>3, RingCapacityAssumption DEF TypeOK
    <3> QED
      BY <2>1, <3>1, <3>4 DEF Types
  <2>3. Sources
    BY <2>1 DEF Init, Sources, CachesAgree, Remembered
  <2>4. AnswersInOrder
    <3>1. ~IsRaw(Idle)
      BY DEF Idle, IsRaw
    <3>2. /\ current = Idle /\ Len(ring) = 0 /\ to_publish = {}
          /\ \A ip \in Ips : latest[ip] = None /\ local_dns_cache[ip] = None
      BY DEF Init
    <3> QED
      BY <3>1, <3>2 DEF AnswersInOrder, LastTold, Cached
  <2>5. ToldAhead
    BY DEF Init, ToldAhead, IsRaw, Idle
  <2> QED
    BY <2>2, <2>3, <2>4, <2>5
<1>2. Types /\ Sources /\ ToldAhead /\ AnswersInOrder /\ [Next]_vars
        => (Types /\ Sources /\ ToldAhead /\ AnswersInOrder)'
  <2> SUFFICES ASSUME Types, Sources, ToldAhead, AnswersInOrder, [Next]_vars
               PROVE  (Types /\ Sources /\ ToldAhead /\ AnswersInOrder)'
    OBVIOUS
  <2>1. CASE Next
    BY <2>1, TypesStep, SourcesStep, AheadStep, OrderStep
  <2>2. CASE UNCHANGED vars
    <3>1. Types'
      BY <2>2 DEF vars, Types, TypeOK, Shaped, Tells, EventRecords, Targets
    <3>2. Sources'
      BY <2>2 DEF vars, Sources, CachesAgree, Remembered, Tells
    <3>3. AnswersInOrder'
      BY <2>2 DEF vars, AnswersInOrder, LastTold, Cached
    <3>4. ToldAhead'
      BY <2>2 DEF vars, ToldAhead, Tells
    <3> QED
      BY <3>1, <3>2, <3>3, <3>4
  <2> QED
    BY <2>1, <2>2
<1> QED
  BY <1>1, <1>2, PTL DEF SafetySpec

\* Every event in the ring has the shape the loop reads it with, for every policy
\* and every message.
THEOREM TypeCorrect == SafetySpec => []TypeOK
<1>1. Types => TypeOK
  BY DEF Types
<1> QED
  BY <1>1, Inductive, PTL

\* IP_TO_DOMAIN says nothing that local_dns_cache and DNS do not say, whatever is
\* evicted, lost or not written.
THEOREM CachesAgreeHolds == SafetySpec => []CachesAgree
<1>1. Sources => CachesAgree
  BY DEF Sources
<1> QED
  BY <1>1, Inductive, PTL

\* Through the ring and the loop no connect overtakes an answer.
THEOREM AnswersInOrderHolds == SafetySpec => []AnswersInOrder
BY Inductive, PTL

\* A connect after an answer is judged by what was answered for its address.
THEOREM ConnectJudgedByAnswerHolds == SafetySpec => []ConnectJudgedByAnswer
<1>1. Types /\ ToldAhead /\ AnswersInOrder => ConnectJudgedByAnswer
  <2> DEFINE judged == JudgedDomain(current)
  <2> SUFFICES ASSUME Types, ToldAhead, AnswersInOrder, current.op = "connect"
               PROVE  /\ judged \in current.told \union {None}
                      /\ judged = None => current.told = {} \/ current.latest = Missed
                      /\ IsRaw(current) /\ current.latest # Missed => judged = current.latest
    BY DEF ConnectJudgedByAnswer
  <2>1. Shaped(current) /\ None \notin current.told
    BY NoneAssumption DEF Types, Shaped, EventRecords
  <2>2. CASE IsRaw(current)
    <3>1. judged = local_dns_cache[current.target]
      BY <2>2 DEF JudgedDomain, IsRaw, IsDns
    <3>2. current.told # {} => current.latest \in current.told \union {Missed}
      BY <2>1, <2>2 DEF Shaped
    <3> QED
      BY <2>1, <2>2, <3>1, <3>2 DEF ToldAhead, AnswersInOrder
  <2>3. CASE ~IsRaw(current)
    <3>1. judged = current.target /\ current.target \in current.told
      BY <2>1, <2>3 DEF JudgedDomain, IsRaw, IsDns, Shaped
    <3> QED
      BY <2>1, <2>3, <3>1
  <2> QED
    BY <2>2, <2>3
<1> QED
  BY <1>1, Inductive, PTL

\* Enforcer::enforce() kills nobody for what the policy allows.
THEOREM OnlyViolationsKillHolds == SafetySpec => []OnlyViolationsKill
<1>1. Types /\ ToldAhead /\ AnswersInOrder => OnlyViolationsKill
  <2> SUFFICES ASSUME Types, ToldAhead, AnswersInOrder, Innocent(current),
                      ~(IsRaw(current) /\ current.latest = Missed
                          /\ local_dns_cache[current.target] = None)
               PROVE  Action(current) # "Kill"
    BY DEF OnlyViolationsKill
  <2>1. Shaped(current)
    BY DEF Types
  <2>2. CASE current.op = "read"
    BY <2>1, <2>2 DEF Shaped, Innocent, Action, Allowed, PathAllowed
  <2>3. CASE current.op = "exec"
    BY <2>1, <2>3 DEF Shaped, Innocent, Action, ShouldKill, KillOnDeny
  <2>4. CASE current.op = "connect"
    <3>1. current.told # {} /\ \A name \in current.told : DomainAllowed(name)
      BY <2>4 DEF Innocent
    <3>2. JudgedDomain(current) \in current.told
      <4>1. CASE IsRaw(current)
        <5>1. JudgedDomain(current) = local_dns_cache[current.target]
          BY <4>1 DEF JudgedDomain, IsRaw, IsDns
        <5>2. current.latest \in current.told \union {Missed}
          BY <2>1, <3>1, <4>1 DEF Shaped
        <5> QED
          BY <4>1, <5>1, <5>2 DEF ToldAhead, AnswersInOrder
      <4>2. CASE ~IsRaw(current)
        BY <2>1, <2>4, <4>2 DEF JudgedDomain, IsRaw, IsDns, Shaped
      <4> QED
        BY <4>1, <4>2
    <3>3. JudgedDomain(current) \in Domains
      BY <2>1, <3>2 DEF Shaped, EventRecords
    <3>4. JudgedDomain(current) \notin {Ipv6Text, None} /\ current.type = "NETWORK"
      BY <2>1, <2>4, <3>3, MessagesAssumption, NoneAssumption DEF Shaped
    <3> QED
      BY <3>1, <3>2, <3>4 DEF Action, Allowed
  <2>5. CASE current.op = "receive"
    <3>1. Parsed(current.target) /\ DomainAllowed(current.target.name) /\ IsDns(current)
      BY <2>1, <2>5 DEF Innocent, Shaped
    <3>2. JudgedDomain(current) = current.target.name
      <4>1. ~IsRaw(current)
        BY <3>1 DEF IsDns, IsRaw
      <4> QED
        BY <3>1, <4>1, Zenon DEF JudgedDomain
    <3>3. current.target.name \in Domains
      BY <2>1, <3>1 DEF Shaped
    <3>4. JudgedDomain(current) \notin {Ipv6Text, None} /\ current.type = "NETWORK"
      BY <3>1, <3>2, <3>3, MessagesAssumption, NoneAssumption DEF IsDns
    <3> QED
      BY <3>1, <3>2, <3>4 DEF Action, Allowed
  <2> QED
    BY <2>2, <2>3, <2>4, <2>5 DEF Innocent
<1> QED
  BY <1>1, Inductive, PTL

\* Enforcer::enforce() kills for whatever no reading of the policy allows.
LEMMA ViolationIsKilledFor ==
  ASSUME Types, ToldAhead, mode = "Enforce", Violates(current)
  PROVE  Action(current) = "Kill"
<1>1. Shaped(current)
  BY DEF Types
<1>2. CASE current.op = "read"
  BY <1>1, <1>2 DEF Shaped, Violates, Action, Allowed, PathAllowed, ShouldKill
<1>3. CASE current.op = "exec"
  BY <1>1, <1>3, PolicyAssumption
  DEF Shaped, Violates, Action, Allowed, SyscallDenied, ShouldKill, KillOnDeny
<1>4. CASE current.op = "connect"
  <2>1. current.type = "NETWORK" /\ ~IsDns(current)
    BY <1>1, <1>4 DEF Shaped, IsDns
  <2>2. JudgedDomain(current) \in current.told \union {None}
    BY <1>1, <1>4, <2>1 DEF Shaped, ToldAhead, JudgedDomain, IsRaw
  <2>3. \A name \in current.told : ~DomainAllowed(name)
    BY <1>4 DEF Violates
  <2>4. ~(JudgedDomain(current) \notin {Ipv6Text, None} /\ DomainAllowed(JudgedDomain(current)))
    BY <2>2, <2>3
  <2> QED
    BY <2>1, <2>4 DEF Action, Allowed, ShouldKill
<1>5. CASE current.op = "receive"
  <2>1. Parsed(current.target) /\ ~DomainAllowed(current.target.name) /\ IsDns(current)
    BY <1>1, <1>5 DEF Violates, Shaped
  <2>2. JudgedDomain(current) = current.target.name /\ current.type = "NETWORK"
    BY <2>1 DEF JudgedDomain, IsDns, IsRaw
  <2> QED
    BY <2>1, <2>2 DEF Action, Allowed, ShouldKill
<1> QED
  BY <1>2, <1>3, <1>4, <1>5 DEF Violates

\* No violation leaves the pipeline but by the death of who committed it: the part of
\* ViolationsPunished that needs no fairness, for every policy and every ring.
THEOREM ViolationsNotDroppedHolds == SafetySpec => ViolationsNotDropped
<1> DEFINE Kept == mode = "Enforce" =>
                     \A e \in Underway : Violates(e) => e \in Underway' \/ ~alive'
<1>1. ASSUME Types, Sources, ToldAhead, Next, mode = "Enforce", NEW e \in Underway, Violates(e)
      PROVE  e \in Underway' \/ ~alive'
  <2>1. e = current \/ \E i \in 1..Len(ring) : e = ring[i]
    BY <1>1 DEF Underway
  <2>2. ASSUME NEW f \in EventRecords, Shaped(f), Emit(f), UNCHANGED current
        PROVE  e \in Underway'
    <3>1. \A i \in 1..Len(ring) : i \in 1..Len(ring') /\ ring'[i] = ring[i]
      BY <1>1, <2>2 DEF Emit, Types, TypeOK
    <3> QED
      BY <2>1, <2>2, <3>1 DEF Underway
  <2>3. ASSUME UNCHANGED <<ring, current>>
        PROVE  e \in Underway'
    BY <1>1, <2>3 DEF Underway
  <2>4. CASE PlainHook
    BY <1>1, <2>2, <2>3, <2>4, PlainHooks
  <2>5. ASSUME NEW message \in Messages, NEW kept \in BOOLEAN, Receive(message, kept)
        PROVE  e \in Underway'
    <3>1. Shaped(Event("NETWORK", 1, message, "receive"))
      BY MessagesAssumption DEF Shaped, Event, EventRecords, Targets, IsDns, IsRaw
    <3> QED
      BY <2>2, <2>3, <2>5, <3>1 DEF Receive, Shaped
  <2>6. ASSUME NEW ip \in Ips, Connect(ip)
        PROVE  e \in Underway'
    <3>1. Shaped(ConnectEvent(ip)) /\ ConnectEvent(ip) \in EventRecords
      BY <1>1, ConnectShaped DEF Shaped
    <3> QED
      BY <2>2, <2>6, <3>1 DEF Connect
  <2>7. ASSUME NEW ip \in Ips, EvictIp(ip)
        PROVE  e \in Underway'
    BY <2>3, <2>7 DEF EvictIp
  <2>8. CASE TakeEvent
    <3>1. current = Idle /\ ~Violates(Idle)
      BY <2>8 DEF TakeEvent, Violates, Idle
    <3>2. PICK i \in 1..Len(ring) : e = ring[i]
      BY <1>1, <2>1, <3>1
    <3>3. /\ Head(ring) = ring[1]
          /\ \A j \in 2..Len(ring) : j - 1 \in 1..Len(ring') /\ ring'[j - 1] = ring[j]
      BY <1>1, <2>8 DEF TakeEvent, Types, TypeOK
    <3>4. CASE i = 1
      <4>1. e.type \in HandledTypes
        BY <1>1, <3>2 DEF Types, Shaped, Violates, HandledTypes, IsDns
      <4> QED
        BY <2>8, <3>2, <3>3, <3>4, <4>1 DEF TakeEvent, Underway
    <3>5. CASE i # 1
      <4>1. i \in 2..Len(ring)
        BY <3>5
      <4> QED
        BY <3>2, <3>3, <4>1 DEF Underway
    <3> QED
      BY <3>4, <3>5
  <2>9. ASSUME NEW ip \in Ips, NEW written \in BOOLEAN, PublishIp(ip, written)
        PROVE  e \in Underway'
    BY <2>3, <2>9 DEF PublishIp
  <2>10. CASE Enforce
    <3>1. CASE e = current
      BY <1>1, <2>10, <3>1, ViolationIsKilledFor DEF Enforce
    <3>2. CASE \E i \in 1..Len(ring) : e = ring[i]
      BY <2>10, <3>2 DEF Enforce, Underway
    <3> QED
      BY <2>1, <3>1, <3>2
  <2> QED
    BY <1>1, <2>4, <2>5, <2>6, <2>7, <2>8, <2>9, <2>10 DEF Next, Loop, PlainHook
<1>2. Types /\ Sources /\ ToldAhead /\ [Next]_vars => [Kept]_vars
  BY <1>1
<1>3. SafetySpec => [](Types /\ Sources /\ ToldAhead)
  BY Inductive, PTL
<1> HIDE DEF Kept
<1>4. SafetySpec => [][Kept]_vars
  BY <1>2, <1>3, PTL DEF SafetySpec
<1> QED
  BY <1>4 DEF Kept, ViolationsNotDropped
\* An IPv6 connection is judged as an answer nobody can read, whatever is in the ring
\* and in the caches.
LEMMA Ipv6IsUnreadable ==
  ASSUME Types, current.op = "connect6"
  PROVE  JudgedDomain(current) = ParseError /\ current.type = "NETWORK"
<1>1. IsDns(current) /\ ~Parsed(current.target)
  BY DEF Types, Shaped
<1> QED
  BY <1>1 DEF JudgedDomain, IsDns, IsRaw

\* So it is blocked, as Enforcer::enforce() means to do explicitly, under a policy
\* that denies what it does not name ...
THEOREM Ipv6BlockedByDenyAll ==
  ASSUME DenyAllElse, ParseError \notin AllowedDomains
  PROVE  SafetySpec => []Ipv6Blocked
<1>1. Types => Ipv6Blocked
  <2> SUFFICES ASSUME Types, mode = "Enforce", current.op = "connect6"
               PROVE  Action(current) = "Kill"
    BY DEF Ipv6Blocked
  <2> QED
    BY Ipv6IsUnreadable DEF Action, Allowed, DomainAllowed, ShouldKill
<1> QED
  BY <1>1, Inductive, PTL

\* ... and under no other: the check for the marker of IPv6 never blocks anything.
THEOREM Ipv6OtherwiseAllowed ==
  ASSUME ~DenyAllElse, None # ParseError
  PROVE  SafetySpec => [](Ready /\ current.op = "connect6" => Action(current) = "Allow")
<1>1. Types => (Ready /\ current.op = "connect6" => Action(current) = "Allow")
  <2> SUFFICES ASSUME Types, current.op = "connect6"
               PROVE  Action(current) = "Allow"
    OBVIOUS
  <2>1. ParseError \notin {Ipv6Text, None}
    BY DEF ParseError, Ipv6Text
  <2>2. Allowed(current)
    BY <2>1, Ipv6IsUnreadable DEF Allowed, DomainAllowed
  <2> QED
    BY <2>2 DEF Action
<1> QED
  BY <1>1, Inductive, PTL

\* Under a policy in monitor mode nothing here kills.
THEOREM MonitorModeOnlyLogsHolds == SafetySpec => []MonitorModeOnlyLogs
<1>1. Init => MonitorModeOnlyLogs
  BY DEF Init, MonitorModeOnlyLogs
<1>2. MonitorModeOnlyLogs /\ [Next]_vars => MonitorModeOnlyLogs'
  <2> SUFFICES ASSUME MonitorModeOnlyLogs, [Next]_vars, mode' = "Monitor"
               PROVE  alive'
    BY DEF MonitorModeOnlyLogs
  <2>1. mode = "Monitor"
    BY DEF Next, vars, OpenFile, Execve, Ptrace, Receive, Connect, Connect6, EvictIp, Loop,
           TakeEvent, PublishIp, Enforce, process, config
  <2>2. alive
    BY <2>1 DEF MonitorModeOnlyLogs
  <2>3. CASE Enforce
    BY <2>1, <2>2, <2>3 DEF Enforce, Action
  <2>4. ASSUME NEW program \in Programs, Execve(program)
        PROVE  alive'
    BY <2>1, <2>2, <2>4 DEF Execve, HandleExecve, LsmExecCheck
  <2>5. CASE UNCHANGED alive
    BY <2>2, <2>5
  <2> QED
    BY <2>3, <2>4, <2>5 DEF Next, vars, OpenFile, Ptrace, Receive, Connect, Connect6, EvictIp,
       Loop, TakeEvent, PublishIp, process
<1> QED
  BY <1>1, <1>2, PTL DEF SafetySpec
================================================================================
