---------------------------- MODULE PolicyFileProofs ----------------------------
(***************************************************************************)
(* Which policy a session runs under, for every depth of the tree and      *)
(* everything the disk may hold, and what a generated one never allows,    *)
(* for every log.                                                          *)
(***************************************************************************)
EXTENDS PolicyFile, FiniteSetTheorems, SequenceTheorems, WellFoundedInduction, TLAPS

\* Beyond the types: what a file on the disk was derived from, happened.
Typed ==
  /\ TypeOK /\ IsFiniteSet(done)
  /\ \A d \in 1..Depth : files[d].lesson \subseteq done

\* What is seen of an act is one of the acts.
LEMMA SeenIsAct == \A act \in Acts : Seen(act) \in Acts
BY ActsAssumption DEF Seen

LEMMA EndedIsTyped ==
  ASSUME Ended
  PROVE  /\ stage' = "idle" /\ level' \in 1..Depth /\ dry_run' = FALSE /\ explicit' = FALSE
         /\ policy'.mode = "monitor" /\ lesson' = {} /\ enforcement' = "Reactive"
BY DepthAssumption DEF Ended, EmptyPolicy

LEMMA TypedStep ==
  ASSUME Typed, Next
  PROVE  Typed'
<1> USE DEF Typed, TypeOK
<1>1. CASE Probe \/ Validate
  <2>1. /\ level' \in 1..Depth /\ stage' \in {"search", "validate", "load", "failed"}
        /\ UNCHANGED <<disk, options, loaded, record>>
    BY <1>1, DepthAssumption DEF Probe, Validate
  <2> QED
    BY <2>1 DEF disk, machine, options, loaded, record
<1>2. CASE Load
  <2>1. UNCHANGED <<disk, options, level, enforcement, record>> /\ stage' \in {"attach", "failed"}
    BY <1>2 DEF Load
  <2>2. policy'.mode \in {"enforce", "monitor"} /\ lesson' \subseteq done
    <3>1. CASE UNCHANGED <<policy, lesson>>
      BY <3>1
    <3>2. CASE /\ Acceptable(files[level])
               /\ policy' = [files[level].policy EXCEPT !.mode = IF dry_run THEN "monitor" ELSE @]
               /\ lesson' = files[level].lesson
      <4> DEFINE read == files[level].policy
      <4>1. read.mode \in {"enforce", "monitor"} /\ policy' = [read EXCEPT !.mode = IF dry_run THEN "monitor" ELSE @]
        BY <3>2 DEF Acceptable
      <4> HIDE DEF read
      <4>2. policy'.mode \in {read.mode, "monitor"} \/ policy' = read
        BY <4>1
      <4> QED
        BY <3>2, <4>1, <4>2
    <3> QED
      BY <1>2, <3>1, <3>2 DEF Load
  <2> QED
    BY <2>1, <2>2 DEF disk, machine, options, record
<1>3. CASE Attach
  BY <1>3 DEF Attach, disk, machine, options, record
<1>4. CASE EndSession
  <2>1. Ended /\ UNCHANGED <<disk, record>>
    BY <1>4 DEF EndSession
  <2> QED
    BY <2>1, EndedIsTyped DEF disk, machine, record
<1>5. CASE GeneratePolicy
  <2>1. files' = [files EXCEPT ![1] = File("regular", TRUE, TRUE, Generate(log), done)]
    BY <1>5 DEF GeneratePolicy
  <2>2. UNCHANGED <<lsm, repositories, replaced, stage, dry_run, explicit, level, policy, lesson,
                    enforcement, log, done>>
    BY <1>5 DEF GeneratePolicy, machine, options, loaded, record
  <2> DEFINE new == File("regular", TRUE, TRUE, Generate(log), done)
  <2>3. new.lesson = done /\ new.kind \in Kinds
    BY DEF File, Kinds
  <2> HIDE DEF new
  <2>4. /\ DOMAIN files' = 1..Depth
        /\ \A d \in 1..Depth : files'[d].kind \in Kinds /\ files'[d].lesson \subseteq done
    BY <2>1, <2>3 DEF new
  <2> QED
    BY <2>2, <2>4
<1>6. ASSUME NEW dry \in BOOLEAN, StartSearch(dry) \/ \E d \in 1..Depth : StartExplicit(d, dry)
      PROVE  Typed'
  <2>1. /\ level' \in 1..Depth /\ stage' \in {"search", "load"} /\ explicit' \in BOOLEAN /\ dry_run' = dry
        /\ UNCHANGED <<disk, loaded, record>>
    <3> HIDE DEF Typed, TypeOK
    <3>1. CASE StartSearch(dry)
      <4>1. 1 \in 1..Depth
        BY DepthAssumption
      <4> QED
        BY <3>1, <4>1, Zenon DEF StartSearch
    <3>2. ASSUME NEW d \in 1..Depth, StartExplicit(d, dry)
          PROVE  /\ level' \in 1..Depth /\ stage' \in {"search", "load"} /\ explicit' \in BOOLEAN
                 /\ dry_run' = dry /\ UNCHANGED <<disk, loaded, record>>
      BY <3>2 DEF StartExplicit
    <3> QED
      BY <1>6, <3>1, <3>2
  <2> QED
    BY <2>1 DEF disk, machine, loaded, record
<1>7. ASSUME NEW d \in 1..Depth, NEW file \in Replacements, Replace(d, file)
      PROVE  Typed'
  <2>1. file.kind \in Kinds /\ file.lesson = {}
    BY ReplacementsAssumption
  <2>2. /\ DOMAIN files' = 1..Depth
        /\ \A e \in 1..Depth : files'[e].kind \in Kinds /\ files'[e].lesson \subseteq done
    BY <1>7, <2>1 DEF Replace
  <2>3. replaced' \subseteq 1..Depth /\ UNCHANGED <<machine, stage, options, level, loaded, record>>
    BY <1>7 DEF Replace
  <2> QED
    BY <2>2, <2>3 DEF machine, options, loaded, record
<1>8. ASSUME NEW act \in Acts, Perform(act)
      PROVE  Typed'
  <2>1. /\ done \subseteq done' /\ done' \subseteq Acts /\ IsFiniteSet(done') /\ Cardinality(done') <= MaxActs
        /\ log' = {[type |-> LogType(a), target |-> a.target] : a \in done'}
    <3>1. CASE /\ log' = log \union {[type |-> LogType(act), target |-> act.target]}
               /\ done' = done \union {act}
      <4>1. IsFiniteSet(done') /\ Cardinality(done') <= MaxActs
        <5>1. Cardinality(done) < MaxActs \/ act \in done
          BY <1>8 DEF Perform
        <5>2. /\ IsFiniteSet(done') /\ Cardinality(done) \in Nat
              /\ Cardinality(done') = IF act \in done THEN Cardinality(done) ELSE Cardinality(done) + 1
          BY <3>1, FS_AddElement, FS_CardinalityType
        <5> QED
          BY <5>1, <5>2, BoundsAssumption
      <4> QED
        BY <1>8, <3>1, <4>1
    <3>2. CASE UNCHANGED record
      BY <3>2 DEF record
    <3> QED
      BY <1>8, <3>1, <3>2 DEF Perform
  <2>2. UNCHANGED disk
    BY <1>8 DEF Perform
  <2>3. CASE Ended
    BY <2>1, <2>2, <2>3, EndedIsTyped DEF disk, machine
  <2>4. CASE UNCHANGED <<stage, level, options, loaded>>
    BY <2>1, <2>2, <2>4 DEF options, loaded, disk, machine
  <2> QED
    BY <1>8, <2>3, <2>4 DEF Perform
<1> QED
  BY <1>1, <1>2, <1>3, <1>4, <1>5, <1>6, <1>7, <1>8, SeenIsAct DEF Next

LEMMA TypedHolds == SafetySpec => []Typed
<1>1. Init => Typed
  <2> SUFFICES ASSUME Init
               PROVE  Typed
    OBVIOUS
  <2>1. /\ DOMAIN files = 1..Depth /\ repositories \subseteq 1..Depth
        /\ \A d \in 1..Depth : files[d].kind \in Kinds /\ files[d].lesson = {}
    BY LayoutAssumption DEF Init
  <2>2. IsFiniteSet(done) /\ Cardinality(done) <= MaxActs /\ 1 \in 1..Depth
    BY FS_EmptySet, BoundsAssumption, DepthAssumption DEF Init
  <2>3. policy.mode = "monitor"
    BY DEF Init, EmptyPolicy
  <2> QED
    BY <2>1, <2>2, <2>3 DEF Init, Typed, TypeOK
<1>2. Typed /\ [Next]_vars => Typed'
  <2>1. ASSUME Typed, UNCHANGED vars
        PROVE  Typed'
    BY <2>1 DEF vars, Typed, TypeOK, LogType
  <2> QED
    BY <2>1, TypedStep
<1> QED
  BY <1>1, <1>2, PTL DEF SafetySpec

\* Every variable keeps its type, the mode of a loaded policy is one of the two
\* that are known, and the log is what the acts that reached it left.
THEOREM TypeCorrect == SafetySpec => []TypeOK
<1>1. Typed => TypeOK
  BY DEF Typed
<1> QED
  BY <1>1, TypedHolds, PTL

\* What the search has left behind, but for files somebody replaced.
Climbed ==
  /\ level \in 1..Depth
  /\ stage \in {"search", "validate", "load", "attach", "running"} /\ ~explicit =>
       \A d \in 1..(level - 1) : d \notin repositories /\ (d \notin replaced => ~Exists(files[d]))
  /\ DiscoveredIsNearest

LEMMA ClimbedStep ==
  ASSUME Climbed, Next
  PROVE  Climbed'
<1> USE DepthAssumption DEF Climbed, DiscoveredIsNearest, Exists, disk, machine, options, loaded, record
<1>1. CASE Probe
  BY <1>1 DEF Probe
<1>2. CASE Validate
  BY <1>2 DEF Validate
<1>3. CASE Load
  BY <1>3 DEF Load
<1>4. CASE Attach
  BY <1>4 DEF Attach
<1>5. CASE EndSession
  BY <1>5 DEF EndSession, Ended
<1>6. CASE GeneratePolicy
  <2>1. stage = "idle" /\ UNCHANGED <<stage, explicit, level, replaced, repositories>>
    BY <1>6 DEF GeneratePolicy
  <2> QED
    BY <2>1
<1>7. ASSUME NEW dry \in BOOLEAN, StartSearch(dry) \/ \E d \in 1..Depth : StartExplicit(d, dry)
      PROVE  Climbed'
  BY <1>7 DEF StartSearch, StartExplicit
<1>8. ASSUME NEW d \in 1..Depth, NEW file \in Replacements, Replace(d, file)
      PROVE  Climbed'
  BY <1>8 DEF Replace
<1>9. ASSUME NEW act \in Acts, Perform(act)
      PROVE  Climbed'
  BY <1>9 DEF Perform, Ended
<1> QED
  BY <1>1, <1>2, <1>3, <1>4, <1>5, <1>6, <1>7, <1>8, <1>9, SeenIsAct DEF Next

\* A policy nobody named is the nearest one of the repository and was found
\* trustworthy, however deep the tree and whatever it holds.
THEOREM DiscoveredIsNearestHolds == SafetySpec => []DiscoveredIsNearest
<1>1. Init => Climbed
  BY DepthAssumption DEF Init, Climbed, DiscoveredIsNearest
<1>2. Climbed /\ [Next]_vars => Climbed'
  <2>1. ASSUME Climbed, UNCHANGED vars
        PROVE  Climbed'
    BY <2>1 DEF vars, Climbed, DiscoveredIsNearest
  <2> QED
    BY <2>1, ClimbedStep
<1>3. Climbed => DiscoveredIsNearest
  BY DEF Climbed
<1> QED
  BY <1>1, <1>2, <1>3, PTL DEF SafetySpec
--------------------------------------------------------------------------------
(* What generate-policy writes.                                            *)

\* Any set of lengths below a bound has a greatest one.
LEMMA Greatest ==
  ASSUME NEW bound \in Nat, NEW Lengths, Lengths \subseteq 0..bound, Lengths # {}
  PROVE  \E n \in Lengths : \A m \in Lengths : m <= n
<1> DEFINE below == {pair \in Nat \X Nat : pair[1] < pair[2]}
           gaps  == {g \in 0..bound : bound - g \in Lengths}
<1>1. IsWellFoundedOn(below, Nat)
  BY NatLessThanWellFounded DEF OpToRel
<1>2. gaps \subseteq Nat /\ gaps # {}
  <2>1. PICK n \in Lengths : n \in 0..bound
    OBVIOUS
  <2>2. bound - n \in gaps
    BY <2>1
  <2>3. gaps # {}
    BY <2>2
  <2>4. gaps \subseteq Nat
    OBVIOUS
  <2> QED
    BY <2>3, <2>4
<1>3. PICK x \in gaps : \A y \in gaps : <<y, x>> \notin below
  <2> HIDE DEF below, gaps
  <2> QED
    BY <1>1, <1>2, WFMin
<1>4. \A m \in Lengths : m <= bound - x
  <2> SUFFICES ASSUME NEW m \in Lengths, m > bound - x
               PROVE  FALSE
    OBVIOUS
  <2>1. bound - m \in gaps /\ bound - m < x
    OBVIOUS
  <2> QED
    BY <1>2, <1>3, <2>1
<1> QED
  BY <1>3, <1>4

\* Some common beginning is the longest.
LEMMA CommonIsLongest ==
  ASSUME NEW S, S \subseteq Path, S # {}
  PROVE  \E longest \in CommonPrefixes(S) : \A other \in CommonPrefixes(S) : Len(other) <= Len(longest)
<1> DEFINE common  == CommonPrefixes(S)
           lengths == {Len(s) : s \in common}
<1>1. \A s \in common : \E q \in S : \E n \in 0..Len(q) : s = SubSeq(q, 1, n)
  BY DEF CommonPrefixes, Prefixes
<1>2. PICK any \in S : TRUE
  OBVIOUS
<1>3. any \in Seq(Names) /\ \A q \in S : q \in Seq(Names)
  BY <1>2 DEF Path
<1>4. <<>> \in common
  <2>1. \A q \in S : SubSeq(q, 1, 0) = <<>> /\ 0 \in 0..Len(q) /\ IsPrefix(<<>>, q)
    BY <1>3 DEF IsPrefix
  <2> QED
    BY <1>2, <2>1 DEF CommonPrefixes, Prefixes
<1>5. \A s \in common : Len(s) \in 0..Len(any)
  <2> SUFFICES ASSUME NEW s \in common
               PROVE  Len(s) \in 0..Len(any)
    OBVIOUS
  <2>1. s \in Seq(Names)
    BY <1>1, <1>3
  <2>2. Len(s) <= Len(any)
    BY <1>2 DEF CommonPrefixes, IsPrefix
  <2> QED
    BY <1>3, <2>1, <2>2
<1>6. lengths \subseteq 0..Len(any) /\ lengths # {} /\ Len(any) \in Nat
  <2> HIDE DEF common
  <2>1. lengths # {}
    BY <1>4
  <2> QED
    BY <1>3, <1>5, <2>1
<1>7. \E n \in lengths : \A m \in lengths : m <= n
  <2> HIDE DEF lengths
  <2> QED
    BY <1>6, Greatest
<1> QED
  BY <1>7

\* The common ancestor of paths is what one of them begins with.
LEMMA CommonAncestor ==
  ASSUME NEW S, S \subseteq Path, S # {}
  PROVE  \E q \in S : \E n \in 0..Len(q) : LongestCommonPrefix(S) = SubSeq(q, 1, n)
<1>1. LongestCommonPrefix(S) \in CommonPrefixes(S)
  BY CommonIsLongest DEF LongestCommonPrefix
<1> QED
  BY <1>1 DEF CommonPrefixes, Prefixes

\* A glob of the generator's: a tree below a directory that begins like something
\* observed, none of whose components is that of a credential; or //**.
Harmless(g) ==
  \/ g = DoubleSlash
  \/ /\ g.form = "tree" /\ g.dir \in Path
     /\ \A i \in DOMAIN g.dir : g.dir[i] \notin CredentialLike

Plain(p) == p \in Path /\ ~LooksSensitive(p)

LEMMA BeginningIsHarmless ==
  ASSUME NEW q, Plain(q), NEW n \in 1..Len(q)
  PROVE  Harmless(Tree(SubSeq(q, 1, n)))
<1>1. q \in Seq(Names) /\ Len(q) \in Nat
  BY DEF Plain, Path
<1>2. SubSeq(q, 1, n) \in Seq(Names) /\ Len(SubSeq(q, 1, n)) = n
  BY <1>1
<1>3. \A i \in 1..n : SubSeq(q, 1, n)[i] = q[i] /\ i \in DOMAIN q
  BY <1>1
<1> QED
  BY <1>2, <1>3 DEF Harmless, Tree, Glob, Path, Plain, LooksSensitive

LEMMA RootIsHarmless == Harmless(Tree(<<Root>>))
BY NamesAssumption DEF Harmless, Tree, Glob, Path

LEMMA ParentTreeIsHarmless ==
  ASSUME NEW p, Plain(p)
  PROVE  Harmless(ParentTree(p))
<1>1. p \in Seq(Names) /\ Len(p) \in Nat \ {0}
  BY DEF Plain, Path
<1>2. CASE Parent(p) \in {<<>>, <<Root>>}
  BY <1>2, RootIsHarmless DEF ParentTree
<1>3. CASE Parent(p) \notin {<<>>, <<Root>>}
  <2>1. Len(p) - 1 \in 1..Len(p)
    BY <1>1, <1>3 DEF Parent
  <2> QED
    BY <1>3, <2>1, BeginningIsHarmless DEF ParentTree, Parent
<1> QED
  BY <1>2, <1>3

\* Paths that share their key with others have two components at least.
LEMMA LongEnough ==
  ASSUME NEW paths, paths \subseteq Path, NEW key, NEW p \in Group(paths, key), Len(p) = 1,
         NEW q \in Group(paths, key)
  PROVE  q = p
<1>1. p \in Seq(Names) /\ q \in Seq(Names) /\ Len(q) \in Nat \ {0}
  BY DEF Group, Path
<1>2. Cluster(p) = Cluster(q)
  BY DEF Group
<1>3. Cluster(p) = p
  <2>1. SubSeq(p, 1, Len(p)) = p
    BY <1>1
  <2> QED
    BY <2>1 DEF Cluster
<1>4. Len(Cluster(q)) = (IF Len(q) > 3 THEN 3 ELSE IF Len(q) > 2 THEN 2 ELSE Len(q))
  BY <1>1 DEF Cluster
<1>5. Len(q) = 1
  <2>1. Len(Cluster(q)) = 1
    BY <1>2, <1>3
  <2> DEFINE count == Len(q)
  <2>2. count \in Nat \ {0} /\ 1 = (IF count > 3 THEN 3 ELSE IF count > 2 THEN 2 ELSE count)
    BY <1>1, <1>4, <2>1
  <2> HIDE DEF count
  <2>3. count = 1
    BY <2>2
  <2> QED
    BY <2>3 DEF count
<1>6. SubSeq(q, 1, Len(q)) = q
  BY <1>1
<1> QED
  BY <1>2, <1>3, <1>5, <1>6 DEF Cluster

\* Whatever was observed, the globs made of one cluster are harmless.
LEMMA GroupIsHarmless ==
  ASSUME NEW paths, \A p \in paths : Plain(p), NEW key, Group(paths, key) # {},
         NEW g \in GroupGlobs(Group(paths, key))
  PROVE  Harmless(g)
<1> DEFINE group  == Group(paths, key)
           common == LongestCommonPrefix(group)
<1>1. \A p \in group : Plain(p) /\ p \in Path
  BY DEF Group, Plain
<1>2. PICK q \in group : \E n \in 0..Len(q) : common = SubSeq(q, 1, n)
  <2>1. group \subseteq Path /\ group # {}
    BY <1>1
  <2> QED
    BY <2>1, CommonAncestor
<1>3. PICK n \in 0..Len(q) : common = SubSeq(q, 1, n)
  BY <1>2
<1>4. q \in Seq(Names) /\ Len(q) \in Nat \ {0} /\ Plain(q)
  BY <1>1 DEF Path
<1> HIDE DEF group, common
<1>5. common # <<>> => n \in 1..Len(q)
  BY <1>3, <1>4
<1>6. CASE \E p \in group : g = ParentTree(p)
  BY <1>1, <1>6, ParentTreeIsHarmless
<1>7. CASE g = DoubleSlash
  BY <1>7 DEF Harmless
<1>8. CASE common # <<>> /\ g = Tree(common)
  BY <1>3, <1>4, <1>5, <1>8, BeginningIsHarmless
<1>9. CASE Cardinality(group) # 1 /\ common # <<>> /\ common \in group /\ g = Tree(Parent(common))
  <2>1. common \in Seq(Names) /\ Len(common) = n
    BY <1>3, <1>4
  <2>2. n # 1
    <3> SUFFICES ASSUME n = 1
                 PROVE  FALSE
      OBVIOUS
    <3>1. \A other \in group : other = common
      BY <1>1, <1>9, <2>1, LongEnough DEF group, Group
    <3>2. group = {common}
      BY <1>9, <3>1
    <3> QED
      BY <1>9, <3>2, FS_Singleton
  <2>3. Parent(common) = SubSeq(q, 1, n - 1) /\ n - 1 \in 1..Len(q)
    BY <1>3, <1>4, <1>5, <1>9, <2>1, <2>2 DEF Parent
  <2> QED
    BY <1>4, <1>9, <2>3, BeginningIsHarmless
<1> QED
  BY <1>6, <1>7, <1>8, <1>9 DEF GroupGlobs, group, common

LEMMA GlobsAreHarmless ==
  ASSUME NEW paths, \A p \in paths : Plain(p), NEW g \in GeneralizePaths(paths)
  PROVE  Harmless(g)
<1>1. PICK p \in paths : g \in GroupGlobs(Group(paths, Cluster(p)))
  BY DEF GeneralizePaths
<1>2. Group(paths, Cluster(p)) # {}
  BY DEF Group
<1> QED
  BY <1>1, <1>2, GroupIsHarmless

--------------------------------------------------------------------------------
(* Which policies come from a log.                                         *)

\* What generate-policy writes, whatever the mode has become since.
Written(p) ==
  /\ p = [mode |-> p.mode, allow_read |-> p.allow_read, allow_write |-> p.allow_write,
          deny_always |-> MandatoryDenyAlways, allow_domains |-> p.allow_domains,
          deny_all_else |-> p.deny_all_else, rules |-> p.rules]
  /\ \A g \in p.allow_read \union p.allow_write : Harmless(g)

\* A policy with a lesson was written by generate-policy, on the disk and in the
\* session that has loaded it.
Learnt ==
  /\ level \in 1..Depth /\ DOMAIN files = 1..Depth
  /\ \A entry \in log : entry.target \in Path
  /\ \A d \in 1..Depth : files[d].lesson # {} => Written(files[d].policy)
  /\ lesson # {} => Written(policy)

LEMMA GenerateWrites ==
  ASSUME \A entry \in log : entry.target \in Path
  PROVE  Written(Generate(log))
<1>1. ASSUME NEW type, NEW p \in ObservedPaths(log, type)
      PROVE  Plain(p)
  BY <1>1 DEF ObservedPaths, Targets, Plain
<1>2. ASSUME NEW type, NEW g \in GeneralizePaths(ObservedPaths(log, type))
      PROVE  Harmless(g)
  BY <1>1, <1>2, GlobsAreHarmless
<1>3. \A g \in Generate(log).allow_read \union Generate(log).allow_write : Harmless(g)
  BY <1>2 DEF Generate
<1> QED
  BY <1>3 DEF Written, Generate

LEMMA LearntStep ==
  ASSUME Learnt, Next
  PROVE  Learnt'
<1> USE DEF Learnt
<1>1. CASE Probe \/ Validate
  BY <1>1, DepthAssumption DEF Probe, Validate, disk, machine, options, loaded, record
<1>2. CASE Load
  <2>1. UNCHANGED <<level, files, log>>
    BY <1>2 DEF Load, disk, record
  <2>2. CASE UNCHANGED <<policy, lesson>>
    BY <2>1, <2>2
  <2>3. CASE /\ policy' = [files[level].policy EXCEPT !.mode = IF dry_run THEN "monitor" ELSE @]
             /\ lesson' = files[level].lesson
    <3>1. ASSUME Written(files[level].policy)
          PROVE  Written(policy')
      <4> DEFINE read == files[level].policy
                 mode == IF dry_run THEN "monitor" ELSE read.mode
      <4>1. policy' = [read EXCEPT !.mode = mode]
        BY <2>3
      <4> HIDE DEF read, mode
      <4>2. policy' = [mode |-> mode, allow_read |-> read.allow_read, allow_write |-> read.allow_write,
                       deny_always |-> MandatoryDenyAlways, allow_domains |-> read.allow_domains,
                       deny_all_else |-> read.deny_all_else, rules |-> read.rules]
        BY <3>1, <4>1 DEF Written, read
      <4> QED
        BY <3>1, <4>2 DEF Written, read
    <3> QED
      BY <2>1, <2>3, <3>1
  <2> QED
    BY <1>2, <2>2, <2>3 DEF Load
<1>3. CASE Attach
  BY <1>3 DEF Attach, disk, options, record
<1>4. CASE EndSession
  BY <1>4, DepthAssumption DEF EndSession, Ended, disk, record
<1>5. CASE GeneratePolicy
  <2>1. files' = [files EXCEPT ![1] = File("regular", TRUE, TRUE, Generate(log), done)]
    BY <1>5 DEF GeneratePolicy
  <2>2. UNCHANGED <<level, policy, lesson, log>>
    BY <1>5 DEF GeneratePolicy, loaded, record
  <2>3. Written(File("regular", TRUE, TRUE, Generate(log), done).policy)
    BY GenerateWrites DEF File
  <2> HIDE DEF Learnt
  <2>4. DOMAIN files' = 1..Depth /\ \A d \in 1..Depth : files'[d].lesson # {} => Written(files'[d].policy)
    BY <2>1, <2>3 DEF Learnt
  <2> QED
    BY <2>2, <2>4 DEF Learnt
<1>6. ASSUME NEW dry \in BOOLEAN, StartSearch(dry) \/ \E d \in 1..Depth : StartExplicit(d, dry)
      PROVE  Learnt'
  BY <1>6, DepthAssumption DEF StartSearch, StartExplicit, disk, loaded, record
<1>7. ASSUME NEW d \in 1..Depth, NEW file \in Replacements, Replace(d, file)
      PROVE  Learnt'
  BY <1>7, ReplacementsAssumption DEF Replace, loaded, record
<1>8. ASSUME NEW act \in Acts, Perform(act)
      PROVE  Learnt'
  <2>1. act.target \in Path
    BY <1>8, ActsAssumption DEF Act
  <2>2. UNCHANGED files
    BY <1>8 DEF Perform, disk
  <2>3. \A entry \in log' : entry.target \in Path
    BY <1>8, <2>1 DEF Perform, record
  <2>4. level' \in 1..Depth /\ (lesson' # {} => lesson' = lesson /\ policy' = policy)
    BY <1>8, DepthAssumption DEF Perform, Ended, loaded
  <2> QED
    BY <2>2, <2>3, <2>4
<1> QED
  BY <1>1, <1>2, <1>3, <1>4, <1>5, <1>6, <1>7, <1>8, SeenIsAct DEF Next

\* For no log does generate-policy write a policy that opens credentials: neither
\* what the mandatory denies name, nor, where these need a directory before the
\* name, the relative paths that have none.
LEMMA WrittenKeepsSecrets ==
  ASSUME Written(policy), NEW p \in Path, NEW forWrite \in BOOLEAN, PathAllowed(policy, p, forWrite),
         \/ LastOf(p) \in {DotEnv, IdRsa} \union PemNames
         \/ \E i \in 1..(Len(p) - 1) : p[i] = DotSsh
  PROVE  FALSE
<1>1. p \in Seq(Names) /\ Len(p) \in Nat \ {0}
  BY DEF Path
<1>2. \A g \in MandatoryDenyAlways : ~Matches(g, p)
  BY DEF Written, PathAllowed
<1>3. PICK g \in policy.allow_read \union policy.allow_write : Matches(g, p)
  BY DEF PathAllowed
<1>4. g.form = "tree" /\ g.dir \in Path /\ Inside(g.dir, p)
      /\ \A i \in DOMAIN g.dir : g.dir[i] \notin CredentialLike
  <2>1. Harmless(g)
    BY DEF Written
  <2> QED
    BY <1>3, <2>1 DEF Harmless, Matches, DoubleSlash, Glob
<1>5. g.dir \in Seq(Names) /\ Len(g.dir) \in Nat \ {0} /\ g.dir[1] = p[1] /\ p[1] \notin CredentialLike
  <2>1. g.dir \in Seq(Names) /\ Len(g.dir) \in Nat \ {0} /\ 1 \in DOMAIN g.dir
    BY <1>4 DEF Path
  <2>2. SubSeq(p, 1, Len(g.dir))[1] = p[1] /\ SubSeq(p, 1, Len(g.dir)) = g.dir
    BY <1>1, <1>4, <2>1 DEF Inside
  <2> QED
    BY <1>4, <2>1, <2>2
<1>6. CASE Len(p) = 1
  <2>1. g.dir = <<Root>> /\ p[1] = Root
    BY <1>1, <1>4, <1>5, <1>6 DEF Inside
  <2> QED
    BY <1>1, <1>6, <2>1, NamesAssumption DEF LastOf
<1>7. CASE Len(p) > 1 /\ LastOf(p) = DotEnv
  BY <1>2, <1>7 DEF MandatoryDenyAlways, Matches, Named, Glob
<1>8. CASE Len(p) > 1 /\ LastOf(p) = IdRsa
  <2>1. TextPrefix(<<IdRsa>>, <<LastOf(p)>>)
    BY <1>8 DEF TextPrefix, LastOf
  <2> QED
    BY <1>2, <1>8, <2>1 DEF MandatoryDenyAlways, Matches, Stemmed, Glob
<1>9. CASE Len(p) > 1 /\ LastOf(p) \in PemNames
  BY <1>2, <1>9 DEF MandatoryDenyAlways, Matches, PemFile, Glob
<1>10. ASSUME NEW i \in 1..(Len(p) - 1), p[i] = DotSsh
       PROVE  FALSE
  <2>1. i # 1
    BY <1>5, <1>10, NamesAssumption
  <2>2. i \in 2..(Len(p) - 1)
    BY <1>1, <2>1
  <2> QED
    BY <1>2, <1>10, <2>2 DEF MandatoryDenyAlways, Matches, Below, Glob
<1>11. Len(p) = 1 \/ Len(p) > 1
  <2>1. \A n \in Nat \ {0} : n = 1 \/ n > 1
    OBVIOUS
  <2> QED
    BY <1>1, <2>1, Zenon
<1>12. CASE LastOf(p) \in {DotEnv, IdRsa} \union PemNames
  BY <1>6, <1>7, <1>8, <1>9, <1>11, <1>12
<1> QED
  BY <1>10, <1>12

\* Whatever an agent was seen to do, and whatever trees were made of it: a session
\* under the generated policy has no rule by which credentials may be opened.
THEOREM CredentialsStayOutHolds == SafetySpec => []CredentialsStayOut
<1>1. Init => Learnt
  BY DepthAssumption, LayoutAssumption DEF Init, Learnt
<1>2. Learnt /\ [Next]_vars => Learnt'
  <2>1. ASSUME Learnt, UNCHANGED vars
        PROVE  Learnt'
    BY <2>1 DEF vars, Learnt
  <2> QED
    BY <2>1, LearntStep
<1>3. Learnt => CredentialsStayOut
  <2>1. Opens \subseteq Path
    BY ActsAssumption DEF Opens, Act
  <2> QED
    BY <2>1, WrittenKeepsSecrets DEF Learnt, CredentialsStayOut
<1> QED
  BY <1>1, <1>2, <1>3, PTL DEF SafetySpec
================================================================================
