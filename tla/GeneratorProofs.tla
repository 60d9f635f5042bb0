----------------------------- MODULE GeneratorProofs -----------------------------
(***************************************************************************)
(* How far a generated policy goes beyond what was observed, for every     *)
(* tree of paths and every log.                                            *)
(***************************************************************************)
EXTENDS PolicyFileProofs

\* q explains that p is allowed: they share their top directory, or q is right
\* below the root, or relative and of one component.
Explains(q, p) == TopOf(q) \in {TopOf(p), q}

Near(g, paths) == \A p \in Path : Matches(g, p) => \E q \in paths : Explains(q, p)

\* A tree below a beginning of q, the root excepted, stays in q's top directory.
LEMMA BeginningIsNear ==
  ASSUME NEW q \in Path, NEW n \in 1..Len(q), SubSeq(q, 1, n) # <<Root>>, NEW p \in Path,
         Inside(SubSeq(q, 1, n), p)
  PROVE  TopOf(q) = TopOf(p)
<1> DEFINE dir == SubSeq(q, 1, n)
<1>1. q \in Seq(Names) /\ p \in Seq(Names) /\ Len(q) \in Nat \ {0} /\ Len(p) \in Nat \ {0}
  BY DEF Path
<1>2. dir \in Seq(Names) /\ Len(dir) = n /\ n <= Len(p) /\ SubSeq(p, 1, n) = dir
  BY <1>1 DEF Inside
<1>3. dir[1] = q[1] /\ SubSeq(p, 1, n)[1] = p[1]
  BY <1>1, <1>2
<1>4. q[1] = p[1]
  BY <1>2, <1>3
<1>5. CASE q[1] # Root
  BY <1>4, <1>5 DEF TopOf, IsAbsolute
<1>6. CASE q[1] = Root
  <2>1. n # 1
    <3> SUFFICES ASSUME n = 1
                 PROVE  FALSE
      OBVIOUS
    <3>1. <<Root>> \in Seq(Names) /\ Len(<<Root>>) = 1 /\ <<Root>>[1] = Root /\ \A i \in 1..1 : i = 1
      BY NamesAssumption
    <3>2. dir = <<Root>>
      BY <1>2, <1>3, <1>6, <3>1, SeqEqual, Zenon
    <3> QED
      BY <3>2
  <2>2. n \in Nat /\ n >= 2 /\ Len(q) > 1 /\ Len(p) > 1
    BY <1>1, <1>2, <2>1
  <2>3. SubSeq(dir, 1, 2) = SubSeq(q, 1, 2) /\ SubSeq(SubSeq(p, 1, n), 1, 2) = SubSeq(p, 1, 2)
    BY <1>1, <1>2, <2>2
  <2>4. SubSeq(q, 1, 2) = SubSeq(p, 1, 2)
    BY <1>2, <2>3
  <2> QED
    BY <1>4, <1>6, <2>2, <2>4 DEF TopOf, IsAbsolute
<1> QED
  BY <1>5, <1>6

\* A path at the top is its own explanation.
LEMMA TopIsItself ==
  ASSUME NEW q \in Path, Parent(q) \in {<<>>, <<Root>>}
  PROVE  TopOf(q) = q
<1>1. q \in Seq(Names) /\ Len(q) \in Nat \ {0} /\ SubSeq(q, 1, Len(q)) = q
  BY DEF Path
<1>2. Parent(q) \in Seq(Names) /\ Len(Parent(q)) = Len(q) - 1
  BY <1>1 DEF Parent
<1>3. Len(<<>>) = 0 /\ Len(<<Root>>) = 1 /\ <<Root>>[1] = Root
  OBVIOUS
<1>4. CASE Parent(q) = <<>>
  <2>1. Len(q) = 1
    <3>1. Len(Parent(q)) = 0
      BY <1>3, <1>4, Zenon
    <3>2. Len(q) - 1 = 0
      BY <1>2, <3>1, Zenon
    <3>3. \A count \in Nat \ {0} : count - 1 = 0 => count = 1
      OBVIOUS
    <3> QED
      BY <1>1, <3>2, <3>3, Zenon
  <2>2. <<q[1]>> \in Seq(Names) /\ Len(<<q[1]>>) = 1 /\ <<q[1]>>[1] = q[1] /\ \A i \in 1..1 : i = 1
    BY <1>1, <2>1
  <2>3. <<q[1]>> = q
    BY <1>1, <2>1, <2>2, SeqEqual, Zenon
  <2> QED
    BY <2>1, <2>3 DEF TopOf
<1>5. CASE Parent(q) = <<Root>>
  <2>1. Len(q) = 2
    BY <1>1, <1>2, <1>3, <1>5
  <2>2. Parent(q)[1] = q[1]
    BY <1>1, <2>1 DEF Parent
  <2> QED
    BY <1>1, <1>3, <1>5, <2>1, <2>2 DEF TopOf, IsAbsolute
<1> QED
  BY <1>4, <1>5

LEMMA ParentTreeIsNear ==
  ASSUME NEW paths, NEW q \in paths, q \in Path
  PROVE  Near(ParentTree(q), paths)
<1> SUFFICES ASSUME NEW p \in Path, Matches(ParentTree(q), p)
             PROVE  Explains(q, p)
  BY DEF Near
<1>1. q \in Seq(Names) /\ Len(q) \in Nat \ {0}
  BY DEF Path
<1>2. CASE Parent(q) \in {<<>>, <<Root>>}
  BY <1>2, TopIsItself DEF Explains
<1>3. CASE Parent(q) \notin {<<>>, <<Root>>}
  <2>1. Len(q) - 1 \in 1..Len(q)
    BY <1>1, <1>3 DEF Parent
  <2>2. ParentTree(q) = Tree(Parent(q))
    BY <1>3 DEF ParentTree
  <2>3. Inside(Parent(q), p)
    BY <2>2 DEF Matches, Tree, Glob
  <2> QED
    BY <1>3, <2>1, <2>3, BeginningIsNear DEF Parent, Explains
<1> QED
  BY <1>2, <1>3

\* The cases of generalize_paths: the common ancestor, its parent, or each one's.
LEMMA GroupIsNear ==
  ASSUME NEW paths, paths \subseteq Path, NEW key, Group(paths, key) # {},
         NEW g \in GroupGlobs(Group(paths, key))
  PROVE  Near(g, paths)
<1> DEFINE group  == Group(paths, key)
           common == LongestCommonPrefix(group)
<1>1. group \subseteq paths /\ group \subseteq Path
  BY DEF Group
<1>2. PICK q \in group : \E n \in 0..Len(q) : common = SubSeq(q, 1, n)
  BY <1>1, CommonAncestor
<1>3. PICK n \in 0..Len(q) : common = SubSeq(q, 1, n)
  BY <1>2
<1>4. q \in Seq(Names) /\ Len(q) \in Nat \ {0} /\ q \in Path /\ q \in paths
  BY <1>1 DEF Path
<1> HIDE DEF group, common
<1>5. common # <<>> => n \in 1..Len(q)
  BY <1>3, <1>4
<1>6. CASE \E p \in group : g = ParentTree(p)
  BY <1>1, <1>6, ParentTreeIsNear
<1>7. CASE g = DoubleSlash
  BY <1>7 DEF Near, Matches, DoubleSlash, Glob
<1>8. CASE common \notin {<<>>, <<Root>>} /\ g = Tree(common)
  <2> SUFFICES ASSUME NEW p \in Path, Matches(g, p)
               PROVE  Explains(q, p)
    BY <1>4 DEF Near
  <2>1. Inside(common, p)
    BY <1>8 DEF Matches, Tree, Glob
  <2> QED
    BY <1>3, <1>4, <1>5, <1>8, <2>1, BeginningIsNear DEF Explains
<1>9. CASE /\ Cardinality(group) # 1 /\ common # <<>> /\ common \in group
           /\ Parent(common) # <<Root>> /\ g = Tree(Parent(common))
  <2>1. common \in Seq(Names) /\ Len(common) = n
    BY <1>3, <1>4
  <2>2. n # 1
    <3> SUFFICES ASSUME n = 1
                 PROVE  FALSE
      OBVIOUS
    <3>1. \A other \in group : other = common
      BY <1>9, <2>1, LongEnough DEF group
    <3>2. group = {common}
      BY <1>9, <3>1
    <3> QED
      BY <1>9, <3>2, FS_Singleton
  <2>3. Parent(common) = SubSeq(q, 1, n - 1) /\ n - 1 \in 1..Len(q)
    BY <1>3, <1>4, <1>5, <1>9, <2>1, <2>2 DEF Parent
  <2> SUFFICES ASSUME NEW p \in Path, Matches(g, p)
               PROVE  Explains(q, p)
    BY <1>4 DEF Near
  <2>4. Inside(Parent(common), p)
    BY <1>9 DEF Matches, Tree, Glob
  <2> QED
    BY <1>4, <1>9, <2>3, <2>4, BeginningIsNear DEF Explains
<1> QED
  BY <1>6, <1>7, <1>8, <1>9 DEF GroupGlobs, group, common

LEMMA GlobsAreNear ==
  ASSUME NEW paths, paths \subseteq Path, NEW g \in GeneralizePaths(paths)
  PROVE  Near(g, paths)
<1>1. PICK p \in paths : g \in GroupGlobs(Group(paths, Cluster(p)))
  BY DEF GeneralizePaths
<1>2. Group(paths, Cluster(p)) # {}
  BY <1>1 DEF Group
<1> QED
  BY <1>1, <1>2, GroupIsNear

--------------------------------------------------------------------------------
(* What was observed is covered.                                           *)

\* The common ancestor of paths begins each of them.
LEMMA CommonBegins ==
  ASSUME NEW S, S \subseteq Path, S # {}, NEW p \in S
  PROVE  LET common == LongestCommonPrefix(S) IN
         Len(common) <= Len(p) /\ common = SubSeq(p, 1, Len(common)) /\ common \in Seq(Names)
<1> DEFINE common == LongestCommonPrefix(S)
<1>1. PICK q \in S : \E n \in 0..Len(q) : common = SubSeq(q, 1, n)
  BY CommonAncestor
<1>2. common \in Seq(Names)
  BY <1>1 DEF Path
<1>3. common \in CommonPrefixes(S)
  <2>1. \E longest \in CommonPrefixes(S) : \A other \in CommonPrefixes(S) : Len(other) <= Len(longest)
    BY CommonIsLongest
  <2> QED
    BY <2>1 DEF LongestCommonPrefix
<1>4. Len(common) <= Len(p) /\ SubSeq(common, 1, Len(common)) = SubSeq(p, 1, Len(common))
  BY <1>3 DEF CommonPrefixes, IsPrefix
<1> HIDE DEF common
<1>5. SubSeq(common, 1, Len(common)) = common
  BY <1>2
<1> QED
  BY <1>2, <1>4, <1>5 DEF common

\* The exceptions of NotCovered, for any set of paths.
Missed(p, paths) ==
  \/ Len(p) = 1 /\ ~IsAbsolute(p)
  \/ \E top \in paths : /\ Len(top) = 2 /\ IsAbsolute(top) /\ Cluster(top) = Cluster(p)
                        /\ Group(paths, Cluster(top)) # {top}

LEMMA ParentTreeCovers ==
  ASSUME NEW p \in Path, Len(p) > 1 \/ IsAbsolute(p)
  PROVE  Matches(ParentTree(p), p)
<1>1. p \in Seq(Names) /\ Len(p) \in Nat \ {0} /\ SubSeq(p, 1, Len(p)) = p
  BY DEF Path
<1>2. Parent(p) \in Seq(Names) /\ Len(Parent(p)) = Len(p) - 1 /\ Parent(p) = SubSeq(p, 1, Len(p) - 1)
  <2>1. Parent(p) \in Seq(Names) /\ Len(Parent(p)) = Len(p) - 1
    BY <1>1 DEF Parent
  <2> QED
    BY <2>1 DEF Parent
<1>3. CASE Parent(p) = <<Root>>
  BY <1>1, <1>2, <1>3 DEF ParentTree, Matches, Tree, Glob, Inside
<1>4. CASE Parent(p) \notin {<<>>, <<Root>>}
  BY <1>1, <1>2, <1>4 DEF ParentTree, Matches, Tree, Glob, Inside
<1>5. CASE Parent(p) = <<>>
  <2>1. Len(Parent(p)) = 0
    BY <1>5
  <2>2. Len(p) = 1
    <3>1. Len(p) - 1 = 0
      BY <1>2, <2>1, Zenon
    <3>2. \A count \in Nat \ {0} : count - 1 = 0 => count = 1 /\ ~(count > 1)
      OBVIOUS
    <3> QED
      BY <1>1, <3>1, <3>2, Zenon
  <2>3. p[1] = Root
    BY <2>2 DEF IsAbsolute
  <2>4. <<Root>> \in Seq(Names) /\ Len(<<Root>>) = 1 /\ <<Root>>[1] = Root /\ \A i \in 1..1 : i = 1
    BY NamesAssumption
  <2>5. p = <<Root>>
    BY <1>1, <2>2, <2>3, <2>4, SeqEqual, Zenon
  <2>6. SubSeq(<<Root>>, 1, Len(<<Root>>)) = <<Root>>
    <3>1. \A q \in Seq(Names) : SubSeq(q, 1, Len(q)) = q
      OBVIOUS
    <3> QED
      BY <2>4, <3>1, Zenon
  <2> QED
    BY <1>5, <2>4, <2>5, <2>6 DEF ParentTree, Matches, Tree, Glob, Inside
<1> QED
  BY <1>3, <1>4, <1>5

\* Each case of generalize_paths covers its group, but for what is missed.
LEMMA GroupIsCovered ==
  ASSUME NEW paths, paths \subseteq Path, NEW p \in paths, ~Missed(p, paths)
  PROVE  \E g \in GroupGlobs(Group(paths, Cluster(p))) : Matches(g, p)
<1> DEFINE group  == Group(paths, Cluster(p))
           common == LongestCommonPrefix(group)
<1>1. p \in group /\ group \subseteq Path /\ p \in Seq(Names) /\ Len(p) \in Nat \ {0}
  BY DEF Group, Path
<1>2. Len(p) > 1 \/ IsAbsolute(p)
  <2>1. \A count \in Nat \ {0} : count = 1 \/ count > 1
    OBVIOUS
  <2> QED
    BY <1>1, <2>1, Zenon DEF Missed
<1>3. Matches(ParentTree(p), p)
  BY <1>1, <1>2, ParentTreeCovers
<1>4. Len(common) <= Len(p) /\ common = SubSeq(p, 1, Len(common)) /\ common \in Seq(Names)
  BY <1>1, CommonBegins
<1>5. ASSUME NEW q \in group, Len(q) = 1
      PROVE  Cardinality(group) = 1
  <2>1. \A other \in group : other = q
    BY <1>5, LongEnough
  <2>2. group = {q}
    BY <2>1
  <2> HIDE DEF group
  <2> QED
    BY <2>2, FS_Singleton
<1>6. CASE Cardinality(group) = 1
  BY <1>1, <1>3, <1>6 DEF GroupGlobs
<1>7. CASE Cardinality(group) # 1 /\ common \in {<<>>, <<Root>>}
  <2>1. p # <<Root>>
    BY <1>1, <1>5, <1>7
  <2> QED
    BY <1>1, <1>3, <1>7, <2>1 DEF GroupGlobs
<1>8. CASE Cardinality(group) # 1 /\ common \notin {<<>>, <<Root>>} /\ common \notin group
  <2>1. Len(common) < Len(p)
    <3>1. Len(common) # Len(p)
      <4> HIDE DEF group, common
      <4>1. SubSeq(p, 1, Len(p)) = p
        BY <1>1
      <4> QED
        BY <1>1, <1>4, <1>8, <4>1
    <3> HIDE DEF group, common
    <3> QED
      BY <1>1, <1>4, <3>1
  <2>2. Tree(common) \in GroupGlobs(group)
    BY <1>8 DEF GroupGlobs
  <2>3. Matches(Tree(common), p)
    <3> HIDE DEF group, common
    <3> QED
      BY <1>1, <1>4, <2>1 DEF Matches, Tree, Glob, Inside
  <2> QED
    BY <2>2, <2>3
<1>9. CASE Cardinality(group) # 1 /\ common \notin {<<>>, <<Root>>} /\ common \in group
  <2>1. common \in paths /\ Cluster(common) = Cluster(p)
    BY <1>9 DEF Group
  <2>2. Len(common) # 1
    BY <1>5, <1>9
  <2>3. Parent(common) # <<Root>>
    <3> SUFFICES ASSUME Parent(common) = <<Root>>
                 PROVE  FALSE
      OBVIOUS
    <3>1. Len(common) = 2 /\ IsAbsolute(common)
      <4> HIDE DEF group, common
      <4>1. Len(Parent(common)) = 1 /\ Parent(common)[1] = Root
        OBVIOUS
      <4>2. Len(common) \in Nat /\ Len(common) = 2
        BY <1>4, <4>1 DEF Parent
      <4>3. Parent(common)[1] = common[1]
        BY <1>4, <4>2 DEF Parent
      <4> QED
        BY <4>1, <4>2, <4>3 DEF IsAbsolute
    <3>2. Group(paths, Cluster(common)) # {common}
      <4>1. Group(paths, Cluster(common)) = group
        BY <2>1
      <4> HIDE DEF group, common
      <4> QED
        BY <1>9, <4>1, FS_Singleton
    <3> QED
      BY <2>1, <3>1, <3>2 DEF Missed
  <2>4. Tree(Parent(common)) \in GroupGlobs(group)
    BY <1>9, <2>3 DEF GroupGlobs
  <2>5. Matches(Tree(Parent(common)), p)
    <3> HIDE DEF group, common
    <3>1. Len(common) \in Nat /\ Len(common) >= 1
      BY <1>4, <1>9
    <3>2. Parent(common) \in Seq(Names) /\ Len(Parent(common)) = Len(common) - 1
      BY <1>4, <3>1 DEF Parent
    <3>3. Parent(common) = SubSeq(p, 1, Len(common) - 1)
      <4>1. SubSeq(SubSeq(p, 1, Len(common)), 1, Len(common) - 1) = SubSeq(p, 1, Len(common) - 1)
        BY <1>1, <1>4, <3>1
      <4> QED
        BY <1>4, <4>1, Zenon DEF Parent
    <3>4. Len(Parent(common)) < Len(p)
      BY <1>1, <1>4, <3>1, <3>2
    <3>5. Len(Parent(common)) <= Len(p) /\ SubSeq(p, 1, Len(Parent(common))) = Parent(common)
      BY <1>1, <3>1, <3>2, <3>3, <3>4
    <3>6. Inside(Parent(common), p)
      BY <3>4, <3>5, Zenon DEF Inside
    <3> QED
      BY <3>6 DEF Matches, Tree, Glob
  <2> QED
    BY <2>4, <2>5
<1> QED
  BY <1>6, <1>7, <1>8, <1>9

LEMMA PathsAreCovered ==
  ASSUME NEW paths, paths \subseteq Path, NEW p \in paths, ~Missed(p, paths)
  PROVE  \E g \in GeneralizePaths(paths) : Matches(g, p)
BY GroupIsCovered DEF GeneralizePaths

\* What is not taken for a credential is not one of the mandatory denies'.
LEMMA PlainIsNotDenied ==
  ASSUME NEW p, Plain(p), NEW g \in MandatoryDenyAlways
  PROVE  ~Matches(g, p)
<1>1. p \in Seq(Names) /\ Len(p) \in Nat \ {0} /\ Len(p) \in DOMAIN p /\ LastOf(p) = p[Len(p)]
      /\ LastOf(p) \notin PemNames /\ \A i \in DOMAIN p : p[i] \notin CredentialLike
  BY DEF Plain, Path, LastOf, LooksSensitive
<1>2. CASE g = Named(DotEnv)
  BY <1>1, <1>2, NamesAssumption DEF Matches, Named, Glob
<1>3. CASE g = Below(DotSsh)
  BY <1>1, <1>3, NamesAssumption DEF Matches, Below, Glob
<1>4. CASE g = PemFile
  BY <1>1, <1>4 DEF Matches, PemFile, Glob
<1>5. CASE g = Stemmed(IdRsa)
  <2> DEFINE name == LastOf(p)
  <2>1. name \notin CredentialLike
    BY <1>1
  <2> HIDE DEF name
  <2>2. ~TextPrefix(<<IdRsa>>, <<name>>)
    BY <2>1, NamesAssumption DEF TextPrefix, Inside, LastOf
  <2> QED
    BY <1>5, <2>2 DEF Matches, Stemmed, Glob, name
<1> QED
  BY <1>2, <1>3, <1>4, <1>5 DEF MandatoryDenyAlways

--------------------------------------------------------------------------------
(* A generated policy and the acts it was derived from.                    *)

NeverKills(rules) == \A i \in DOMAIN rules : rules[i].kill = FALSE

\* What a policy owes to the acts it was generated from, whatever its mode has
\* become since.
Derived(p, acts) ==
  /\ acts \subseteq Acts /\ IsFiniteSet(acts)
  /\ p.allow_read = GeneralizePaths(LearnedFrom(acts)) /\ p.allow_write = {}
  /\ p.deny_always = MandatoryDenyAlways
  /\ {act.target : act \in {a \in acts : a.kind = "network"}} \subseteq p.allow_domains
  /\ NeverKills(p.rules)

\* The log is what the acts that reached it left, and a policy with a lesson was
\* derived from it, on the disk and in the session that has loaded it.
Recorded ==
  /\ level \in 1..Depth /\ DOMAIN files = 1..Depth
  /\ done \subseteq Acts /\ log = {[type |-> LogType(act), target |-> act.target] : act \in done}
  /\ IsFiniteSet(log) /\ IsFiniteSet(done)
  /\ \A d \in 1..Depth : files[d].lesson # {} => Derived(files[d].policy, files[d].lesson)
  /\ lesson # {} => Derived(policy, lesson)

LEMMA ImageIsFinite ==
  ASSUME NEW f, IsFiniteSet(DOMAIN f)
  PROVE  IsFiniteSet({f[x] : x \in DOMAIN f})
<1> DEFINE image == {f[x] : x \in DOMAIN f}
           map   == [x \in DOMAIN f |-> f[x]]
<1>1. map \in Surjection(DOMAIN f, image)
  BY DEF Surjection
<1> HIDE DEF image, map
<1>2. IsFiniteSet(image)
  BY <1>1, FS_Surjection
<1> QED
  BY <1>2 DEF image

\* The rules are those of a finite set, so SetToSeq has an order for them.
LEMMA RulesNeverKill ==
  ASSUME IsFiniteSet(log)
  PROVE  NeverKills(Generate(log).rules)
<1> DEFINE risky == {p \in Targets(log, "syscall") : \E m \in MandatoryPrograms : Resembles(p, m)}
           programs == MandatoryPrograms \union risky
           denies == {DenyRule(p) : p \in programs}
           rules == denies \union {[call |-> "ptrace", program |-> <<>>, kill |-> FALSE]}
<1>1. IsFiniteSet(Targets(log, "syscall"))
  <2> DEFINE lines == {e \in log : e.type = "syscall"}
             target == [e \in lines |-> e.target]
  <2>1. IsFiniteSet(lines)
    BY FS_Subset
  <2> HIDE DEF lines
  <2>2. IsFiniteSet(DOMAIN target)
    BY <2>1
  <2>3. {target[e] : e \in DOMAIN target} = {e.target : e \in lines}
    OBVIOUS
  <2> HIDE DEF target
  <2>4. IsFiniteSet({target[e] : e \in DOMAIN target})
    BY <2>2, ImageIsFinite
  <2> QED
    BY <2>3, <2>4 DEF Targets, lines
<1>2. IsFiniteSet(programs)
  <2>1. IsFiniteSet(risky)
    BY <1>1, FS_Subset
  <2> QED
    BY <2>1, FS_Union, MandatoryAssumption
<1> HIDE DEF programs
<1>3. IsFiniteSet(denies)
  <2> DEFINE deny == [p \in programs |-> DenyRule(p)]
  <2>1. IsFiniteSet(DOMAIN deny)
    BY <1>2
  <2>2. {deny[p] : p \in DOMAIN deny} = denies
    OBVIOUS
  <2> HIDE DEF deny, denies
  <2>3. IsFiniteSet({deny[p] : p \in DOMAIN deny})
    BY <2>1, ImageIsFinite
  <2> QED
    BY <2>2, <2>3
<1>4. IsFiniteSet(rules)
  <2> HIDE DEF denies
  <2> QED
    BY <1>3, FS_AddElement
<1>5. \A r \in rules : r.kill = FALSE
  BY DEF DenyRule
<1>6. Generate(log).rules = SetToSeq(rules)
  BY DEF Generate, programs
<1> HIDE DEF denies, rules
<1>7. SetToSeq(rules) \in [1..Cardinality(rules) -> rules]
  <2>1. \E f \in [1..Cardinality(rules) -> rules] : IsInjective(f)
    BY <1>4, FS_CardinalityType DEF ExistsBijection, Bijection, Injection
  <2> QED
    BY <2>1 DEF SetToSeq
<1> QED
  BY <1>5, <1>6, <1>7 DEF NeverKills

\* The log keeps of an act its type and its target.
LEMMA TargetsOfActs ==
  ASSUME NEW acts, NEW type
  PROVE  Targets({[type |-> LogType(act), target |-> act.target] : act \in acts}, type)
           = {act.target : act \in {a \in acts : LogType(a) = type}}
<1> DEFINE Line(act) == [type |-> LogType(act), target |-> act.target]
           lines     == {Line(act) : act \in acts}
<1>1. \A act \in acts : Line(act) \in lines /\ Line(act).type = LogType(act) /\ Line(act).target = act.target
  OBVIOUS
<1>2. \A entry \in lines : \E act \in acts : entry = Line(act)
  OBVIOUS
<1> HIDE DEF lines, Line
<1>3. \A entry \in lines : \E act \in acts : entry.type = LogType(act) /\ entry.target = act.target
  BY <1>1, <1>2
<1>4. Targets(lines, type) = {act.target : act \in {a \in acts : LogType(a) = type}}
  BY <1>1, <1>3 DEF Targets
<1> QED
  BY <1>4 DEF lines, Line

LEMMA GenerateDerives ==
  ASSUME done \subseteq Acts, log = {[type |-> LogType(act), target |-> act.target] : act \in done},
         IsFiniteSet(log), IsFiniteSet(done)
  PROVE  Derived(Generate(log), done)
<1>1. \A act \in done : /\ act.kind \in {"read", "write", "exec", "network"} /\ act.target \in Path
                        /\ (LogType(act) = "read" <=> Opened(act)) /\ LogType(act) # "write"
                        /\ (LogType(act) = "network" <=> act.kind = "network")
  BY ActsAssumption DEF Act, LogType, Opened
<1>2. ASSUME NEW type
      PROVE  Targets(log, type) = {act.target : act \in {a \in done : LogType(a) = type}}
  BY TargetsOfActs
<1>3. ObservedPaths(log, "read") = LearnedFrom(done)
  <2>1. Targets(log, "read") = {act.target : act \in {a \in done : Opened(a)}}
    BY <1>1, <1>2
  <2> QED
    BY <2>1 DEF ObservedPaths, LearnedFrom
<1>4. Targets(log, "write") = {}
  BY <1>1 DEF Targets
<1>5. Targets(log, "network") = {act.target : act \in {a \in done : a.kind = "network"}}
  BY <1>1, <1>2
<1>6. Generate(log).allow_write = {}
  BY <1>4 DEF Generate, ObservedPaths, GeneralizePaths
<1> QED
  BY <1>3, <1>5, <1>6, RulesNeverKill DEF Derived, Generate

LEMMA RecordedStep ==
  ASSUME Recorded, Next
  PROVE  Recorded'
<1> USE DEF Recorded
<1>1. CASE Probe \/ Validate
  <2>1. level' \in 1..Depth /\ UNCHANGED <<files, log, done, policy, lesson>>
    BY <1>1, DepthAssumption DEF Probe, Validate, disk, machine, options, loaded, record
  <2> QED
    BY <2>1
<1>2. CASE Load
  <2>1. UNCHANGED <<level, files, log, done>>
    BY <1>2 DEF Load, disk, record
  <2>2. CASE UNCHANGED <<policy, lesson>>
    BY <2>1, <2>2
  <2>3. CASE /\ policy' = [files[level].policy EXCEPT !.mode = IF dry_run THEN "monitor" ELSE @]
             /\ lesson' = files[level].lesson
    <3> DEFINE read == files[level].policy
    <3>1. ASSUME Derived(read, lesson')
          PROVE  Derived(policy', lesson')
      <4>1. policy' = [read EXCEPT !.mode = IF dry_run THEN "monitor" ELSE @]
        BY <2>3
      <4> HIDE DEF read
      <4>2. /\ policy'.allow_read = read.allow_read /\ policy'.allow_write = read.allow_write
            /\ policy'.deny_always = read.deny_always /\ policy'.allow_domains = read.allow_domains
            /\ policy'.rules = read.rules
        BY <4>1
      <4> QED
        BY <3>1, <4>2 DEF Derived
    <3> QED
      BY <2>1, <2>3, <3>1
  <2> QED
    BY <1>2, <2>2, <2>3 DEF Load
<1>3. CASE Attach
  BY <1>3 DEF Attach, disk, options, record
<1>4. CASE EndSession
  BY <1>4, DepthAssumption DEF EndSession, Ended, disk, record
<1>5. CASE GeneratePolicy
  <2>1. files' = [files EXCEPT ![1] = File("regular", TRUE, TRUE, Generate(log), done)]
    BY <1>5 DEF GeneratePolicy
  <2>2. UNCHANGED <<level, policy, lesson, log, done>>
    BY <1>5 DEF GeneratePolicy, loaded, record
  <2> DEFINE new == File("regular", TRUE, TRUE, Generate(log), done)
  <2>3. new.lesson = done /\ Derived(new.policy, new.lesson)
    BY GenerateDerives DEF File
  <2> HIDE DEF Recorded, new
  <2>4. /\ DOMAIN files' = 1..Depth
        /\ \A d \in 1..Depth : files'[d].lesson # {} => Derived(files'[d].policy, files'[d].lesson)
    BY <2>1, <2>3 DEF Recorded, new
  <2> QED
    BY <2>2, <2>4 DEF Recorded
<1>6. ASSUME NEW dry \in BOOLEAN, StartSearch(dry) \/ \E d \in 1..Depth : StartExplicit(d, dry)
      PROVE  Recorded'
  <2>1. level' \in 1..Depth /\ UNCHANGED <<files, log, done, policy, lesson>>
    BY <1>6, DepthAssumption DEF StartSearch, StartExplicit, disk, loaded, record
  <2> QED
    BY <2>1
<1>7. ASSUME NEW d \in 1..Depth, NEW file \in Replacements, Replace(d, file)
      PROVE  Recorded'
  BY <1>7, ReplacementsAssumption DEF Replace, loaded, record
<1>8. ASSUME NEW act \in Acts, Perform(act)
      PROVE  Recorded'
  <2>1. UNCHANGED files
    BY <1>8 DEF Perform, disk
  <2>2. /\ done' \subseteq Acts /\ log' = {[type |-> LogType(a), target |-> a.target] : a \in done'}
        /\ IsFiniteSet(log') /\ IsFiniteSet(done')
    <3>1. CASE /\ log' = log \union {[type |-> LogType(act), target |-> act.target]}
               /\ done' = done \union {act}
      BY <1>8, <3>1, FS_AddElement
    <3>2. CASE UNCHANGED record
      BY <3>2 DEF record
    <3> QED
      BY <1>8, <3>1, <3>2 DEF Perform
  <2>3. level' \in 1..Depth /\ (lesson' # {} => lesson' = lesson /\ policy' = policy)
    BY <1>8, DepthAssumption DEF Perform, Ended, loaded
  <2> QED
    BY <2>1, <2>2, <2>3
<1> QED
  BY <1>1, <1>2, <1>3, <1>4, <1>5, <1>6, <1>7, <1>8, SeenIsAct DEF Next

LEMMA RecordedHolds == SafetySpec => []Recorded
<1>1. Init => Recorded
  BY DepthAssumption, LayoutAssumption, FS_EmptySet DEF Init, Recorded
<1>2. Recorded /\ [Next]_vars => Recorded'
  <2>1. ASSUME Recorded, UNCHANGED vars
        PROVE  Recorded'
    <3>1. UNCHANGED <<level, files, log, done, policy, lesson>>
      BY <2>1 DEF vars
    <3> QED
      BY <2>1, <3>1 DEF Recorded, LogType
  <2> QED
    BY <2>1, RecordedStep
<1> QED
  BY <1>1, <1>2, PTL DEF SafetySpec

LEMMA LearnedArePaths ==
  ASSUME Derived(policy, lesson)
  PROVE  Learned = LearnedFrom(lesson) /\ \A p \in Learned : Plain(p)
BY ActsAssumption DEF Learned, LearnedFrom, Derived, Act, Plain

\* Whatever an agent was seen to do: a session under the policy generated from it
\* may write nothing, and may read only what shares its top directory with
\* something harmless that was opened, or lies below a root that was opened itself.
THEOREM GeneratedStaysCloseHolds == SafetySpec => []GeneratedStaysClose
<1>1. ASSUME Derived(policy, lesson), NEW p \in Opens
      PROVE  /\ ~PathAllowed(policy, p, TRUE)
             /\ PathAllowed(policy, p, FALSE) => \E q \in Learned : TopOf(q) \in {TopOf(p), q}
  <2>1. p \in Path
    BY ActsAssumption DEF Opens, Act
  <2>2. Learned \subseteq Path /\ policy.allow_read = GeneralizePaths(Learned)
    BY <1>1, LearnedArePaths DEF Plain, Derived
  <2>3. \A g \in policy.allow_read : Near(g, Learned)
    BY <2>2, GlobsAreNear
  <2> QED
    BY <1>1, <2>1, <2>3 DEF Derived, Near, Explains, PathAllowed
<1>2. Recorded => GeneratedStaysClose
  BY <1>1 DEF Recorded, GeneratedStaysClose
<1> QED
  BY <1>2, RecordedHolds, PTL

\* Whatever an agent was seen to do, it may do again: the policy generated from a
\* session kills it for nothing it did there, but for credentials, for addresses
\* nothing resolved, and for the two kinds of path that the globs miss.
THEOREM ReplaySurvivesHolds == SafetySpec => []ReplaySurvives
<1>1. ASSUME Derived(policy, lesson), NEW act \in lesson, Kills(act)
      PROVE  \/ Opened(act) /\ (LooksSensitive(act.target) \/ NotCovered(act.target))
             \/ act.kind = "network" /\ ~act.resolved
  <2>1. act.kind \in {"read", "write", "exec", "network"}
    BY <1>1, ActsAssumption DEF Derived, Act
  <2>2. CASE act.kind = "network"
    <3>1. act.target \in policy.allow_domains
      BY <1>1, <2>2 DEF Derived
    <3> QED
      BY <1>1, <2>2, <3>1 DEF Kills, NetworkAllowed
  <2>3. CASE act.kind = "exec"
    <3>1. ~ShouldKill(policy, act.target) /\ ~LsmExecKills(policy, act.target)
      BY <1>1 DEF Derived, NeverKills, ShouldKill, LsmExecKills, FirstWith
    <3> QED
      BY <1>1, <2>3, <3>1 DEF Kills
  <2>4. CASE Opened(act)
    <3> SUFFICES ASSUME ~LooksSensitive(act.target), ~NotCovered(act.target)
                 PROVE  PathAllowed(policy, act.target, FALSE)
      BY <1>1, <2>4 DEF Kills, Opened
    <3>1. act.target \in Learned
      BY <2>4 DEF Learned, LearnedFrom
    <3>2. Plain(act.target) /\ Learned \subseteq Path /\ policy.allow_read = GeneralizePaths(Learned)
      BY <1>1, <3>1, LearnedArePaths DEF Plain, Derived
    <3>3. \E g \in policy.allow_read : Matches(g, act.target)
      BY <3>1, <3>2, PathsAreCovered DEF Missed, NotCovered
    <3>4. \A g \in policy.deny_always : ~Matches(g, act.target)
      BY <1>1, <3>2, PlainIsNotDenied DEF Derived
    <3> QED
      BY <3>3, <3>4 DEF PathAllowed
  <2> QED
    BY <2>1, <2>2, <2>3, <2>4 DEF Opened
<1>2. Recorded => ReplaySurvives
  BY <1>1 DEF Recorded, ReplaySurvives
<1> QED
  BY <1>2, RecordedHolds, PTL

--------------------------------------------------------------------------------
(* A longer log.                                                           *)

\* What begins every path of a set is no longer than their common ancestor.
LEMMA CommonIsLongerThan ==
  ASSUME NEW S, S \subseteq Path, S # {}, NEW s,
         \A q \in S : Len(s) \in 0..Len(q) /\ s = SubSeq(q, 1, Len(s))
  PROVE  Len(s) <= Len(LongestCommonPrefix(S))
<1>1. \A q \in S : q \in Seq(Names) /\ Len(q) \in Nat
  BY DEF Path
<1>2. \A q \in S : SubSeq(s, 1, Len(s)) = SubSeq(q, 1, Len(s))
  BY <1>1
<1>3. s \in CommonPrefixes(S)
  BY <1>2 DEF CommonPrefixes, Prefixes, IsPrefix
<1>4. \E longest \in CommonPrefixes(S) : \A other \in CommonPrefixes(S) : Len(other) <= Len(longest)
  BY CommonIsLongest
<1> QED
  BY <1>3, <1>4 DEF LongestCommonPrefix

\* A path is its own common ancestor.
LEMMA CommonOfOne ==
  ASSUME NEW q \in Path
  PROVE  LongestCommonPrefix({q}) = q
<1> DEFINE common == LongestCommonPrefix({q})
<1>1. q \in Seq(Names) /\ Len(q) \in Nat /\ SubSeq(q, 1, Len(q)) = q
  BY DEF Path
<1>2. Len(common) <= Len(q) /\ common = SubSeq(q, 1, Len(common)) /\ common \in Seq(Names)
  BY CommonBegins
<1>3. Len(q) <= Len(common)
  <2>1. \A r \in {q} : Len(q) \in 0..Len(r) /\ q = SubSeq(r, 1, Len(q))
    BY <1>1
  <2> QED
    BY <2>1, CommonIsLongerThan
<1> HIDE DEF common
<1>4. Len(common) \in Nat
  BY <1>2
<1>5. Len(common) = Len(q)
  <2>1. \A m, n \in Nat : m <= n /\ n <= m => m = n
    OBVIOUS
  <2> QED
    BY <1>1, <1>2, <1>3, <1>4, <2>1, Zenon
<1> QED
  BY <1>1, <1>2, <1>5 DEF common

\* The common ancestor of more paths begins that of some of them.
LEMMA CommonShortens ==
  ASSUME NEW few, few # {}, NEW many, many \subseteq Path, few \subseteq many
  PROVE  LET ancestor == LongestCommonPrefix(few)
             shorter  == LongestCommonPrefix(many)
         IN  /\ ancestor \in Seq(Names) /\ shorter \in Seq(Names)
             /\ Len(shorter) <= Len(ancestor) /\ shorter = SubSeq(ancestor, 1, Len(shorter))
<1> DEFINE ancestor == LongestCommonPrefix(few)
           shorter  == LongestCommonPrefix(many)
<1>1. \A q \in many : /\ Len(shorter) <= Len(q) /\ shorter = SubSeq(q, 1, Len(shorter))
                      /\ shorter \in Seq(Names) /\ q \in Seq(Names)
  BY CommonBegins DEF Path
<1>2. PICK q \in few : TRUE
  OBVIOUS
<1>3. Len(ancestor) <= Len(q) /\ ancestor = SubSeq(q, 1, Len(ancestor)) /\ ancestor \in Seq(Names)
  BY <1>2, CommonBegins
<1>4. Len(shorter) <= Len(ancestor)
  <2>1. \A r \in few : Len(shorter) \in 0..Len(r) /\ shorter = SubSeq(r, 1, Len(shorter))
    <3> HIDE DEF shorter
    <3> QED
      BY <1>1
  <2> HIDE DEF shorter
  <2> QED
    BY <2>1, CommonIsLongerThan
<1> HIDE DEF ancestor, shorter
<1>5. SubSeq(SubSeq(q, 1, Len(ancestor)), 1, Len(shorter)) = SubSeq(q, 1, Len(shorter))
  BY <1>1, <1>2, <1>3, <1>4
<1>6. shorter = SubSeq(ancestor, 1, Len(shorter))
  BY <1>1, <1>2, <1>3, <1>5
<1> QED
  BY <1>1, <1>2, <1>3, <1>4, <1>6 DEF ancestor, shorter

\* Paths that share their key have it in common: the root alone never is.
LEMMA CommonIsLong ==
  ASSUME NEW paths, paths \subseteq Path, NEW key, Group(paths, key) # {},
         Cardinality(Group(paths, key)) # 1
  PROVE  LET common == LongestCommonPrefix(Group(paths, key)) IN
         Len(common) >= 2 /\ common \notin {<<>>, <<Root>>}
<1> DEFINE group  == Group(paths, key)
           common == LongestCommonPrefix(group)
<1>1. group \subseteq Path
  BY DEF Group
<1>2. ASSUME NEW q \in group
      PROVE  Len(q) >= 2 /\ Len(q) \in Nat /\ q \in Seq(Names)
  <2>1. q \in Seq(Names) /\ Len(q) \in Nat \ {0}
    BY <1>1 DEF Path
  <2>2. Len(q) # 1
    <3> SUFFICES ASSUME Len(q) = 1
                 PROVE  FALSE
      OBVIOUS
    <3>1. \A other \in group : other = q
      BY LongEnough
    <3>2. group = {q}
      BY <3>1
    <3> HIDE DEF group
    <3>3. Cardinality(group) = 1
      BY <3>2, FS_Singleton
    <3> QED
      BY <3>3 DEF group
  <2>3. \A count \in Nat \ {0} : count # 1 => count >= 2 /\ count \in Nat
    OBVIOUS
  <2> HIDE DEF group
  <2> QED
    BY <2>1, <2>2, <2>3, Zenon
<1>3. ASSUME NEW q \in group
      PROVE  Len(key) \in 2..Len(q) /\ key = SubSeq(q, 1, Len(key))
  <2> DEFINE n == IF Len(q) > 3 THEN 3 ELSE IF Len(q) > 2 THEN 2 ELSE Len(q)
  <2>1. key = SubSeq(q, 1, n)
    BY DEF Group, Cluster
  <2>2. n \in 2..Len(q)
    BY <1>2
  <2> HIDE DEF n, group
  <2>3. Len(key) = n
    BY <1>2, <2>1, <2>2
  <2> QED
    BY <2>1, <2>2, <2>3
<1>4. Len(key) <= Len(common)
  <2>1. \A q \in group : Len(key) \in 0..Len(q) /\ key = SubSeq(q, 1, Len(key))
    <3> HIDE DEF group
    <3> QED
      BY <1>2, <1>3
  <2> HIDE DEF group
  <2>2. group # {}
    BY DEF group
  <2> QED
    BY <1>1, <2>1, <2>2, CommonIsLongerThan
<1>5. common \in Seq(Names)
  BY <1>1, CommonBegins
<1> HIDE DEF group, common
<1>6. PICK q \in group : TRUE
  BY DEF group
<1>7. Len(common) >= 2
  BY <1>2, <1>3, <1>4, <1>5, <1>6
<1>8. Len(<<>>) = 0 /\ Len(<<Root>>) = 1
  OBVIOUS
<1> QED
  BY <1>5, <1>7, <1>8 DEF group, common

\* A directory that begins another one has what is inside of that.
LEMMA InsideShorter ==
  ASSUME NEW dir \in Seq(Names), NEW p \in Path, Inside(dir, p), NEW n \in 0..Len(dir)
  PROVE  Inside(SubSeq(dir, 1, n), p)
<1>1. p \in Seq(Names) /\ Len(p) \in Nat /\ Len(dir) \in Nat
  BY DEF Path
<1>2. Len(dir) <= Len(p) /\ SubSeq(p, 1, Len(dir)) = dir
  BY DEF Inside
<1>3. Len(SubSeq(dir, 1, n)) = n
  BY <1>1
<1>4. SubSeq(SubSeq(p, 1, Len(dir)), 1, n) = SubSeq(p, 1, n)
  BY <1>1, <1>2
<1>5. SubSeq(p, 1, n) = SubSeq(dir, 1, n)
  BY <1>2, <1>4
<1>6. CASE n = Len(dir)
  <2>1. SubSeq(dir, 1, Len(dir)) = dir
    OBVIOUS
  <2> QED
    BY <1>6, <2>1
<1>7. CASE n # Len(dir)
  <2>1. \A k, m \in Nat : \A i \in 0..k : i # k /\ k <= m => i < m /\ i <= m
    OBVIOUS
  <2>2. n < Len(p) /\ n <= Len(p)
    BY <1>1, <1>2, <1>7, <2>1, Zenon
  <2> QED
    BY <1>3, <1>5, <2>2, Zenon DEF Inside
<1> QED
  BY <1>6, <1>7

\* The parent of a path begins it, and has what begins the path below it.
LEMMA ParentBegins ==
  ASSUME NEW p \in Path
  PROVE  /\ Parent(p) \in Seq(Names) /\ Len(Parent(p)) = Len(p) - 1
         /\ \A n \in 0..(Len(p) - 1) : SubSeq(Parent(p), 1, n) = SubSeq(p, 1, n)
<1>1. p \in Seq(Names) /\ Len(p) \in Nat \ {0}
  BY DEF Path
<1>2. \A s \in Seq(Names), m \in Nat \ {0} : m = Len(s) =>
        /\ SubSeq(s, 1, m - 1) \in Seq(Names) /\ Len(SubSeq(s, 1, m - 1)) = m - 1
        /\ \A n \in 0..(m - 1) : SubSeq(SubSeq(s, 1, m - 1), 1, n) = SubSeq(s, 1, n)
  OBVIOUS
<1> QED
  BY <1>1, <1>2, Zenon DEF Parent

\* What a group opens, said of its common ancestor alone: its directory, or its
\* parent's, or everything when that is at the top.
LEMMA GroupReach ==
  ASSUME NEW paths, paths \subseteq Path, IsFiniteSet(paths), NEW key, Group(paths, key) # {},
         NEW g \in GroupGlobs(Group(paths, key)), NEW p \in Path, Matches(g, p)
  PROVE  LET group  == Group(paths, key)
             common == LongestCommonPrefix(group)
         IN  \/ common \notin group /\ Inside(common, p)
             \/ /\ common \in group /\ Parent(common) \notin {<<>>, <<Root>>}
                /\ Inside(Parent(common), p)
             \/ group = {common} /\ Parent(common) \in {<<>>, <<Root>>}
<1> DEFINE group  == Group(paths, key)
           common == LongestCommonPrefix(group)
<1>1. group \subseteq Path
  BY DEF Group
<1>2. CASE Cardinality(group) = 1
  <2>1. PICK q : group = {q}
    <3>1. IsFiniteSet(group)
      BY FS_Subset DEF Group
    <3> QED
      BY <1>2, <3>1, FS_Singleton
  <2>2. q \in Path /\ common = q
    BY <1>1, <2>1, CommonOfOne
  <2>3. g = ParentTree(q)
    BY <1>2, <2>1 DEF GroupGlobs
  <2>4. CASE Parent(q) \notin {<<>>, <<Root>>}
    <3>1. Inside(Parent(q), p)
      BY <2>3, <2>4 DEF ParentTree, Matches, Tree, Glob
    <3> QED
      BY <2>1, <2>2, <2>4, <3>1
  <2> QED
    BY <2>1, <2>2, <2>4
<1>3. CASE Cardinality(group) # 1
  <2>1. Len(common) >= 2 /\ common \notin {<<>>, <<Root>>}
    BY <1>3, CommonIsLong
  <2>2. CASE common \notin group
    <3>1. g = Tree(common)
      BY <1>3, <2>1, <2>2 DEF GroupGlobs
    <3> QED
      BY <2>2, <3>1 DEF Matches, Tree, Glob
  <2>3. CASE common \in group
    <3>1. g # DoubleSlash
      BY DEF Matches, DoubleSlash, Glob
    <3>2. g = Tree(Parent(common)) /\ Parent(common) # <<Root>>
      BY <1>3, <2>1, <2>3, <3>1 DEF GroupGlobs
    <3>3. Parent(common) # <<>>
      <4>1. common \in Path
        BY <1>1, <2>3
      <4> HIDE DEF common, group
      <4>2. Len(Parent(common)) >= 1
        BY <2>1, <4>1, ParentBegins DEF Path
      <4>3. Len(<<>>) = 0
        OBVIOUS
      <4> QED
        BY <4>2, <4>3
    <3> QED
      BY <2>3, <3>2, <3>3 DEF Matches, Tree, Glob
  <2> QED
    BY <2>2, <2>3
<1> QED
  BY <1>2, <1>3

\* The exception of the code at the root, for any sets of paths.
Lost(p, before, after) ==
  \E top \in after :
    /\ Len(top) = 2 /\ IsAbsolute(top) /\ Group(after, Cluster(top)) # {top}
    /\ TopOf(p) = top \/ Group(before, Cluster(top)) = {top}

\* What one cluster opened it still opens when paths have been added to it. The
\* common ancestor of the longer list begins that of the shorter one, and is equal
\* to it or shorter by the component that its parent drops.
LEMMA GroupGrows ==
  ASSUME NEW after, after \subseteq Path, IsFiniteSet(after), NEW before, before \subseteq after,
         NEW key, Group(before, key) # {},
         NEW g \in GroupGlobs(Group(before, key)), NEW p \in Path, Matches(g, p)
  PROVE  (\E h \in GroupGlobs(Group(after, key)) : Matches(h, p)) \/ Lost(p, before, after)
<1> DEFINE few      == Group(before, key)
           many     == Group(after, key)
           ancestor == LongestCommonPrefix(few)
           shorter  == LongestCommonPrefix(many)
           goal     == (\E h \in GroupGlobs(many) : Matches(h, p)) \/ Lost(p, before, after)
<1>1. few \subseteq many /\ few # {} /\ many \subseteq Path /\ before \subseteq Path /\ IsFiniteSet(before)
      /\ many \subseteq after /\ \A q \in many : Cluster(q) = key
  BY FS_Subset DEF Group
<1>2. /\ ancestor \in Seq(Names) /\ shorter \in Seq(Names)
      /\ Len(shorter) <= Len(ancestor) /\ shorter = SubSeq(ancestor, 1, Len(shorter))
  BY <1>1, CommonShortens
<1>3. \/ ancestor \notin few /\ Inside(ancestor, p)
      \/ /\ ancestor \in few /\ Parent(ancestor) \notin {<<>>, <<Root>>}
         /\ Inside(Parent(ancestor), p)
      \/ few = {ancestor} /\ Parent(ancestor) \in {<<>>, <<Root>>}
  BY <1>1, GroupReach
<1>4. CASE Cardinality(many) = 1
  <2>1. PICK q : many = {q}
    <3>1. IsFiniteSet(many)
      BY FS_Subset DEF Group
    <3> QED
      BY <1>4, <3>1, FS_Singleton
  <2>2. few = many
    BY <1>1, <2>1
  <2> QED
    BY <2>2
<1>5. CASE Cardinality(many) # 1
  <2>1. Len(shorter) >= 2 /\ shorter \notin {<<>>, <<Root>>}
    BY <1>1, <1>5, CommonIsLong
  <2>2. GroupGlobs(many) = (IF shorter \notin many THEN {Tree(shorter)}
                            ELSE IF Parent(shorter) = <<Root>> THEN {DoubleSlash}
                            ELSE {Tree(Parent(shorter))})
    BY <1>5, <2>1 DEF GroupGlobs
  <2>3. many # {shorter}
    <3> HIDE DEF many
    <3> QED
      BY <1>5, FS_Singleton
  <2> HIDE DEF few, many, ancestor, shorter
  <2>4. Len(ancestor) \in Nat /\ Len(shorter) \in Nat /\ Len(shorter) - 1 \in 1..Len(shorter)
        /\ Len(shorter) \in 0..Len(ancestor) /\ Len(shorter) - 1 \in 0..Len(ancestor)
    BY <1>2, <2>1
  <2>5. ancestor \in Path /\ shorter \in Path
    <3>1. Len(ancestor) # 0 /\ Len(shorter) # 0 /\ Len(<<>>) = 0
      BY <1>2, <2>1, <2>4
    <3> QED
      BY <1>2, <3>1 DEF Path
  <2>6. Len(ancestor) = Len(shorter) => ancestor = shorter
    <3>1. SubSeq(ancestor, 1, Len(ancestor)) = ancestor
      BY <1>2
    <3> QED
      BY <1>2, <3>1
  <2>7. /\ Parent(shorter) \in Seq(Names) /\ Len(Parent(shorter)) = Len(shorter) - 1
        /\ Parent(ancestor) \in Seq(Names) /\ Len(Parent(ancestor)) = Len(ancestor) - 1
        /\ \A n \in 0..(Len(ancestor) - 1) : SubSeq(Parent(ancestor), 1, n) = SubSeq(ancestor, 1, n)
    BY <2>5, ParentBegins
  <2>8. Parent(shorter) = SubSeq(ancestor, 1, Len(shorter) - 1)
    <3>1. SubSeq(SubSeq(ancestor, 1, Len(shorter)), 1, Len(shorter) - 1)
            = SubSeq(ancestor, 1, Len(shorter) - 1)
      BY <1>2, <2>4
    <3> QED
      BY <1>2, <3>1 DEF Parent
  \* What opened more than its directory did is short.
  <2>9. Parent(ancestor) \in {<<>>, <<Root>>} => ancestor = shorter /\ Len(shorter) = 2
    <3>1. Len(<<>>) = 0 /\ Len(<<Root>>) = 1
      OBVIOUS
    <3>2. Parent(ancestor) \in {<<>>, <<Root>>} => Len(ancestor) - 1 \in {0, 1}
      BY <2>7, <3>1
    <3>3. \A m, n \in Nat : m - 1 \in {0, 1} /\ n <= m /\ n >= 2 => m = n /\ n = 2
      OBVIOUS
    <3> QED
      BY <1>2, <2>1, <2>4, <2>6, <3>2, <3>3, Zenon
  <2>10. CASE shorter \notin many
    <3>1. Inside(shorter, p)
      <4>1. CASE ancestor \notin few /\ Inside(ancestor, p)
        BY <1>2, <2>4, <4>1, InsideShorter
      <4>2. CASE /\ ancestor \in few /\ Parent(ancestor) \notin {<<>>, <<Root>>}
                 /\ Inside(Parent(ancestor), p)
        <5>1. Len(ancestor) # Len(shorter)
          BY <1>1, <2>6, <2>10, <4>2
        <5>2. Len(shorter) \in 0..(Len(ancestor) - 1)
          BY <1>2, <2>4, <5>1
        <5>3. Inside(SubSeq(Parent(ancestor), 1, Len(shorter)), p)
          BY <2>7, <4>2, <5>2, InsideShorter
        <5> QED
          BY <1>2, <2>7, <5>2, <5>3
      <4>3. CASE few = {ancestor} /\ Parent(ancestor) \in {<<>>, <<Root>>}
        BY <1>1, <2>9, <2>10, <4>3
      <4> QED
        BY <1>3, <4>1, <4>2, <4>3
    <3>2. Matches(Tree(shorter), p)
      BY <3>1 DEF Matches, Tree, Glob
    <3> QED
      BY <2>2, <2>10, <3>2 DEF many
  <2>11. CASE shorter \in many /\ Parent(shorter) # <<Root>>
    <3>1. Inside(Parent(shorter), p)
      <4>1. CASE ancestor \notin few /\ Inside(ancestor, p)
        <5>1. Inside(SubSeq(ancestor, 1, Len(shorter) - 1), p)
          BY <1>2, <2>4, <4>1, InsideShorter
        <5> QED
          BY <2>8, <5>1
      <4>2. CASE /\ ancestor \in few /\ Parent(ancestor) \notin {<<>>, <<Root>>}
                 /\ Inside(Parent(ancestor), p)
        <5>1. Len(shorter) - 1 \in 0..(Len(ancestor) - 1)
          BY <1>2, <2>4
        <5>2. Inside(SubSeq(Parent(ancestor), 1, Len(shorter) - 1), p)
          BY <2>7, <4>2, <5>1, InsideShorter
        <5> QED
          BY <2>7, <2>8, <5>1, <5>2
      <4>3. CASE few = {ancestor} /\ Parent(ancestor) \in {<<>>, <<Root>>}
        <5>1. Parent(shorter) = <<>> /\ Len(Parent(shorter)) = 1
          BY <2>7, <2>9, <2>11, <4>3
        <5> QED
          BY <5>1
      <4> QED
        BY <1>3, <4>1, <4>2, <4>3
    <3>2. Matches(Tree(Parent(shorter)), p)
      BY <3>1 DEF Matches, Tree, Glob
    <3> QED
      BY <2>2, <2>11, <3>2 DEF many
  <2>12. CASE shorter \in many /\ Parent(shorter) = <<Root>>
    <3>1. Len(shorter) = 2 /\ IsAbsolute(shorter)
      <4>1. Len(<<Root>>) = 1 /\ <<Root>>[1] = Root
        OBVIOUS
      <4>2. Len(shorter) = 2
        BY <2>4, <2>7, <2>12, <4>1
      <4>3. Parent(shorter)[1] = shorter[1]
        BY <1>2, <4>2 DEF Parent
      <4> QED
        BY <2>12, <4>1, <4>2, <4>3 DEF IsAbsolute
    <3>2. shorter \in after /\ Cluster(shorter) = key /\ many # {shorter}
      BY <1>1, <2>3, <2>12
    <3>3. TopOf(p) = shorter \/ few = {shorter}
      <4>1. SubSeq(shorter, 1, 2) = shorter /\ TopOf(shorter) = shorter
        BY <1>2, <3>1 DEF TopOf
      <4>2. CASE Inside(shorter, p)
        <5>1. 2 \in 1..Len(shorter)
          BY <3>1
        <5>2. SubSeq(shorter, 1, 2) # <<Root>> /\ Inside(SubSeq(shorter, 1, 2), p)
          BY <2>1, <4>1, <4>2
        <5>3. TopOf(shorter) = TopOf(p)
          BY <2>5, <5>1, <5>2, BeginningIsNear
        <5> QED
          BY <4>1, <5>3
      <4>3. CASE ancestor \notin few /\ Inside(ancestor, p)
        BY <1>2, <2>4, <4>2, <4>3, InsideShorter
      <4>4. CASE /\ ancestor \in few /\ Parent(ancestor) \notin {<<>>, <<Root>>}
                 /\ Inside(Parent(ancestor), p)
        <5>1. Len(ancestor) # Len(shorter)
          BY <2>6, <2>12, <4>4
        <5>2. Len(shorter) \in 0..(Len(ancestor) - 1)
          BY <1>2, <2>4, <5>1
        <5>3. Inside(SubSeq(Parent(ancestor), 1, Len(shorter)), p)
          BY <2>7, <4>4, <5>2, InsideShorter
        <5> QED
          BY <1>2, <2>7, <4>2, <5>2, <5>3
      <4>5. CASE few = {ancestor} /\ Parent(ancestor) \in {<<>>, <<Root>>}
        BY <2>9, <4>5
      <4> QED
        BY <1>3, <4>3, <4>4, <4>5
    <3> QED
      BY <3>1, <3>2, <3>3 DEF Lost, few, many
  <2> QED
    BY <2>10, <2>11, <2>12
<1> QED
  BY <1>4, <1>5

\* Whatever an agent was seen to do before and since: what the policy generated the
\* first time lets it read, the one generated from the longer log does, but for
\* what //** takes away.
THEOREM RelearningTakesNothingBackHolds == SafetySpec => RelearningTakesNothingBack
<1>1. ASSUME NEW p \in Opens, NEW after, NEW before, before \subseteq after,
             NEW old, Derived(old, before), NEW new, Derived(new, after), PathAllowed(old, p, FALSE)
      PROVE  PathAllowed(new, p, FALSE) \/ LostAtTop(p, before, after)
  <2> DEFINE paths == LearnedFrom(after)
             less  == LearnedFrom(before)
  <2>1. p \in Path
    BY ActsAssumption DEF Opens, Act
  <2>2. paths \subseteq Path /\ less \subseteq paths
    BY <1>1, ActsAssumption DEF LearnedFrom, Derived, Act
  <2>3. IsFiniteSet(paths)
    <3> DEFINE acts   == {a \in after : Opened(a) /\ ~LooksSensitive(a.target)}
               target == [a \in acts |-> a.target]
    <3>1. IsFiniteSet(acts)
      BY <1>1, FS_Subset DEF Derived
    <3>2. paths = {target[a] : a \in DOMAIN target}
      BY DEF LearnedFrom
    <3> HIDE DEF acts
    <3>3. IsFiniteSet(DOMAIN target)
      BY <3>1
    <3> HIDE DEF target, paths
    <3>4. IsFiniteSet({target[a] : a \in DOMAIN target})
      BY <3>3, ImageIsFinite
    <3> QED
      BY <3>2, <3>4
  <2>4. PICK g \in GeneralizePaths(less) : Matches(g, p)
    BY <1>1 DEF PathAllowed, Derived
  <2>5. PICK q \in less : g \in GroupGlobs(Group(less, Cluster(q)))
    BY DEF GeneralizePaths
  <2>6. Group(less, Cluster(q)) # {}
    BY DEF Group
  <2> HIDE DEF paths, less
  <2>7. \/ \E h \in GroupGlobs(Group(paths, Cluster(q))) : Matches(h, p)
        \/ Lost(p, less, paths)
    BY <2>1, <2>2, <2>3, <2>4, <2>5, <2>6, GroupGrows
  <2>8. CASE \E h \in GroupGlobs(Group(paths, Cluster(q))) : Matches(h, p)
    <3>1. \E h \in GeneralizePaths(paths) : Matches(h, p)
      BY <2>2, <2>8 DEF GeneralizePaths
    <3> QED
      BY <1>1, <3>1 DEF PathAllowed, Derived, paths
  <2>9. CASE Lost(p, less, paths)
    BY <2>9 DEF Lost, LostAtTop, less, paths
  <2> QED
    BY <2>7, <2>8, <2>9
<1>2. ASSUME Recorded, Recorded', Typed, Next, files'[1] # files[1],
             files[1].lesson # {}, files'[1].lesson # {}, NEW p \in Opens,
             PathAllowed(files[1].policy, p, FALSE)
      PROVE  \/ PathAllowed(files'[1].policy, p, FALSE)
             \/ LostAtTop(p, files[1].lesson, files'[1].lesson)
  <2>1. 1 \in 1..Depth
    BY DepthAssumption
  <2>2. files'[1].lesson = done
    <3>1. CASE GeneratePolicy
      <4>1. DOMAIN files = 1..Depth
        BY <1>2 DEF Recorded
      <4>2. files'[1] = File("regular", TRUE, TRUE, Generate(log), done)
        BY <2>1, <3>1, <4>1 DEF GeneratePolicy
      <4> QED
        BY <4>2 DEF File
    <3>2. CASE \E d \in 1..Depth, file \in Replacements : Replace(d, file)
      BY <1>2, <2>1, <3>2, ReplacementsAssumption DEF Replace, Recorded
    <3> QED
      BY <1>2, <3>1, <3>2
      DEF Next, StartSearch, StartExplicit, Probe, Validate, Load, Attach, Perform, EndSession, disk
  <2>3. files[1].lesson \subseteq files'[1].lesson
    BY <1>2, <2>1, <2>2 DEF Typed
  <2>4. Derived(files[1].policy, files[1].lesson) /\ Derived(files'[1].policy, files'[1].lesson)
    BY <1>2, <2>1 DEF Recorded
  <2> QED
    BY <1>1, <1>2, <2>3, <2>4
<1>3. Recorded /\ Recorded' /\ Typed /\ [Next]_vars =>
        [files'[1] # files[1] /\ files[1].lesson # {} /\ files'[1].lesson # {} =>
           \A p \in Opens :
             PathAllowed(files[1].policy, p, FALSE) =>
               \/ PathAllowed(files'[1].policy, p, FALSE)
               \/ LostAtTop(p, files[1].lesson, files'[1].lesson)]_vars
  BY <1>2
<1> QED
  BY <1>3, RecordedHolds, TypedHolds, PTL DEF SafetySpec, RelearningTakesNothingBack
================================================================================
