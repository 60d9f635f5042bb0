------------------------------- MODULE SyncProofs -------------------------------
(***************************************************************************)
(* The LSM programs, given the prefixes of a policy, and the policy itself *)
(* come to the same verdict, for every tree of paths, every length of the  *)
(* kernel's buffer and every policy that can be compiled.                  *)
(***************************************************************************)
EXTENDS PolicyFileProofs

\* What lies inside a directory lies inside what the buffer holds of its text.
LEMMA InsideStarts ==
  ASSUME NEW dir \in Seq(Names), NEW slash \in BOOLEAN, NEW p \in Path, Inside(dir, p)
  PROVE  StartsWith(p, StringToBytes(Prefix(dir, slash)))
<1> DEFINE prefix == Prefix(dir, slash)
<1>1. prefix.dir = dir /\ prefix.slash = slash
  BY DEF Prefix
<1>2. p \in Seq(Names) /\ PrefixLength \in Nat \ {0} /\ Len(dir) <= Len(p) /\ SubSeq(p, 1, Len(dir)) = dir
  BY PrefixLengthAssumption DEF Path, Inside
<1>3. CASE Fits(prefix)
  BY <1>1, <1>3 DEF StringToBytes, StartsWith, TextPrefix
<1>4. CASE ~Fits(prefix) /\ Len(dir) <= PrefixLength
  <2>1. ~(Len(dir) > PrefixLength)
    BY <1>2, <1>4
  <2>2. StringToBytes(prefix) = Prefix(dir, FALSE)
    BY <1>1, <1>4, <2>1, Zenon DEF StringToBytes
  <2>3. StringToBytes(prefix).dir = dir /\ StringToBytes(prefix).slash = FALSE
    BY <2>2 DEF Prefix
  <2> QED
    BY <2>3 DEF StartsWith, TextPrefix
<1>5. CASE ~Fits(prefix) /\ Len(dir) > PrefixLength
  <2> DEFINE cut == SubSeq(dir, 1, PrefixLength)
  <2>1. StringToBytes(prefix).dir = cut /\ StringToBytes(prefix).slash = FALSE
    BY <1>1, <1>5 DEF StringToBytes, Prefix
  <2>2. Len(cut) = PrefixLength /\ SubSeq(p, 1, PrefixLength) = cut
    BY <1>2, <1>5
  <2>3. Inside(cut, p)
    BY <1>2, <1>5, <2>2 DEF Inside
  <2> QED
    BY <2>1, <2>3 DEF StartsWith, TextPrefix
<1> QED
  BY <1>2, <1>3, <1>4, <1>5

\* A text begins with what the buffer holds of it.
LEMMA TextStarts ==
  ASSUME NEW p \in Path
  PROVE  TextPrefix(StringToBytes(Prefix(p, FALSE)).dir, p)
<1>1. p \in Seq(Names) /\ Len(p) \in Nat \ {0} /\ PrefixLength \in Nat \ {0}
  BY PrefixLengthAssumption DEF Path
<1>2. CASE Len(p) <= PrefixLength
  <2>1. StringToBytes(Prefix(p, FALSE)).dir = p
    BY <1>1, <1>2 DEF StringToBytes, Prefix, Fits
  <2>2. TextPrefix(p, p)
    BY <1>1 DEF TextPrefix, LastOf
  <2> QED
    BY <2>1, <2>2
<1>3. CASE Len(p) > PrefixLength
  <2> DEFINE cut == SubSeq(p, 1, PrefixLength)
  <2>1. StringToBytes(Prefix(p, FALSE)).dir = cut
    BY <1>1, <1>3 DEF StringToBytes, Prefix, Fits
  <2>2. Len(cut) = PrefixLength
    BY <1>1, <1>3
  <2>3. Inside(cut, p)
    BY <1>1, <1>3, <2>2 DEF Inside
  <2> QED
    BY <2>1, <2>3 DEF TextPrefix
<1>4. \A n \in Nat, m \in Nat : n <= m \/ n > m
  OBVIOUS
<1> QED
  BY <1>1, <1>2, <1>3, <1>4, Zenon

\* What is not empty is not empty in the buffer.
LEMMA NotEmptyInBuffer ==
  ASSUME NEW dir \in Seq(Names), dir # <<>>, NEW slash \in BOOLEAN
  PROVE  StringToBytes(Prefix(dir, slash)).dir # <<>>
<1>1. PrefixLength \in Nat \ {0} /\ Prefix(dir, slash).dir = dir
  BY PrefixLengthAssumption DEF Prefix
<1>2. CASE Len(dir) > PrefixLength
  <2>1. Len(SubSeq(dir, 1, PrefixLength)) = PrefixLength
    BY <1>1, <1>2
  <2>2. StringToBytes(Prefix(dir, slash)).dir \in {dir, SubSeq(dir, 1, PrefixLength)}
    BY <1>1 DEF StringToBytes, Prefix
  <2> QED
    BY <1>1, <2>1, <2>2
<1>3. CASE ~(Len(dir) > PrefixLength)
  BY <1>1, <1>3 DEF StringToBytes, Prefix
<1> QED
  BY <1>2, <1>3

\* The prefix of a glob takes what the glob takes, dir** excepted.
LEMMA PrefixCovers ==
  ASSUME NEW g, g.dir \in Seq(Names), HasPrefix(g), ~Narrowed(g), NEW p \in Path, IsAbsolute(p), Matches(g, p)
  PROVE  InPrefix(g, p)
<1>1. g.dir \in Seq(Names) /\ p \in Seq(Names) /\ Len(p) \in Nat \ {0}
  BY DEF Path
<1>2. CASE g.form \in {"anything", "anyFile"}
  <2>1. Inside(<<Root>>, p) /\ <<Root>> \in Seq(Names)
    <3>1. <<Root>> \in Seq(Names) /\ Len(<<Root>>) = 1
      BY NamesAssumption
    <3>2. SubSeq(p, 1, 1) \in Seq(Names) /\ Len(SubSeq(p, 1, 1)) = 1 /\ SubSeq(p, 1, 1)[1] = Root
      BY <1>1 DEF IsAbsolute
    <3>3. SubSeq(p, 1, 1) = <<Root>>
      <4>1. <<Root>>[1] = Root /\ Len(<<Root>>) = Len(SubSeq(p, 1, 1)) /\ \A i \in 1..1 : i = 1
        OBVIOUS
      <4> QED
        BY <3>1, <3>2, <4>1, SeqEqual, Zenon
    <3> QED
      BY <1>1, <3>1, <3>3 DEF Inside
  <2>2. ExtractPrefix(g) = Prefix(<<Root>>, TRUE)
    BY <1>2, Zenon DEF ExtractPrefix
  <2> QED
    BY <2>1, <2>2, InsideStarts, NotEmptyInBuffer DEF InPrefix
<1>3. CASE g.form \in {"tree", "children"}
  <2>1. Inside(g.dir, p)
    BY <1>3 DEF Matches
  <2>2. \E slash \in BOOLEAN : ExtractPrefix(g) = Prefix(g.dir, slash)
    BY <1>3 DEF ExtractPrefix
  <2> QED
    BY <1>1, <1>3, <2>1, <2>2, InsideStarts, NotEmptyInBuffer DEF InPrefix, HasPrefix
<1>4. CASE g.form = "literal"
  <2> DEFINE slash == g.form \in {"tree", "children", "dirSlash", "stem", "doubleSlash"}
  <2>1. g.dir = p /\ slash = FALSE
    BY <1>4 DEF Matches
  <2>2. ExtractPrefix(g) = Prefix(g.dir, slash)
    BY <1>4 DEF ExtractPrefix
  <2> HIDE DEF slash
  <2>3. ExtractPrefix(g) = Prefix(p, FALSE)
    BY <2>1, <2>2
  <2>4. StringToBytes(Prefix(p, FALSE)).slash = FALSE
    BY DEF StringToBytes, Prefix
  <2> QED
    BY <2>1, <2>3, <2>4, TextStarts, NotEmptyInBuffer DEF InPrefix, StartsWith, Path
<1>5. CASE g.form \in {"dirSlash", "treeSlash", "doubleSlash"}
  BY <1>5 DEF Matches
<1> QED
  BY <1>2, <1>3, <1>4, <1>5 DEF HasPrefix, Narrowed

\* And no more, if it is one that does not widen.
LEMMA PrefixIsCovered ==
  ASSUME NEW g, g.dir \in Seq(Names), HasPrefix(g), ~Widened(g), NEW p \in Path, IsAbsolute(p), InPrefix(g, p)
  PROVE  Matches(g, p)
<1>1. StartsWith(p, ExtractPrefix(g))
  BY DEF Widened, InPrefix, StringToBytes
<1>2. CASE g.form \in {"anything", "anyFile"}
  BY <1>2 DEF Matches, HasSlash
<1>3. CASE g.form \in {"tree", "stem"}
  BY <1>1, <1>3 DEF Matches, ExtractPrefix, Prefix, StartsWith, TextPrefix
<1> QED
  BY <1>2, <1>3 DEF HasPrefix, Widened

--------------------------------------------------------------------------------
(* What the LSM programs are given is a policy that can be compiled.       *)

Understood(p) == \A g \in GlobsOf(p) : g.dir \in Seq(Names)

Compiled ==
  /\ level \in 1..Depth /\ DOMAIN files = 1..Depth
  /\ \A entry \in log : entry.target \in Path
  /\ \A d \in 1..Depth : Understood(files[d].policy)
  /\ Understood(policy)
  /\ stage = "running" /\ enforcement = "Sync" => Compilable(policy)

LEMMA WrittenIsUnderstood ==
  ASSUME NEW p, Written(p)
  PROVE  Understood(p)
<1>1. <<>> \in Seq(Names) /\ \A n \in {Root, DotEnv, DotSsh, IdRsa} : <<n>> \in Seq(Names)
  BY NamesAssumption
<1>2. DoubleSlash.dir = <<Root>>
  BY DEF DoubleSlash, Glob
<1>3. \A g : Harmless(g) => g.dir \in Seq(Names)
  BY <1>1, <1>2 DEF Harmless, Path
<1>4. \A g \in MandatoryDenyAlways : g.dir \in Seq(Names)
  <2>1. Named(DotEnv).dir = <<DotEnv>> /\ Below(DotSsh).dir = <<DotSsh>>
    BY DEF Named, Below, Glob
  <2>2. Stemmed(IdRsa).dir = <<IdRsa>> /\ PemFile.dir = <<>>
    BY DEF Stemmed, PemFile, Glob
  <2> QED
    BY <1>1, <2>1, <2>2 DEF MandatoryDenyAlways
<1>5. p.deny_always = MandatoryDenyAlways
  BY DEF Written
<1> QED
  BY <1>3, <1>4, <1>5 DEF Written, Understood, GlobsOf

LEMMA CompiledStep ==
  ASSUME Compiled, Next
  PROVE  Compiled'
<1> USE DEF Compiled
<1>1. CASE Probe \/ Validate
  BY <1>1, DepthAssumption DEF Probe, Validate, disk, machine, options, loaded, record
<1>2. CASE Load
  <2>1. UNCHANGED <<level, files, log>> /\ stage' # "running"
    BY <1>2 DEF Load, disk, record
  <2>2. CASE policy' = policy
    BY <2>1, <2>2 DEF Understood
  <2>3. CASE policy' = [files[level].policy EXCEPT !.mode = IF dry_run THEN "monitor" ELSE @]
    <3>1. Understood(files[level].policy)
      OBVIOUS
    <3>2. Understood(policy')
      BY <2>3, <3>1 DEF Understood, GlobsOf
    <3> QED
      BY <2>1, <3>2
  <2> QED
    BY <1>2, <2>2, <2>3 DEF Load
<1>3. CASE Attach
  BY <1>3 DEF Attach, disk, options, record, Understood, Compilable
<1>4. Understood(EmptyPolicy)
  BY DEF Understood, GlobsOf, EmptyPolicy
<1>5. CASE EndSession
  <2>1. level' = 1 /\ policy' = EmptyPolicy /\ stage' = "idle" /\ UNCHANGED <<files, log>>
    BY <1>5 DEF EndSession, Ended, disk, record
  <2> QED
    BY <1>4, <2>1, DepthAssumption
<1>6. CASE GeneratePolicy
  <2>1. files' = [files EXCEPT ![1] = File("regular", TRUE, TRUE, Generate(log), done)]
    BY <1>6 DEF GeneratePolicy
  <2>2. UNCHANGED <<level, policy, log, stage>> /\ stage = "idle"
    BY <1>6 DEF GeneratePolicy, loaded, record
  <2>3. Understood(File("regular", TRUE, TRUE, Generate(log), done).policy)
    BY GenerateWrites, WrittenIsUnderstood DEF File
  <2> HIDE DEF Compiled
  <2>4. DOMAIN files' = 1..Depth /\ \A d \in 1..Depth : Understood(files'[d].policy)
    BY <2>1, <2>3 DEF Compiled
  <2> QED
    BY <2>2, <2>4 DEF Compiled
<1>7. ASSUME NEW dry \in BOOLEAN, StartSearch(dry) \/ \E d \in 1..Depth : StartExplicit(d, dry)
      PROVE  Compiled'
  BY <1>7, DepthAssumption DEF StartSearch, StartExplicit, disk, loaded, record
<1>8. ASSUME NEW d \in 1..Depth, NEW file \in Replacements, Replace(d, file)
      PROVE  Compiled'
  BY <1>8, GlobsAssumption DEF Replace, loaded, record, Understood, Globs
<1>9. ASSUME NEW act \in Acts, Perform(act)
      PROVE  Compiled'
  <2>1. act.target \in Path
    BY <1>9, ActsAssumption DEF Act
  <2>2. UNCHANGED files
    BY <1>9 DEF Perform, disk
  <2>3. \A entry \in log' : entry.target \in Path
    BY <1>9, <2>1 DEF Perform, record
  <2>4. CASE level' = 1 /\ policy' = EmptyPolicy /\ stage' = "idle"
    BY <1>4, <2>2, <2>3, <2>4, DepthAssumption
  <2>5. CASE UNCHANGED <<stage, level, policy, enforcement>>
    BY <2>2, <2>3, <2>5 DEF Understood, Compilable
  <2> QED
    BY <1>9, <2>4, <2>5 DEF Perform, Ended, loaded
<1> QED
  BY <1>1, <1>2, <1>3, <1>5, <1>6, <1>7, <1>8, <1>9, SeenIsAct DEF Next

LEMMA CompiledHolds == SafetySpec => []Compiled
<1>1. Init => Compiled
  <2> SUFFICES ASSUME Init
               PROVE  Compiled
    OBVIOUS
  <2>1. /\ DOMAIN files = 1..Depth
        /\ \A d \in 1..Depth : Understood(files[d].policy)
    BY LayoutAssumption, GlobsAssumption DEF Init, Understood, Globs
  <2>2. Understood(policy)
    BY DEF Init, Understood, GlobsOf, EmptyPolicy
  <2> QED
    BY <2>1, <2>2, DepthAssumption DEF Init, Compiled
<1>2. Compiled /\ UNCHANGED vars => Compiled'
  BY DEF vars, Compiled, Understood, Compilable
<1> QED
  BY <1>1, <1>2, CompiledStep, PTL DEF SafetySpec

--------------------------------------------------------------------------------
(* The two judges.                                                         *)

\* What is left to the LSM program is what it always refuses, but for names that
\* only begin with id_rsa.
LEMMA StaticIsSensitive ==
  ASSUME NEW g, IsStaticRule(g), NEW p \in Path, IsAbsolute(p), <<IdRsa, LastOf(p)>> \notin Begins,
         Matches(g, p)
  PROVE  IsSensitive(p)
<1>1. p \in Seq(Names) /\ Len(p) \in Nat \ {0} /\ LastOf(p) = p[Len(p)] /\ Len(p) \in DOMAIN p
  BY DEF Path, LastOf
<1>2. CASE g = Named(DotEnv)
  BY <1>1, <1>2 DEF Matches, Named, Glob, IsSensitive
<1>3. CASE g = Below(DotSsh)
  <2>1. PICK i \in 2..(Len(p) - 1) : p[i] = DotSsh
    BY <1>3 DEF Matches, Below, Glob
  <2>2. i \in DOMAIN p
    BY <1>1, <2>1
  <2> QED
    BY <2>1, <2>2 DEF IsSensitive
<1>4. CASE g = Literal(<<DotEnv>>)
  <2>1. p = <<DotEnv>>
    BY <1>4 DEF Matches, Literal, Glob
  <2>2. 1 \in DOMAIN p /\ p[1] = DotEnv
    BY <2>1
  <2> QED
    BY <2>2 DEF IsSensitive
<1>5. CASE g = Stemmed(IdRsa)
  <2>1. TextPrefix(<<IdRsa>>, <<LastOf(p)>>)
    BY <1>5 DEF Matches, Stemmed, Glob
  <2>2. LastOf(p) = IdRsa
    <3> DEFINE name == LastOf(p)
    <3> HIDE DEF name
    <3>1. TextPrefix(<<IdRsa>>, <<name>>) /\ <<IdRsa, name>> \notin Begins
      BY <2>1 DEF name
    <3>2. name = IdRsa
      BY <3>1, NamesAssumption DEF TextPrefix, Inside, LastOf
    <3> QED
      BY <3>2 DEF name
  <2> QED
    BY <1>1, <2>2 DEF IsSensitive
<1>6. CASE g = PemFile
  BY <1>6 DEF Matches, PemFile, Glob, IsSensitive
<1> QED
  BY <1>2, <1>3, <1>4, <1>5, <1>6 DEF IsStaticRule

\* An open that the policy does not allow is refused in the kernel, or reported in
\* monitor mode, if no allowed
\* prefix is wider than its glob: a deny never loses anything by being compiled.
THEOREM SyncRefusesHolds == SafetySpec => []SyncRefusesWhatPolicyDenies
<1>1. ASSUME Compilable(policy), Understood(policy), NEW p \in Opens, NEW forWrite \in BOOLEAN,
             IsAbsolute(p), ~PathAllowed(policy, p, forWrite),
             \A g \in AllowList(forWrite) : ~Widened(g),
             \A g \in policy.deny_always : ~Narrowed(g),
             <<IdRsa, LastOf(p)>> \notin Begins
      PROVE  LsmForbids(policy, p, forWrite)
  <2>1. p \in Path
    BY ActsAssumption DEF Opens, Act
  <2>2. CASE \E g \in policy.deny_always : Matches(g, p)
    <3>1. PICK g \in policy.deny_always : Matches(g, p)
      BY <2>2
    <3>2. CASE IsStaticRule(g)
      BY <1>1, <2>1, <3>1, <3>2, StaticIsSensitive DEF LsmForbids
    <3>3. CASE ~IsStaticRule(g)
      <4>1. HasPrefix(g) /\ g.dir \in Seq(Names) /\ ~Narrowed(g)
        BY <1>1, <3>3 DEF Compilable, Understood, GlobsOf
      <4>2. InPrefix(g, p)
        BY <1>1, <2>1, <3>1, <4>1, PrefixCovers
      <4> QED
        BY <3>3, <4>2 DEF LsmForbids
    <3> QED
      BY <3>2, <3>3
  <2>3. CASE \A g \in AllowList(forWrite) : ~Matches(g, p)
    <3>1. ASSUME NEW g \in AllowList(forWrite)
          PROVE  ~InPrefix(g, p)
      <4>1. HasPrefix(g) /\ g.dir \in Seq(Names) /\ ~Widened(g) /\ ~Matches(g, p)
        BY <1>1, <2>3, <3>1 DEF Compilable, Understood, GlobsOf, AllowList
      <4> QED
        BY <1>1, <2>1, <4>1, PrefixIsCovered
    <3> QED
      BY <3>1 DEF LsmForbids, AllowList
  <2> QED
    BY <1>1, <2>2, <2>3 DEF PathAllowed, AllowList
<1>2. ASSUME Compilable(policy), NEW act \in Acts, SyscallDenied(policy, act.target)
      PROVE  LsmExecForbids(policy, act.target)
  <2>1. PICK i \in DOMAIN policy.rules : RuleMatches(policy.rules[i], act.target)
    BY <1>2 DEF SyscallDenied
  <2>2. policy.rules[i].program = act.target /\ act.target \in Path
    BY <1>2, <2>1, ActsAssumption DEF Compilable, RuleMatches, Act
  <2> QED
    BY <2>2, TextStarts DEF LsmExecForbids, RuleCovers
<1>3. \A p, forWrite : LsmForbids(policy, p, forWrite) =>
        LsmRefuses(policy, p, forWrite) \/ (~Enforces /\ LsmReports(policy, p, forWrite))
  BY DEF LsmRefuses, LsmReports, Enforces
<1>4. \A program : LsmExecForbids(policy, program) =>
        LsmExecRefuses(policy, program) \/ (~Enforces /\ LsmExecReports(policy, program))
  BY DEF LsmExecRefuses, LsmExecReports, Enforces
<1>5. Compiled => SyncRefusesWhatPolicyDenies
  BY <1>1, <1>2, <1>3, <1>4 DEF Compiled, SyncRefusesWhatPolicyDenies
<1> QED
  BY <1>5, CompiledHolds, PTL

\* And an open that the policy allows is refused only as one of the names that
\* are always secret, or for a path that cannot be written, if no denied prefix is
\* wider than its glob.
THEOREM SyncPermitsHolds == SafetySpec => []SyncPermitsWhatPolicyAllows
<1>1. ASSUME Compilable(policy), Understood(policy), NEW p \in Opens, NEW forWrite \in BOOLEAN,
             IsAbsolute(p), PathAllowed(policy, p, forWrite), ~IsSensitive(p),
             \A g \in policy.deny_always : IsStaticRule(g) \/ ~Widened(g),
             \A g \in AllowList(forWrite) : ~Narrowed(g)
      PROVE  ~LsmForbids(policy, p, forWrite)
  <2>1. p \in Path
    BY ActsAssumption DEF Opens, Act
  <2>2. ASSUME NEW g \in policy.deny_always, ~IsStaticRule(g)
        PROVE  ~InPrefix(g, p)
    <3>1. HasPrefix(g) /\ g.dir \in Seq(Names) /\ ~Widened(g) /\ ~Matches(g, p)
      BY <1>1, <2>2 DEF Compilable, Understood, GlobsOf, PathAllowed
    <3> QED
      BY <1>1, <2>1, <3>1, PrefixIsCovered
  <2>3. PICK g \in AllowList(forWrite) : Matches(g, p)
    BY <1>1 DEF PathAllowed, AllowList
  <2>4. HasPrefix(g) /\ g.dir \in Seq(Names) /\ ~Narrowed(g)
    BY <1>1, <2>3 DEF Compilable, Understood, GlobsOf, AllowList
  <2>5. InPrefix(g, p)
    BY <1>1, <2>1, <2>3, <2>4, PrefixCovers
  <2> QED
    BY <1>1, <2>2, <2>3, <2>5 DEF LsmForbids, AllowList
<1>2. Compiled => SyncPermitsWhatPolicyAllows
  BY <1>1 DEF Compiled, SyncPermitsWhatPolicyAllows, LsmReports, LsmRefuses
<1> QED
  BY <1>2, CompiledHolds, PTL
================================================================================
