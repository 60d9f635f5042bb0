------------------------------- MODULE PathRules -------------------------------
(***************************************************************************)
(* Which paths a rule of the policy stands for, in the two readings the    *)
(* code has: a glob turned into a regular expression (policy/matcher.rs),  *)
(* and a glob turned into a prefix (policy_sync_compiler.rs) that          *)
(* lsm_file_open compares byte by byte (syscallcage-ebpf).                 *)
(*                                                                         *)
(* A path is the sequence of its components, Root first when it is         *)
(* absolute. Of a component's letters the constants tell what rules ask:   *)
(* which names begin with which, and which are those of credentials.       *)
(* Case, escapes and repeated or final slashes of paths are left out.      *)
(***************************************************************************)
EXTENDS Naturals, Sequences, FiniteSets

CONSTANTS
  Names,              \* components of paths
  Root,               \* the first component of an absolute path
  Begins,             \* <<m, n>>: name n begins with name m and is longer
  DotEnv, DotSsh, IdRsa, \* ".env", ".ssh" and "id_rsa"
  PemNames,           \* names that end in ".pem"
  CredentialLike,     \* names that contain ".env", ".ssh" or "id_rsa"
  PrefixLength,       \* components that fit into 127 bytes
  PathLength          \* components that fit into 256 bytes

ASSUME NamesAssumption ==
  /\ {Root, DotEnv, DotSsh, IdRsa} \union PemNames \union CredentialLike \subseteq Names
  /\ Begins \subseteq Names \X Names
  /\ Cardinality({Root, DotEnv, DotSsh, IdRsa}) = 4
  /\ Root \notin PemNames \union CredentialLike
  /\ {DotEnv, DotSsh, IdRsa} \subseteq CredentialLike
  /\ \A b \in Begins : b[1] # Root /\ b[2] # Root /\ (b[1] \in CredentialLike => b[2] \in CredentialLike)
ASSUME PrefixLengthAssumption == PrefixLength \in Nat \ {0}
ASSUME PathLengthAssumption == PathLength \in Nat /\ PathLength >= PrefixLength

Path == Seq(Names) \ {<<>>}

IsAbsolute(p) == p[1] = Root
HasSlash(p)   == IsAbsolute(p) \/ Len(p) > 1
LastOf(p)     == p[Len(p)]

\* p has the text of dir followed by a slash; the slash of the root is its own.
Inside(dir, p) ==
  /\ Len(dir) <= Len(p) /\ SubSeq(p, 1, Len(dir)) = dir
  /\ dir = <<Root>> \/ Len(dir) < Len(p)

\* p begins with the text of dir, which may end within a component of p.
TextPrefix(dir, p) ==
  \/ Inside(dir, p)
  \/ /\ Len(dir) <= Len(p)
     /\ SubSeq(p, 1, Len(dir) - 1) = SubSeq(dir, 1, Len(dir) - 1)
     /\ LastOf(dir) = p[Len(dir)] \/ <<LastOf(dir), p[Len(dir)]>> \in Begins

--------------------------------------------------------------------------------
(* Globs.                                                                  *)

Forms == {"tree", "children", "literal", "dirSlash", "stem", "treeSlash", "doubleSlash",
          "anything", "anyFile", "named", "below", "stemmed", "pem"}

Globs == [form : Forms, dir : Seq(Names)]

Glob(form, dir) == [form |-> form, dir |-> dir]

Tree(dir)      == Glob("tree", dir)       \* dir/**
Children(dir)  == Glob("children", dir)   \* dir/*
Literal(p)     == Glob("literal", p)      \* dir
DirSlash(dir)  == Glob("dirSlash", dir)   \* dir/
Stem(dir)      == Glob("stem", dir)       \* dir**
TreeSlash(dir) == Glob("treeSlash", dir)  \* dir/**/
DoubleSlash    == Glob("doubleSlash", <<Root>>) \* //**
Anything       == Glob("anything", <<>>)  \* **
AnyFile        == Glob("anyFile", <<>>)   \* **/*
Named(n)       == Glob("named", <<n>>)    \* **/n
Below(n)       == Glob("below", <<n>>)    \* **/n/**
Stemmed(n)     == Glob("stemmed", <<n>>)  \* **/n*
PemFile        == Glob("pem", <<>>)       \* **/*.pem

\* glob_to_regex(): ** crosses slashes, * does not, and the whole path must
\* match. No path of the model ends in a slash or has two in a row, so that
\* dir/, dir/**/ and //** match none.
Matches(g, p) ==
  \/ g.form = "anything"
  \/ g.form = "anyFile" /\ HasSlash(p)
  \/ g.form = "tree" /\ Inside(g.dir, p)
  \/ g.form = "children" /\ Inside(g.dir, p) /\ Len(p) <= Len(g.dir) + 1
  \/ g.form = "literal" /\ p = g.dir
  \/ g.form = "stem" /\ TextPrefix(g.dir, p)
  \/ g.form = "named" /\ Len(p) > 1 /\ LastOf(p) = g.dir[1]
  \/ g.form = "below" /\ \E i \in 2..(Len(p) - 1) : p[i] = g.dir[1]
  \/ g.form = "stemmed" /\ Len(p) > 1 /\ TextPrefix(g.dir, <<LastOf(p)>>)
  \/ g.form = "pem" /\ Len(p) > 1 /\ LastOf(p) \in PemNames

\* Mutant of PathAllowed: deny_always is not asked.
PathAllowedAnyway(policy, p, forWrite) ==
  \E g \in (IF forWrite THEN policy.allow_write ELSE policy.allow_read) : Matches(g, p)

\* Policy::path_allowed(): what is denied is denied, what is not allowed too.
PathAllowed(policy, p, forWrite) ==
  /\ \A g \in policy.deny_always : ~Matches(g, p)
  /\ \E g \in (IF forWrite THEN policy.allow_write ELSE policy.allow_read) : Matches(g, p)

--------------------------------------------------------------------------------
(* Prefixes.                                                               *)

Prefix(dir, slash) == [dir |-> dir, slash |-> slash]

\* string_to_bytes_128(): 127 bytes at most. The cut is taken to fall between
\* components, the slash at the end being the first to go.
Fits(prefix) == Len(prefix.dir) + (IF prefix.slash THEN 1 ELSE 0) <= PrefixLength

StringToBytes(prefix) ==
  IF Fits(prefix) THEN prefix
  ELSE Prefix(IF Len(prefix.dir) > PrefixLength THEN SubSeq(prefix.dir, 1, PrefixLength)
                                               ELSE prefix.dir, FALSE)

\* The globs extract_prefix() returns Ok for: absolute, with a wildcard only at
\* the end, or one of the two that stand for everything.
HasPrefix(g) ==
  \/ g.form \in {"anything", "anyFile", "doubleSlash"}
  \/ /\ g.form \in {"tree", "children", "literal", "dirSlash", "stem", "treeSlash"}
     /\ g.dir # <<>> /\ IsAbsolute(g.dir)

\* Mutant of ExtractPrefix: the slash at the end is forgotten.
ExtractPrefixBare(g) ==
  IF g.form \in {"anything", "anyFile"} THEN Prefix(<<Root>>, TRUE) ELSE Prefix(g.dir, FALSE)

ExtractPrefix(g) ==
  IF g.form \in {"anything", "anyFile"} THEN Prefix(<<Root>>, TRUE)
  ELSE IF g.form = "treeSlash" /\ g.dir = <<Root>> THEN Prefix(<<>>, FALSE)
  ELSE Prefix(g.dir, g.form \in {"tree", "children", "dirSlash", "stem", "doubleSlash"})

\* starts_with() of the LSM programs.
StartsWith(p, prefix) ==
  IF prefix.slash THEN Inside(prefix.dir, p) ELSE TextPrefix(prefix.dir, p)

\* The prefix of /**/ is empty, and an empty one is passed over.
InPrefix(g, p) ==
  LET prefix == StringToBytes(ExtractPrefix(g)) IN
  prefix.dir # <<>> /\ StartsWith(p, prefix)

\* is_static_security_rule()
IsStaticRule(g) ==
  g \in {Named(DotEnv), Literal(<<DotEnv>>), Below(DotSsh), Stemmed(IdRsa), PemFile}

\* is_sensitive_path() of syscallcage-ebpf: whole components, anywhere.
IsSensitive(p) ==
  \/ \E i \in DOMAIN p : p[i] \in {DotEnv, DotSsh, IdRsa}
  \/ LastOf(p) \in PemNames

\* Mutant of LsmForbids: writes are looked up among the prefixes for reads.
LsmForbidsAsRead(policy, p, forWrite) ==
  \/ IsSensitive(p)
  \/ \E g \in policy.deny_always : ~IsStaticRule(g) /\ InPrefix(g, p)
  \/ \A g \in policy.allow_read : ~InPrefix(g, p)

\* What lsm_file_open finds against an open, in any mode, for the prefixes of a
\* compiled policy.
LsmForbids(policy, p, forWrite) ==
  \/ IsSensitive(p)
  \/ \E g \in policy.deny_always : ~IsStaticRule(g) /\ InPrefix(g, p)
  \/ \A g \in (IF forWrite THEN policy.allow_write ELSE policy.allow_read) : ~InPrefix(g, p)

\* bpf_d_path() can write the path of the file into the buffer of the LSM programs.
PathFits(p) == Len(p) <= PathLength

\* The probes of reactive mode read as many bytes of the name, and no more.
Truncated(p) == IF PathFits(p) THEN p ELSE SubSeq(p, 1, PathLength)

\* Where bpf_d_path() fails, the file is refused, whatever the mode and the policy are.
LsmRefuses(policy, p, forWrite) ==
  ~PathFits(p) \/ (policy.mode = "enforce" /\ LsmForbids(policy, p, forWrite))

LsmReports(policy, p, forWrite) ==
  PathFits(p) /\ policy.mode # "enforce" /\ LsmForbids(policy, p, forWrite)

--------------------------------------------------------------------------------
(* Programs: a rule is [call, program, kill], its program <<>> when the    *)
(* pattern is the call's bare name.                                        *)

FirstWith(rules, Test(_)) ==
  {i \in DOMAIN rules : Test(rules[i]) /\ \A j \in 1..(i - 1) : ~Test(rules[j])}

\* Policy::syscall_denied() and should_kill_on_syscall_deny() for "execve:<program>".
RuleMatches(rule, program) == rule.call = "execve" /\ rule.program \in {program, <<>>}

SyscallDenied(policy, program) ==
  \E i \in DOMAIN policy.rules : RuleMatches(policy.rules[i], program)

ShouldKill(policy, program) ==
  \E i \in FirstWith(policy.rules, LAMBDA r : RuleMatches(r, program)) : policy.rules[i].kill

\* lsm_exec_check: the first rule whose program is a prefix of the path. Seven
\* bytes of its 127 are taken by "execve:".
RuleCovers(rule, program) ==
  TextPrefix(StringToBytes(Prefix(rule.program, FALSE)).dir, program)

LsmExecForbids(policy, program) ==
  \E i \in DOMAIN policy.rules : RuleCovers(policy.rules[i], program)

LsmExecRefuses(policy, program) ==
  ~PathFits(program) \/ (policy.mode = "enforce" /\ LsmExecForbids(policy, program))

LsmExecReports(policy, program) ==
  PathFits(program) /\ policy.mode # "enforce" /\ LsmExecForbids(policy, program)

\* The rule's kill comes after the path was written.
LsmExecKills(policy, program) ==
  /\ PathFits(program) /\ policy.mode = "enforce"
  /\ \E i \in FirstWith(policy.rules, LAMBDA r : RuleCovers(r, program)) : policy.rules[i].kill
================================================================================
