---------------------------- MODULE PolicyGenerator ----------------------------
(***************************************************************************)
(* generate-policy (policy_generator.rs): a policy from what a log says    *)
(* the agent did. A log is the set of pairs [type, target] its lines have; *)
(* lines without them, or that are not JSON, add nothing.                  *)
(***************************************************************************)
EXTENDS PathRules, SequencesExt

CONSTANTS
  MandatoryPrograms   \* MANDATORY_DENY_SYSCALLS: the programs of "execve:/bin/sh", ...

ASSUME MandatoryAssumption == MandatoryPrograms \subseteq Path /\ IsFiniteSet(MandatoryPrograms)

\* MANDATORY_DENY_ALWAYS
MandatoryDenyAlways == {Named(DotEnv), Below(DotSsh), Stemmed(IdRsa), PemFile}

\* is_sensitive_path() of the generator: the text contains what credentials are
\* called. It is wider than MANDATORY_DENY_ALWAYS and than the kernel's.
LooksSensitive(p) == (\E i \in DOMAIN p : p[i] \in CredentialLike) \/ LastOf(p) \in PemNames

Parent(p) == SubSeq(p, 1, Len(p) - 1)

\* cluster_key: two components, and a third one if more follow.
Cluster(p) == SubSeq(p, 1, IF Len(p) > 3 THEN 3 ELSE IF Len(p) > 2 THEN 2 ELSE Len(p))

\* Mutant of ParentTree: one component too many is dropped.
GrandparentTree(p) ==
  Tree(IF Len(p) <= 3 THEN <<Root>> ELSE Parent(Parent(p)))

\* parent/** for a path on its own; at the root, and for a relative path of one
\* component, whose parent is the empty text, that is /**.
ParentTree(p) == Tree(IF Parent(p) \in {<<>>, <<Root>>} THEN <<Root>> ELSE Parent(p))

\* Mutant of GroupGlobs: an ancestor that was itself observed is kept.
GroupGlobsKeeping(group) ==
  LET common == LongestCommonPrefix(group) IN
  IF Cardinality(group) = 1 THEN {ParentTree(p) : p \in group}
  ELSE IF common \in {<<>>, <<Root>>} THEN {ParentTree(p) : p \in group \ {<<Root>>}}
  ELSE {Tree(common)}

\* The globs of one cluster. When the common ancestor is one of the paths its
\* parent is taken, and a parent that is the root makes //**.
GroupGlobs(group) ==
  LET common == LongestCommonPrefix(group) IN
  IF Cardinality(group) = 1 THEN {ParentTree(p) : p \in group}
  ELSE IF common \in {<<>>, <<Root>>} THEN {ParentTree(p) : p \in group \ {<<Root>>}}
  ELSE IF common \notin group THEN {Tree(common)}
  ELSE IF Parent(common) = <<Root>> THEN {DoubleSlash}
  ELSE {Tree(Parent(common))}

Group(paths, key) == {p \in paths : Cluster(p) = key}

\* generalize_paths()
GeneralizePaths(paths) == UNION {GroupGlobs(Group(paths, key)) : key \in {Cluster(p) : p \in paths}}

Targets(log, type) == {entry.target : entry \in {e \in log : e.type = type}}

ObservedPaths(log, type) == {p \in Targets(log, type) : ~LooksSensitive(p)}

\* A program whose "execve:" text contains a mandatory one, or is part of it.
Resembles(program, m) == TextPrefix(m, program) \/ TextPrefix(program, m)

DenyRule(program) == [call |-> "execve", program |-> program, kill |-> FALSE]

\* run_generator(), up to what the file says. The order of the rules has no
\* effect, none having kill_on_deny.
Generate(log) ==
  LET risky == {p \in Targets(log, "syscall") : \E m \in MandatoryPrograms : Resembles(p, m)} IN
  [mode          |-> "enforce",
   allow_read    |-> GeneralizePaths(ObservedPaths(log, "read")),
   allow_write   |-> GeneralizePaths(ObservedPaths(log, "write")),
   deny_always   |-> MandatoryDenyAlways,
   allow_domains |-> Targets(log, "network"),
   deny_all_else |-> TRUE,
   rules         |-> SetToSeq({DenyRule(p) : p \in MandatoryPrograms \union risky}
                              \union {[call |-> "ptrace", program |-> <<>>, kill |-> FALSE]})]
================================================================================
