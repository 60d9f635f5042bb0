------------------------------- MODULE PolicyFile -------------------------------
(***************************************************************************)
(* The life of a policy: found by climbing from the current directory or   *)
(* named by --policy (main.rs, policy/discovery.rs), loaded                *)
(* (policy/mod.rs), compiled for the LSM programs or not                   *)
(* (policy_sync_compiler.rs), applied to what an agent does, and written   *)
(* by generate-policy from the log of such a session                       *)
(* (policy_generator.rs).                                                  *)
(*                                                                         *)
(* An act is judged at once here; delays and queues are module Pipeline's. *)
(***************************************************************************)
EXTENDS PolicyGenerator

CONSTANTS
  Depth,        \* directories from the current one, 1, to the root of the file system
  Layouts,      \* what the disk may hold at first, see Layout
  Replacements, \* files that may take the place of another meanwhile
  Acts,         \* what the agent may do, see Act
  MaxRules,     \* rules a kernel map holds (16 in the code)
  MaxActs       \* bound: different acts in a log

Act == [kind : {"read", "write", "exec"}, target : Path]
       \union [kind : {"network"}, target : Path, resolved : BOOLEAN]

\* A symbolic link has the text of what it points to; one that points nowhere is
\* dangling; other is a directory or a special file.
Kinds == {"none", "regular", "link", "dangling", "other"}

EmptyPolicy ==
  [mode |-> "monitor", allow_read |-> {}, allow_write |-> {}, deny_always |-> {},
   allow_domains |-> {}, deny_all_else |-> FALSE, rules |-> <<>>]

\* `trusted` stands for: not o+w, and owned by the user, by root or by SUDO_UID.
\* `lesson` is history: the acts a generated policy was derived from.
File(kind, trusted, wellFormed, policy, lesson) ==
  [kind |-> kind, trusted |-> trusted, wellFormed |-> wellFormed, policy |-> policy,
   lesson |-> lesson]

NoFile == File("none", FALSE, FALSE, EmptyPolicy, {})

ASSUME DepthAssumption == Depth \in Nat \ {0}
ASSUME BoundsAssumption == MaxRules \in Nat /\ MaxActs \in Nat
ASSUME ActsAssumption ==
  /\ Acts \subseteq Act
  /\ \A act \in Acts : act.kind # "network" => [act EXCEPT !.target = Truncated(@)] \in Acts
ASSUME ReplacementsAssumption == \A file \in Replacements : file.kind \in Kinds /\ file.lesson = {}
GlobsOf(p) == p.allow_read \union p.allow_write \union p.deny_always

ASSUME GlobsAssumption ==
  /\ \A layout \in Layouts, d \in 1..Depth : GlobsOf(layout.files[d].policy) \subseteq Globs
  /\ \A file \in Replacements : GlobsOf(file.policy) \subseteq Globs
ASSUME LayoutAssumption ==
  \A layout \in Layouts :
    /\ DOMAIN layout.files = 1..Depth /\ layout.repositories \subseteq 1..Depth
    /\ \A d \in 1..Depth : layout.files[d].kind \in Kinds /\ layout.files[d].lesson = {}

VARIABLES
  lsm,            \* TRUE: the kernel has BPF LSM; fixed by Init
  files,          \* .syscallcage.yaml of each directory
  repositories,   \* directories with .git; fixed by Init
  replaced,       \* directories whose file was replaced during a start (history)
  stage,          \* where main() is
  dry_run,        \* --dry-run of this start
  explicit,       \* TRUE: --policy was given
  level,          \* the directory the search is at, or where the policy is from
  policy,         \* the loaded one
  lesson,         \* what it was derived from (history)
  enforcement,    \* "Sync" or "Reactive", as Monitor::new found possible
  log,            \* --log-file, as a set of [type, target]
  done            \* acts that reached a log, see Perform (history)

vars == <<lsm, files, repositories, replaced, stage, dry_run, explicit, level, policy, lesson,
          enforcement, log, done>>

machine == <<lsm, repositories>>
disk    == <<machine, files, replaced>>
options == <<dry_run, explicit>>
loaded  == <<policy, lesson, enforcement>>
record  == <<log, done>>

Init ==
  /\ lsm \in BOOLEAN
  /\ \E layout \in Layouts : files = layout.files /\ repositories = layout.repositories
  /\ replaced = {}
  /\ stage = "idle" /\ level = 1
  /\ dry_run = FALSE /\ explicit = FALSE
  /\ policy = EmptyPolicy /\ lesson = {} /\ enforcement = "Reactive"
  /\ log = {} /\ done = {}

--------------------------------------------------------------------------------
(* Starting: main(), resolve_policy(), discover_policy().                  *)

StartExplicit(d, dry) ==
  /\ stage = "idle"
  /\ stage' = "load"
  /\ explicit' = TRUE /\ level' = d /\ dry_run' = dry
  /\ UNCHANGED <<disk, loaded, record>>

StartSearch(dry) ==
  /\ stage = "idle"
  /\ stage' = "search"
  /\ explicit' = FALSE /\ level' = 1 /\ dry_run' = dry
  /\ UNCHANGED <<disk, loaded, record>>

\* exists() follows links.
Exists(file) == file.kind \notin {"none", "dangling"}

\* Mutant of Probe: the search goes on above a repository.
ProbeBeyond ==
  /\ stage = "search"
  /\ IF Exists(files[level]) THEN stage' = "validate" /\ UNCHANGED level
     ELSE IF level = Depth THEN stage' = "failed" /\ UNCHANGED level
     ELSE level' = level + 1 /\ UNCHANGED stage
  /\ UNCHANGED <<disk, options, loaded, record>>

\* One turn of the loop. No policy and no --policy end the program.
Probe ==
  /\ stage = "search"
  /\ IF Exists(files[level]) THEN stage' = "validate" /\ UNCHANGED level
     ELSE IF level \in repositories \/ level = Depth
     THEN stage' = "failed" /\ UNCHANGED level
     ELSE level' = level + 1 /\ UNCHANGED stage
  /\ UNCHANGED <<disk, options, loaded, record>>

\* validate_discovered_policy(). A refusal ends the program.
Validate ==
  /\ stage = "validate"
  /\ stage' = IF files[level].kind = "regular" /\ files[level].trusted THEN "load" ELSE "failed"
  /\ UNCHANGED <<disk, options, level, loaded, record>>

\* Mutant of Acceptable: any mode is taken.
AcceptableAnyMode(file) ==
  /\ file.kind \in {"regular", "link"} /\ file.wellFormed
  /\ file.policy.allow_read \union file.policy.allow_write # {}

\* What Policy::load() accepts: a mode it knows and something that is allowed.
Acceptable(file) ==
  /\ file.kind \in {"regular", "link"} /\ file.wellFormed
  /\ file.policy.mode \in {"enforce", "monitor"}
  /\ file.policy.allow_read \union file.policy.allow_write # {}

\* Policy::load() reads the file anew; then force_dry_run().
Load ==
  /\ stage = "load"
  /\ IF Acceptable(files[level])
     THEN /\ stage' = "attach"
          /\ policy' = [files[level].policy EXCEPT !.mode = IF dry_run THEN "monitor" ELSE @]
          /\ lesson' = files[level].lesson
     ELSE stage' = "failed" /\ UNCHANGED <<policy, lesson>>
  /\ UNCHANGED <<disk, options, level, enforcement, record>>

\* try_compile_for_sync()
Compilable(p) ==
  LET denies == {g \in p.deny_always : ~IsStaticRule(g)} IN
  /\ \A g \in p.allow_read \union p.allow_write \union denies : HasPrefix(g)
  /\ \A i \in DOMAIN p.rules : p.rules[i].call = "execve" /\ p.rules[i].program # <<>>
  /\ Cardinality(p.allow_read) <= MaxRules /\ Cardinality(p.allow_write) <= MaxRules
  /\ Cardinality(denies) <= MaxRules /\ Len(p.rules) <= MaxRules

\* Monitor::new(): the LSM programs if the kernel has them and the policy can
\* be compiled, the probes of reactive mode otherwise.
Attach ==
  /\ stage = "attach"
  /\ stage' = "running"
  /\ enforcement' = IF lsm /\ Compilable(policy) THEN "Sync" ELSE "Reactive"
  /\ UNCHANGED <<disk, options, level, policy, lesson, record>>

\* Somebody replaces a file while the program starts, once.
Replace(d, file) ==
  /\ stage \in {"search", "validate", "load"} /\ replaced = {}
  /\ files[d] # file
  /\ files' = [files EXCEPT ![d] = file]
  /\ replaced' = {d}
  /\ UNCHANGED <<machine, stage, options, level, loaded, record>>

--------------------------------------------------------------------------------
(* A session.                                                              *)

Enforces == policy.mode = "enforce"

\* An act as user space comes to know it: handle_open and handle_execve may read
\* only the beginning of the name.
Seen(act) ==
  IF enforcement = "Reactive" /\ act.kind # "network" THEN [act EXCEPT !.target = Truncated(@)]
                                                      ELSE act

\* Enforcer::enforce() about the domain a connection or an answer is judged by.
NetworkAllowed(act) == act.resolved /\ (act.target \in policy.allow_domains \/ ~policy.deny_all_else)

\* The act ends in SIGKILL. Every open is judged as a read in reactive mode.
Kills(act) ==
  Enforces /\
    CASE act.kind = "network" -> ~NetworkAllowed(act)
      [] act.kind = "exec" -> IF enforcement = "Sync" THEN LsmExecKills(policy, act.target)
                              ELSE SyscallDenied(policy, act.target) /\ ShouldKill(policy, act.target)
      [] OTHER -> enforcement = "Reactive" /\ ~PathAllowed(policy, act.target, FALSE)

\* The acts whose event the loop hands to the enforcer, which logs each: all of
\* them in reactive mode. The LSM programs report in monitor mode what they would
\* have refused, and of that the loop skips WRITE events.
Reported(act) ==
  \/ enforcement = "Reactive" \/ act.kind = "network"
  \/ act.kind = "read" /\ LsmReports(policy, act.target, FALSE)
  \/ act.kind = "exec" /\ LsmExecReports(policy, act.target)

LogType(act) == CASE act.kind = "exec" -> "syscall" [] act.kind = "network" -> "network" [] OTHER -> "read"

\* The program has ended, and what it held in memory with it.
Ended ==
  /\ stage' = "idle" /\ level' = 1
  /\ dry_run' = FALSE /\ explicit' = FALSE
  /\ policy' = EmptyPolicy /\ lesson' = {} /\ enforcement' = "Reactive"

\* An act, as it is seen. The agent's end is the end of the session. The kernel
\* knows the absolute path of what is opened or executed.
Perform(act) ==
  /\ stage = "running"
  /\ Cardinality(done) < MaxActs \/ act \in done
  /\ enforcement = "Sync" /\ act.kind # "network" => IsAbsolute(act.target)
  /\ IF Reported(act)
     THEN /\ log' = log \union {[type |-> LogType(act), target |-> act.target]}
          /\ done' = done \union {act}
     ELSE UNCHANGED record
  /\ IF Kills(act) THEN Ended ELSE UNCHANGED <<stage, level, options, loaded>>
  /\ UNCHANGED disk

\* The agent ends, or the program is told to.
EndSession ==
  /\ stage = "running"
  /\ Ended
  /\ UNCHANGED <<disk, record>>

\* generate-policy --output .syscallcage.yaml, in the current directory.
GeneratePolicy ==
  /\ stage = "idle" /\ log # {}
  /\ files' = [files EXCEPT ![1] = File("regular", TRUE, TRUE, Generate(log), done)]
  /\ UNCHANGED <<machine, replaced, stage, options, level, loaded, record>>

Next ==
  \/ \E dry \in BOOLEAN : StartSearch(dry) \/ \E d \in 1..Depth : StartExplicit(d, dry)
  \/ Probe \/ Validate \/ Load \/ Attach
  \/ \E d \in 1..Depth, file \in Replacements : Replace(d, file)
  \/ \E act \in Acts : Perform(Seen(act))
  \/ EndSession \/ GeneratePolicy

SafetySpec == Init /\ [][Next]_vars

--------------------------------------------------------------------------------
(* Properties.                                                             *)

TypeOK ==
  /\ lsm \in BOOLEAN /\ replaced \subseteq 1..Depth /\ dry_run \in BOOLEAN /\ explicit \in BOOLEAN
  /\ stage \in {"idle", "search", "validate", "load", "attach", "running", "failed"}
  /\ level \in 1..Depth /\ repositories \subseteq 1..Depth
  /\ DOMAIN files = 1..Depth /\ \A d \in 1..Depth : files[d].kind \in Kinds
  /\ enforcement \in {"Sync", "Reactive"}
  /\ policy.mode \in {"enforce", "monitor"}
  /\ done \subseteq Acts /\ lesson \subseteq done /\ Cardinality(done) <= MaxActs
  /\ log = {[type |-> LogType(act), target |-> act.target] : act \in done}

\* A discovered policy is the nearest one, in the current repository if there is
\* one, and was found trustworthy: nothing that fails is passed over. Who replaces a
\* file while the program starts can change this for that file alone.
DiscoveredIsNearest ==
  stage \in {"load", "attach", "running"} /\ ~explicit =>
    /\ level \notin replaced => files[level].kind = "regular" /\ files[level].trusted
    /\ \A d \in 1..(level - 1) : d \notin repositories /\ (d \notin replaced => ~Exists(files[d]))

Opened(act) == act.kind \in {"read", "write"}

Opens == {act.target : act \in {a \in Acts : Opened(a)}}

\* What generate-policy sees in these acts and takes for harmless.
LearnedFrom(acts) == {act.target : act \in {a \in acts : Opened(a) /\ ~LooksSensitive(a.target)}}

Learned == LearnedFrom(lesson)

\* The two cases in which generalize_paths does not cover what it was given: a
\* relative path of one component, and what shares its cluster with an observed
\* directory of the root.
NotCovered(p) ==
  \/ Len(p) = 1 /\ ~IsAbsolute(p)
  \/ \E top \in Learned : /\ Len(top) = 2 /\ IsAbsolute(top) /\ Cluster(top) = Cluster(p)
                          /\ Group(Learned, Cluster(top)) # {top}

\* An agent that repeats, under the generated policy, what it was seen to do in the
\* session that was recorded is not killed for it: the generator's globs, the mandatory
\* denies, the rules for programs, the domains and the fallback to reactive mode
\* fit together. Except for credentials, addresses nothing resolved, and the two
\* cases of NotCovered.
ReplaySurvives ==
  stage = "running" =>
    \A act \in lesson : Kills(act) =>
      \/ Opened(act) /\ (LooksSensitive(act.target) \/ NotCovered(act.target))
      \/ act.kind = "network" /\ ~act.resolved

\* The directory of the root a path is in, or the first one of a relative path.
TopOf(p) == IF IsAbsolute(p) /\ Len(p) > 1 THEN SubSeq(p, 1, 2) ELSE <<p[1]>>

\* What a generated policy allows lies in a top directory in which something
\* harmless was read, unless a path right below the root, or a relative one of
\* one component, was read: these open everything. Nothing may be written.
GeneratedStaysClose ==
  stage = "running" /\ lesson # {} =>
    \A p \in Opens :
      /\ ~PathAllowed(policy, p, TRUE)
      /\ PathAllowed(policy, p, FALSE) =>
           \E q \in Learned : TopOf(q) \in {TopOf(p), q}

\* Where //** takes something away: once a directory of the root and something in
\* it have both been observed, nothing of that directory is allowed, nor what the
\* directory on its own had opened, which is everything.
LostAtTop(p, before, after) ==
  \E top \in LearnedFrom(after) :
    /\ Len(top) = 2 /\ IsAbsolute(top) /\ Group(LearnedFrom(after), Cluster(top)) # {top}
    /\ TopOf(p) = top \/ Group(LearnedFrom(before), Cluster(top)) = {top}

\* A policy generated anew, after more was logged, takes nothing back: the common
\* ancestor of a cluster only gets shorter, and each tree gives way to one that
\* contains it. Except where //** comes in.
RelearningTakesNothingBack ==
  [][files'[1] # files[1] /\ files[1].lesson # {} /\ files'[1].lesson # {} =>
       \A p \in Opens :
         PathAllowed(files[1].policy, p, FALSE) =>
           \/ PathAllowed(files'[1].policy, p, FALSE)
           \/ LostAtTop(p, files[1].lesson, files'[1].lesson)]_vars

\* Files of credentials stay out of a generated policy, though what was read
\* next to them may be generalized to a tree that has them.
CredentialsStayOut ==
  stage = "running" /\ lesson # {} =>
    \A p \in Opens, forWrite \in BOOLEAN :
      (\/ LastOf(p) \in {DotEnv, IdRsa} \union PemNames
       \/ \E i \in 1..(Len(p) - 1) : p[i] = DotSsh) => ~PathAllowed(policy, p, forWrite)

\* Where the prefix of a glob takes more paths than the glob, and where fewer.
Widened(g) ==
  \/ g.form \in {"children", "literal", "dirSlash", "treeSlash", "doubleSlash"}
  \/ ~Fits(ExtractPrefix(g))

Narrowed(g) == g.form = "stem"

AllowList(forWrite) == IF forWrite THEN policy.allow_write ELSE policy.allow_read

\* The LSM programs refuse, or in monitor mode report, every open and every program
\* that the policy does not allow, if its globs for directories end in /** and fit into the buffer: except
\* for names that only begin with id_rsa, whose rule is left to the kernel.
SyncRefusesWhatPolicyDenies ==
  stage = "running" /\ enforcement = "Sync" =>
    /\ \A p \in Opens, forWrite \in BOOLEAN :
         (/\ IsAbsolute(p) /\ ~PathAllowed(policy, p, forWrite)
          /\ \A g \in AllowList(forWrite) : ~Widened(g)
          /\ \A g \in policy.deny_always : ~Narrowed(g)
          /\ <<IdRsa, LastOf(p)>> \notin Begins) =>
           LsmRefuses(policy, p, forWrite) \/ (~Enforces /\ LsmReports(policy, p, forWrite))
    /\ \A act \in Acts :
         act.kind = "exec" /\ SyscallDenied(policy, act.target) =>
           \/ LsmExecRefuses(policy, act.target)
           \/ ~Enforces /\ LsmExecReports(policy, act.target)

\* And they refuse and report no more than the policy, if its denies are such
\* globs: except for the components that are always secret, and for a path that
\* bpf_d_path() cannot write, which is refused in any mode.
SyncPermitsWhatPolicyAllows ==
  stage = "running" /\ enforcement = "Sync" =>
    \A p \in Opens, forWrite \in BOOLEAN :
      (/\ IsAbsolute(p) /\ PathAllowed(policy, p, forWrite) /\ ~IsSensitive(p)
       /\ \A g \in policy.deny_always : IsStaticRule(g) \/ ~Widened(g)
       /\ \A g \in AllowList(forWrite) : ~Narrowed(g)) =>
         /\ ~LsmReports(policy, p, forWrite)
         /\ LsmRefuses(policy, p, forWrite) => ~PathFits(p)
================================================================================
