# SyscallCage: TLA+ models, model checking and proofs

SyscallCage runs an AI agent under a policy: eBPF programs see what the agent's
processes do, a user-space process compares it with a YAML policy and kills what
violates it, or logs it. This directory holds TLA+ modules of its core logic, the
TLC configurations that check them, and proofs that TLAPS checks.

Every definition is translated from the source. `PROJECT.json` gives for each the
file and lines it stands for. Paths below are relative to `syscallcage/src/`, and
`ebpf` is `syscallcage-ebpf/src/main.rs`.

    tlc -workers 2 -config Watch_safety.cfg Watch        # any run of PROJECT.json
    tlapm WatchProofs.tla                                # the proofs

## 1. Inventory

| Component | Source | State | Operations | Model |
|---|---|---|---|---|
| watch supervisor | `watch.rs` | `restart_count`; per attempt: pipe, child, `Monitor`, `kill_reason` | fork, handshake, `Monitor::new`, loop thread, `waitpid`, `close`, decision | `Supervision`, `Watch` |
| monitor life cycle | `monitor/mod.rs` | `exit_reason`, `closed`, links, loop thread, liveness thread | `new`, `start`, `close`, drop | `Tracking` (`new`), `PidMode` and `Watch` (`start`, `close`) |
| `--pid` mode | `main.rs` 129-295 | the main task | `select!` over two signals and the loop's result | `PidMode` |
| event pipeline | `monitor/mod.rs`, `ebpf` | `EVENTS`, `IP_TO_DOMAIN`, `local_dns_cache` | hooks, decoding, DNS answers | `Pipeline` |
| enforcer | `enforcer/mod.rs` | none | `enforce` | `Pipeline` (verdict), `Watch` (kill and its result) |
| process tracking | `ebpf` 122-183 | `MONITORED_PIDS` | `handle_fork`, `handle_exit`, `is_monitored` | `Tracking` |
| network hooks | `ebpf` 224-422 | `DNS_RECV_BUFF`, `DNS_FDS`, `PENDING_DNS_QUERY` | sendto, recvfrom, connect | `Pipeline`, in part |
| LSM hooks | `ebpf` 424-687 | prefix maps, `ENFORCE_MODE` | `file_open`, `bprm_check_security` | `PathRules` (what matches), `Pipeline`, `Tracking`, `Watch` (what follows) |
| policy questions | `policy/mod.rs`, `policy/matcher.rs` | the loaded policy | `Policy::load`, `path_allowed`, `domain_allowed`, `syscall_denied`, `should_kill_on_syscall_deny` | `PathRules`, `PolicyFile`; as sets in `Pipeline` |
| sync policy compiler | `policy_sync_compiler.rs` | none | globs to prefixes, or a refusal | `PathRules`, `PolicyFile` |
| policy discovery | `policy/discovery.rs` | the files above the current directory | climb, validate | `PolicyFile` |
| policy generator | `policy_generator.rs` | none | log to policy | `PolicyGenerator`, `PolicyFile` |
| command line | `main.rs` 63-160 | options | `resolve_policy`, `--dry-run`, `generate-policy` | `PolicyFile` |
| logging, doctor, kernel bindings, scripts | | | output, checks of the environment, generated types | not modelled |

How they interact:

- **Shared state between threads.** `kill_reason` (handler in the loop thread, read by
  `run()`), `exit_reason` and `closed` (main, loop and liveness threads), the two
  caches of addresses (loop thread; the kernel reads its own at every `connect`).
- **Messages.** The ring buffer `EVENTS`, from the hooks to the loop thread: a queue
  that drops what does not fit. The pipe of each attempt: one byte, or end of file.
- **Files.** `.syscallcage.yaml`, which somebody may replace between two readings; the log
  of a session, from which `generate-policy` writes the policy of the next.
- **The kernel's part.** Signals, parent-death signal, reparenting, closing of files,
  detaching of programs when the last link goes, reuse of task numbers, LRU maps.

What is hard to test here, in one line each (the full list, with lines and the
properties that cover it, is `hazards` in `PROJECT.json`):

- a SIGKILL and the note of why it was sent are two steps, and `waitpid` may return in
  between; the supervisor may die between any two steps of a child's start;
- `Monitor::new` attaches its programs one after the other, and a target of `--pid`
  mode runs meanwhile; threads and processes share one map of task numbers;
- an answer and the connect that follows it are judged late, after evictions and after
  newer answers; the loop drains its ring without looking at `closed`;
- one policy has two judges, regular expressions in user space and prefixes in the kernel;
  a policy comes from a log that one of them wrote and is applied by either;
- close, death of the target, loop error and signals meet in any order.

What makes each component correct: *watch* holds the agent back until it is observed,
never restarts after a violation, and never leaves an agent without supervisor;
*the monitor* ends for a reason it reports truly, and does end; *the pipeline*
punishes what the policy forbids and nothing else; *tracking* observes the target's
family and nobody else, and a kill hits nobody else; *the policy's file* is the nearest
trustworthy one; *the compiler* refuses what the globs refuse and nothing else; *the
generator* allows what was observed, little more, and no credentials.

## 2. Modules

**`Supervision`** is the contract of watch mode, with three variables: the attempt,
its process (idle, held, running, stopped) and the watcher. It says nothing of pipes,
hooks or threads.

**`Watch`** is `run()` with everything that happens around it. `sup` is the main
thread's place in the iteration (`fork`, `setup`, `release`, `spawn`, `wait`, `close`,
`judge`, `sleep`), and each place is one action: `ForkChild`, `NewMonitor`, `Release`,
`SpawnLoop`, `WaitChild`, `CloseMonitor`, `Judge`, `NextAttempt`. The child's states up
to `execvp` are `start`, `armed` (after `prctl`), `waiting` (after `getppid`),
`released` (after the byte). What an attempt owns is a function of the attempt's number,
because the loop thread of an attempt may go on while the next one runs. Of an event
only the process and whether `enforce` would kill for it are kept. `Crash` may happen
at every step; the process's end has two steps, as in the kernel: first files and threads
(`EndProcess`), then reparenting and the death signals (`Reparent`). `cause` is a
history variable. `CatchesTerm` says whether the agent handles SIGTERM.

**`PidMode`** is `main()` from `Monitor::new` on, with the loop and the liveness thread
as two further processes. The stores into `exit_reason` and `closed`
are steps of their own in both `close()` and the liveness thread. `Report` is where the
exit code is decided.

**`Pipeline`** follows one event from the hook to the verdict: `HandleOpen`,
`LsmFileOpen`, `HandleExecve`, `LsmExecCheck`, `Ptrace`, `Receive`, `Connect`,
`Connect6` queue it, `TakeEvent`, `PublishIp` and `Enforce` are the loop's. Paths,
programs, addresses and names have no inner structure, and the policy is a few sets.
`mode` and `enforcement` are
fixed by `Init`, so that one run covers every combination. A DNS message is what
`parse_dns_answers` can tell of it. A call's entry in
`DNS_RECV_BUFF` may be gone when it returns (`Receive`), the kernel's map may lose an
address (`EvictIp`) or refuse one (`PublishIp`). `told`, `latest` and `unwritten`
are history, copied into the event of a connect so that a later verdict can be compared
with what DNS had said at the time. `latest` of an address is `Missed` from the moment an
answer about it is lost to the next one that is not: what is said of verdicts is said of
each address by itself, and a loss costs no other. `IsDns` and `IsRaw` read `resolved` as the code
does, so the IPv6 marker takes the path it takes in the code.

**`Tracking`** is about `MONITORED_PIDS`. Tasks are threads with a group each; numbers
are reused. The stages of `Monitor::new` are those of the code: target registered, LSM
programs, mode, prefixes, `handle_fork`, `handle_exit`, the others. An exec by a thread
that is not the first takes over the first one's number, as the kernel does. `Report` queues the
number of a task's group, of which the model keeps one as `suspect`, and `KillSuspect` is
the SIGKILL, any number of steps later, for whoever has the number then. `mistaken` is
history: the number was freed in between, or had been a stranger's from the start. `held` tells
watch mode from `--pid` mode. `unseen` and `leaked` are history: they name the
ways by which the map and the family may legitimately differ (a task that an LRU eviction
met, one born where no program looked, and what either forks; a key left by a task whose
exit no program saw), task by task, and the properties say that there is no other. What
`lsm_file_open` answers changes no state of the model and is an operator, `Refuses`; its last
argument says whether the path fits into the program's buffer, as one that does not is refused
before anything else is asked.

**`PathRules`** is what a rule of the policy stands for, in both readings: `Matches` is the
regular expression of a glob, `ExtractPrefix` with `StringToBytes` and `StartsWith` the
prefix that `lsm_file_open` compares. A path is the sequence of its components. Of the
letters in a component the constants keep what rules ask: which names begin with which
(`Begins`), which contain what credentials are called (`CredentialLike`), which end in
`.pem`. Globs are the forms with the wildcard at one end: `dir/**`, `dir/*`, `dir`, `dir/`,
`dir**`, `dir/**/`, `//**`, `**`, `**/*`, `**/n`, `**/n/**`, `**/n*`, `**/*.pem`. The 127
bytes of a prefix are `PrefixLength` components, the 256 of a path `PathLength`: a longer path
cannot be written for the LSM programs, which refuse it (`PathFits`), and is cut by the probes
(`Truncated`). What `lsm_file_open` finds against an open is `LsmForbids`; `LsmRefuses` and
`LsmReports` are what it makes of it in the two modes.

**`PolicyGenerator`** is `run_generator` and `generalize_paths` as set operators: clusters,
their common ancestor, and what each case makes of it.

**`PolicyFile`** composes both with the start of the program. `stage` is where `main()` is:
`Probe` is one turn of the search, then `Validate`, `Load`, `Attach` (which decides between
LSM programs and kprobes by the kernel's and the compiler's word), then `Perform`, one per
act of the agent, with the verdict, the kill and the line in the log. `GeneratePolicy` turns
the log into the file of the current directory, and the cycle starts anew. `Replace` lets
somebody exchange a file while the program starts, and `replaced` is where. `lesson` and
`done` are history: the acts that a log and a generated policy come from.

`MCPipeline`, `MCTracking` and `MCPolicyFile` give the sets for TLC. The modules whose names
end in `Proofs` hold the proofs. The definitions marked "Mutant of" are faulty variants of the definition
after them; each stands for a plausible mistake that one of the properties detects.

## 3. Runs

Passing runs, with the bounds that matter. All set `CHECK_DEADLOCK FALSE`, because the
system does stop: the program ends, or its target does nothing more.

| Run | Shows | Bounds |
|---|---|---|
| `Watch_safety` | types; hooks before exec; no orphan; kills accounted for; outcomes; no restart after a kill of the enforcer's once it is recorded; no circular wait over the pipe | one restart, ring of one event, LSM hooks attached |
| `Watch_liveness` | `Watch` implements `Supervision` with its fairness; the handshake ends; a death is noticed; a queued violation ends the agent; the loop stops once quiet | the same, kprobes only |
| `PidMode_ends` | the reported end is the true end; nobody waits for what will not come; the end comes after the target's death, and after a signal when all is quiet | ring of two events |
| `Pipeline_verdicts` | caches agree; answers stay in order; connects are judged by an answer they had; only violations kill, and they do; none is dropped on its way; monitor mode kills nobody | ring of two, two addresses, two domains, two denied programs (one with `kill_on_deny`), both modes, with and without LSM hooks |
| `Tracking_tasks` | the target's family is observed, an eviction costing no more than what it meets; strangers are left alone; a late kill hits the family; opens are judged by the policy, but for paths that do not fit into the buffer | four numbers, map of three, one event on its way, both modes |
| `PolicyFile_cycle` | the nearest policy; a generated one survives the replay, stays close and keeps credentials out; a longer log takes nothing back; prefixes and globs agree, but for paths that do not fit into the buffer | three directories, 23 acts, three of them in a log, prefixes of four components, paths of five, two rules per map, nine policies |

Why the bounds are enough: one restart already lets the loop thread of an attempt run
beside the next attempt, and nothing relates three attempts; one event in the ring is
enough for the loop to be anywhere while the rest moves, two for an answer and a connect
with the loop at a third event; two addresses and two domains let an address change
its name and an answer hold two addresses; four numbers are the target, a stranger and
two that are born, freed and reused (the stranger's own number is freed and reused too,
so a map of three is exceeded). One event on its way is enough for a kill to meet another
process, as each is judged by itself.
`Tracking` takes the numbers not yet born as symmetric; it has no liveness property.
Three directories hold one with a policy, one with `.git` and one above both, in any
order, each with every kind of file. Three observed paths fill a cluster with an ancestor,
a descendant and a sibling, or two clusters; the paths lie around each boundary of
`generalize_paths` (one, two, three, four components, absolute and relative) and, with
prefixes of four components and paths of five, on both sides of either cut: one path that is
opened and executed has six. Two rules per map let a policy
exceed it.

Runs that end in a violation show where the code does not do what a document, a comment
or a log line says. Each is a finding in `PROJECT.json` with the quoted line:

| Run | What it shows |
|---|---|
| `Watch_kill_race` | killed for a violation, restarted: `kill_reason` is read before it is stored |
| `Watch_sigterm` | an agent that handles SIGTERM outlives the supervisor |
| `Pipeline_ipv6` | IPv6 is allowed under `deny_all_else: false` |
| `Pipeline_ptrace` | ptrace events (type 5) are skipped by the loop |
| `Tracking_leader` | the first thread exits, the whole process is no longer observed |
| `Tracking_dryrun` | a dry run refuses opens until its mode is set, of paths that fit into the buffer too |

More divergences met while the source was read. The models contain the behaviour unless the
row says otherwise, and no property excludes it; some properties name it as an exception:

| Where | What the code does | What is said |
|---|---|---|
| `ebpf` 671-675, `watch.rs` 221 | `lsm_exec_check` kills without a report, so `kill_reason` is `None` and the agent is restarted (`LsmKills`) | `enforcer/mod.rs` 25-26: a violation never leads to a restart |
| `watch.rs` 254 | the branch for exit codes does not look at `kill_reason`: a violation by a child process is recorded, the agent exits with an error, and is restarted (`JudgeExited`) | the same |
| `watch.rs` 217, `monitor/mod.rs` 572 | `close()` follows the agent's end at once, and what its ring still holds is not read any more: a violation just before the end is neither logged nor recorded (`CloseMonitor`, `PollEvents`) | the same; `spec/00-mvp.md` 52: violations are logged |
| `watch.rs` 229 | without `--max-restarts` nothing is restarted: `unwrap_or(0)` (not in the model: `MaxRestarts` is the number that comes out) | `main.rs` 55: "padrão: ilimitado"; `spec/12` 113 |
| `watch.rs` 211 | the loop ends with an error, which is logged; the agent goes on (`LoopFails`) | `watch.rs` 36-38: never unobserved |
| `monitor/mod.rs` 572 | the inner loop does not look at `closed`: who keeps the ring filled keeps it running (`PollEvents`, `DrainRing`) | `watch.rs` 217; `main.rs` 228 |
| `watch.rs` 240 | no restarts left is `Ok` and exit code 0 (`RetryOrGiveUp`) | `spec/12` 233-234: the program ends with an error |
| `ebpf` 197 | every open is reported as READ: in reactive mode `allow_write` is not used (`HandleOpen`) | `spec/00-mvp.md` 32 |
| `monitor/mod.rs` 582 | WRITE events of `lsm_file_open` in monitor mode are skipped (`HandledTypes`) | `spec/00-mvp.md` 52: they are logged |
| `monitor/mod.rs` 130 | an answer without records about an allowed domain is a violation (`JudgedDomain`) | `spec/00-mvp.md` 39-41 |
| `ebpf` 408 | a connect the kernel's map resolves is judged by the older name while a newer answer waits (`Connect`) | `monitor/mod.rs` 589 |
| `ebpf` 304 | whatever `recvfrom` returns, if longer than 12 bytes, is queued as a DNS answer; what cannot be parsed is judged as the domain `<dns-parse-error>`, a violation under `deny_all_else` (`Receive`, `JudgedDomain`) | `spec/00-mvp.md` 39-41 |
| `policy_generator.rs` 155 | a directory of the root and something below it were observed: the glob is `//**` and matches neither (`GroupGlobs`, `NotCovered`) | `policy_generator.rs` 64: the globs cover the observed paths |
| `policy_generator.rs` 109-117 | a relative path of one component becomes `/**`, which allows every absolute path and not this one (`ParentTree`) | the same |
| `policy_generator.rs` 59, 38 | what is taken for sensitive is wider than the denies: `.env.local` is not learned, and is allowed by the tree of what was read next to it | `README.md` 134: no credential file is ever allowed |
| `policy_generator.rs` 223-243 | the entry's `action` is not read: what was refused is learned, and so are addresses nothing resolved and `<dns-parse-error>` (`Targets`) | `README.md` 134 |
| `monitor/mod.rs` 307, `policy/mod.rs` 122 | the recording that `README.md` 130 recommends runs in Sync monitor mode on a kernel with BPF LSM, where only violations are logged; the policy generated from it allows nothing, and `Policy::load` refuses it (`Reported`, `Acceptable`) | `README.md` 127-132 |
| `policy_generator.rs` 256 | a generated policy denies `ptrace`, so it is never compiled for the LSM programs, and no rule of its has `kill_on_deny` (`Compilable`, `DenyRule`) | `spec/00-mvp.md` 46 |
| `policy_sync_compiler.rs` 34-76 | `dir/*`, a literal, `dir/` and `dir/**/` allow or deny more as a prefix, `dir**` less (`Widened`, `Narrowed`) | the globs' meaning in `policy/matcher.rs` |
| `policy_sync_compiler.rs` 80 | the rule `**/id_rsa*` is left to the LSM program, which compares whole components: `id_rsa.pub` is not refused (`IsSensitive`) | the same; the built-in check is one of Sync mode only |
| `ebpf` 538, 655 | when `bpf_d_path` fails, as for a path of more than 256 bytes, the open or the exec is refused in any mode, a dry run included, whatever the policy allows; no event tells of it (`PathFits`, `LsmRefuses`, `LsmExecRefuses`, `Tracking`'s `Refuses`) | `main.rs` 113, 157: violations are only audited; `spec/00-mvp.md` 52 |
| `ebpf` 198, 218 | the probes of reactive mode read 256 bytes of a name: a longer one is judged and logged by its beginning (`Truncated`, `Seen`) | `spec/00-mvp.md` 32 |
| `ebpf` 623-687 | a rule for `/bin/sh` refuses `/bin/shutdown` too (`RuleCovers`) | `policy/mod.rs` 171-181 |
| `policy/discovery.rs` 39 | without `.git` the search climbs to the root of the file system (`Probe`) | `spec/15` 261-262, 300: the current directory only |
| `policy/discovery.rs` 27 | a dangling symbolic link is passed over (`Exists`) | `spec/15` 292: what fails ends the program |
| `policy/mod.rs` 107 | the validated file is read anew by its path (`Replace`) | `spec/15` 266-284 |
| `main.rs` 141 | `--log-file` is read after the subcommands: `watch` writes no log file | `main.rs`, the option's help |
| `monitor/mod.rs` 255, 528 | children older than the monitor are not observed; those that outlive the target are not any more (`unseen`, `descendants`) | `spec/00-mvp.md` 6: a process and its children |

**Fairness.** `Watch`: weak fairness of the main thread, of each child's start and of
each loop thread (the scheduler runs what can run; all of them only wait in calls that
the model's guards express) and of the kernel finishing an exit. Nothing is assumed of
the agent, of its descendants, of crashes, of failing calls or of the liveness thread.
`PidMode`: the three threads. `Pipeline`: the loop thread. Liveness properties that need
the monitored processes to come to rest say so in their own hypothesis
(`LoopStopsWhenQuiet`, `SignalEndsIt`, `DeathEndsIt`): without it
the inner loop of `start()` may go on for ever (see the table above).

**Redundancy.** Parent-death signal, `getppid()` and end of file on the pipe overlap.
`OrphanStopped` needs them together (without the comparison of `getppid()` it fails), but
some schedules are covered by two of them.

## 4. Proofs

The theorems hold for every value of the constants, under the named assumptions of the
modules (`MaxRestarts` is a natural number, `RingCapacity` a positive one, and so on).

`WatchProofs`:

- `TypeCorrect`. `TypeStep` has one step per action.
- The invariant `IndInv` is `AttemptsInOrder`, `ByteAfterMonitor`, `CauseFits` and
  `PolicyKillAccounted`; lemmas `OrderStep`, `ByteStep`, `CauseStep` and `KillStep` prove
  one part each and `Inductive` joins them. `HookedBeforeExec` alone is not inductive: that
  the agent only runs while its Monitor exists rests on the byte having been written after
  `Monitor::new`, and on past attempts being dead before `restart_count` grows.
- `IndInvHolds`; `HookedBeforeExecHolds`, `PolicyKillAccountedHolds` follow from it.
- `OutcomeFitsHolds`, from `Settled`: there is a result only after `judge`, and what it rests
  on does not change any more.
- `RestartWindow`: `PolicyKillAccounted` in the state before `Judge` leaves `record` as the
  only place where the loop thread can be. So the race that `Watch_kill_race` exhibits is
  the only one by which a kill of the enforcer's leads to a restart.
  It does not speak of the kills of `lsm_exec_check`, which nothing records, nor of an agent
  that ends by `exit` after a violation of its child was recorded (see the table above).
- `NoWaitCycleHolds`: child and supervisor never both wait for the other end of the pipe. It is
  what `HandshakeResolves` needs besides fairness.
- `OrphanStoppedHolds` assumes `~CatchesTerm`, and `Watch_sigterm` shows why it has to.
- `Implements`: `SafetySpec => Contract!SafetySpec`, under the same assumption. `EndsRefine`
  is the step in which the supervisor's end stops the agent; `CurrentOnly` says that steps of
  other attempts do not show in the contract's state.

`PidModeProofs`: `TypeCorrect`; `ClosedHasReason` is inductive (`ReasonStep`, `Inductive`), and
`ClosedHasReasonHolds`, `NormalEndIsTrueHolds`, `FatalMeansErrorHolds` and
`LoopStopsForAReasonHolds` follow. It relates who
has set the reason to where main and the liveness thread are, which is what the order
"reason first, `closed` second" is for. `NoEndlessWaitHolds` is the safety half of `DeathEndsIt`
and `SignalEndsIt`; it rests on `Attended`: the liveness thread is spawned before the loop is
entered and leaves only when `closed` is set.

`PipelineProofs`, for every policy, every set of addresses and messages and every ring: the
invariant is `Types`, `Sources`, `ToldAhead` and `AnswersInOrder`.

- `Types` adds to `TypeOK` what a hook may have written into an event (`Shaped`): without it
  nothing says that an event the loop takes for an answer holds one.
- `Sources` is `CachesAgree` with `Remembered`: what any event on its way tells of an address
  was told. `CachesAgree` alone is not inductive, as `PublishIp` writes what `current` says.
- `ToldAhead`: what a connect by address finds in the loop's cache when its turn comes, or what
  may still get there before it, DNS had told when the connect was made. No later answer
  makes it innocent.
- `AnswersInOrder` is inductive with these three. `SendInOrder` is its step for a hook (what is
  appended is the latest), `OrderStep` for the loop (what is taken or published was the
  oldest). `ToldTail` and `ToldBefore` are about `LastTold` on a queue's tail and beginning.
- `TypeCorrect`, `CachesAgreeHolds`, `AnswersInOrderHolds` are parts of it;
  `ConnectJudgedByAnswerHolds` and `OnlyViolationsKillHolds` follow from it at the step of the
  loop that judges. `MonitorModeOnlyLogsHolds` is inductive by itself.
- `ViolationsNotDroppedHolds`: a violation stays in the ring or with the loop until the kill.
  It rests on `Types` and `ToldAhead` (`ViolationIsKilledFor`), and holds whatever answers were
  lost: a missing answer makes a verdict harsher, never milder. `ViolationsPunished` adds fairness to it.
- `Ipv6BlockedByDenyAll` and `Ipv6OtherwiseAllowed` bound the finding of `Pipeline_ipv6`: the
  marker is always read as an unreadable answer, so `deny_all_else` alone decides.

`TrackingProofs`, for every set of numbers and every size of the map: `IInv` has eight parts.
`Grouped` says that a first thread stays as long as its group; `KeysFit` and `Seen` are
`StrangersLeftAlone` and `FamilyObserved` for all tasks, threads included: the properties speak
of first threads only, but `handle_fork` copies from the thread that forks, so the threads'
keys are what the next process depends on; both except `unseen` task by task, so that one
eviction does not excuse the rest of the family. `Early` and `HeldBack` are about the time before
`handle_fork` is attached. One lemma per action (`RegisterKeeps` ... `KillKeeps`) proves that
`IInv` is kept, `IInvHolds` joins them, and `FamilyObservedHolds`, `StrangersLeftAloneHolds`,
`KillHitsFamilyHolds` and `OpensJudgedByPolicyHolds` follow. The size of the map is an
invariant of its own (`BoundedHolds`), which `TypeCorrect` needs. Two more theorems bound the
findings: `ThreadsLostWithTheFirst` (a process that no eviction met and whose birth was seen goes unobserved only when its
first thread has ended) and `DryRunRefusesOnlyEarly` (a dry run refuses opens of paths that do not fit into
the buffer of `lsm_file_open`, and others in `--pid` mode between lines 337 and 376 of
`monitor/mod.rs`; there is no third way).

`PolicyFileProofs`:

- `DiscoveredIsNearestHolds`, for every depth and every content of the disk, from `Climbed`:
  below the directory where the search stands there is no policy and no `.git`. A replaced
  file is exempt from having been found trustworthy; that the search did not leave the
  repository is said without exception.
- `CredentialsStayOutHolds`, for every tree of paths, every disk and every log. `Learnt` is the
  invariant: what is written by `generate-policy`, and what is loaded from it, is `Written`
  (the mandatory denies, and only `Harmless` globs to read). `GlobsAreHarmless`
  follows `generalize_paths` through its cases; `CommonAncestor`
  shows that the common ancestor is what one of the paths begins with, from the definition of
  `LongestCommonPrefix` and a lemma on the greatest of a bounded set of numbers (`Greatest`).
  `WrittenKeepsSecrets` shows that the denies take out of such trees what the property names.

- `TypeCorrect`, from `Typed`: what a file on the disk was derived from, happened.

`SyncProofs`, for every policy: `Compiled` is the invariant that a session with LSM programs
has a policy that could be compiled, whose globs stand for paths (`GlobsAssumption` for the
files there are, `WrittenIsUnderstood` for the generated ones). Then it is about one glob and
one path. `PrefixCovers` says that what a glob matches its prefix takes, cut or not, unless the
glob is `Narrowed`; `PrefixIsCovered` the converse unless it is `Widened`; `InsideStarts` and
`TextStarts` are the cut. `StaticIsSensitive` is about the five rules the compiler leaves to the
kernel: four of them are what the kernel's program refuses anyway, the one for `id_rsa*` is not.
`NotEmptyInBuffer` is there because the kernel's program passes over an empty prefix.
`SyncRefusesHolds` and `SyncPermitsHolds` are the two directions, for what is refused in enforce
mode and reported in monitor mode; the second excepts the paths that do not fit, which are refused
whatever the policy says.

`GeneratorProofs`, for every log: `Recorded` is the invariant that the log is the image of what
was done and that a policy with a lesson is `Derived` from it. `GroupIsNear` and
`GroupIsCovered` go through the cases of `generalize_paths`: what its globs match is in the top
directory of an observed path (`BeginningIsNear`), and an observed path is matched unless it is
`Missed`. `CommonBegins` and `LongEnough` are what the second needs: the common ancestor
begins every path of its cluster, and a cluster with a path of one component is that path.
`PlainIsNotDenied` keeps the mandatory denies apart from what is learned, `RulesNeverKill` needs
that the rules are finitely many, since `SetToSeq` orders only a finite set.
`GeneratedStaysCloseHolds` and `ReplaySurvivesHolds` follow.
`RelearningTakesNothingBackHolds` compares two policies, learned before and after more was done:
the common ancestor of the larger cluster begins that of the smaller, so each tree is inside the one
that replaces it; `LostAtTop` names the groups whose ancestor becomes a directory of the root, where
the code writes `//**`.

Only model-checked: all liveness (`DeathIsNoticed`, `HandshakeResolves`, `ViolationEndsAgent`,
`ViolationsPunished`,
the fairness part of `ImplementsContract`, ...), which is beyond the prover. Every other property
of a passing run is a theorem.

## 5. What is not modelled

- The generated bindings `vmlinux.rs`: 58,906 of the repository's 63,166 lines of Rust, type
  declarations without a statement. Of the other 4,260 the map covers 2,071; of those that
  are not tests (about 3,300), three in five.
- The bytes of paths, names and DNS messages. Paths are sequences of components: upper and
  lower case, escapes, `.` and `..`, repeated and final slashes, names cut within a component
  (127 and 256 bytes) are left out; globs with `?`, `[..]` or a wildcard in the middle are too.
  `Pipeline` takes what matches as given.
- `handle_sendto`, `PENDING_DNS_QUERY`, `DNS_FDS`: no event and no verdict depends on them.
  Connects to port 53, loopback, link-local and local sockets queue no event.
- Both in `Watch` and `PidMode` an event that does not fit into the ring is not a step.
- `PolicyFile` judges an act at once, with one log for all sessions; delays, queues and lost
  events are `Pipeline`'s, the failing of an attachment `Tracking`'s.
- The YAML parser (a file is well-formed or not), logging as output, argument parsing,
  `doctor`, scripts and packaging: no decision of the running program is made there.

## 6. Plan

Done, in the order of importance: `Supervision`, `Watch`, `PidMode`, `Pipeline`, `Tracking`,
then `PathRules`, `PolicyGenerator`, `PolicyFile`, with the proofs above. What could follow:

1. Names cut within a component (127 bytes), with components of several letters in `PathRules`.
2. The two halves of each liveness property are there as `NoWaitCycle`, `NoEndlessWait` and
   `ViolationsNotDropped`; `DeathIsNoticed`,
   `ViolationEndsAgent` and `LoopStopsWhenQuiet` have none yet.
3. That `Tracking`'s `Report` and `Pipeline`'s events are the same: one abstract specification
   of "an event about a process", which both implement.
