# Verification of agentbox

agentbox is a Rust command-line program that runs coding agents (Codex, OpenCode)
in Podman containers, one per git workspace.  There is no daemon: every invocation
is an operating system process of its own, and what invocations share is Podman's
state (containers, volumes, images), files under `$XDG_STATE_HOME/agentbox` (lock
files, attach tokens, image metadata) and the workspace itself.  Everything that is
hard about it comes from that: two invocations interleave at every system call, each
Podman call may fail with or without an effect, containers end by themselves, users
press Ctrl-C, processes are killed between two steps.

This directory holds TLA+ modules translated from the source, TLC configurations
that check them on small instances, and TLAPS proofs of results for every instance.
`PROJECT.json` maps each definition to the lines it models and lists the runs, the
mutants that show that each property can fail, the hazards and the theorems.
Paths below are relative to `src/src/` unless they begin with `docs/`.

## 1. Inventory

| component | state | operations | interacts with |
|---|---|---|---|
| workspace lock (`lock.rs`) | `locks/<digest>.lock`, flock(2) on it | acquire (open, flock, still-at-path check), probe, remove | every lifecycle command; `clean` |
| lifecycle commands (`commands/{start,run,exec,restart,connect,stop}.rs`, `managed_server`, `detached_server`, `transient_run`, `container_cleanup`) | the container and cache volume with the workspace's name; per process: what was discovered, interrupt flag | launch, wait for readiness, host client, stop and verify, interrupt cleanup | lock, discovery, token store, images, Podman |
| attach token store (`commands/codex_attach_auth.rs`) | `codex/ws-tokens/<digest>.token` | create (truncate, write), load, remove | start, restart, connect, stop |
| session discovery (`session/discovery`, `session/labels`, `session/status`) | none; reads Podman | list, filter, inspect, validate labels, derive status, mark orphans and duplicates | all commands that select sessions |
| target selection (`session/target`, `session/selection.rs`, `connectable`, `restartable`) | none | path, stored path, stable-id prefix, `--all`; candidates for prompts | stop, restart, connect |
| runtime images (`commands/runtime`) | tagged images, `runtime/<runtime>.json` | ensure on launch, update, build, record | launches, update, clean, npm, Podman |
| clean (`commands/clean`) | per process: inventory and plan | list, plan, confirm, remove | images, volumes, lock files |
| server readiness and health (`commands/server_readiness`, `commands/health.rs`, `runtime/health.rs`, `runtime/http_probe`) | deadline, interrupt flag, one connection with what was read of it | poll, inspect, discover the endpoint, probe every address, read an answer; rows of `health` | launches, Podman, the server |
| configuration (`config.rs`) | `config.json` and its backups, shared by all commands and the user | load, validate, move aside; overlay and storing of limits | launches |
| launch preparation (`commands/container_launch`) | the specification being built, the token file, a temporary known_hosts file | checks in order, token, specification, passthrough, labels, run | all rows below, images, token store |
| preflight, development environment, host passthrough (`preflight`, `dev_env`, `ssh_signing`, `wayland.rs`) | none; reads the host | snapshot, requirements, discovery, detection | launches |
| runtime profiles (`runtime`) | none | commands, state directories, labels, mounts | launches, health |
| process execution (`process.rs`, `podman/executor.rs`, `commands/exit_status.rs`) | child, pipes, reader threads, channel | spawn, read, collect, wait, map the status | all calls of programs |
| user interface (`cli.rs`, `prompt.rs`, completion, output) | none | parsing and formatting | all |

What makes each part correct:

- *Lock*: at most one command of a workspace at work, also while lock files are
  removed; every acquisition returns.
- *Lifecycle*: what a command reports is true (stopped, cleaned up, ready) whatever
  failed on the way; a command ends only what it may end; tokens match sessions;
  cache volumes survive; every command returns.
- *Discovery and selection*: what is searched for one root agrees with what is
  searched for all; prompts offer what the commands take; a stop ends all it covers
  and nothing else.
- *Images and clean*: metadata records only what was built; a launch keeps the image
  it found; what clean reports as removed is gone and what is referred to stays.

- *Launch preparation*: a container gets a consistent view of the host; a restart gives
  the session what it was started with; a preparation that fails has touched nothing; no
  configuration the user wrote is lost.
- *Readiness and health*: what is said of a server is what it answered, in full; every wait
  ends although nothing is assumed of the server.
- *Process execution*: all output arrives, in order, with the right status; no deadlock
  between program, readers and collector.

The hazards behind these properties are listed in `PROJECT.json` with their lines.

## 2. Modules

    WorkspaceMutex            abstract lock: at most one holder
      ^ refined by WorkspaceLock      lock.rs: files, inodes, flock, clean's removal
      ^ used by    Lifecycle          the commands on one workspace
    SessionDiscovery          pure operators: labels, status, scopes, selection
      ^ extended by StopSessions      stop over several workspaces
    RuntimeImages             ensure, update, metadata file
      ^ extended by Clean             inventory, plan and removal
    ConfigFile                config.json, its loaders, its backups, limits
    RuntimeProfile            the two runtimes and the container specification
      ^ extended by Preflight         host snapshot, requirements, mounts
      ^ extended by HostPassthrough   sockets, git identity, signing, known hosts
    DevEnvironment            discovery of direnv, devenv and nix develop
    LaunchPreparation         extends the five: how a launch prepares its container
    RuntimeProfile
      ^ extended by HttpProbe         one probe of a server
      ^ extended by Readiness         the wait for a server; the health command
    ProcessCapture            running a program and taking its output and status
    MC*                       constants for TLC
    *_proofs                  theorems about the module they are named after (section 4);
                              Passthrough_proofs: about LaunchPreparation, too;
                              StopSessions_proofs: also about SessionDiscovery

**WorkspaceLock.**  `path` is the inode linked at the lock file's path, `fd` the file
each process has open, `owner` the holder of each inode's flock, `pc` the place in
`lock_digest`/`guard`, `cleanup_lock_files` or `remove_cleanup_lock_file`.  Each system
call is an action; closing a file drops its flock; an inode that is neither linked nor
open may be handed out again, as real file systems do.  A process may die anywhere.

**Lifecycle.**  `box`, `volume` and `tokenFile` are the three shared objects of one
workspace, identified by the invocation that made them.  One action per step between
two system calls of `start`, `run`, `exec`, `restart`, `connect` and `stop`: resolution
before the lock, `AcquireLock` (the abstract mutex), discovery under it, truncating and
writing the token, `cache_volume_existed_before`, `podman run` (which may fail, create
the volume only, or create the container although it reports failure, with or without an
interrupt), readiness, client, `stop_ignore`, `container_exists`, removal of token and volume.  `Interrupt` sets the
flag of `CommandInterrupt` while it is installed, `Kill` ends a process and leaves its
`podman run` to itself, servers exit and `--rm` reaps them at any time.

**SessionDiscovery.**  A container is a record of what discovery distinguishes (name,
kind, root, hash, which labels are well formed, endpoint, mount, running).  The
operators follow `scope.rs`, `labels/*.rs`, `status.rs`, `collection.rs`, `connectable.rs` and
`restartable.rs`: candidate filter, validation in the order of the code, status,
collisions, duplicates, and what connect and restart take and offer.

**StopSessions.**  `stop` with directories, stored paths, stable ids or `--all` over
several roots: selection before the lock, grouping by root, one lock after the other,
discovery again or not (`RootedSessionCleanupScope`), stop by name, verification, token
removal, failures that are collected.  Sessions start and exit, repositories vanish, and
`codex exec` runs a container without labels under the name of its workspace while it holds the lock
(`StartExec`, `ExecEnds`); when it is killed the container stays without the lock.

**RuntimeImages** and **Clean.**  Images are tags of (runtime, context, version), where a
context stands for a binary; `metadata` is the JSON file of each runtime, `Invalid` while
and after it is truncated; `latest` is what npm would answer.  Launches resolve, build,
record and run; updates decide by the metadata whether to rebuild; clean lists
containers, images and volumes in this order, plans, asks and removes by name.  Podman
refuses to remove what a container uses.  The lock-file part of clean is in
WorkspaceLock.

**ConfigFile.**  `configFile` is the content at the path, `backups` what was moved aside in the
current second, by suffix (within one second names collide, the worst case), `loading` the
loaders: read and parse, test one name, rename.  `Edit` is the user.  Texts are members of small
sets chosen so that every branch of `CpuLimit::from_str`, `MemoryLimit::from_str`,
`parse_cpu_value` and `parse_config` is taken.

**RuntimeProfile, Preflight, DevEnvironment, HostPassthrough** are operators on `h`, a record
of the facts a launch reads from the host (environment variables, state of directories, links
of the Nix configuration, files per directory level, answers of git, ssh and nix).  Paths are
sequences of parts, so that equality of paths means what it means on the host.  The entries of the
Git configuration, numbered in the code's `GIT_CONFIG_*` variables, are a set: their keys differ, so
their order says nothing.

**LaunchPreparation.**  One action per step of `prepare_runtime_launch` and its callers: limits
(two configuration loads per launch, as in the code), the seven steps of `PreparationOrder`, the
specification, passthrough, known hosts with the temporary file and its guard, labels, the
restart's stop, `podman run`.  A restart may follow, so that what was stored is read again.

**HttpProbe** and **Readiness.**  `exchange` is a connection: the answer the server is giving,
what it has sent and what was read.  The server sends unit by unit and stops, closes or resets
anywhere; `ReadData`, `ReadNothing` and `ReadFails` are the outcomes of one `read_chunk`.
`Readiness` adds the loop of `wait_with` in its order (interrupt, deadline, inspection, probe,
sleep) and the rows of `health`; the container publishes its port late, exits or is removed.

**ProcessCapture.**  The child writes into bounded pipes; two readers cut lines and send them
over `channel`; the collector stops when both are gone and then waits.  Kills, a descendant that
holds the pipes, read errors and bytes that are not UTF-8 occur anywhere.  `shown` is the text that
is forwarded of each stream; `Lossy` is the decoding of its lines, in which a byte that is not UTF-8
is replaced, while such a byte in the whole output is an error.

`WorkspaceMutex`, Podman, npm, signals and the server are external: they are modelled
from how the code uses them, and are marked so in `PROJECT.json`.

## 3. Runs

| run | instance | shows |
|---|---|---|
| `lock` | 3 commands, 1 clean, 5 inodes, deaths | `MutualExclusion`, `HolderIsLinked`, `RemovalIsCurrent`, `FlockOwnership`; the protocol implements `WorkspaceMutex`; `AcquireReturns` |
| `lock_two_cleaners` (violation) | 2 commands, 2 cleans | a clean unlinks by path a file other than the one it locked; two commands hold the lock |
| `lifecycle` | 3 invocations of any of 10 command lines, eleven leftover states | `VerifiedGone`, `CleanedUpIsTrue`, `RunLeavesNothing`, `TokenSettled`; `SessionsAreSafe`, `EndsWhatItFound`, `VolumeIsPreserved` |
| `lifecycle_crash` | 2 invocations, one may be killed anywhere | `ReportsAreTrue`: the three reports of `lifecycle` stay true; `CommandsEnd` |
| `lifecycle_stable_id` (violation) | 2 invocations | a stop by stable id acts by name on what it saw before the lock |
| `lifecycle_token` (violation) | 2 invocations | a failed restart leaves a ready session without its token |
| `stop` | 1 stop of five forms, 2 roots, a session or an exec started in each, 54 sets of up to 3 containers: every pair, and every three with a healthy session | `OkLeavesOnlyDrifted`, `StopIsExact`, `TokenLeavesWithSessions`; `TakenIsOffered`, `OfferedIsTaken` |
| `stop_two` | 2 stops over 2 roots in opposite orders, a session in the first, a session or an exec started in the second | `StopReturns`, `OkLeavesOnlyDrifted` |
| `clean` | 2 invocations of launch, update, clean by 2 binaries, kills | `RecordedWasBuilt`, `EnsuredImageStays`, `CleanedIsGone`, `MetadataFollowsImage`, `CleanSparesReferenced` |
| `launch` | 61 hosts, a full one and ones that differ from it in one fact, 6 configuration contents, 9 command lines, a restart after a start, a second loader, 1 edit | `ConfigSurvives`, `RestartKeepsSession`, `PreparationFailsCleanly`, `PassthroughIsSound` |
| `readiness` | 11 kinds of answers, 2 addresses, 4 containers, 3 session lists | `ReadyIsJustified`; `WaitReturns` |
| `capture` | 6 output scripts run in 6 ways, kills, descendants, read errors | `OutputComplete`; `CaptureReturns` |

A violation run checks a sentence of the documentation; `PROJECT.json` "findings"
quotes it and tells the story of the counterexample.

More consequences of the code were seen while modelling and have no run of their own:

- `run` and `start --connect` keep the workspace lock while their client is open, so a
  `stop` of a live transient run waits for that client.
- A `podman run` that fails after it has created the container (its output is not UTF-8 or cannot
  be read, its client was killed) makes `start`, `restart` and `run` return the error at once: only an
  interrupt is followed by a cleanup (`commands/detached_server.rs:115`,
  `commands/transient_run.rs:163`).  `RunLeavesNothing` therefore speaks of runs whose launch did
  not fail, although `docs/spec/lifecycle-and-errors.md:7` has `run` stop its container before exiting.
- `stop --all` stops containers without a git-root label last, by name, from the first
  discovery and without a lock (`commands/stop/cleanup.rs:91`): whatever has such a name by then is
  stopped too, a session started meanwhile or the container of a `codex exec`, although
  `docs/spec/command-exec.md:38` says that `stop` cannot select an exec.  It is the defect of
  `lifecycle_stable_id` by another way; `StopIsExact` speaks of what is stopped under a lock.
- `stop --all` finds a running container with a drifted hash in its first discovery, skips it in
  the second (`session/discovery/scope.rs:64`) and reports success.  `OkLeavesOnlyDrifted` and the
  theorem `ScopeMissesOnlyDrifted` say that these are all it leaves; `docs/spec/command-stop.md:29`
  speaks of all running containers.
- An interrupted `start` whose `podman run` failed because an unlabelled container has the
  workspace's name stops that container (`commands/detached_server.rs:119`), although
  `docs/architecture/lifecycle-coordination.md:17` limits the cleanup to what the start created.
  `SessionsAreSafe` shows that no session is ended this way.
- Two `runtime update`s that race across a release can leave metadata of the new version beside
  the old image; later updates believe the metadata (`commands/runtime/image_plan.rs:29`).
- A restart takes a limit from the configuration when its label is missing
  (`commands/restart.rs:153`), while `docs/spec/overview.md:58` calls missing limit metadata invalid;
  `RestartKeepsSession` excludes exactly this case.
- An edit of the configuration between a load's read and its rename is moved aside too, or
  replaces an earlier backup (`config.rs:264`); `ConfigSurvives` excludes exactly this window.
- `path_reaches_mount_root` looks at the first target of a link and at the canonical path: the
  middle of a chain of three links to `nix.custom.conf` is not mounted (`NixConfigResolves` is
  stated for chains of two).
- The git root and `CODEX_HOME` are mounted where they are on the host, and nothing compares these
  places with those agentbox chooses or with each other: at `/home/user`, `/home/user/.codex`, `/nix` or
  `/etc/nix`, or when they are the same, two mounts have one destination.  `MountsAreDistinct` says that
  no other two mounts clash.
- `gpg.format` and `commit.gpgsign` are passed also when the signing key is left out
  (`ssh_signing/git_config.rs:58`); git then signs with no key and a commit fails.  `SigningIsBacked` asks
  for the agent and for no private key, not for a key.
- A restart whose stop fails may have ended the old session: the stop or the query after it may have
  failed although the container went (`commands/container_cleanup.rs:39`).
- A container that is removed before it is first inspected keeps the readiness wait polling to
  its deadline: an inspection error counts as pending.

**Bounds, and why they are enough.**  The lock protocol needs a holder, a waiter with a
stale file and a newcomer, hence three commands; there is one inode more than processes, so
that reuse happens but is never forced.  A lifecycle race involves a command, the one
that invalidates what it saw and one that profits; an invocation launches at most one container,
so three invocations give three generations of the name.  Two roots suffice for
lock order and cross-root selection; the third container name gives duplicates and name
reuse.  A root gets at most one new container, a session or an exec; `run`, whose transient container
StopSessions only has among its leftovers, is in Lifecycle.  In Clean two invocations from leftovers
that earlier ones may have produced give every pair of racing commands; `MaxVersion` = 2 is
one release during the run.  For a launch, facts of the host are read independently, so
hosts that differ in one fact from a full one reach every branch; of the variables only `CODEX_HOME`
may name a place of the container, the others choose sources of mounts; `MaxEdits` = 1 gives two contents
and so a name collision.  In HttpProbe lengths are scaled: a response bound of 4 and reads of 2
units allow answers below, at and beyond the bound and every cut of header and body; `Timeout` = 2 polls
give a first, a later and a last attempt.  `PipeSize` = 2 is less than what the scripts write to one
stream.  Symmetry is used in safety runs only.

**Fairness.**  A command takes its next step: its Podman calls and probes return, and
the readiness loop has a deadline.  `flock` wakes waiters in order, hence strong
fairness of the acquisition.  A readiness wait needs only that the process itself goes on: every connect, write and read
has a timeout, and nothing is assumed of the server.  A capture needs that its threads are scheduled and
that the program and its descendants go on.  Users end their clients and execs (`CommandsEnd`
and `StopReturns` depend on it).  No fairness for starting a command, confirming a clean, SIGINT,
SIGKILL, servers or the reaper.  Termination of all invocations is an explicit
stuttering step, so deadlock is checked in every run.

**Mutants.**  Each property has a mutation of a mapped definition (a skipped check, a
lock not released, an ignored failure) under which TLC finds it violated; they stand
before the definition they replace.

## 4. Proofs

A run checks an instance; the theorems hold for every value of the constants that satisfies
the named assumptions of the modules, which TLC evaluates in every run.  The inductive
invariants were checked by TLC on the instances of the runs before they were proved.

**`WorkspaceLock_proofs`**, any sets of commands, cleaners and inodes (`ProcsAssumption`:
disjoint processes, `None` is neither process nor inode).

- `TypeCorrect`, `OwnershipCorrect`: `TypeOK` and `FlockOwnership` always hold.
- With at most one cleaner (`AtMostOneCleaner`): `MutualExclusionCorrect`,
  `HolderIsLinkedCorrect`, `RemovalIsCurrentCorrect`, and `LockImplementsMutex`, i.e. the protocol
  refines `WorkspaceMutex`, which Lifecycle builds on.

The inductive invariant is `LockInv` = `TypeOK` /\ `FlockOwnership` /\ `HolderIsLinked` /\
`RemovalIsCurrent`.  Mutual exclusion alone is not inductive: two holders are excluded
because both hold the flock of the inode at the path.  That a holder's inode stays at the
path needs that a remover which got its flock holds that of the inode at the path, and
this is `RemovalIsCurrent`; it is false with two cleaners, as `lock_two_cleaners` shows.

**`Lifecycle_proofs`**, any invocations of any kinds (`LifecycleAssumption`).

- For any set of killable commands: `TypeCorrect`, `VerifiedGoneCorrect`,
  `CleanedUpIsTrueCorrect`, `RunLeavesNothingCorrect`, `ReportsAreTrueCorrect`.  The invariant
  `LifeInv` says for each command, by its place in the code, what it may conclude from what it
  has done: a container made by a command that can no longer make one, once seen gone, stays gone.
  A launch may fail with its container created, with or without an interrupt, and
  `RunLeavesNothing` covers every end of `run` but a failed launch without interrupt: success, failed
  client, failed readiness, and an interrupt at any moment.
- While no `podman run` outlives its command (`[]NoOrphans`): `TokenSettledCorrect`,
  `SessionsAreSafeCorrect`, `EndsWhatItFoundCorrect`, `VolumeIsPreservedCorrect`.  The invariant
  `QuietInv` adds that while a command is at work the container under the workspace's name is its
  own, the one it selected or no session, and the like for volume and token.  `NoOrphansWithoutKills` proves the hypothesis when
  nobody is killed.  It cannot be dropped: an orphaned `podman run` puts a container under the name after
  another command has looked, and these four properties then fail.

**`Clean_proofs`**, any launches, updates and cleans of any binaries (`ImagesAssumption`,
`LeftoversAssumption`): `TypeCorrect`, `RecordedWasBuiltCorrect`, `EnsuredImageStaysCorrect`,
`CleanedIsGoneCorrect`, `MetadataFollowsImageCorrect`, and the action property
`CleanSparesReferencedCorrect`.  `ImageInv` relates what a command holds (image, version, plan, what it
listed) to the images built so far.  The metadata file has no lock: `RecordedWasBuilt` rests on every
writer having built what it writes, not on an order of the writes.

**`StopSessions_proofs`**, any number of stops, targets, roots and containers (`StopAssumption`).

- `TypeCorrect` (with it: a stop holds the lock of the root it works on and no other, whatever
  fails) and `TokenLeavesWithSessionsCorrect`, from `StopInv`.
- `StopIsExactCorrect`, if `NamesTellRoots`: `NamesAreApart`, and a container of agentbox that is there
  from before under a root's name carries the label of that root or none.  Under a root's lock a stop of
  a directory and `stop --all` end only containers of that root, and never that of an exec: what takes
  the name of a record in hand needs the lock that the stop holds (`ExactPath`, `ExactAll`).
- `OkLeavesOnlyDriftedCorrect`, if `NamesAreApart`: different roots name their containers
  differently.  `ClaimInv` accounts for every container a command line covered: it is still to be found,
  in the list in hand, gone, drifted, made later, or the stop has failed.

  `podman stop` takes a name, so both need that names tell roots apart.  The code makes a name of the
  base name and 12 hexadecimal digits of the hash of the root; the hypotheses fail only when both collide.
- `NoRingCorrect`, from `StopInv`: a stop has at most one workspace lock and none while it waits for one, so
  stops over several roots in different orders cannot block each other.
- Facts about discovery, for every set of containers, without induction over steps.
  `ScopeMissesOnlyDrifted`: the discovery of one root misses, of those that claim it, exactly the
  containers whose hash is not the root's.  `TakenIsOfferedCorrect`, `OfferedIsTakenCorrect`: what connect
  and restart take is offered by their prompts, and what is offered is taken up to duplicates, colliding
  ids and malformed arguments.

**`Readiness_proofs`**, answers of any length cut up in any way, any response bound, deadline, number of
addresses and sessions (`ProbeAssumption`, `WaitAssumption`): `ReadyIsJustifiedCorrect` from `ReadInv`: the
reader is never past the bound or the answer, a verdict is the one its last exchange justifies, and the
rows of `health` so far are the first ones of the list.

**`LaunchPreparation_proofs`**, any hosts, commands, stored labels, contents, loaders and edits
(`EditsAssumption`, `ContentsAssumption`, `LaunchAssumption`).

- `TypeCorrect`, `ConfigSurvivesCorrect` from `ConfigInv`: the taken backup names have no gap and there
  are at most as many as contents written, so the search for a name ends; a loader about to rename has a free
  name as long as there is a file to move, because whoever takes the name takes the file with it.
- `PreparationFailsCleanlyCorrect`, `RestartKeepsSessionCorrect` from `ControlInv`, `TokenInv` and
  `SpecInv`, which follow container, token, limits and labels from step to step.  A preparation that
  fails before the stop leaves container and token as they were; one whose stop fails leaves the old
  container or none.

**`Passthrough_proofs`**, under the same assumptions: `PassthroughIsSoundCorrect`.  A lemma for each part
of the specification (`WorkspaceMounts`, `NixMounts`, `StateMounts`, `WaylandIs`, `CommitSigningIs`,
`KnownHostsIs`) says where it mounts, what it sets and that the two fit; `ListsJoin`, `OverIs` and
`PlacesDiffer` join the parts, no two of which share a variable or, the git root's and `CODEX_HOME`'s
mounts aside, a place.  The invariant `PassInv` says
which parts the specification consists of at each step, and that the host passed the preflight:
without it a state directory might resolve to no path.

**`ProcessCapture_proofs`**, any programs, that is any bytes on either stream in any order and any exit
status, and pipes of any size (`PipeAssumption`, `JobsAssumption`).

- `TypeCorrect`; `OutputCompleteCorrect` and `NothingIsLost` from `CaptureInv`.  Its part `FlowInv` accounts for
  each stream byte by byte: what was collected, the stream's events in the channel, the unfinished line and
  what is in the pipe lie one after the other in what was written.  The concatenation of the events would be
  a fold, about which nothing can be proved here; instead there is a function `cut` that says, for each event,
  behind how many bytes of the stream it ends (`Cuts`), and each step has a lemma that moves the cuts
  (`FlowsWrite`, `FlowsRead`, `FlowsCollect`, `FlowsSend`, `FlowsSendOther`, `FlowsReceive`).  The account is kept
  as long as there is no read error, neither noted nor in the channel (`NoErrors`), because a read error
  drops the unfinished line.  `EndedInv` says that without one a reader ends only when nothing more can come;
  so at the close of the channel everything was collected.  `LossyJoins` makes what is forwarded line by
  line equal to what is forwarded as a whole.
- `NeverStuck`: before the end the guard of a step of the program, a reader, the collector or a descendant
  holds (`SomebodyCan`).  This is the absence of deadlock for every pipe size; that the capture ends is
  `CaptureReturns`, which TLC checks.

Proved is every safety invariant and every action property of the passing runs.  Only model-checked is
liveness (`AcquireReturns`, `CommandsEnd`, `StopReturns`, `WaitReturns`, `CaptureReturns`): fairness and ENABLED
are out of the prover's reach.

## 5. What is not modelled

JSON decoding, label and header syntax, hashing, quoting, terminal output, prompts, completion,
Nix and shell code are data conversion or build-time code without shared state.  The error texts of
`session/conflict.rs` are wording over conditions that SessionDiscovery has.  The arguments and proxy
variables of the host client (`commands/runtime_command.rs`) are not modelled; whether it is there is
checked in LaunchPreparation and its end is in Lifecycle.  The system calls behind a fact of
the host (stat, access, connect) are one fact each.  In Lifecycle the container's labels are always well
formed (SessionDiscovery has the others), the preparation is a step that may fail
(LaunchPreparation has its steps) and the image is there or the preparation fails (RuntimeImages).
The wait of Lifecycle has its outcomes only; its loop is in Readiness.  A container is running,
exited or gone; that it may be paused is in none of the modules.

## 6. Plan

Done, in this order: lock and its refinement; lifecycle on one workspace; discovery and
selection; stop over several workspaces; images and clean; the first theorems; launch preparation
with configuration, preflight, development environment and passthrough; readiness, probes and
health; process execution.

Proved: all safety invariants and action properties of the runs that hold, among them the refinement of
`WorkspaceMutex`.
To model next: the interactive prompt of `stop`, `ps` and completion over SessionDiscovery.
