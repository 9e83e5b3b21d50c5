---------------------------- MODULE RuntimeImages ----------------------------
(***************************************************************************)
(* src/commands/runtime: the default runtime images and their metadata.    *)
(*                                                                         *)
(* A binary of agentbox has one default image per runtime: its reference   *)
(* is derived from the context the binary embeds, its content from the     *)
(* package version npm resolves when it is built.  A launch builds the     *)
(* image if it is missing, `runtime update` rebuilds it when the metadata  *)
(* file of the runtime does not say that it is up to date.  The file is    *)
(* shared by all binaries, workspaces and commands, and no lock protects   *)
(* it: the workspace lock of a launch is another one for each workspace.   *)
(***************************************************************************)
EXTENDS Naturals, Sequences, FiniteSets

CONSTANTS
    Procs,          \* the invocations
    Jobs,           \* their command lines
    Killable,       \* the invocations that may be killed
    Runtimes,
    Contexts,       \* the embedded image contexts: one per binary
    Workspaces,
    MaxVersion,     \* bound on the versions npm publishes
    Earlier,        \* an invocation that ended before the model starts
    None,
    Invalid,        \* a metadata file that does not parse
    Leftovers       \* what earlier commands may have left

Versions == 1..MaxVersion

\* A tagged image; by tells an image from its successor with the same tag.
Images == [runtime : Runtimes, context : Contexts, version : Versions,
           by : Procs \cup {Earlier}]
Metadata == [context : Contexts, version : Versions]
Volumes == [workspace : Workspaces, by : Procs \cup {Earlier}]
Containers == [workspace : Workspaces, image : Images]

Job == [op : {"launch", "update", "clean"}, context : Contexts,
        runtimes : Seq(Runtimes), workspace : Workspaces]

ASSUME ImagesAssumption ==
    /\ MaxVersion \in Nat \ {0}
    /\ Killable \subseteq Procs
    /\ Earlier \notin Procs
    /\ None # Invalid
    /\ None \notin Metadata /\ Invalid \notin Metadata /\ None \notin Images
    /\ None \notin Jobs
    /\ \A j \in Jobs :
          /\ j \in Job
          /\ j.op = "launch" => Len(j.runtimes) = 1
          /\ j.op = "update" => j.runtimes # <<>>
          \* one runtime, or --all: each runtime once
          /\ \A m, n \in 1..Len(j.runtimes) : j.runtimes[m] = j.runtimes[n] => m = n

\* Podman has one image per reference, one volume and one container per
\* workspace, and no invocation of the model made any of them.
ASSUME LeftoversAssumption ==
    \A l \in Leftovers :
        /\ l.images \subseteq Images /\ l.volumes \subseteq Volumes
        /\ l.containers \subseteq Containers
        /\ l.metadata \in [Runtimes -> Metadata \cup {None, Invalid}]
        /\ \A i, j \in l.images :
              i.runtime = j.runtime /\ i.context = j.context => i = j
        /\ \A v, w \in l.volumes : v.workspace = w.workspace => v = w
        /\ \A c, d \in l.containers : c.workspace = d.workspace => c = d
        /\ \A x \in l.images \cup l.volumes : x.by = Earlier

VARIABLES
    images,         \* Podman's tagged images with agentbox's labels
    metadata,       \* $STATE/runtime/<runtime>.json
    containers,     \* Podman's containers
    volumes,        \* Podman's cache volumes
    latest,         \* the latest version of each runtime's package
    cmd,            \* the state of each invocation
    built           \* history: every <<runtime, context, version>> built

podman == <<images, containers, volumes>>
vars == <<podman, metadata, latest, cmd, built>>

PCs == {"new", "resolve", "exists", "read", "build", "truncate", "write", "run",
        "ps", "inspect", "images", "volumes", "confirm", "apply", "state",
        "state_rm", "orphan", "done"}

Resources == Images \cup Volumes

Command ==
    [pc : PCs,
     job : Jobs \cup {None},
     todo : Seq(Runtimes),              \* runtimes still to be processed
     version : Versions \cup {None},    \* resolved by npm
     exists : BOOLEAN,                  \* what image_exists answered
     state : Metadata \cup {None},      \* the metadata to be written
     seen : SUBSET Containers,          \* clean: the inspected containers
     listed : SUBSET Images,            \* clean: the listed images
     plan : SUBSET Resources,           \* clean: the candidates
     left : SUBSET Resources,           \* clean: those not processed yet
     cur : Images \cup {None},          \* clean: the image just removed
     failed : BOOLEAN,                  \* clean: some removal failed
     result : {"none", "ok", "error", "declined", "killed"}]

NewCommand ==
    [pc |-> "new", job |-> None, todo |-> <<>>, version |-> None,
     exists |-> FALSE, state |-> None, seen |-> {}, listed |-> {}, plan |-> {},
     left |-> {}, cur |-> None, failed |-> FALSE,
     result |-> "none"]

Init ==
    /\ \E l \in Leftovers :
          /\ images = l.images /\ metadata = l.metadata
          /\ containers = l.containers /\ volumes = l.volumes
    /\ latest = [r \in Runtimes |-> 1]
    /\ cmd = [p \in Procs |-> NewCommand]
    /\ built = {<<i.runtime, i.context, i.version>> : i \in images}
               \cup {<<r, metadata[r].context, metadata[r].version>> :
                        r \in {s \in Runtimes : metadata[s] \notin {None, Invalid}}}

At(p, where) == cmd[p].pc = where
Op(p) == IF cmd[p].job = None THEN "none" ELSE cmd[p].job.op
Context(p) == cmd[p].job.context
Runtime(p) == Head(cmd[p].todo)
Step(p, to) == cmd' = [cmd EXCEPT ![p].pc = to]

\* What a command that has returned is remembered by.
Ended(c, r) ==
    [NewCommand EXCEPT !.pc = "done", !.job = c.job, !.result = r,
                       !.plan = IF r = "ok" THEN c.plan ELSE {}]

Finish(p, r) == cmd' = [cmd EXCEPT ![p] = Ended(@, r)]

Tagged(r, c) == {i \in images : i.runtime = r /\ i.context = c}

InUse(i) == \E c \in containers : c.image = i
Mounted(w) == \E c \in containers : c.workspace = w

AtWork(p) == cmd[p].pc \notin {"new", "done"}

\* A launch comes to its image with the lock of its workspace, and only if
\* that has no container yet (Lifecycle!DiscoverForLaunch).
Launchable(w) ==
    /\ ~Mounted(w)
    /\ \A q \in Procs :
          AtWork(q) /\ Op(q) = "launch" => cmd[q].job.workspace # w

Invoke(p, j) ==
    /\ At(p, "new")
    /\ j.op = "launch" => Launchable(j.workspace)
    /\ cmd' = [cmd EXCEPT
          ![p].pc = CASE j.op = "launch" -> "exists"
                      [] j.op = "update" -> "resolve"
                      [] j.op = "clean" -> "ps",
          ![p].job = j, ![p].todo = j.runtimes]
    /\ UNCHANGED <<podman, metadata, latest, built>>

(***************************************************************************)
(* ensure_default_runtime_image and update_default_runtime_image.          *)
(***************************************************************************)

\* npm view: an update asks first, a launch once the image is missing.
ResolveLatest(p) ==
    /\ At(p, "resolve")
    /\ cmd' = [cmd EXCEPT ![p].version = latest[Runtime(p)],
                          ![p].pc = IF Op(p) = "update" THEN "exists" ELSE "build"]
    /\ UNCHANGED <<podman, metadata, latest, built>>

ImageExists(p) ==
    /\ At(p, "exists")
    /\ LET there == Tagged(Runtime(p), Context(p)) # {}
       IN  cmd' = [cmd EXCEPT ![p].exists = there,
                              ![p].pc = IF Op(p) = "update" \/ there
                                        THEN "read" ELSE "resolve"]
    /\ UNCHANGED <<podman, metadata, latest, built>>

\* plan_runtime_image_update: RefreshState, else Rebuild.
UpToDate(p, state) ==
    /\ cmd[p].exists
    /\ state # None
    /\ state.version = cmd[p].version
    /\ state.context = Context(p)

\* read_state.  A launch only wants the version for a label.
ReadState(p) ==
    /\ At(p, "read")
    /\ LET state == metadata[Runtime(p)]
       IN  \/ state = Invalid /\ Finish(p, "error")
           \/ state # Invalid /\ Op(p) = "launch" /\ Step(p, "run")
           \/ /\ state # Invalid /\ Op(p) = "update"
              /\ IF UpToDate(p, state)
                 THEN cmd' = [cmd EXCEPT ![p].state = state, ![p].pc = "truncate"]
                 ELSE Step(p, "build")
    /\ UNCHANGED <<podman, metadata, latest, built>>

\* Mutant: the old image keeps its tag.
BuildKeepsTag(p) ==
    /\ images' = images \cup {[runtime |-> Runtime(p), context |-> Context(p),
                               version |-> cmd[p].version, by |-> p]}
    /\ built' = built \cup {<<Runtime(p), Context(p), cmd[p].version>>}
    /\ UNCHANGED <<containers, volumes, metadata, latest>>

\* podman build -t moves the tag; the old image stays without one.
Build(p) ==
    LET r == Runtime(p)
        c == Context(p)
    IN  /\ images' = (images \ Tagged(r, c)) \cup
              {[runtime |-> r, context |-> c, version |-> cmd[p].version, by |-> p]}
        /\ built' = built \cup {<<r, c, cmd[p].version>>}
        /\ UNCHANGED <<containers, volumes, metadata, latest>>

\* RuntimeImageState::new
NewState(p) == [context |-> Context(p), version |-> cmd[p].version]

\* Mutant: a failed build goes unnoticed.
BuildImageUnchecked(p) ==
    /\ At(p, "build")
    /\ Build(p) \/ UNCHANGED <<podman, metadata, latest, built>>
    /\ cmd' = [cmd EXCEPT ![p].state = NewState(p), ![p].pc = "truncate"]

BuildImage(p) ==
    /\ At(p, "build")
    /\ Build(p)
    /\ cmd' = [cmd EXCEPT ![p].state = NewState(p), ![p].pc = "truncate"]

\* fs::write truncates the file ...
TruncateState(p) ==
    /\ At(p, "truncate")
    /\ metadata' = [metadata EXCEPT ![Runtime(p)] = Invalid]
    /\ Step(p, "write")
    /\ UNCHANGED <<podman, latest, built>>

\* ... and writes it.  update --all goes on with the next runtime.
WriteState(p) ==
    /\ At(p, "write")
    /\ metadata' = [metadata EXCEPT ![Runtime(p)] = cmd[p].state]
    /\ IF Op(p) = "launch" THEN Step(p, "run")
       ELSE IF Len(cmd[p].todo) = 1 THEN Finish(p, "ok")
       ELSE cmd' = [cmd EXCEPT ![p].todo = Tail(@), ![p].pc = "resolve"]
    /\ UNCHANGED <<podman, latest, built>>

\* A child process or a file operation fails, and the command with it.
CallFails(p) ==
    /\ cmd[p].pc \in {"resolve", "exists", "read", "build", "truncate", "write",
                      "run", "ps", "inspect", "images", "volumes"}
    /\ Finish(p, "error")
    /\ UNCHANGED <<podman, metadata, latest, built>>

(***************************************************************************)
(* The rest of a launch, in brief (see Lifecycle), and its environment.    *)
(***************************************************************************)

\* podman run, which creates the cache volume; an image that is missing
\* cannot be pulled from localhost.
PodmanRun(p) ==
    /\ At(p, "run")
    /\ LET w == cmd[p].job.workspace
       IN  \/ /\ \E i \in Tagged(Runtime(p), Context(p)) :
                    containers' = containers \cup {[workspace |-> w, image |-> i]}
              /\ volumes' = IF \E v \in volumes : v.workspace = w THEN volumes
                            ELSE volumes \cup {[workspace |-> w, by |-> p]}
              /\ Finish(p, "ok")
           \/ /\ Tagged(Runtime(p), Context(p)) = {}
              /\ Finish(p, "error")
              /\ UNCHANGED <<containers, volumes>>
    /\ UNCHANGED <<images, metadata, latest, built>>

ContainerEnds(c) ==
    /\ containers' = containers \ {c}
    /\ UNCHANGED <<images, volumes, metadata, latest, cmd, built>>

\* Bound: MaxVersion.
Publish(r) ==
    /\ latest[r] < MaxVersion
    /\ latest' = [latest EXCEPT ![r] = @ + 1]
    /\ UNCHANGED <<podman, metadata, cmd, built>>

\* A podman build that its agentbox no longer waits for goes on.
Kill(p) ==
    /\ p \in Killable /\ AtWork(p) /\ ~At(p, "orphan")
    /\ IF At(p, "build") THEN Step(p, "orphan") ELSE Finish(p, "killed")
    /\ UNCHANGED <<podman, metadata, latest, built>>

OrphanBuild(p) ==
    /\ At(p, "orphan")
    /\ Build(p) \/ UNCHANGED <<podman, metadata, latest, built>>
    /\ Finish(p, "killed")

ImageStep(p) ==
    \/ ResolveLatest(p) \/ ImageExists(p) \/ ReadState(p) \/ BuildImage(p)
    \/ TruncateState(p) \/ WriteState(p) \/ PodmanRun(p) \/ CallFails(p)
    \/ Kill(p) \/ OrphanBuild(p)

Environment ==
    \/ \E c \in containers : ContainerEnds(c)
    \/ \E r \in Runtimes : Publish(r)
=============================================================================
