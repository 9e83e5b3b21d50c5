---------------------------- MODULE Clean_proofs ----------------------------
(***************************************************************************)
(* Proofs about Clean and RuntimeImages: any number of launches, updates   *)
(* and cleans of any number of binaries, runtimes and workspaces, any of   *)
(* them killed anywhere.                                                   *)
(***************************************************************************)
EXTENDS Clean, TLAPS

-----------------------------------------------------------------------------
(* The inductive invariant. *)

ImagePCs == {"resolve", "exists", "read", "build", "truncate", "write", "run",
             "orphan"}
CleanPCs == {"ps", "inspect", "images", "volumes", "confirm", "apply", "state",
             "state_rm"}

NoDuplicates(s) == \A m, n \in 1..Len(s) : s[m] = s[n] => m = n

Elements(s) == {s[n] : n \in 1..Len(s)}

\* Which commands pass through a program counter, and what they carry.
OnPath(p) ==
    /\ At(p, "new") <=> cmd[p].job = None
    /\ ~At(p, "done") => cmd[p].result = "none"
    /\ NoDuplicates(cmd[p].todo)
    /\ cmd[p].pc \in ImagePCs =>
          Op(p) \in {"launch", "update"} /\ cmd[p].todo # <<>>
    /\ At(p, "run") => Op(p) = "launch"
    /\ cmd[p].pc \in CleanPCs => Op(p) = "clean"
    /\ \/ cmd[p].pc \in {"build", "orphan"}
       \/ Op(p) = "update" /\ cmd[p].pc \in {"exists", "read"}
       => cmd[p].version \in Versions
    /\ cmd[p].pc \in {"state", "state_rm"} <=> cmd[p].cur # None

\* The metadata a command is about to write is of its own binary and of an
\* image that was built.
StateIsBuilt(p) ==
    cmd[p].pc \in {"truncate", "write"} =>
        /\ cmd[p].state \in Metadata
        /\ cmd[p].state.context = Context(p)
        /\ <<Runtime(p), cmd[p].state.context, cmd[p].state.version>> \in built

\* The runtimes p may still build an image of.
ToBuild(p) ==
    IF At(p, "new") THEN Runtimes
    ELSE IF cmd[p].pc \in {"resolve", "exists", "read", "build", "orphan"}
         THEN Elements(cmd[p].todo)
    ELSE IF cmd[p].pc \in {"truncate", "write"} THEN Elements(Tail(cmd[p].todo))
    ELSE {}

\* The images and volumes there are, or that some clean knows of.
KnownImages ==
    images \cup UNION {(cmd[q].plan \cup cmd[q].listed) \cap Images : q \in Procs}
KnownVolumes == volumes \cup UNION {cmd[q].plan \cap Volumes : q \in Procs}

\* A command makes an image of a runtime, and a volume, only once.
Fresh(p) ==
    /\ \A i \in KnownImages : i.by = p => i.runtime \notin ToBuild(p)
    /\ ~At(p, "done") => \A v \in KnownVolumes : v.by # p

\* The launches at work are in workspaces of their own, without a container.
LaunchAlone(p) ==
    AtWork(p) /\ Op(p) = "launch" =>
        /\ ~Mounted(cmd[p].job.workspace)
        /\ \A q \in Procs \ {p} : AtWork(q) /\ Op(q) = "launch" =>
              cmd[q].job.workspace # cmd[p].job.workspace

AnotherCleans(p) ==
    \E q \in Procs : Op(q) = "clean" /\ Context(q) # Context(p)

\* From the check of a launch on, its image is there.
Ensured(p) ==
    Op(p) = "launch" /\ cmd[p].pc \in {"read", "truncate", "write", "run"} =>
        Tagged(Runtime(p), Context(p)) # {} \/ AnotherCleans(p)

\* What a clean has not removed yet is neither of its own binary nor used by
\* a container it has seen.
Candidates(p) ==
    /\ cmd[p].left \subseteq cmd[p].plan
    /\ cmd[p].left # {} => cmd[p].pc \in {"confirm", "apply", "state", "state_rm"}
    /\ \A x \in cmd[p].left :
          IF IsImage(x) THEN x.context # Context(p) /\ ~ImageUsed(p, x)
                        ELSE ~VolumeUsed(p, x)

\* A metadata file that names an image is of a command of its binary.
Accounted(i) ==
    LET state == metadata[i.runtime]
    IN  state \notin {None, Invalid} /\ state.context = i.context =>
            \E q \in Procs : Op(q) \in {"launch", "update"} /\ Context(q) = i.context

\* What a clean has removed, without a failure so far.
Removed(p) ==
    IF \/ cmd[p].pc \in {"confirm", "apply", "state", "state_rm"} /\ ~cmd[p].failed
       \/ cmd[p].result = "ok" /\ Op(p) = "clean"
    THEN cmd[p].plan \ cmd[p].left
    ELSE {}

\* It is gone, and so is its metadata but for the image in hand.
RemovedIsGone(p) ==
    /\ Removed(p) \cap (images \cup volumes) = {}
    /\ \A i \in Removed(p) \cap Images : i # cmd[p].cur => Accounted(i)

Personal(p) ==
    /\ OnPath(p) /\ StateIsBuilt(p) /\ Fresh(p) /\ LaunchAlone(p) /\ Ensured(p)
    /\ Candidates(p) /\ RemovedIsGone(p)

ImageInv ==
    /\ TypeOK
    /\ RecordedWasBuilt
    /\ \A p \in Procs : Personal(p)

-----------------------------------------------------------------------------
(* Helpers. *)

StepOf(p) ==
    (\E j \in Jobs : Invoke(p, j)) \/ ImageStep(p) \/ CleanStep(p)

\* Podman's names for images and volumes are apart.
LEMMA NoImageIsVolume == Images \cap Volumes = {}
  <1> SUFFICES ASSUME NEW x \in Images, x \in Volumes PROVE FALSE
    OBVIOUS
  <1>1. DOMAIN x = {"runtime", "context", "version", "by"}
    BY DEF Images
  <1>2. DOMAIN x = {"workspace", "by"}
    BY DEF Volumes
  <1>3. QED
    BY <1>1, <1>2

\* The runtimes of a list without duplicates, one after the other.
LEMMA HeadOnce ==
    ASSUME NEW S, NEW s \in Seq(S), s # <<>>, NoDuplicates(s)
    PROVE  /\ Head(s) \in S /\ Head(s) \in Elements(s)
           /\ Tail(s) \in Seq(S) /\ NoDuplicates(Tail(s))
           /\ Elements(Tail(s)) \subseteq Elements(s)
           /\ Head(s) \notin Elements(Tail(s))
  <1>1. /\ Len(s) \in Nat \ {0} /\ Head(s) = s[1] /\ s[1] \in S
        /\ Tail(s) \in Seq(S) /\ Len(Tail(s)) = Len(s) - 1
        /\ \A n \in 1..Len(Tail(s)) : Tail(s)[n] = s[n + 1]
    OBVIOUS
  <1>2. \A n \in 1..Len(Tail(s)) : n + 1 \in 1..Len(s)
    BY <1>1
  <1>3. NoDuplicates(Tail(s))
    BY <1>1, <1>2 DEF NoDuplicates
  <1>4. Elements(Tail(s)) \subseteq Elements(s)
    BY <1>1, <1>2 DEF Elements
  <1>5. Head(s) \notin Elements(Tail(s))
    BY <1>1, <1>2 DEF Elements, NoDuplicates
  <1>6. QED
    BY <1>1, <1>3, <1>4, <1>5 DEF Elements

-----------------------------------------------------------------------------
(* What the actions do to the state of a command, field by field. *)

Typed(p) ==
    cmd' \in [Procs -> Command] /\ \A q \in Procs \ {p} : cmd'[q] = cmd[q]

KeepsJob(p) == cmd'[p].job = cmd[p].job /\ cmd'[p].result = cmd[p].result

KeepsTodo(p) == cmd'[p].todo = cmd[p].todo

KeepsImage(p) ==
    /\ cmd'[p].version = cmd[p].version /\ cmd'[p].exists = cmd[p].exists
    /\ cmd'[p].state = cmd[p].state

KeepsInventory(p) ==
    /\ cmd'[p].seen = cmd[p].seen /\ cmd'[p].listed = cmd[p].listed

KeepsPlan(p) ==
    /\ cmd'[p].plan = cmd[p].plan /\ cmd'[p].left = cmd[p].left
    /\ cmd'[p].cur = cmd[p].cur /\ cmd'[p].failed = cmd[p].failed

Podman == UNCHANGED <<images, containers, volumes, metadata, latest, built>>

\* p goes on, and nothing else of its state changes.
Moves(p, to) ==
    /\ Typed(p) /\ cmd'[p].pc = to /\ KeepsJob(p) /\ KeepsTodo(p)
    /\ KeepsImage(p) /\ KeepsInventory(p) /\ KeepsPlan(p)

\* p returns: it keeps its command line, and its plan if all went well.
Ends(p, r) ==
    /\ Typed(p) /\ cmd'[p].pc = "done"
    /\ cmd'[p].job = cmd[p].job /\ cmd'[p].result = r
    /\ cmd'[p].todo = <<>> /\ cmd'[p].listed = {} /\ cmd'[p].left = {}
    /\ cmd'[p].plan = (IF r = "ok" THEN cmd[p].plan ELSE {})
    /\ cmd'[p].cur = None

\* What Step does.
LEMMA StepEffect ==
    ASSUME cmd \in [Procs -> Command], NEW p \in Procs, NEW to \in PCs, Step(p, to)
    PROVE  Moves(p, to)
  <1>1. cmd[p] \in Command
    OBVIOUS
  <1>2. [cmd[p] EXCEPT !.pc = to] \in Command
    BY <1>1 DEF Command
  <1>3. Typed(p) /\ cmd'[p] = [cmd[p] EXCEPT !.pc = to]
    BY <1>2 DEF Step, Typed
  <1>4. QED
    BY <1>1, <1>3 DEF Command, Moves, KeepsJob, KeepsTodo, KeepsImage,
                      KeepsInventory, KeepsPlan

\* What Finish does.
LEMMA FinishEffect ==
    ASSUME cmd \in [Procs -> Command], NEW p \in Procs,
           NEW r \in {"ok", "error", "declined", "killed"}, Finish(p, r)
    PROVE  Ends(p, r)
  <1>1. cmd[p] \in Command
    OBVIOUS
  <1>2. NewCommand \in
          [pc : {"new"}, job : {None}, todo : {<<>>}, version : {None},
           exists : {FALSE}, state : {None}, seen : {{}}, listed : {{}},
           plan : {{}}, left : {{}}, cur : {None}, failed : {FALSE},
           result : {"none"}]
    BY DEF NewCommand
  <1>3. Ended(cmd[p], r) \in
          [pc : {"done"}, job : {cmd[p].job}, todo : {<<>>}, version : {None},
           exists : {FALSE}, state : {None}, seen : {{}}, listed : {{}},
           plan : {IF r = "ok" THEN cmd[p].plan ELSE {}}, left : {{}},
           cur : {None}, failed : {FALSE}, result : {r}]
    BY <1>2 DEF Ended
  <1>4. /\ cmd[p].job \in Jobs \cup {None} /\ cmd[p].plan \in SUBSET Resources
        /\ "done" \in PCs /\ <<>> \in Seq(Runtimes)
    BY <1>1 DEF Command, PCs
  <1>5. Ended(cmd[p], r) \in Command
    BY <1>3, <1>4 DEF Command
  <1>6. Typed(p) /\ cmd'[p] = Ended(cmd[p], r)
    BY <1>5 DEF Finish, Typed
  <1>7. QED
    BY <1>3, <1>6 DEF Ends

-----------------------------------------------------------------------------
(* The actions, in these terms. *)

\* A command starts.
LEMMA InvokeDoes ==
    ASSUME ImageInv, NEW p \in Procs, NEW j \in Jobs, Invoke(p, j)
    PROVE  /\ Typed(p) /\ Podman /\ cmd'[p].job = j /\ cmd'[p].todo = j.runtimes
           /\ cmd'[p].pc = (IF j.op = "launch" THEN "exists"
                            ELSE IF j.op = "update" THEN "resolve" ELSE "ps")
           /\ cmd'[p].result = cmd[p].result
           /\ KeepsInventory(p) /\ KeepsPlan(p)
  <1>1. cmd \in [Procs -> Command] /\ cmd[p] \in Command
    BY DEF ImageInv, TypeOK
  <1>2. j \in Job /\ j.runtimes \in Seq(Runtimes)
    BY ImagesAssumption DEF Job
  <1>3. PICK to \in PCs :
          /\ to = (IF j.op = "launch" THEN "exists"
                   ELSE IF j.op = "update" THEN "resolve" ELSE "ps")
          /\ cmd' = [cmd EXCEPT ![p].pc = to, ![p].job = j, ![p].todo = j.runtimes]
    BY <1>2 DEF Invoke, Job, PCs
  <1>4. to \in PCs
    BY <1>1, <1>2, <1>3
  <1>5. j.runtimes \in Seq(Runtimes)
    BY <1>1, <1>2, <1>3
  <1>6. [cmd[p] EXCEPT !.pc = to, !.job = j, !.todo = j.runtimes] \in Command
    BY <1>1, <1>4, <1>5 DEF Command
  <1>7. Typed(p) /\ cmd'[p] = [cmd[p] EXCEPT !.pc = to, !.job = j, !.todo = j.runtimes]
    BY <1>1, <1>6, <1>3 DEF Typed
  <1>8. Podman
    BY DEF Invoke, podman, Podman
  <1>9. QED
    BY <1>1, <1>4, <1>5, <1>3, <1>7, <1>8
    DEF Command, KeepsJob, KeepsTodo, KeepsImage, KeepsInventory, KeepsPlan

\* A command that works on an image knows of which runtime.
LEMMA RuntimeTyped ==
    ASSUME ImageInv, NEW p \in Procs, cmd[p].pc \in ImagePCs
    PROVE  /\ Runtime(p) \in Runtimes /\ Runtime(p) \in Elements(cmd[p].todo)
           /\ Tail(cmd[p].todo) \in Seq(Runtimes)
           /\ NoDuplicates(Tail(cmd[p].todo))
           /\ Elements(Tail(cmd[p].todo)) \subseteq Elements(cmd[p].todo)
           /\ Runtime(p) \notin Elements(Tail(cmd[p].todo))
           /\ cmd[p].job \in Jobs /\ Context(p) \in Contexts
  <1>1. cmd[p].todo \in Seq(Runtimes) /\ cmd[p].job \in Jobs \cup {None}
    BY DEF ImageInv, TypeOK, Command
  <1>2. cmd[p].todo # <<>> /\ NoDuplicates(cmd[p].todo) /\ cmd[p].job # None
    BY DEF ImageInv, Personal, OnPath, Op
  <1>3. Context(p) \in Contexts
    BY <1>1, <1>2, ImagesAssumption DEF Context, Job
  <1>4. QED
    BY <1>1, <1>2, <1>3, HeadOnce DEF Runtime

\* npm resolves a version.
LEMMA ResolveLatestDoes ==
    ASSUME ImageInv, NEW p \in Procs, ResolveLatest(p)
    PROVE  /\ Typed(p) /\ Podman /\ cmd'[p].version \in Versions
           /\ cmd'[p].pc = (IF Op(p) = "update" THEN "exists" ELSE "build")
           /\ KeepsJob(p) /\ KeepsTodo(p) /\ KeepsInventory(p) /\ KeepsPlan(p)
  <1>1. cmd \in [Procs -> Command] /\ cmd[p] \in Command
    BY DEF ImageInv, TypeOK
  <1>2. latest[Runtime(p)] \in Versions
    BY RuntimeTyped DEF ResolveLatest, At, ImagePCs, ImageInv, TypeOK
  <1>3. PICK to \in PCs :
          /\ to = (IF Op(p) = "update" THEN "exists" ELSE "build")
          /\ cmd' = [cmd EXCEPT ![p].version = latest[Runtime(p)], ![p].pc = to]
    BY DEF ResolveLatest, PCs
  <1>4. to \in PCs
    BY <1>1, <1>2, <1>3
  <1>5. latest[Runtime(p)] \in Versions
    BY <1>1, <1>2, <1>3
  <1>6. [cmd[p] EXCEPT !.version = latest[Runtime(p)], !.pc = to] \in Command
    BY <1>1, <1>4, <1>5 DEF Command
  <1>7. Typed(p) /\ cmd'[p] = [cmd[p] EXCEPT !.version = latest[Runtime(p)], !.pc = to]
    BY <1>1, <1>6, <1>3 DEF Typed
  <1>8. Podman
    BY DEF ResolveLatest, podman, Podman
  <1>9. QED
    BY <1>1, <1>4, <1>5, <1>3, <1>7, <1>8
    DEF Command, KeepsJob, KeepsTodo, KeepsImage, KeepsInventory, KeepsPlan

\* podman image exists answers.
LEMMA ImageExistsDoes ==
    ASSUME ImageInv, NEW p \in Procs, ImageExists(p)
    PROVE  /\ Typed(p) /\ Podman
           /\ cmd'[p].pc = (IF Op(p) = "update" \/ Tagged(Runtime(p), Context(p)) # {}
                            THEN "read" ELSE "resolve")
           /\ cmd'[p].version = cmd[p].version
           /\ KeepsJob(p) /\ KeepsTodo(p) /\ KeepsInventory(p) /\ KeepsPlan(p)
  <1>1. cmd \in [Procs -> Command] /\ cmd[p] \in Command
    BY DEF ImageInv, TypeOK
  <1>2. PICK there \in BOOLEAN, to \in PCs :
          /\ there = (Tagged(Runtime(p), Context(p)) # {})
          /\ to = (IF Op(p) = "update" \/ there THEN "read" ELSE "resolve")
          /\ cmd' = [cmd EXCEPT ![p].exists = there, ![p].pc = to]
    BY DEF ImageExists, PCs
  <1>3. to \in PCs
    BY <1>1, <1>2
  <1>4. there \in BOOLEAN
    BY <1>1, <1>2
  <1>5. [cmd[p] EXCEPT !.exists = there, !.pc = to] \in Command
    BY <1>1, <1>3, <1>4 DEF Command
  <1>6. Typed(p) /\ cmd'[p] = [cmd[p] EXCEPT !.exists = there, !.pc = to]
    BY <1>1, <1>5, <1>2 DEF Typed
  <1>7. Podman
    BY DEF ImageExists, podman, Podman
  <1>8. QED
    BY <1>1, <1>3, <1>4, <1>2, <1>6, <1>7
    DEF Command, KeepsJob, KeepsTodo, KeepsImage, KeepsInventory, KeepsPlan

\* A clean lists the containers.
LEMMA PsAllDoes ==
    ASSUME ImageInv, NEW p \in Procs, PsAll(p)
    PROVE  /\ Typed(p) /\ Podman /\ cmd'[p].pc = "inspect"
           /\ cmd'[p].listed = cmd[p].listed
           /\ KeepsJob(p) /\ KeepsTodo(p) /\ KeepsPlan(p)
  <1>1. cmd \in [Procs -> Command] /\ cmd[p] \in Command
    BY DEF ImageInv, TypeOK
  <1>2. containers \in SUBSET Containers
    BY DEF ImageInv, TypeOK
  <1>3. [cmd[p] EXCEPT !.seen = containers, !.pc = "inspect"] \in Command
    BY <1>1, <1>2 DEF Command, PCs
  <1>4. Typed(p) /\ cmd'[p] = [cmd[p] EXCEPT !.seen = containers, !.pc = "inspect"]
    BY <1>1, <1>3 DEF PsAll, Typed
  <1>5. Podman
    BY DEF PsAll, podman, Podman
  <1>6. QED
    BY <1>1, <1>2, <1>4, <1>5
    DEF Command, KeepsJob, KeepsTodo, KeepsImage, KeepsInventory, KeepsPlan

\* A clean lists the images.
LEMMA ListImagesDoes ==
    ASSUME ImageInv, NEW p \in Procs, ListImages(p)
    PROVE  /\ Typed(p) /\ Podman /\ cmd'[p].pc = "volumes"
           /\ cmd'[p].listed = images
           /\ KeepsJob(p) /\ KeepsTodo(p) /\ KeepsPlan(p)
  <1>1. cmd \in [Procs -> Command] /\ cmd[p] \in Command
    BY DEF ImageInv, TypeOK
  <1>2. images \in SUBSET Images
    BY DEF ImageInv, TypeOK
  <1>3. [cmd[p] EXCEPT !.listed = images, !.pc = "volumes"] \in Command
    BY <1>1, <1>2 DEF Command, PCs
  <1>4. Typed(p) /\ cmd'[p] = [cmd[p] EXCEPT !.listed = images, !.pc = "volumes"]
    BY <1>1, <1>3 DEF ListImages, Typed
  <1>5. Podman
    BY DEF ListImages, podman, Podman
  <1>6. QED
    BY <1>1, <1>2, <1>4, <1>5
    DEF Command, KeepsJob, KeepsTodo, KeepsImage, KeepsInventory, KeepsPlan

\* A clean lists the volumes and plans.
LEMMA ListVolumesDoes ==
    ASSUME ImageInv, NEW p \in Procs, ListVolumes(p)
    PROVE  /\ Typed(p) /\ Podman /\ cmd'[p].pc = "confirm"
           /\ cmd'[p].plan = {i \in cmd[p].listed : ImageCandidate(p, i)}
                            \cup {v \in volumes : ~VolumeUsed(p, v)}
           /\ cmd'[p].left = cmd'[p].plan /\ cmd'[p].cur = cmd[p].cur
           /\ KeepsJob(p) /\ KeepsTodo(p) /\ KeepsInventory(p)
  <1>1. cmd \in [Procs -> Command] /\ cmd[p] \in Command
    BY DEF ImageInv, TypeOK
  <1>2. PICK plan \in SUBSET Resources :
          /\ plan = {i \in cmd[p].listed : ImageCandidate(p, i)}
                    \cup {v \in volumes : ~VolumeUsed(p, v)}
          /\ cmd' = [cmd EXCEPT ![p].plan = plan, ![p].left = plan,
                                ![p].pc = "confirm"]
    BY <1>1 DEF ListVolumes, ImageInv, TypeOK, Command, Resources
  <1>3. plan \in SUBSET Resources
    BY <1>1, <1>2
  <1>4. [cmd[p] EXCEPT !.plan = plan, !.left = plan, !.pc = "confirm"] \in Command
    BY <1>1, <1>3 DEF Command, PCs
  <1>5. Typed(p) /\ cmd'[p] = [cmd[p] EXCEPT !.plan = plan, !.left = plan, !.pc = "confirm"]
    BY <1>1, <1>4, <1>2 DEF Typed
  <1>6. Podman
    BY DEF ListVolumes, podman, Podman
  <1>7. QED
    BY <1>1, <1>3, <1>2, <1>5, <1>6
    DEF Command, KeepsJob, KeepsTodo, KeepsImage, KeepsInventory, KeepsPlan

\* p is about to write s.
Carries(p, s) ==
    /\ Typed(p) /\ cmd'[p].pc = "truncate" /\ cmd'[p].state = s
    /\ KeepsJob(p) /\ KeepsTodo(p) /\ KeepsInventory(p) /\ KeepsPlan(p)

\* What the actions that decide on the metadata to write do.
LEMMA CarriesEffect ==
    ASSUME cmd \in [Procs -> Command], NEW p \in Procs, NEW s \in Metadata,
           cmd' = [cmd EXCEPT ![p].state = s, ![p].pc = "truncate"]
    PROVE  Carries(p, s)
  <1>1. cmd[p] \in Command
    OBVIOUS
  <1>2. [cmd[p] EXCEPT !.state = s, !.pc = "truncate"] \in Command
    BY <1>1 DEF Command, PCs
  <1>3. Typed(p) /\ cmd'[p] = [cmd[p] EXCEPT !.state = s, !.pc = "truncate"]
    BY <1>2 DEF Typed
  <1>4. QED
    BY <1>1, <1>3 DEF Command, Carries, KeepsJob, KeepsTodo, KeepsInventory,
                      KeepsPlan

\* The metadata file is read: it is not valid, a launch goes on, an update
\* rebuilds, or it finds the image up to date.
LEMMA ReadStateDoes ==
    ASSUME ImageInv, NEW p \in Procs, ReadState(p)
    PROVE  /\ Podman
           /\ \/ Ends(p, "error")
              \/ Op(p) = "launch" /\ Moves(p, "run")
              \/ Op(p) = "update" /\ Moves(p, "build")
              \/ /\ Op(p) = "update" /\ Carries(p, metadata[Runtime(p)])
                 /\ metadata[Runtime(p)] \in Metadata
                 /\ metadata[Runtime(p)].context = Context(p)
  <1>1. cmd \in [Procs -> Command] /\ Runtime(p) \in Runtimes
    BY RuntimeTyped DEF ImageInv, TypeOK, ReadState, At, ImagePCs
  <1>2. Podman
    BY DEF ReadState, podman, Podman
  <1>3. CASE Finish(p, "error")
    BY <1>1, <1>2, <1>3, FinishEffect
  <1>4. CASE Op(p) = "launch" /\ Step(p, "run")
    BY <1>1, <1>2, <1>4, StepEffect DEF PCs
  <1>5. CASE Op(p) = "update" /\ Step(p, "build")
    BY <1>1, <1>2, <1>5, StepEffect DEF PCs
  <1>6. ASSUME Op(p) = "update", metadata[Runtime(p)] # Invalid,
               UpToDate(p, metadata[Runtime(p)]),
               cmd' = [cmd EXCEPT ![p].state = metadata[Runtime(p)],
                                  ![p].pc = "truncate"]
        PROVE  /\ Op(p) = "update" /\ Carries(p, metadata[Runtime(p)])
               /\ metadata[Runtime(p)] \in Metadata
               /\ metadata[Runtime(p)].context = Context(p)
    <2>1. metadata[Runtime(p)] \in Metadata
      BY <1>1, <1>6 DEF ImageInv, TypeOK, UpToDate
    <2>2. QED
      BY <1>1, <1>6, <2>1, CarriesEffect DEF UpToDate
  <1>7. QED
    BY <1>2, <1>3, <1>4, <1>5, <1>6 DEF ReadState

\* An image of p's runtime and binary is built and gets the tag.
Builds(p, i) ==
    /\ i \in Images /\ i.runtime = Runtime(p) /\ i.context = Context(p)
    /\ i.version = cmd[p].version /\ i.by = p
    /\ images' = (images \ Tagged(Runtime(p), Context(p))) \cup {i}
    /\ built' = built \cup {<<Runtime(p), Context(p), cmd[p].version>>}
    /\ UNCHANGED <<containers, volumes, metadata, latest>>

\* What podman build does.
LEMMA BuildEffect ==
    ASSUME ImageInv, NEW p \in Procs, cmd[p].pc \in {"build", "orphan"}, Build(p)
    PROVE  \E i \in Images : Builds(p, i)
  <1>1. /\ cmd[p].version \in Versions
        /\ Runtime(p) \in Runtimes /\ Context(p) \in Contexts
    BY RuntimeTyped DEF ImageInv, Personal, OnPath, ImagePCs
  <1>2. PICK i : i = [runtime |-> Runtime(p), context |-> Context(p),
                      version |-> cmd[p].version, by |-> p]
    OBVIOUS
  <1>3. i \in Images
    BY <1>1, <1>2 DEF Images
  <1>4. QED
    BY <1>2, <1>3 DEF Build, Builds

\* The image is built, and what it was built from is to be written.
LEMMA BuildImageDoes ==
    ASSUME ImageInv, NEW p \in Procs, BuildImage(p)
    PROVE  /\ NewState(p) \in Metadata /\ Carries(p, NewState(p))
           /\ \E i \in Images : Builds(p, i)
  <1>1. cmd \in [Procs -> Command]
    BY DEF ImageInv, TypeOK
  <1>2. cmd[p].version \in Versions /\ Context(p) \in Contexts
    BY RuntimeTyped DEF BuildImage, At, ImageInv, Personal, OnPath, ImagePCs
  <1>3. NewState(p) \in Metadata
    BY <1>2 DEF NewState, Metadata
  <1>4. Carries(p, NewState(p))
    BY <1>1, <1>3, CarriesEffect DEF BuildImage
  <1>5. QED
    BY <1>3, <1>4, BuildEffect DEF BuildImage, At

\* An orphaned build may still move the tag.
LEMMA OrphanBuildDoes ==
    ASSUME ImageInv, NEW p \in Procs, OrphanBuild(p)
    PROVE  Ends(p, "killed") /\ (Podman \/ \E i \in Images : Builds(p, i))
  <1>1. Ends(p, "killed")
    BY FinishEffect DEF OrphanBuild, ImageInv, TypeOK
  <1>2. Podman \/ Build(p)
    BY DEF OrphanBuild, podman, Podman
  <1>3. QED
    BY <1>1, <1>2, BuildEffect DEF OrphanBuild, At

\* The metadata is written, and the command goes on, ends or takes up the
\* next runtime.
LEMMA WriteStateDoes ==
    ASSUME ImageInv, NEW p \in Procs, WriteState(p)
    PROVE  /\ metadata' = [metadata EXCEPT ![Runtime(p)] = cmd[p].state]
           /\ UNCHANGED <<images, containers, volumes, latest, built>>
           /\ \/ Op(p) = "launch" /\ Moves(p, "run")
              \/ Ends(p, "ok") /\ Op(p) = "update"
              \/ /\ Op(p) = "update"
                 /\ Typed(p) /\ cmd'[p].pc = "resolve"
                 /\ cmd'[p].todo = Tail(cmd[p].todo) /\ Tail(cmd[p].todo) # <<>>
                 /\ KeepsJob(p) /\ KeepsInventory(p) /\ KeepsPlan(p)
  <1>1. /\ cmd \in [Procs -> Command] /\ cmd[p] \in Command
        /\ Op(p) \in {"launch", "update"}
        /\ cmd[p].todo \in Seq(Runtimes) /\ cmd[p].todo # <<>>
        /\ Tail(cmd[p].todo) \in Seq(Runtimes)
    BY RuntimeTyped
    DEF ImageInv, TypeOK, WriteState, At, ImagePCs, Personal, OnPath, Command
  <1>2. /\ metadata' = [metadata EXCEPT ![Runtime(p)] = cmd[p].state]
        /\ UNCHANGED <<images, containers, volumes, latest, built>>
    BY DEF WriteState, podman
  <1>3. CASE Op(p) = "launch"
    <2>1. Step(p, "run")
      BY <1>3 DEF WriteState
    <2>2. QED
      BY <1>1, <1>2, <1>3, <2>1, StepEffect DEF PCs
  <1>4. CASE Op(p) # "launch" /\ Len(cmd[p].todo) = 1
    <2>1. Finish(p, "ok")
      BY <1>4 DEF WriteState
    <2>2. QED
      BY <1>1, <1>2, <1>4, <2>1, FinishEffect
  <1>5. CASE Op(p) # "launch" /\ Len(cmd[p].todo) # 1
    <2>1. PICK s \in Seq(Runtimes) :
            /\ s = Tail(cmd[p].todo)
            /\ cmd' = [cmd EXCEPT ![p].todo = s, ![p].pc = "resolve"]
      BY <1>1, <1>5 DEF WriteState
    <2>2. s # <<>>
      <3>1. Len(cmd[p].todo) \in Nat \ {0, 1}
        BY <1>1, <1>5
      <3>2. Len(s) = Len(cmd[p].todo) - 1
        BY <1>1, <2>1
      <3>3. Len(s) # 0
        BY <3>1, <3>2
      <3>4. s = <<>> => Len(s) = 0
        OBVIOUS
      <3>5. QED
        BY <3>3, <3>4
    <2>3. [cmd[p] EXCEPT !.todo = s, !.pc = "resolve"] \in Command
      BY <1>1 DEF Command, PCs
    <2>4. Typed(p) /\ cmd'[p] = [cmd[p] EXCEPT !.todo = s, !.pc = "resolve"]
      BY <1>1, <2>1, <2>3 DEF Typed
    <2>5. /\ cmd'[p].pc = "resolve" /\ cmd'[p].todo = s
          /\ KeepsJob(p) /\ KeepsInventory(p) /\ KeepsPlan(p)
      BY <1>1, <2>4 DEF Command, KeepsJob, KeepsInventory, KeepsPlan
    <2>6. QED
      BY <1>1, <1>2, <1>5, <2>1, <2>2, <2>4, <2>5
  <1>6. QED
    BY <1>3, <1>4, <1>5

\* p loses a call, is killed, or takes a step that changes nothing but where
\* it is.
LEMMA PlainDoes ==
    ASSUME ImageInv, NEW p \in Procs,
           \/ CallFails(p) \/ Kill(p) \/ InspectAll(p) \/ Decline(p) \/ Confirm(p)
           \/ ApplyDone(p)
    PROVE  /\ Podman
           /\ \/ \E r \in {"error", "declined", "killed"} : Ends(p, r)
              \/ Ends(p, "ok") /\ At(p, "apply") /\ cmd[p].left = {} /\ ~cmd[p].failed
              \/ At(p, "build") /\ Moves(p, "orphan")
              \/ At(p, "inspect") /\ Moves(p, "images")
              \/ At(p, "confirm") /\ Moves(p, "apply")
  <1>1. cmd \in [Procs -> Command]
    BY DEF ImageInv, TypeOK
  <1>2. Podman
    BY DEF CallFails, Kill, InspectAll, Decline, Confirm, ApplyDone, podman, Podman
  <1>3. CASE CallFails(p) \/ Decline(p)
    BY <1>1, <1>2, <1>3, FinishEffect DEF CallFails, Decline
  <1>4. CASE Kill(p)
    BY <1>1, <1>2, <1>4, FinishEffect, StepEffect DEF Kill, PCs
  <1>5. CASE InspectAll(p)
    BY <1>1, <1>2, <1>5, FinishEffect, StepEffect DEF InspectAll, PCs
  <1>6. CASE Confirm(p)
    BY <1>1, <1>2, <1>6, StepEffect DEF Confirm, PCs
  <1>7. CASE ApplyDone(p)
    BY <1>1, <1>2, <1>7, FinishEffect DEF ApplyDone
  <1>8. QED
    BY <1>3, <1>4, <1>5, <1>6, <1>7

\* The metadata file is truncated.
LEMMA TruncateStateDoes ==
    ASSUME ImageInv, NEW p \in Procs, TruncateState(p)
    PROVE  /\ metadata' = [metadata EXCEPT ![Runtime(p)] = Invalid]
           /\ UNCHANGED <<images, containers, volumes, latest, built>>
           /\ Moves(p, "write")
  BY StepEffect DEF TruncateState, podman, ImageInv, TypeOK, PCs

\* The launch has its container, or fails for want of an image.
LEMMA PodmanRunDoes ==
    ASSUME ImageInv, NEW p \in Procs, PodmanRun(p)
    PROVE  /\ UNCHANGED <<images, metadata, latest, built>>
           /\ Op(p) = "launch" /\ cmd[p].job \in Jobs
           /\ \/ Ends(p, "error") /\ UNCHANGED <<containers, volumes>>
              \/ /\ Ends(p, "ok")
                 /\ \E i \in images : containers' = containers \cup
                       {[workspace |-> cmd[p].job.workspace, image |-> i]}
                 /\ \/ volumes' = volumes
                    \/ /\ \A v \in volumes : v.workspace # cmd[p].job.workspace
                       /\ volumes' = volumes \cup
                             {[workspace |-> cmd[p].job.workspace, by |-> p]}
  <1>1. cmd \in [Procs -> Command]
    BY DEF ImageInv, TypeOK
  <1>2. Op(p) = "launch" /\ cmd[p].job \in Jobs
    BY RuntimeTyped DEF PodmanRun, At, ImageInv, Personal, OnPath, ImagePCs
  <1>3. UNCHANGED <<images, metadata, latest, built>>
    BY DEF PodmanRun
  <1>4. CASE Finish(p, "error") /\ UNCHANGED <<containers, volumes>>
    BY <1>1, <1>2, <1>3, <1>4, FinishEffect
  <1>5. CASE /\ \E i \in Tagged(Runtime(p), Context(p)) :
                   containers' = containers \cup
                       {[workspace |-> cmd[p].job.workspace, image |-> i]}
             /\ volumes' = IF \E v \in volumes : v.workspace = cmd[p].job.workspace
                           THEN volumes
                           ELSE volumes \cup
                                  {[workspace |-> cmd[p].job.workspace, by |-> p]}
             /\ Finish(p, "ok")
    <2>1. Ends(p, "ok")
      BY <1>1, <1>5, FinishEffect
    <2>2. QED
      BY <1>2, <1>3, <1>5, <2>1 DEF Tagged
  <1>6. QED
    BY <1>4, <1>5 DEF PodmanRun

\* p works on its candidates: where it goes on, what is left of them, which
\* image it has in hand and whether something failed.
Processes(p, to, left, cur, failed) ==
    /\ Typed(p) /\ cmd'[p].pc = to /\ cmd'[p].plan = cmd[p].plan
    /\ cmd'[p].left = left /\ cmd'[p].cur = cur /\ cmd'[p].failed = failed
    /\ KeepsJob(p) /\ KeepsTodo(p) /\ KeepsInventory(p)

\* The candidates that come next are candidates.
LEMMA TurnIsLeft ==
    ASSUME ImageInv, NEW p \in Procs
    PROVE  /\ Turn(p) \subseteq cmd[p].left
           /\ cmd[p].left \subseteq Resources
           /\ \A x : cmd[p].left \ {x} \in SUBSET Resources
  BY DEF Turn, ImageInv, TypeOK, Command

\* An image is untagged.
LEMMA RemoveImageDoes ==
    ASSUME ImageInv, NEW p \in Procs, RemoveImage(p)
    PROVE  /\ UNCHANGED <<containers, volumes, metadata, latest, built>>
           /\ At(p, "apply")
           /\ \E x \in cmd[p].left \cap Images :
                 /\ \E i \in Tagged(x.runtime, x.context) : images' = images \ {i}
                 /\ Processes(p, "state", cmd[p].left \ {x}, x, cmd[p].failed)
  <1>1. cmd \in [Procs -> Command] /\ cmd[p] \in Command
    BY DEF ImageInv, TypeOK
  <1>2. PICK x \in Turn(p) :
          /\ x \in Images
          /\ \E i \in Tagged(x.runtime, x.context) : images' = images \ {i}
          /\ cmd' = [cmd EXCEPT ![p].left = @ \ {x}, ![p].cur = x,
                                ![p].pc = "state"]
    BY DEF RemoveImage, IsImage
  <1>3. PICK L \in SUBSET Resources : L = cmd[p].left \ {x}
    BY TurnIsLeft
  <1>4. [cmd[p] EXCEPT !.left = L, !.cur = x, !.pc = "state"] \in Command
    BY <1>1, <1>2 DEF Command, PCs
  <1>5. cmd' = [cmd EXCEPT ![p] = [cmd[p] EXCEPT !.left = L, !.cur = x, !.pc = "state"]]
    BY <1>1, <1>2, <1>3
  <1>6. Typed(p) /\ cmd'[p] = [cmd[p] EXCEPT !.left = L, !.cur = x, !.pc = "state"]
    BY <1>1, <1>4, <1>5 DEF Typed
  <1>7. Processes(p, "state", L, x, cmd[p].failed)
    BY <1>1, <1>6 DEF Command, Processes, KeepsJob, KeepsTodo, KeepsInventory
  <1>8. QED
    BY <1>2, <1>3, <1>7, TurnIsLeft DEF RemoveImage

\* A volume is removed.
LEMMA RemoveVolumeDoes ==
    ASSUME ImageInv, NEW p \in Procs, RemoveVolume(p)
    PROVE  /\ UNCHANGED <<images, containers, metadata, latest, built>>
           /\ At(p, "apply")
           /\ \E x \in cmd[p].left \ Images :
                 /\ \E v \in volumes :
                       v.workspace = x.workspace /\ volumes' = volumes \ {v}
                 /\ Processes(p, "apply", cmd[p].left \ {x}, cmd[p].cur, cmd[p].failed)
  <1>1. cmd \in [Procs -> Command] /\ cmd[p] \in Command
    BY DEF ImageInv, TypeOK
  <1>2. PICK x \in Turn(p) :
          /\ x \notin Images
          /\ \E v \in volumes : v.workspace = x.workspace /\ volumes' = volumes \ {v}
          /\ cmd' = [cmd EXCEPT ![p].left = @ \ {x}]
    BY DEF RemoveVolume, IsImage
  <1>3. PICK L \in SUBSET Resources : L = cmd[p].left \ {x}
    BY TurnIsLeft
  <1>4. [cmd[p] EXCEPT !.left = L] \in Command
    BY <1>1 DEF Command
  <1>5. cmd' = [cmd EXCEPT ![p] = [cmd[p] EXCEPT !.left = L]]
    BY <1>1, <1>2, <1>3
  <1>6. Typed(p) /\ cmd'[p] = [cmd[p] EXCEPT !.left = L]
    BY <1>1, <1>4, <1>5 DEF Typed
  <1>7. Processes(p, cmd[p].pc, L, cmd[p].cur, cmd[p].failed)
    BY <1>1, <1>6 DEF Command, Processes, KeepsJob, KeepsTodo, KeepsInventory
  <1>8. QED
    BY <1>2, <1>3, <1>7, TurnIsLeft DEF RemoveVolume, At

\* A removal fails.
LEMMA RemovalFailsDoes ==
    ASSUME ImageInv, NEW p \in Procs, RemovalFails(p)
    PROVE  /\ Podman /\ At(p, "apply")
           /\ \E x \in cmd[p].left :
                 Processes(p, "apply", cmd[p].left \ {x}, cmd[p].cur, TRUE)
  <1>1. cmd \in [Procs -> Command] /\ cmd[p] \in Command
    BY DEF ImageInv, TypeOK
  <1>2. PICK x \in Turn(p) :
          cmd' = [cmd EXCEPT ![p].left = @ \ {x}, ![p].failed = TRUE]
    BY DEF RemovalFails
  <1>3. PICK L \in SUBSET Resources : L = cmd[p].left \ {x}
    BY TurnIsLeft
  <1>4. [cmd[p] EXCEPT !.left = L, !.failed = TRUE] \in Command
    BY <1>1 DEF Command
  <1>5. cmd' = [cmd EXCEPT ![p] = [cmd[p] EXCEPT !.left = L, !.failed = TRUE]]
    BY <1>1, <1>2, <1>3
  <1>6. Typed(p) /\ cmd'[p] = [cmd[p] EXCEPT !.left = L, !.failed = TRUE]
    BY <1>1, <1>4, <1>5 DEF Typed
  <1>7. Processes(p, cmd[p].pc, L, cmd[p].cur, TRUE)
    BY <1>1, <1>6 DEF Command, Processes, KeepsJob, KeepsTodo, KeepsInventory
  <1>8. Podman
    BY DEF RemovalFails, podman, Podman
  <1>9. QED
    BY <1>2, <1>3, <1>7, <1>8, TurnIsLeft DEF RemovalFails, At

\* Putting down the image in hand, with or without a failure.
LEMMA PutDownEffect ==
    ASSUME cmd \in [Procs -> Command], NEW p \in Procs, NEW f \in BOOLEAN,
           \/ cmd' = [cmd EXCEPT ![p].cur = None, ![p].pc = "apply"]
              /\ f = cmd[p].failed
           \/ cmd' = [cmd EXCEPT ![p].cur = None, ![p].pc = "apply",
                                 ![p].failed = TRUE]
              /\ f = TRUE
    PROVE  Processes(p, "apply", cmd[p].left, None, f)
  <1>1. cmd[p] \in Command
    OBVIOUS
  <1>2. CASE cmd' = [cmd EXCEPT ![p].cur = None, ![p].pc = "apply"]
             /\ f = cmd[p].failed
    <2>1. [cmd[p] EXCEPT !.cur = None, !.pc = "apply"] \in Command
      BY <1>1 DEF Command, PCs
    <2>2. Typed(p) /\ cmd'[p] = [cmd[p] EXCEPT !.cur = None, !.pc = "apply"]
      BY <1>2, <2>1 DEF Typed
    <2>3. QED
      BY <1>1, <1>2, <2>2
      DEF Command, Processes, KeepsJob, KeepsTodo, KeepsInventory
  <1>3. CASE cmd' = [cmd EXCEPT ![p].cur = None, ![p].pc = "apply",
                                ![p].failed = TRUE]
             /\ f = TRUE
    <2>1. [cmd[p] EXCEPT !.cur = None, !.pc = "apply", !.failed = TRUE] \in Command
      BY <1>1 DEF Command, PCs
    <2>2. Typed(p) /\ cmd'[p] = [cmd[p] EXCEPT !.cur = None, !.pc = "apply",
                                               !.failed = TRUE]
      BY <1>3, <2>1 DEF Typed
    <2>3. QED
      BY <1>1, <1>3, <2>2
      DEF Command, Processes, KeepsJob, KeepsTodo, KeepsInventory
  <1>4. QED
    BY <1>2, <1>3

\* The metadata either names the image in hand, or it is left alone.
LEMMA ReadForRemovalDoes ==
    ASSUME ImageInv, NEW p \in Procs, ReadForRemoval(p)
    PROVE  /\ Podman /\ At(p, "state")
           /\ \/ Moves(p, "state_rm")
              \/ /\ Processes(p, "apply", cmd[p].left, None, cmd[p].failed)
                 /\ \/ metadata[cmd[p].cur.runtime] = None
                    \/ metadata[cmd[p].cur.runtime].context # cmd[p].cur.context
              \/ Processes(p, "apply", cmd[p].left, None, TRUE)
  <1>1. cmd \in [Procs -> Command] /\ cmd[p].failed \in BOOLEAN
    BY DEF ImageInv, TypeOK, Command
  <1>2. Podman /\ At(p, "state")
    BY DEF ReadForRemoval, podman, Podman
  <1>3. CASE Step(p, "state_rm")
    BY <1>1, <1>2, <1>3, StepEffect DEF PCs
  <1>4. ASSUME \/ metadata[cmd[p].cur.runtime] = None
               \/ metadata[cmd[p].cur.runtime].context # cmd[p].cur.context,
               cmd' = [cmd EXCEPT ![p].cur = None, ![p].pc = "apply"]
        PROVE  Processes(p, "apply", cmd[p].left, None, cmd[p].failed)
    BY <1>1, <1>4, PutDownEffect
  <1>5. CASE cmd' = [cmd EXCEPT ![p].cur = None, ![p].pc = "apply",
                                ![p].failed = TRUE]
    BY <1>1, <1>2, <1>5, PutDownEffect
  <1>6. QED
    BY <1>2, <1>3, <1>4, <1>5 DEF ReadForRemoval

\* The metadata file is removed, or that fails.
LEMMA RemoveStateDoes ==
    ASSUME ImageInv, NEW p \in Procs, RemoveState(p)
    PROVE  /\ UNCHANGED <<images, containers, volumes, latest, built>>
           /\ At(p, "state_rm")
           /\ \/ /\ metadata' = [metadata EXCEPT ![cmd[p].cur.runtime] = None]
                 /\ Processes(p, "apply", cmd[p].left, None, cmd[p].failed)
              \/ /\ metadata' = metadata
                 /\ Processes(p, "apply", cmd[p].left, None, TRUE)
  <1>1. cmd \in [Procs -> Command] /\ cmd[p].failed \in BOOLEAN
    BY DEF ImageInv, TypeOK, Command
  <1>2. ASSUME cmd' = [cmd EXCEPT ![p].cur = None, ![p].pc = "apply"]
        PROVE  Processes(p, "apply", cmd[p].left, None, cmd[p].failed)
    BY <1>1, <1>2, PutDownEffect
  <1>3. ASSUME cmd' = [cmd EXCEPT ![p].cur = None, ![p].pc = "apply",
                                  ![p].failed = TRUE]
        PROVE  Processes(p, "apply", cmd[p].left, None, TRUE)
    BY <1>1, <1>3, PutDownEffect
  <1>4. QED
    BY <1>2, <1>3 DEF RemoveState, podman

-----------------------------------------------------------------------------
(* What a step does to the world, and to what identifies a command. *)

\* A command keeps its command line once it has one, and the others' alone.
LEMMA JobStep ==
    ASSUME ImageInv, NEW p \in Procs, StepOf(p)
    PROVE  /\ Typed(p) /\ ~At(p, "done")
           /\ \/ cmd'[p].job = cmd[p].job
              \/ At(p, "new") /\ cmd[p].job = None /\ cmd'[p].job \in Jobs
  <1>1. CASE \E j \in Jobs : Invoke(p, j)
    BY <1>1, InvokeDoes DEF Invoke, At, ImageInv, Personal, OnPath
  <1>2. CASE ResolveLatest(p)
    BY <1>2, ResolveLatestDoes
    DEF KeepsJob, Ends, Moves, Carries, Processes, At, ResolveLatest
  <1>3. CASE ImageExists(p)
    BY <1>3, ImageExistsDoes
    DEF KeepsJob, Ends, Moves, Carries, Processes, At, ImageExists
  <1>4. CASE ReadState(p)
    BY <1>4, ReadStateDoes
    DEF KeepsJob, Ends, Moves, Carries, Processes, At, ReadState
  <1>5. CASE BuildImage(p)
    BY <1>5, BuildImageDoes
    DEF KeepsJob, Ends, Moves, Carries, Processes, At, BuildImage
  <1>6. CASE TruncateState(p)
    BY <1>6, TruncateStateDoes
    DEF KeepsJob, Ends, Moves, Carries, Processes, At, TruncateState
  <1>7. CASE WriteState(p)
    BY <1>7, WriteStateDoes
    DEF KeepsJob, Ends, Moves, Carries, Processes, At, WriteState
  <1>8. CASE PodmanRun(p)
    BY <1>8, PodmanRunDoes
    DEF KeepsJob, Ends, Moves, Carries, Processes, At, PodmanRun
  <1>9. CASE OrphanBuild(p)
    BY <1>9, OrphanBuildDoes
    DEF KeepsJob, Ends, Moves, Carries, Processes, At, OrphanBuild
  <1>10. CASE CallFails(p) \/ Kill(p) \/ InspectAll(p) \/ Decline(p) \/ Confirm(p)
             \/ ApplyDone(p)
    BY <1>10, PlainDoes
    DEF KeepsJob, Ends, Moves, Carries, Processes, At, CallFails, Kill, AtWork,
        InspectAll, Decline, Confirm, ApplyDone
  <1>11. CASE PsAll(p)
    BY <1>11, PsAllDoes
    DEF KeepsJob, Ends, Moves, Carries, Processes, At, PsAll
  <1>12. CASE ListImages(p)
    BY <1>12, ListImagesDoes
    DEF KeepsJob, Ends, Moves, Carries, Processes, At, ListImages
  <1>13. CASE ListVolumes(p)
    BY <1>13, ListVolumesDoes
    DEF KeepsJob, Ends, Moves, Carries, Processes, At, ListVolumes
  <1>14. CASE RemoveImage(p)
    BY <1>14, RemoveImageDoes DEF KeepsJob, Ends, Moves, Carries, Processes, At
  <1>15. CASE RemoveVolume(p)
    BY <1>15, RemoveVolumeDoes
    DEF KeepsJob, Ends, Moves, Carries, Processes, At
  <1>16. CASE RemovalFails(p)
    BY <1>16, RemovalFailsDoes
    DEF KeepsJob, Ends, Moves, Carries, Processes, At
  <1>17. CASE ReadForRemoval(p)
    BY <1>17, ReadForRemovalDoes
    DEF KeepsJob, Ends, Moves, Carries, Processes, At
  <1>18. CASE RemoveState(p)
    BY <1>18, RemoveStateDoes DEF KeepsJob, Ends, Moves, Carries, Processes, At
  <1>19. QED
    BY <1>1, <1>2, <1>3, <1>4, <1>5, <1>6, <1>7, <1>8, <1>9, <1>10, <1>11,
       <1>12, <1>13, <1>14, <1>15, <1>16, <1>17, <1>18
    DEF StepOf, ImageStep, CleanStep

\* What p removes from, adds to or writes into the shared state.
ImagesStep(p) ==
    \/ images' = images /\ built' = built
    \/ /\ cmd[p].pc \in {"build", "orphan"} /\ cmd'[p].pc # "orphan"
       /\ \E i \in Images : Builds(p, i)
    \/ /\ At(p, "apply") /\ built' = built /\ UNCHANGED <<volumes, metadata>>
       /\ \E x \in cmd[p].left \cap Images :
             \E i \in Tagged(x.runtime, x.context) : images' = images \ {i}

MetadataStep(p) ==
    \/ metadata' = metadata
    \/ \E r \in Runtimes, s \in {None, Invalid} :
          metadata' = [metadata EXCEPT ![r] = s]
    \/ /\ At(p, "write")
       /\ metadata' = [metadata EXCEPT ![Runtime(p)] = cmd[p].state]

ContainersStep(p) ==
    \/ containers' = containers
    \/ /\ At(p, "run") /\ cmd'[p].pc = "done"
       /\ Op(p) = "launch" /\ cmd[p].job \in Jobs
       /\ \E i \in images : containers' = containers \cup
             {[workspace |-> cmd[p].job.workspace, image |-> i]}

VolumesStep(p) ==
    \/ volumes' = volumes
    \/ /\ At(p, "run") /\ cmd'[p].pc = "done" /\ cmd[p].job \in Jobs
       /\ \A v \in volumes : v.workspace # cmd[p].job.workspace
       /\ volumes' = volumes \cup {[workspace |-> cmd[p].job.workspace, by |-> p]}
    \/ /\ At(p, "apply") /\ UNCHANGED <<images, metadata>>
       /\ \E x \in cmd[p].left \ Images : \E v \in volumes :
             v.workspace = x.workspace /\ volumes' = volumes \ {v}

WorldStep(p) ==
    /\ ImagesStep(p) /\ MetadataStep(p) /\ ContainersStep(p) /\ VolumesStep(p)
    /\ latest' = latest

\* These are all the changes a step of p makes to it.
LEMMA WorldEffect ==
    ASSUME ImageInv, NEW p \in Procs, StepOf(p)
    PROVE  WorldStep(p)
  <1>1. CASE \E j \in Jobs : Invoke(p, j)
    BY <1>1, InvokeDoes
    DEF Podman, WorldStep, ImagesStep, MetadataStep, ContainersStep,
        VolumesStep
  <1>2. CASE ResolveLatest(p)
    BY <1>2, ResolveLatestDoes
    DEF Podman, WorldStep, ImagesStep, MetadataStep, ContainersStep,
        VolumesStep
  <1>3. CASE ImageExists(p)
    BY <1>3, ImageExistsDoes
    DEF Podman, WorldStep, ImagesStep, MetadataStep, ContainersStep,
        VolumesStep
  <1>4. CASE ReadState(p)
    BY <1>4, ReadStateDoes
    DEF Podman, WorldStep, ImagesStep, MetadataStep, ContainersStep,
        VolumesStep
  <1>5. CASE BuildImage(p)
    BY <1>5, BuildImageDoes
    DEF Podman, WorldStep, ImagesStep, MetadataStep, ContainersStep,
        VolumesStep, BuildImage, At, Builds, Carries
  <1>6. CASE TruncateState(p)
    BY <1>6, TruncateStateDoes, RuntimeTyped
    DEF Podman, WorldStep, ImagesStep, MetadataStep, ContainersStep,
        VolumesStep, TruncateState, At, ImagePCs
  <1>7. CASE WriteState(p)
    BY <1>7, WriteStateDoes
    DEF Podman, WorldStep, ImagesStep, MetadataStep, ContainersStep,
        VolumesStep, WriteState
  <1>8. CASE PodmanRun(p)
    BY <1>8, PodmanRunDoes
    DEF Podman, WorldStep, ImagesStep, MetadataStep, ContainersStep,
        VolumesStep, PodmanRun, Ends
  <1>9. CASE OrphanBuild(p)
    BY <1>9, OrphanBuildDoes
    DEF Podman, WorldStep, ImagesStep, MetadataStep, ContainersStep,
        VolumesStep, OrphanBuild, At, Builds, Ends
  <1>10. CASE CallFails(p) \/ Kill(p) \/ InspectAll(p) \/ Decline(p) \/ Confirm(p)
             \/ ApplyDone(p)
    BY <1>10, PlainDoes
    DEF Podman, WorldStep, ImagesStep, MetadataStep, ContainersStep,
        VolumesStep
  <1>11. CASE PsAll(p)
    BY <1>11, PsAllDoes
    DEF Podman, WorldStep, ImagesStep, MetadataStep, ContainersStep,
        VolumesStep
  <1>12. CASE ListImages(p)
    BY <1>12, ListImagesDoes
    DEF Podman, WorldStep, ImagesStep, MetadataStep, ContainersStep,
        VolumesStep
  <1>13. CASE ListVolumes(p)
    BY <1>13, ListVolumesDoes
    DEF Podman, WorldStep, ImagesStep, MetadataStep, ContainersStep,
        VolumesStep
  <1>14. CASE RemoveImage(p)
    BY <1>14, RemoveImageDoes
    DEF Podman, WorldStep, ImagesStep, MetadataStep, ContainersStep,
        VolumesStep
  <1>15. CASE RemoveVolume(p)
    BY <1>15, RemoveVolumeDoes
    DEF Podman, WorldStep, ImagesStep, MetadataStep, ContainersStep,
        VolumesStep
  <1>16. CASE RemovalFails(p)
    BY <1>16, RemovalFailsDoes
    DEF Podman, WorldStep, ImagesStep, MetadataStep, ContainersStep,
        VolumesStep
  <1>17. CASE ReadForRemoval(p)
    BY <1>17, ReadForRemovalDoes
    DEF Podman, WorldStep, ImagesStep, MetadataStep, ContainersStep,
        VolumesStep
  <1>18. CASE RemoveState(p)
    <2>1. cmd[p].cur \in Images
      BY <1>18 DEF RemoveState, At, ImageInv, Personal, OnPath, TypeOK, Command
    <2>2. cmd[p].cur.runtime \in Runtimes
      BY <2>1 DEF Images
    <2>3. QED
      BY <1>18, <2>2, RemoveStateDoes
      DEF WorldStep, ImagesStep, MetadataStep, ContainersStep, VolumesStep
  <1>19. QED
    BY <1>1, <1>2, <1>3, <1>4, <1>5, <1>6, <1>7, <1>8, <1>9, <1>10, <1>11,
       <1>12, <1>13, <1>14, <1>15, <1>16, <1>17, <1>18
    DEF StepOf, ImageStep, CleanStep

-----------------------------------------------------------------------------
(* The parts of the invariant, one after the other, under a step of p. *)

\* Types, and Podman's one image, volume and container per name.
LEMMA TypeStep ==
    ASSUME ImageInv, NEW p \in Procs, StepOf(p)
    PROVE  TypeOK'
  <1>1. WorldStep(p) /\ cmd' \in [Procs -> Command] /\ TypeOK
    BY JobStep, WorldEffect DEF Typed, ImageInv
  <1>2. images' \subseteq Images /\ \A i, j \in images' : Ref(i) = Ref(j) => i = j
    <2>1. CASE images' = images
      BY <1>1, <2>1 DEF TypeOK
    <2>2. CASE \E i \in Images : Builds(p, i)
      BY <1>1, <2>2 DEF TypeOK, Builds, Tagged, Ref
    <2>3. CASE \E i : images' = images \ {i}
      BY <1>1, <2>3 DEF TypeOK
    <2>4. QED
      BY <1>1, <2>1, <2>2, <2>3 DEF WorldStep, ImagesStep
  <1>3. metadata' \in [Runtimes -> Metadata \cup {None, Invalid}]
    <2>1. CASE At(p, "write")
               /\ metadata' = [metadata EXCEPT ![Runtime(p)] = cmd[p].state]
      <3>1. cmd[p].state \in Metadata
        BY <2>1 DEF ImageInv, Personal, StateIsBuilt, At
      <3>2. QED
        BY <1>1, <2>1, <3>1 DEF TypeOK
    <2>2. QED
      BY <1>1, <2>1 DEF WorldStep, MetadataStep, TypeOK
  <1>4. /\ containers' \subseteq Containers
        /\ \A c, d \in containers' : c.workspace = d.workspace => c = d
    <2>1. CASE containers' = containers
      BY <1>1, <2>1 DEF TypeOK
    <2>2. CASE /\ At(p, "run") /\ Op(p) = "launch" /\ cmd[p].job \in Jobs
               /\ \E i \in images : containers' = containers \cup
                     {[workspace |-> cmd[p].job.workspace, image |-> i]}
      <3>1. PICK c : /\ containers' = containers \cup {c}
                     /\ c.workspace = cmd[p].job.workspace
                     /\ c \in Containers
        <4>1. PICK i \in images : containers' = containers \cup
                {[workspace |-> cmd[p].job.workspace, image |-> i]}
          BY <2>2
        <4>2. cmd[p].job.workspace \in Workspaces /\ i \in Images
          BY <1>1, <2>2, <4>1, ImagesAssumption DEF Job, TypeOK
        <4>3. [workspace |-> cmd[p].job.workspace, image |-> i] \in Containers
          BY <4>2 DEF Containers
        <4>4. QED
          BY <4>1, <4>3
      <3>2. ~Mounted(cmd[p].job.workspace)
        BY <2>2 DEF ImageInv, Personal, LaunchAlone, AtWork, At
      <3>3. QED
        BY <1>1, <3>1, <3>2 DEF TypeOK, Mounted
    <2>3. QED
      BY <1>1, <2>1, <2>2 DEF WorldStep, ContainersStep
  <1>5. /\ volumes' \subseteq Volumes
        /\ \A v, w \in volumes' : v.workspace = w.workspace => v = w
    <2>1. CASE volumes' = volumes
      BY <1>1, <2>1 DEF TypeOK
    <2>2. CASE /\ cmd[p].job \in Jobs
               /\ \A v \in volumes : v.workspace # cmd[p].job.workspace
               /\ volumes' = volumes \cup
                     {[workspace |-> cmd[p].job.workspace, by |-> p]}
      <3>1. PICK v : /\ volumes' = volumes \cup {v} /\ v \in Volumes
                     /\ v.workspace = cmd[p].job.workspace
        <4>1. cmd[p].job.workspace \in Workspaces
          BY <2>2, ImagesAssumption DEF Job
        <4>2. [workspace |-> cmd[p].job.workspace, by |-> p] \in Volumes
          BY <4>1 DEF Volumes
        <4>3. QED
          BY <2>2, <4>2
      <3>2. QED
        BY <1>1, <2>2, <3>1 DEF TypeOK
    <2>3. CASE \E v \in volumes : volumes' = volumes \ {v}
      BY <1>1, <2>3 DEF TypeOK
    <2>4. QED
      BY <1>1, <2>1, <2>2, <2>3 DEF WorldStep, VolumesStep
  <1>6. latest' \in [Runtimes -> Versions]
    BY <1>1 DEF WorldStep, TypeOK
  <1>7. QED
    BY <1>1, <1>2, <1>3, <1>4, <1>5, <1>6 DEF TypeOK

\* The history only grows, and what is written into a metadata file is in it.
LEMMA RecordedStep ==
    ASSUME ImageInv, NEW p \in Procs, StepOf(p)
    PROVE  built \subseteq built' /\ RecordedWasBuilt'
  <1>1. WorldStep(p) /\ TypeOK /\ RecordedWasBuilt
    BY WorldEffect DEF ImageInv
  <1>2. built \subseteq built'
    BY <1>1 DEF WorldStep, ImagesStep, Builds
  <1>3. CASE At(p, "write")
             /\ metadata' = [metadata EXCEPT ![Runtime(p)] = cmd[p].state]
    <2>1. /\ cmd[p].state \in Metadata
          /\ <<Runtime(p), cmd[p].state.context, cmd[p].state.version>> \in built
      BY <1>3 DEF ImageInv, Personal, StateIsBuilt, At
    <2>2. QED
      BY <1>1, <1>2, <1>3, <2>1 DEF TypeOK, RecordedWasBuilt
  <1>4. CASE \E r \in Runtimes, s \in {None, Invalid} :
               metadata' = [metadata EXCEPT ![r] = s]
    BY <1>1, <1>2, <1>4 DEF TypeOK, RecordedWasBuilt
  <1>5. CASE metadata' = metadata
    BY <1>1, <1>2, <1>5 DEF RecordedWasBuilt
  <1>6. QED
    BY <1>1, <1>2, <1>3, <1>4, <1>5 DEF WorldStep, MetadataStep

\* A list without elements has no duplicates.
LEMMA EmptyOnce ==
    NoDuplicates(<<>>)
  BY DEF NoDuplicates

\* What a command passes through and carries.
LEMMA PathStep ==
    ASSUME ImageInv, NEW p \in Procs, StepOf(p)
    PROVE  OnPath(p)'
  <1>1. OnPath(p) /\ cmd[p].todo \in Seq(Runtimes)
    BY DEF ImageInv, Personal, TypeOK, Command
  <1>2. CASE \E j \in Jobs : Invoke(p, j)
    <2>1. PICK j \in Jobs : Invoke(p, j)
      BY <1>2
    <2>2. j # None /\ j \in Job /\ NoDuplicates(j.runtimes)
      BY ImagesAssumption DEF NoDuplicates
    <2>3. j.op \in {"launch", "update", "clean"}
      BY <2>2 DEF Job
    <2>4. j.op \in {"launch", "update"} => j.runtimes # <<>>
      <3>1. j.op = "launch" => Len(j.runtimes) = 1
        BY ImagesAssumption
      <3>2. Len(<<>>) = 0
        OBVIOUS
      <3>3. QED
        BY <3>1, <3>2, ImagesAssumption
    <2>5. cmd[p].cur = None /\ cmd[p].result = "none"
      BY <1>1, <2>1 DEF OnPath, Invoke, At
    <2>6. /\ cmd'[p].job = j /\ cmd'[p].todo = j.runtimes
          /\ cmd'[p].pc = (IF j.op = "launch" THEN "exists"
                           ELSE IF j.op = "update" THEN "resolve" ELSE "ps")
          /\ cmd'[p].result = "none" /\ cmd'[p].cur = None
      BY <2>1, <2>5, InvokeDoes DEF KeepsPlan
    <2>7. QED
      BY <2>2, <2>3, <2>4, <2>6 DEF OnPath, At, Op, ImagePCs, CleanPCs
  <1>3. CASE ResolveLatest(p)
    <2>1. Op(p) \in {"launch", "update"} /\ cmd[p].pc = "resolve"
      BY <1>1, <1>3 DEF ResolveLatest, At, OnPath, ImagePCs
    <2>2. /\ cmd'[p].job = cmd[p].job /\ Op(p)' = Op(p) /\ Op(p) # "none"
          /\ cmd'[p].todo = cmd[p].todo /\ cmd'[p].cur = cmd[p].cur
          /\ cmd'[p].result = cmd[p].result
      BY <1>3, <2>1, ResolveLatestDoes DEF KeepsJob, KeepsTodo, KeepsPlan, Op
    <2>3. cmd'[p].pc \in {"exists", "build"} /\ cmd'[p].version \in Versions
      BY <1>1, <1>3, <2>1, ResolveLatestDoes DEF OnPath
    <2>4. QED
      BY <1>1, <2>1, <2>2, <2>3 DEF OnPath, At, ImagePCs, CleanPCs
  <1>4. CASE ImageExists(p)
    <2>1. Op(p) \in {"launch", "update"} /\ cmd[p].pc = "exists"
      BY <1>1, <1>4 DEF ImageExists, At, OnPath, ImagePCs
    <2>2. /\ cmd'[p].job = cmd[p].job /\ Op(p)' = Op(p) /\ Op(p) # "none"
          /\ cmd'[p].todo = cmd[p].todo /\ cmd'[p].cur = cmd[p].cur
          /\ cmd'[p].result = cmd[p].result
      BY <1>4, <2>1, ImageExistsDoes DEF KeepsJob, KeepsTodo, KeepsPlan, Op
    <2>3. cmd'[p].pc \in {"read", "resolve"}
          /\ (Op(p) = "update" => cmd'[p].version \in Versions)
      BY <1>1, <1>4, <2>1, ImageExistsDoes DEF OnPath
    <2>4. QED
      BY <1>1, <2>1, <2>2, <2>3 DEF OnPath, At, ImagePCs, CleanPCs
  <1>5. CASE ReadState(p)
    BY <1>1, <1>5, ReadStateDoes, EmptyOnce
    DEF OnPath, At, Op, ImagePCs, CleanPCs, Moves, Ends, Carries, Processes,
        KeepsJob, KeepsTodo, KeepsImage, KeepsPlan, ReadState
  <1>6. CASE BuildImage(p)
    BY <1>1, <1>6, BuildImageDoes
    DEF OnPath, At, Op, ImagePCs, CleanPCs, Moves, Ends, Carries, Processes,
        KeepsJob, KeepsTodo, KeepsImage, KeepsPlan, BuildImage
  <1>7. CASE TruncateState(p)
    BY <1>1, <1>7, TruncateStateDoes
    DEF OnPath, At, Op, ImagePCs, CleanPCs, Moves, Ends, Carries, Processes,
        KeepsJob, KeepsTodo, KeepsImage, KeepsPlan, TruncateState
  <1>8. CASE WriteState(p)
    <2>1. NoDuplicates(Tail(cmd[p].todo)) /\ Tail(cmd[p].todo) \in Seq(Runtimes)
      BY <1>8, RuntimeTyped DEF WriteState, At, ImagePCs
    <2>2. QED
      BY <1>1, <1>8, <2>1, WriteStateDoes, EmptyOnce
      DEF WriteState, OnPath, At, Op, ImagePCs, CleanPCs, Moves, Ends, KeepsJob,
          KeepsTodo, KeepsImage, KeepsPlan
  <1>9. CASE PodmanRun(p)
    BY <1>1, <1>9, PodmanRunDoes, EmptyOnce
    DEF OnPath, At, Op, ImagePCs, CleanPCs, Moves, Ends, Carries, Processes,
        KeepsJob, KeepsTodo, KeepsImage, KeepsPlan, PodmanRun
  <1>10. CASE OrphanBuild(p)
    BY <1>1, <1>10, OrphanBuildDoes, EmptyOnce
    DEF OnPath, At, Op, ImagePCs, CleanPCs, Moves, Ends, Carries, Processes,
        KeepsJob, KeepsTodo, KeepsImage, KeepsPlan, OrphanBuild
  <1>11. CASE CallFails(p) \/ Kill(p) \/ InspectAll(p) \/ Decline(p) \/ Confirm(p)
             \/ ApplyDone(p)
    BY <1>1, <1>11, PlainDoes, EmptyOnce
    DEF OnPath, At, Op, ImagePCs, CleanPCs, Moves, Ends, Carries, Processes,
        KeepsJob, KeepsTodo, KeepsImage, KeepsPlan, CallFails, Kill, AtWork,
        InspectAll, Decline, Confirm, ApplyDone
  <1>12. CASE PsAll(p)
    BY <1>1, <1>12, PsAllDoes
    DEF OnPath, At, Op, ImagePCs, CleanPCs, Moves, Ends, Carries, Processes,
        KeepsJob, KeepsTodo, KeepsImage, KeepsPlan, PsAll
  <1>13. CASE ListImages(p)
    BY <1>1, <1>13, ListImagesDoes
    DEF OnPath, At, Op, ImagePCs, CleanPCs, Moves, Ends, Carries, Processes,
        KeepsJob, KeepsTodo, KeepsImage, KeepsPlan, ListImages
  <1>14. CASE ListVolumes(p)
    BY <1>1, <1>14, ListVolumesDoes
    DEF OnPath, At, Op, ImagePCs, CleanPCs, Moves, Ends, Carries, Processes,
        KeepsJob, KeepsTodo, KeepsImage, KeepsPlan, ListVolumes
  <1>15. CASE RemoveImage(p)
    BY <1>1, <1>15, RemoveImageDoes, ImagesAssumption
    DEF OnPath, At, Op, ImagePCs, CleanPCs, Moves, Ends, Carries, Processes,
        KeepsJob, KeepsTodo, KeepsImage, KeepsPlan
  <1>16. CASE RemoveVolume(p)
    BY <1>1, <1>16, RemoveVolumeDoes
    DEF OnPath, At, Op, ImagePCs, CleanPCs, Moves, Ends, Carries, Processes,
        KeepsJob, KeepsTodo, KeepsImage, KeepsPlan
  <1>17. CASE RemovalFails(p)
    BY <1>1, <1>17, RemovalFailsDoes
    DEF OnPath, At, Op, ImagePCs, CleanPCs, Moves, Ends, Carries, Processes,
        KeepsJob, KeepsTodo, KeepsImage, KeepsPlan
  <1>18. CASE ReadForRemoval(p)
    BY <1>1, <1>18, ReadForRemovalDoes
    DEF OnPath, At, Op, ImagePCs, CleanPCs, Moves, Ends, Carries, Processes,
        KeepsJob, KeepsTodo, KeepsImage, KeepsPlan
  <1>19. CASE RemoveState(p)
    BY <1>1, <1>19, RemoveStateDoes
    DEF OnPath, At, Op, ImagePCs, CleanPCs, Moves, Ends, Carries, Processes,
        KeepsJob, KeepsTodo, KeepsImage, KeepsPlan
  <1>20. QED
    BY <1>2, <1>3, <1>4, <1>5, <1>6, <1>7, <1>8, <1>9, <1>10, <1>11, <1>12,
       <1>13, <1>14, <1>15, <1>16, <1>17, <1>18, <1>19
    DEF StepOf, ImageStep, CleanStep

\* A command that has a command line keeps it, whoever takes a step.
LEMMA SameJob ==
    ASSUME ImageInv, NEW p \in Procs, StepOf(p), NEW q \in Procs, cmd[q].job # None
    PROVE  /\ cmd'[q].job = cmd[q].job
           /\ Op(q)' = Op(q) /\ Context(q)' = Context(q)
  BY JobStep DEF Typed, Op, Context

\* The metadata in hand is of an image that was built.
LEMMA StateStep ==
    ASSUME ImageInv, NEW p \in Procs, StepOf(p)
    PROVE  StateIsBuilt(p)'
  <1>1. CASE \E j \in Jobs : Invoke(p, j)
    BY <1>1, InvokeDoes DEF StateIsBuilt, Ends, Moves, Processes
  <1>2. CASE ResolveLatest(p)
    BY <1>2, ResolveLatestDoes DEF StateIsBuilt, Ends, Moves, Processes
  <1>3. CASE ImageExists(p)
    BY <1>3, ImageExistsDoes DEF StateIsBuilt, Ends, Moves, Processes
  <1>4. CASE ReadState(p)
    <2>1. ASSUME Op(p) = "update", Carries(p, metadata[Runtime(p)]),
                 metadata[Runtime(p)] \in Metadata,
                 metadata[Runtime(p)].context = Context(p)
          PROVE  StateIsBuilt(p)'
      <3>1. <<Runtime(p), metadata[Runtime(p)].context,
              metadata[Runtime(p)].version>> \in built'
        <4>1. Runtime(p) \in Runtimes
          BY <1>4, RuntimeTyped DEF ReadState, At, ImagePCs
        <4>2. metadata[Runtime(p)] \notin {None, Invalid}
          BY <2>1, ImagesAssumption
        <4>3. QED
          BY <4>1, <4>2, RecordedStep DEF ImageInv, RecordedWasBuilt
      <3>2. Runtime(p)' = Runtime(p) /\ Context(p)' = Context(p)
        BY <2>1 DEF Carries, KeepsJob, KeepsTodo, Runtime, Context
      <3>3. QED
        BY <2>1, <3>1, <3>2 DEF StateIsBuilt, Carries
    <2>2. QED
      BY <1>4, <2>1, ReadStateDoes DEF StateIsBuilt, Ends, Moves
  <1>5. CASE BuildImage(p)
    <2>1. NewState(p) \in Metadata /\ Carries(p, NewState(p))
      BY <1>5, BuildImageDoes
    <2>2. <<Runtime(p), Context(p), cmd[p].version>> \in built'
      BY <1>5, BuildImageDoes DEF Builds
    <2>3. Runtime(p)' = Runtime(p) /\ Context(p)' = Context(p)
      BY <2>1 DEF Carries, KeepsJob, KeepsTodo, Runtime, Context
    <2>4. NewState(p).context = Context(p) /\ NewState(p).version = cmd[p].version
      BY DEF NewState
    <2>5. QED
      BY <2>1, <2>2, <2>3, <2>4 DEF StateIsBuilt, Carries
  <1>6. CASE TruncateState(p)
    <2>1. StateIsBuilt(p) /\ cmd[p].pc = "truncate"
      BY <1>6 DEF ImageInv, Personal, TruncateState, At
    <2>2. /\ Runtime(p)' = Runtime(p) /\ Context(p)' = Context(p)
          /\ cmd'[p].state = cmd[p].state /\ built' = built
      BY <1>6, TruncateStateDoes
      DEF Moves, KeepsJob, KeepsTodo, KeepsImage, Runtime, Context
    <2>3. QED
      BY <2>1, <2>2 DEF StateIsBuilt
  <1>7. CASE WriteState(p)
    BY <1>7, WriteStateDoes DEF StateIsBuilt, Ends, Moves, Processes
  <1>8. CASE PodmanRun(p)
    BY <1>8, PodmanRunDoes DEF StateIsBuilt, Ends, Moves, Processes
  <1>9. CASE OrphanBuild(p)
    BY <1>9, OrphanBuildDoes DEF StateIsBuilt, Ends, Moves, Processes
  <1>10. CASE CallFails(p) \/ Kill(p) \/ InspectAll(p) \/ Decline(p) \/ Confirm(p)
             \/ ApplyDone(p)
    BY <1>10, PlainDoes DEF StateIsBuilt, Ends, Moves, Processes
  <1>11. CASE PsAll(p)
    BY <1>11, PsAllDoes DEF StateIsBuilt, Ends, Moves, Processes
  <1>12. CASE ListImages(p)
    BY <1>12, ListImagesDoes DEF StateIsBuilt, Ends, Moves, Processes
  <1>13. CASE ListVolumes(p)
    BY <1>13, ListVolumesDoes DEF StateIsBuilt, Ends, Moves, Processes
  <1>14. CASE RemoveImage(p)
    BY <1>14, RemoveImageDoes DEF StateIsBuilt, Ends, Moves, Processes
  <1>15. CASE RemoveVolume(p)
    BY <1>15, RemoveVolumeDoes DEF StateIsBuilt, Ends, Moves, Processes
  <1>16. CASE RemovalFails(p)
    BY <1>16, RemovalFailsDoes DEF StateIsBuilt, Ends, Moves, Processes
  <1>17. CASE ReadForRemoval(p)
    BY <1>17, ReadForRemovalDoes DEF StateIsBuilt, Ends, Moves, Processes
  <1>18. CASE RemoveState(p)
    BY <1>18, RemoveStateDoes DEF StateIsBuilt, Ends, Moves, Processes
  <1>19. QED
    BY <1>1, <1>2, <1>3, <1>4, <1>5, <1>6, <1>7, <1>8, <1>9, <1>10, <1>11,
       <1>12, <1>13, <1>14, <1>15, <1>16, <1>17, <1>18
    DEF StepOf, ImageStep, CleanStep

\* Candidates that keep the plan, the containers seen and the command line are
\* as sound as before.
LEMMA CandidatesKept ==
    ASSUME NEW p \in Procs, Candidates(p), cmd'[p].job = cmd[p].job,
           cmd'[p].left \subseteq cmd[p].left,
           \/ cmd'[p].left = {}
           \/ /\ cmd'[p].plan = cmd[p].plan /\ cmd'[p].seen = cmd[p].seen
              /\ cmd'[p].pc \in {"confirm", "apply", "state", "state_rm"}
    PROVE  Candidates(p)'
  <1>1. Context(p)' = Context(p)
    BY DEF Context
  <1>2. CASE cmd'[p].left = {}
    BY <1>2 DEF Candidates
  <1>3. CASE /\ cmd'[p].plan = cmd[p].plan /\ cmd'[p].seen = cmd[p].seen
             /\ cmd'[p].pc \in {"confirm", "apply", "state", "state_rm"}
    BY <1>1, <1>3 DEF Candidates, IsImage, ImageUsed, VolumeUsed
  <1>4. QED
    BY <1>2, <1>3

\* A candidate of a clean is not of its own binary, and no container the
\* clean has seen refers to it.
LEMMA CandidateStep ==
    ASSUME ImageInv, NEW p \in Procs, StepOf(p)
    PROVE  Candidates(p)'
  <1>1. /\ Candidates(p)
        /\ cmd[p].pc \notin {"confirm", "apply", "state", "state_rm"} =>
              cmd[p].left = {}
    BY DEF ImageInv, Personal, Candidates
  <1>2. CASE \E j \in Jobs : Invoke(p, j)
    <2>1. cmd[p].left = {} /\ cmd'[p].left = {}
      BY <1>1, <1>2, InvokeDoes DEF Invoke, At, KeepsPlan
    <2>2. QED
      BY <2>1 DEF Candidates
  <1>3. CASE ResolveLatest(p)
    BY <1>1, <1>3, ResolveLatestDoes, CandidatesKept
    DEF Ends, Moves, Processes, Carries, KeepsJob, KeepsPlan, KeepsInventory,
        ResolveLatest, At
  <1>4. CASE ImageExists(p)
    BY <1>1, <1>4, ImageExistsDoes, CandidatesKept
    DEF Ends, Moves, Processes, Carries, KeepsJob, KeepsPlan, KeepsInventory,
        ImageExists, At
  <1>5. CASE ReadState(p)
    BY <1>1, <1>5, ReadStateDoes, CandidatesKept
    DEF Ends, Moves, Processes, Carries, KeepsJob, KeepsPlan, KeepsInventory,
        ReadState, At
  <1>6. CASE BuildImage(p)
    BY <1>1, <1>6, BuildImageDoes, CandidatesKept
    DEF Ends, Moves, Processes, Carries, KeepsJob, KeepsPlan, KeepsInventory,
        BuildImage, At
  <1>7. CASE TruncateState(p)
    BY <1>1, <1>7, TruncateStateDoes, CandidatesKept
    DEF Ends, Moves, Processes, Carries, KeepsJob, KeepsPlan, KeepsInventory,
        TruncateState, At
  <1>8. CASE WriteState(p)
    BY <1>1, <1>8, WriteStateDoes, CandidatesKept
    DEF Ends, Moves, Processes, Carries, KeepsJob, KeepsPlan, KeepsInventory,
        WriteState, At
  <1>9. CASE PodmanRun(p)
    BY <1>1, <1>9, PodmanRunDoes, CandidatesKept
    DEF Ends, Moves, Processes, Carries, KeepsJob, KeepsPlan, KeepsInventory,
        PodmanRun, At
  <1>10. CASE OrphanBuild(p)
    BY <1>1, <1>10, OrphanBuildDoes, CandidatesKept
    DEF Ends, Moves, Processes, Carries, KeepsJob, KeepsPlan, KeepsInventory,
        OrphanBuild, At
  <1>11. CASE CallFails(p) \/ Kill(p) \/ InspectAll(p) \/ Decline(p) \/ Confirm(p)
             \/ ApplyDone(p)
    BY <1>1, <1>11, PlainDoes, CandidatesKept
    DEF Ends, Moves, Processes, Carries, KeepsJob, KeepsPlan, KeepsInventory,
        At
  <1>12. CASE PsAll(p)
    BY <1>1, <1>12, PsAllDoes, CandidatesKept
    DEF Ends, Moves, Processes, Carries, KeepsJob, KeepsPlan, KeepsInventory,
        PsAll, At
  <1>13. CASE ListImages(p)
    BY <1>1, <1>13, ListImagesDoes, CandidatesKept
    DEF Ends, Moves, Processes, Carries, KeepsJob, KeepsPlan, KeepsInventory,
        ListImages, At
  <1>14. CASE ListVolumes(p)
    <2>1. cmd'[p].pc = "confirm" /\ cmd'[p].left = cmd'[p].plan
      BY <1>14, ListVolumesDoes
    <2>2. /\ Context(p)' = Context(p) /\ cmd'[p].seen = cmd[p].seen
      BY <1>14, ListVolumesDoes DEF KeepsJob, KeepsInventory, Context
    <2>3. ASSUME NEW x \in cmd'[p].left
          PROVE  IF IsImage(x) THEN ImageCandidate(p, x) ELSE ~VolumeUsed(p, x)
      <3>1. x \in {i \in cmd[p].listed : ImageCandidate(p, i)}
                  \cup {v \in volumes : ~VolumeUsed(p, v)}
        BY <1>14, <2>1, <2>3, ListVolumesDoes
      <3>2. cmd[p].listed \subseteq Images /\ volumes \subseteq Volumes
        BY DEF ImageInv, TypeOK, Command
      <3>3. QED
        BY <3>1, <3>2, NoImageIsVolume DEF IsImage
    <2>4. \A x \in cmd'[p].left :
             IF IsImage(x) THEN x.context # Context(p)' /\ ~ImageUsed(p, x)'
                           ELSE ~VolumeUsed(p, x)'
      BY <2>2, <2>3 DEF ImageCandidate, ImageUsed, VolumeUsed, IsImage
    <2>5. QED
      BY <2>1, <2>4 DEF Candidates, IsImage
  <1>15. CASE RemoveImage(p)
    BY <1>1, <1>15, RemoveImageDoes, CandidatesKept
    DEF Ends, Moves, Processes, Carries, KeepsJob, KeepsPlan, KeepsInventory
  <1>16. CASE RemoveVolume(p)
    BY <1>1, <1>16, RemoveVolumeDoes, CandidatesKept
    DEF Ends, Moves, Processes, Carries, KeepsJob, KeepsPlan, KeepsInventory
  <1>17. CASE RemovalFails(p)
    BY <1>1, <1>17, RemovalFailsDoes, CandidatesKept
    DEF Ends, Moves, Processes, Carries, KeepsJob, KeepsPlan, KeepsInventory
  <1>18. CASE ReadForRemoval(p)
    BY <1>1, <1>18, ReadForRemovalDoes, CandidatesKept
    DEF Ends, Moves, Processes, Carries, KeepsJob, KeepsPlan, KeepsInventory
  <1>19. CASE RemoveState(p)
    BY <1>1, <1>19, RemoveStateDoes, CandidatesKept
    DEF Ends, Moves, Processes, Carries, KeepsJob, KeepsPlan, KeepsInventory
  <1>20. QED
    BY <1>2, <1>3, <1>4, <1>5, <1>6, <1>7, <1>8, <1>9, <1>10, <1>11, <1>12,
       <1>13, <1>14, <1>15, <1>16, <1>17, <1>18, <1>19
    DEF StepOf, ImageStep, CleanStep

\* What a command may still build gets less, and with a build it loses the
\* runtime that was built.
LEMMA ToBuildStep ==
    ASSUME ImageInv, NEW p \in Procs, StepOf(p)
    PROVE  /\ ToBuild(p)' \subseteq ToBuild(p)
           /\ cmd[p].pc \in {"build", "orphan"} /\ cmd'[p].pc # "orphan" =>
                 Runtime(p) \in ToBuild(p) /\ Runtime(p) \notin ToBuild(p)'
  <1>1. CASE \E j \in Jobs : Invoke(p, j)
    <2>1. PICK j \in Jobs : Invoke(p, j)
      BY <1>1
    <2>2. ToBuild(p) = Runtimes /\ cmd[p].pc = "new"
      BY <2>1 DEF Invoke, At, ToBuild
    <2>3. j.runtimes \in Seq(Runtimes)
      BY ImagesAssumption DEF Job
    <2>4. Elements(j.runtimes) \subseteq Runtimes
      BY <2>3 DEF Elements
    <2>5. cmd'[p].pc \in {"exists", "resolve", "ps"} /\ cmd'[p].todo = j.runtimes
      BY <2>1, InvokeDoes
    <2>6. QED
      BY <2>2, <2>4, <2>5 DEF ToBuild, At
  <1>2. CASE ResolveLatest(p)
    <2>1. cmd[p].pc = "resolve"
      BY <1>2 DEF ResolveLatest, At
    <2>2. cmd'[p].pc \in {"exists", "build"} /\ cmd'[p].todo = cmd[p].todo
      BY <1>2, ResolveLatestDoes DEF KeepsTodo
    <2>3. QED
      BY <2>1, <2>2 DEF ToBuild, At
  <1>3. CASE ImageExists(p)
    BY <1>3, ImageExistsDoes
    DEF ToBuild, Ends, Moves, Carries, Processes, KeepsTodo, At, ImageExists
  <1>4. CASE ReadState(p)
    <2>1. /\ Runtime(p) \in Elements(cmd[p].todo)
          /\ Elements(Tail(cmd[p].todo)) \subseteq Elements(cmd[p].todo)
          /\ Runtime(p) \notin Elements(Tail(cmd[p].todo))
      BY <1>4, RuntimeTyped DEF ReadState, At, ImagePCs
    <2>2. QED
      BY <1>4, <2>1, ReadStateDoes
      DEF ReadState, ToBuild, Ends, Moves, Carries, KeepsTodo, At
  <1>5. CASE BuildImage(p)
    <2>1. /\ Runtime(p) \in Elements(cmd[p].todo)
          /\ Elements(Tail(cmd[p].todo)) \subseteq Elements(cmd[p].todo)
          /\ Runtime(p) \notin Elements(Tail(cmd[p].todo))
      BY <1>5, RuntimeTyped DEF BuildImage, At, ImagePCs
    <2>2. QED
      BY <1>5, <2>1, BuildImageDoes
      DEF BuildImage, ToBuild, Ends, Moves, Carries, KeepsTodo, At
  <1>6. CASE TruncateState(p)
    <2>1. /\ Runtime(p) \in Elements(cmd[p].todo)
          /\ Elements(Tail(cmd[p].todo)) \subseteq Elements(cmd[p].todo)
          /\ Runtime(p) \notin Elements(Tail(cmd[p].todo))
      BY <1>6, RuntimeTyped DEF TruncateState, At, ImagePCs
    <2>2. QED
      BY <1>6, <2>1, TruncateStateDoes
      DEF TruncateState, ToBuild, Ends, Moves, Carries, KeepsTodo, At
  <1>7. CASE WriteState(p)
    <2>1. /\ Runtime(p) \in Elements(cmd[p].todo)
          /\ Elements(Tail(cmd[p].todo)) \subseteq Elements(cmd[p].todo)
          /\ Runtime(p) \notin Elements(Tail(cmd[p].todo))
      BY <1>7, RuntimeTyped DEF WriteState, At, ImagePCs
    <2>2. QED
      BY <1>7, <2>1, WriteStateDoes
      DEF WriteState, ToBuild, Ends, Moves, Carries, KeepsTodo, At
  <1>8. CASE PodmanRun(p)
    BY <1>8, PodmanRunDoes
    DEF ToBuild, Ends, Moves, Carries, Processes, KeepsTodo, At, PodmanRun
  <1>9. CASE OrphanBuild(p)
    <2>1. Runtime(p) \in Elements(cmd[p].todo)
      BY <1>9, RuntimeTyped DEF OrphanBuild, At, ImagePCs
    <2>2. QED
      BY <1>9, <2>1, OrphanBuildDoes DEF OrphanBuild, ToBuild, Ends, At
  <1>10. CASE CallFails(p) \/ Kill(p) \/ InspectAll(p) \/ Decline(p) \/ Confirm(p)
             \/ ApplyDone(p)
    <2>1. ASSUME cmd[p].pc = "build"
          PROVE  Runtime(p) \in Elements(cmd[p].todo)
      BY <2>1, RuntimeTyped DEF ImagePCs
    <2>2. cmd[p].pc = "orphan" => FALSE
      BY <1>10 DEF CallFails, Kill, InspectAll, Decline, Confirm, ApplyDone, At
    <2>3. QED
      BY <1>10, <2>1, <2>2, PlainDoes DEF ToBuild, Ends, Moves, KeepsTodo, At
  <1>11. CASE PsAll(p)
    BY <1>11, PsAllDoes
    DEF ToBuild, Ends, Moves, Carries, Processes, KeepsTodo, At, PsAll
  <1>12. CASE ListImages(p)
    BY <1>12, ListImagesDoes
    DEF ToBuild, Ends, Moves, Carries, Processes, KeepsTodo, At, ListImages
  <1>13. CASE ListVolumes(p)
    BY <1>13, ListVolumesDoes
    DEF ToBuild, Ends, Moves, Carries, Processes, KeepsTodo, At, ListVolumes
  <1>14. CASE RemoveImage(p)
    BY <1>14, RemoveImageDoes
    DEF ToBuild, Ends, Moves, Carries, Processes, KeepsTodo, At, RemoveImage
  <1>15. CASE RemoveVolume(p)
    BY <1>15, RemoveVolumeDoes
    DEF ToBuild, Ends, Moves, Carries, Processes, KeepsTodo, At, RemoveVolume
  <1>16. CASE RemovalFails(p)
    BY <1>16, RemovalFailsDoes
    DEF ToBuild, Ends, Moves, Carries, Processes, KeepsTodo, At, RemovalFails
  <1>17. CASE ReadForRemoval(p)
    BY <1>17, ReadForRemovalDoes
    DEF ToBuild, Ends, Moves, Carries, Processes, KeepsTodo, At, ReadForRemoval
  <1>18. CASE RemoveState(p)
    BY <1>18, RemoveStateDoes
    DEF ToBuild, Ends, Moves, Carries, Processes, KeepsTodo, At, RemoveState
  <1>19. QED
    BY <1>1, <1>2, <1>3, <1>4, <1>5, <1>6, <1>7, <1>8, <1>9, <1>10, <1>11,
       <1>12, <1>13, <1>14, <1>15, <1>16, <1>17, <1>18
    DEF StepOf, ImageStep, CleanStep

\* A clean only comes to know of what is there.
LEMMA KnowsStep ==
    ASSUME ImageInv, NEW p \in Procs, StepOf(p)
    PROVE  /\ cmd'[p].listed \subseteq cmd[p].listed \cup images
           /\ cmd'[p].plan \subseteq cmd[p].plan \cup cmd[p].listed \cup volumes
  <1>1. CASE \E j \in Jobs : Invoke(p, j)
    BY <1>1, InvokeDoes
    DEF Ends, Moves, Carries, Processes, KeepsInventory, KeepsPlan
  <1>2. CASE ResolveLatest(p)
    BY <1>2, ResolveLatestDoes
    DEF Ends, Moves, Carries, Processes, KeepsInventory, KeepsPlan
  <1>3. CASE ImageExists(p)
    BY <1>3, ImageExistsDoes
    DEF Ends, Moves, Carries, Processes, KeepsInventory, KeepsPlan
  <1>4. CASE ReadState(p)
    BY <1>4, ReadStateDoes
    DEF Ends, Moves, Carries, Processes, KeepsInventory, KeepsPlan
  <1>5. CASE BuildImage(p)
    BY <1>5, BuildImageDoes
    DEF Ends, Moves, Carries, Processes, KeepsInventory, KeepsPlan
  <1>6. CASE TruncateState(p)
    BY <1>6, TruncateStateDoes
    DEF Ends, Moves, Carries, Processes, KeepsInventory, KeepsPlan
  <1>7. CASE WriteState(p)
    BY <1>7, WriteStateDoes
    DEF Ends, Moves, Carries, Processes, KeepsInventory, KeepsPlan
  <1>8. CASE PodmanRun(p)
    BY <1>8, PodmanRunDoes
    DEF Ends, Moves, Carries, Processes, KeepsInventory, KeepsPlan
  <1>9. CASE OrphanBuild(p)
    BY <1>9, OrphanBuildDoes
    DEF Ends, Moves, Carries, Processes, KeepsInventory, KeepsPlan
  <1>10. CASE CallFails(p) \/ Kill(p) \/ InspectAll(p) \/ Decline(p) \/ Confirm(p)
             \/ ApplyDone(p)
    BY <1>10, PlainDoes
    DEF Ends, Moves, Carries, Processes, KeepsInventory, KeepsPlan
  <1>11. CASE PsAll(p)
    BY <1>11, PsAllDoes
    DEF Ends, Moves, Carries, Processes, KeepsInventory, KeepsPlan
  <1>12. CASE ListImages(p)
    BY <1>12, ListImagesDoes
    DEF Ends, Moves, Carries, Processes, KeepsInventory, KeepsPlan
  <1>13. CASE ListVolumes(p)
    BY <1>13, ListVolumesDoes
    DEF Ends, Moves, Carries, Processes, KeepsInventory, KeepsPlan
  <1>14. CASE RemoveImage(p)
    BY <1>14, RemoveImageDoes
    DEF Ends, Moves, Carries, Processes, KeepsInventory, KeepsPlan
  <1>15. CASE RemoveVolume(p)
    BY <1>15, RemoveVolumeDoes
    DEF Ends, Moves, Carries, Processes, KeepsInventory, KeepsPlan
  <1>16. CASE RemovalFails(p)
    BY <1>16, RemovalFailsDoes
    DEF Ends, Moves, Carries, Processes, KeepsInventory, KeepsPlan
  <1>17. CASE ReadForRemoval(p)
    BY <1>17, ReadForRemovalDoes
    DEF Ends, Moves, Carries, Processes, KeepsInventory, KeepsPlan
  <1>18. CASE RemoveState(p)
    BY <1>18, RemoveStateDoes
    DEF Ends, Moves, Carries, Processes, KeepsInventory, KeepsPlan
  <1>19. QED
    BY <1>1, <1>2, <1>3, <1>4, <1>5, <1>6, <1>7, <1>8, <1>9, <1>10, <1>11,
       <1>12, <1>13, <1>14, <1>15, <1>16, <1>17, <1>18
    DEF StepOf, ImageStep, CleanStep

\* So what is known is what was known before and what p makes.
LEMMA KnownStep ==
    ASSUME ImageInv, NEW p \in Procs, StepOf(p)
    PROVE  /\ KnownImages' \subseteq KnownImages \cup images'
           /\ KnownVolumes' \subseteq KnownVolumes \cup volumes'
  <1>1. /\ \A q \in Procs \ {p} : cmd'[q] = cmd[q]
        /\ cmd'[p].listed \subseteq cmd[p].listed \cup images
        /\ cmd'[p].plan \subseteq cmd[p].plan \cup cmd[p].listed \cup volumes
    BY JobStep, KnowsStep DEF Typed
  <1>2. /\ images \subseteq Images /\ volumes \subseteq Volumes
        /\ cmd[p].listed \subseteq Images
    BY DEF ImageInv, TypeOK, Command
  <1>3. ASSUME NEW q \in Procs
        PROVE  (cmd'[q].plan \cup cmd'[q].listed) \cap Images \subseteq KnownImages
    <2>1. CASE q = p
      BY <1>1, <1>2, <2>1, NoImageIsVolume DEF KnownImages
    <2>2. CASE q # p
      BY <1>1, <2>2 DEF KnownImages
    <2>3. QED
      BY <2>1, <2>2
  <1>4. ASSUME NEW q \in Procs
        PROVE  cmd'[q].plan \cap Volumes \subseteq KnownVolumes
    <2>1. CASE q = p
      BY <1>1, <1>2, <2>1, NoImageIsVolume DEF KnownVolumes
    <2>2. CASE q # p
      BY <1>1, <2>2 DEF KnownVolumes
    <2>3. QED
      BY <2>1, <2>2
  <1>5. QED
    BY <1>3, <1>4 DEF KnownImages, KnownVolumes

\* Nobody makes an image or a volume a second time.
LEMMA FreshStep ==
    ASSUME ImageInv, NEW p \in Procs, StepOf(p), NEW q \in Procs
    PROVE  Fresh(q)'
  <1>1. /\ WorldStep(p) /\ Fresh(q) /\ cmd \in [Procs -> Command]
        /\ ~At(p, "done") /\ (q # p => cmd'[q] = cmd[q])
    BY JobStep, WorldEffect DEF Typed, ImageInv, TypeOK, Personal
  <1>2. ToBuild(q)' \subseteq ToBuild(q)
    <2>1. CASE q = p
      BY <2>1, ToBuildStep
    <2>2. CASE q # p
      BY <1>1, <2>2 DEF ToBuild, At
    <2>3. QED
      BY <2>1, <2>2
  <1>3. ASSUME NEW i \in KnownImages', i.by = q
        PROVE  i.runtime \notin ToBuild(q)'
    <2>1. CASE i \in KnownImages
      BY <1>1, <1>2, <1>3, <2>1 DEF Fresh
    <2>2. CASE i \notin KnownImages
      <3>1. i \in images' /\ i \notin images
        BY <1>3, <2>2, KnownStep DEF KnownImages
      <3>2. /\ Builds(p, i) /\ cmd[p].pc \in {"build", "orphan"}
            /\ cmd'[p].pc # "orphan"
        BY <1>1, <3>1 DEF WorldStep, ImagesStep, Builds
      <3>3. q = p /\ i.runtime = Runtime(p)
        BY <1>3, <3>2 DEF Builds
      <3>4. QED
        BY <3>2, <3>3, ToBuildStep
    <2>3. QED
      BY <2>1, <2>2
  <1>4. ASSUME cmd'[q].pc # "done", NEW v \in KnownVolumes', v.by = q
        PROVE  FALSE
    <2>1. cmd[q].pc # "done"
      BY <1>1, <1>4 DEF At
    <2>2. v \notin KnownVolumes
      BY <1>1, <1>4, <2>1 DEF Fresh, At
    <2>3. v \in volumes' /\ v \notin volumes
      BY <1>4, <2>2, KnownStep DEF KnownVolumes
    <2>4. /\ cmd'[p].pc = "done"
          /\ v = [workspace |-> cmd[p].job.workspace, by |-> p]
      BY <1>1, <2>3 DEF WorldStep, VolumesStep
    <2>5. q = p
      BY <1>4, <2>4
    <2>6. QED
      BY <1>4, <2>4, <2>5
  <1>5. QED
    BY <1>3, <1>4 DEF Fresh, At

\* A launch that is at work was at work before, or its workspace was free when
\* it came.
LEMMA LaunchStep ==
    ASSUME ImageInv, NEW p \in Procs, StepOf(p), AtWork(p)', Op(p)' = "launch"
    PROVE  /\ containers' = containers
           /\ \/ AtWork(p) /\ Op(p) = "launch" /\ cmd'[p].job = cmd[p].job
              \/ Launchable(cmd'[p].job.workspace)
  <1>1. WorldStep(p) /\ cmd'[p].pc # "done"
    BY WorldEffect DEF AtWork
  <1>2. containers' = containers
    BY <1>1 DEF WorldStep, ContainersStep
  <1>3. CASE \E j \in Jobs : Invoke(p, j)
    <2>1. PICK j \in Jobs : Invoke(p, j)
      BY <1>3
    <2>2. cmd'[p].job = j
      BY <2>1, InvokeDoes
    <2>3. j.op = "launch"
      BY <2>2 DEF Op
    <2>4. QED
      BY <1>2, <2>1, <2>2, <2>3 DEF Invoke
  <1>4. CASE ~At(p, "new")
    <2>1. cmd'[p].job = cmd[p].job /\ ~At(p, "done")
      BY <1>4, JobStep
    <2>2. QED
      BY <1>2, <1>4, <2>1 DEF AtWork, At, Op
  <1>5. CASE At(p, "new") /\ ~\E j \in Jobs : Invoke(p, j)
    <2>1. ImageStep(p) \/ CleanStep(p)
      BY <1>5 DEF StepOf
    <2>2. CASE ImageStep(p)
      BY <1>5, <2>2 DEF ImageStep, At, ResolveLatest, ImageExists, ReadState,
         BuildImage, TruncateState, WriteState, PodmanRun, CallFails, Kill, AtWork,
         OrphanBuild
    <2>3. CASE CleanStep(p)
      BY <1>5, <2>3 DEF CleanStep, At, PsAll, InspectAll, ListImages, ListVolumes,
         Decline, Confirm, RemoveImage, RemoveVolume, RemovalFails, ReadForRemoval,
         RemoveState, ApplyDone
    <2>4. QED
      BY <2>1, <2>2, <2>3
  <1>6. QED
    BY <1>3, <1>4, <1>5

\* The launches at work stay in workspaces of their own.
LEMMA LaunchAloneStep ==
    ASSUME ImageInv, NEW p \in Procs, StepOf(p), NEW q \in Procs
    PROVE  LaunchAlone(q)'
  <1> SUFFICES ASSUME AtWork(q)', Op(q)' = "launch"
               PROVE  /\ (~Mounted(cmd[q].job.workspace))'
                      /\ \A r \in Procs \ {q} : AtWork(r)' /\ Op(r)' = "launch" =>
                            cmd'[r].job.workspace # cmd'[q].job.workspace
    BY DEF LaunchAlone
  <1>1. WorldStep(p) /\ \A r \in Procs \ {p} : cmd'[r] = cmd[r]
    BY JobStep, WorldEffect DEF Typed
  <1>2. \A r \in Procs \ {p} : /\ AtWork(r)' <=> AtWork(r)
                               /\ Op(r)' = Op(r)
    BY <1>1 DEF AtWork, Op
  <1>3. \A r, s \in Procs : /\ r # s
                            /\ AtWork(r) /\ Op(r) = "launch"
                            /\ AtWork(s) /\ Op(s) = "launch"
           => cmd[r].job.workspace # cmd[s].job.workspace
    BY DEF ImageInv, Personal, LaunchAlone
  <1>4. \A r \in Procs : AtWork(r) /\ Op(r) = "launch" =>
           ~Mounted(cmd[r].job.workspace)
    BY DEF ImageInv, Personal, LaunchAlone
  <1>5. CASE q = p
    <2>1. /\ containers' = containers
          /\ \/ AtWork(p) /\ Op(p) = "launch" /\ cmd'[p].job = cmd[p].job
             \/ Launchable(cmd'[p].job.workspace)
      BY <1>5, LaunchStep
    <2>2. (~Mounted(cmd[p].job.workspace))'
      BY <1>4, <2>1 DEF Mounted, Launchable
    <2>3. ASSUME NEW r \in Procs \ {p}, AtWork(r), Op(r) = "launch"
          PROVE  cmd[r].job.workspace # cmd'[p].job.workspace
      BY <1>3, <2>1, <2>3 DEF Launchable
    <2>4. QED
      BY <1>1, <1>2, <1>5, <2>2, <2>3
  <1>6. CASE q # p
    <2>1. AtWork(q) /\ Op(q) = "launch" /\ cmd'[q] = cmd[q]
      BY <1>1, <1>2, <1>6
    <2>2. (~Mounted(cmd[q].job.workspace))'
      <3>1. CASE containers' = containers
        BY <1>4, <2>1, <3>1 DEF Mounted
      <3>2. CASE /\ At(p, "run") /\ Op(p) = "launch"
                 /\ \E i \in images : containers' = containers \cup
                       {[workspace |-> cmd[p].job.workspace, image |-> i]}
        <4>1. cmd[p].job.workspace # cmd[q].job.workspace
          BY <1>3, <1>6, <2>1, <3>2 DEF AtWork, At
        <4>2. QED
          BY <1>4, <2>1, <3>2, <4>1 DEF Mounted
      <3>3. QED
        BY <1>1, <3>1, <3>2 DEF WorldStep, ContainersStep
    <2>3. ASSUME AtWork(p)', Op(p)' = "launch"
          PROVE  cmd'[p].job.workspace # cmd[q].job.workspace
      <3>1. \/ AtWork(p) /\ Op(p) = "launch" /\ cmd'[p].job = cmd[p].job
            \/ Launchable(cmd'[p].job.workspace)
        BY <2>3, LaunchStep
      <3>2. QED
        BY <1>3, <1>6, <2>1, <3>1 DEF Launchable
    <2>4. ASSUME NEW r \in Procs \ {q}, r # p, AtWork(r)', Op(r)' = "launch"
          PROVE  cmd'[r].job.workspace # cmd[q].job.workspace
      BY <1>1, <1>2, <1>3, <2>1, <2>4
    <2>5. QED
      BY <1>1, <2>1, <2>2, <2>3, <2>4
  <1>7. QED
    BY <1>5, <1>6

\* An image keeps or changes hands under its tag; only a clean of another
\* binary takes the tag away.
LEMMA TagStep ==
    ASSUME ImageInv, NEW p \in Procs, StepOf(p), NEW r, NEW c,
           Tagged(r, c) # {}
    PROVE  Tagged(r, c)' # {} \/ (Op(p) = "clean" /\ c # Context(p))
  <1>1. WorldStep(p)
    BY WorldEffect
  <1>2. CASE images' = images
    BY <1>2 DEF Tagged
  <1>3. CASE \E i \in Images : Builds(p, i)
    BY <1>3 DEF Builds, Tagged
  <1>4. CASE /\ At(p, "apply")
             /\ \E x \in cmd[p].left \cap Images :
                   \E i \in Tagged(x.runtime, x.context) : images' = images \ {i}
    <2>1. PICK x \in cmd[p].left \cap Images :
             \E i \in Tagged(x.runtime, x.context) : images' = images \ {i}
      BY <1>4
    <2>2. Op(p) = "clean" /\ x.context # Context(p)
      BY <1>4, <2>1 DEF ImageInv, Personal, OnPath, CleanPCs, At, Candidates, IsImage
    <2>3. QED
      BY <2>1, <2>2 DEF Tagged
  <1>5. QED
    BY <1>1, <1>2, <1>3, <1>4 DEF WorldStep, ImagesStep

\* A launch is behind its check with the image there, or was there before.
LEMMA EnsuredOwn ==
    ASSUME ImageInv, NEW p \in Procs, StepOf(p), Op(p)' = "launch",
           cmd'[p].pc \in {"read", "truncate", "write", "run"}
    PROVE  /\ Op(p) = "launch" /\ Runtime(p)' = Runtime(p)
           /\ \/ cmd[p].pc \in {"read", "truncate", "write", "run"}
              \/ Tagged(Runtime(p), Context(p))' # {}
  <1>1. CASE \E j \in Jobs : Invoke(p, j)
    BY <1>1, InvokeDoes
  <1>2. CASE ResolveLatest(p)
    BY <1>2, ResolveLatestDoes
  <1>3. CASE ImageExists(p)
    <2>1. /\ cmd'[p].job = cmd[p].job /\ cmd'[p].todo = cmd[p].todo
          /\ images' = images
          /\ Op(p) = "update" \/ Tagged(Runtime(p), Context(p)) # {}
      BY <1>3, ImageExistsDoes DEF KeepsJob, KeepsTodo, Podman
    <2>2. Op(p) = "launch" /\ Runtime(p)' = Runtime(p) /\ Context(p)' = Context(p)
      BY <2>1 DEF Op, Runtime, Context
    <2>3. QED
      BY <2>1, <2>2 DEF Tagged
  <1>4. CASE ReadState(p)
    BY <1>4, ReadStateDoes
    DEF Moves, Ends, Processes, Carries, KeepsJob, KeepsTodo, Runtime, Op,
        ReadState, At
  <1>5. CASE BuildImage(p)
    <2>1. cmd'[p].job = cmd[p].job /\ cmd'[p].todo = cmd[p].todo
      BY <1>5, BuildImageDoes DEF Carries, KeepsJob, KeepsTodo
    <2>2. Op(p) = "launch" /\ Runtime(p)' = Runtime(p) /\ Context(p)' = Context(p)
      BY <2>1 DEF Op, Runtime, Context
    <2>3. QED
      BY <1>5, <2>2, BuildImageDoes DEF Builds, Tagged
  <1>6. CASE TruncateState(p)
    BY <1>6, TruncateStateDoes
    DEF Moves, Ends, Processes, Carries, KeepsJob, KeepsTodo, Runtime, Op,
        TruncateState, At
  <1>7. CASE WriteState(p)
    BY <1>7, WriteStateDoes
    DEF Moves, Ends, Processes, Carries, KeepsJob, KeepsTodo, Runtime, Op,
        WriteState, At
  <1>8. CASE PodmanRun(p)
    BY <1>8, PodmanRunDoes
    DEF Moves, Ends, Processes, Carries, KeepsJob, KeepsTodo, Runtime, Op
  <1>9. CASE OrphanBuild(p)
    BY <1>9, OrphanBuildDoes
    DEF Moves, Ends, Processes, Carries, KeepsJob, KeepsTodo, Runtime, Op
  <1>10. CASE CallFails(p) \/ Kill(p) \/ InspectAll(p) \/ Decline(p) \/ Confirm(p)
             \/ ApplyDone(p)
    BY <1>10, PlainDoes
    DEF Moves, Ends, Processes, Carries, KeepsJob, KeepsTodo, Runtime, Op
  <1>11. CASE PsAll(p)
    BY <1>11, PsAllDoes
    DEF Moves, Ends, Processes, Carries, KeepsJob, KeepsTodo, Runtime, Op
  <1>12. CASE ListImages(p)
    BY <1>12, ListImagesDoes
    DEF Moves, Ends, Processes, Carries, KeepsJob, KeepsTodo, Runtime, Op
  <1>13. CASE ListVolumes(p)
    BY <1>13, ListVolumesDoes
    DEF Moves, Ends, Processes, Carries, KeepsJob, KeepsTodo, Runtime, Op
  <1>14. CASE RemoveImage(p)
    BY <1>14, RemoveImageDoes
    DEF Moves, Ends, Processes, Carries, KeepsJob, KeepsTodo, Runtime, Op
  <1>15. CASE RemoveVolume(p)
    BY <1>15, RemoveVolumeDoes
    DEF Moves, Ends, Processes, Carries, KeepsJob, KeepsTodo, Runtime, Op
  <1>16. CASE RemovalFails(p)
    BY <1>16, RemovalFailsDoes
    DEF Moves, Ends, Processes, Carries, KeepsJob, KeepsTodo, Runtime, Op
  <1>17. CASE ReadForRemoval(p)
    BY <1>17, ReadForRemovalDoes
    DEF Moves, Ends, Processes, Carries, KeepsJob, KeepsTodo, Runtime, Op
  <1>18. CASE RemoveState(p)
    BY <1>18, RemoveStateDoes
    DEF Moves, Ends, Processes, Carries, KeepsJob, KeepsTodo, Runtime, Op
  <1>19. QED
    BY <1>1, <1>2, <1>3, <1>4, <1>5, <1>6, <1>7, <1>8, <1>9, <1>10, <1>11,
       <1>12, <1>13, <1>14, <1>15, <1>16, <1>17, <1>18
    DEF StepOf, ImageStep, CleanStep

\* The image of a launch stays, unless a clean of another binary is about.
LEMMA EnsuredStep ==
    ASSUME ImageInv, NEW p \in Procs, StepOf(p), NEW q \in Procs
    PROVE  Ensured(q)'
  <1> SUFFICES ASSUME Op(q)' = "launch",
                      cmd'[q].pc \in {"read", "truncate", "write", "run"}
               PROVE  Tagged(Runtime(q), Context(q))' # {} \/ AnotherCleans(q)'
    BY DEF Ensured
  <1>1. /\ Op(q) = "launch" /\ Runtime(q)' = Runtime(q)
        /\ \/ cmd[q].pc \in {"read", "truncate", "write", "run"}
           \/ Tagged(Runtime(q), Context(q))' # {}
    <2>1. CASE q = p
      BY <2>1, EnsuredOwn
    <2>2. CASE q # p
      BY <2>2, JobStep DEF Typed, Op, Runtime
    <2>3. QED
      BY <2>1, <2>2
  <1>2. cmd[q].job # None /\ Context(q)' = Context(q)
    BY <1>1, SameJob DEF Op
  <1>3. CASE Tagged(Runtime(q), Context(q))' # {}
    BY <1>3
  <1>4. CASE cmd[q].pc \in {"read", "truncate", "write", "run"}
    <2>1. CASE AnotherCleans(q)
      <3>1. PICK r \in Procs : Op(r) = "clean" /\ Context(r) # Context(q)
        BY <2>1 DEF AnotherCleans
      <3>2. cmd[r].job # None
        BY <3>1 DEF Op
      <3>3. Op(r)' = "clean" /\ Context(r)' # Context(q)'
        BY <1>2, <3>1, <3>2, SameJob
      <3>4. QED
        BY <3>3 DEF AnotherCleans
    <2>2. CASE Tagged(Runtime(q), Context(q)) # {}
      <3>1. CASE Op(p) = "clean" /\ Context(q) # Context(p)
        <4>1. cmd[p].job # None
          BY <3>1 DEF Op
        <4>2. Op(p)' = "clean" /\ Context(p)' # Context(q)'
          BY <1>2, <3>1, <4>1, SameJob
        <4>3. QED
          BY <4>2 DEF AnotherCleans
      <3>2. CASE Tagged(Runtime(q), Context(q))' # {}
        BY <3>2
      <3>3. \/ Tagged(Runtime(q), Context(q))' # {}
            \/ Op(p) = "clean" /\ Context(q) # Context(p)
        <4>1. \A r, c : Tagged(r, c) # {} =>
                 \/ {i \in images' : i.runtime = r /\ i.context = c} # {}
                 \/ Op(p) = "clean" /\ c # Context(p)
          BY TagStep DEF Tagged
        <4>2. QED
          BY <1>1, <1>2, <2>2, <4>1 DEF Tagged
      <3>4. QED
        BY <3>1, <3>2, <3>3
    <2>3. QED
      BY <1>1, <1>4, <2>1, <2>2 DEF ImageInv, Personal, Ensured
  <1>5. QED
    BY <1>1, <1>3, <1>4

\* What a clean has in its plan is not made again: it is there after a step
\* only if it was there before.
LEMMA PlannedIsOld ==
    ASSUME ImageInv, NEW p \in Procs, StepOf(p), NEW q \in Procs,
           NEW x \in cmd[q].plan, x \in images' \cup volumes'
    PROVE  x \in images \cup volumes
  <1>1. WorldStep(p) /\ Fresh(p) /\ ~At(p, "done") /\ x \in Resources
    BY WorldEffect, JobStep DEF ImageInv, Personal, TypeOK, Command
  <1>2. CASE x \in images'
    <2>1. ASSUME x \notin images PROVE FALSE
      <3>1. /\ Builds(p, x) /\ cmd[p].pc \in {"build", "orphan"}
            /\ cmd'[p].pc # "orphan"
        BY <1>1, <1>2, <2>1 DEF WorldStep, ImagesStep, Builds
      <3>2. x \in KnownImages /\ x.by = p /\ x.runtime = Runtime(p)
        BY <3>1 DEF Builds, KnownImages
      <3>3. QED
        BY <1>1, <3>1, <3>2, ToBuildStep DEF Fresh
    <2>2. QED
      BY <2>1
  <1>3. CASE x \in volumes'
    <2>1. ASSUME x \notin volumes PROVE FALSE
      <3>1. /\ x = [workspace |-> cmd[p].job.workspace, by |-> p]
            /\ cmd[p].job \in Jobs
        BY <1>1, <1>3, <2>1 DEF WorldStep, VolumesStep
      <3>2. cmd[p].job.workspace \in Workspaces
        BY <3>1, ImagesAssumption DEF Job
      <3>3. x \in Volumes /\ x.by = p
        BY <3>1, <3>2 DEF Volumes
      <3>4. x \in KnownVolumes
        BY <3>3 DEF KnownVolumes
      <3>5. QED
        BY <1>1, <3>3, <3>4 DEF Fresh
    <2>2. QED
      BY <2>1
  <1>4. QED
    BY <1>2, <1>3

\* A metadata file comes to name an image only by a command of its binary.
LEMMA AccountedStep ==
    ASSUME ImageInv, NEW p \in Procs, StepOf(p), NEW i \in Images, Accounted(i)
    PROVE  Accounted(i)'
  <1> SUFFICES ASSUME metadata'[i.runtime] \notin {None, Invalid},
                      metadata'[i.runtime].context = i.context
               PROVE  \E q \in Procs : Op(q)' \in {"launch", "update"}
                                       /\ Context(q)' = i.context
    BY DEF Accounted
  <1>1. /\ WorldStep(p) /\ i.runtime \in Runtimes
        /\ metadata \in [Runtimes -> Metadata \cup {None, Invalid}]
    BY WorldEffect DEF Images, ImageInv, TypeOK
  <1>2. CASE metadata'[i.runtime] = metadata[i.runtime]
    <2>1. PICK q \in Procs : Op(q) \in {"launch", "update"} /\ Context(q) = i.context
      BY <1>2 DEF Accounted
    <2>2. cmd[q].job # None
      BY <2>1 DEF Op
    <2>3. QED
      BY <2>1, <2>2, SameJob
  <1>3. CASE metadata'[i.runtime] # metadata[i.runtime]
    <2>1. /\ At(p, "write") /\ metadata'[i.runtime] = cmd[p].state
      BY <1>1, <1>3 DEF WorldStep, MetadataStep
    <2>2. /\ cmd[p].state.context = Context(p)
          /\ Op(p) \in {"launch", "update"}
      BY <2>1 DEF ImageInv, Personal, StateIsBuilt, OnPath, ImagePCs, At
    <2>3. cmd[p].job # None
      BY <2>2 DEF Op
    <2>4. QED
      BY <2>1, <2>2, <2>3, SameJob
  <1>4. QED
    BY <1>2, <1>3

\* It suffices that a clean counts nothing more as removed, and has accounted
\* for the image it puts down.
LEMMA GoneKept ==
    ASSUME ImageInv, NEW p \in Procs, StepOf(p), NEW q \in Procs,
           Removed(q)' \subseteq Removed(q),
           \A i \in Removed(q) \cap Images :
              i = cmd[q].cur /\ i # cmd'[q].cur => Accounted(i)'
    PROVE  RemovedIsGone(q)'
  <1>1. RemovedIsGone(q) /\ Removed(q) \subseteq cmd[q].plan
    BY DEF ImageInv, Personal, Removed
  <1>2. Removed(q)' \cap (images \cup volumes)' = {}
    BY <1>1, PlannedIsOld DEF RemovedIsGone
  <1>3. ASSUME NEW i \in Removed(q)' \cap Images, i # cmd'[q].cur
        PROVE  Accounted(i)'
    <2>1. i \in Removed(q) \cap Images
      OBVIOUS
    <2>2. CASE i = cmd[q].cur
      BY <1>3, <2>1, <2>2
    <2>3. CASE i # cmd[q].cur
      <3>1. Accounted(i)
        BY <1>1, <2>1, <2>3 DEF RemovedIsGone
      <3>2. QED
        BY <3>1, AccountedStep
    <2>4. QED
      BY <2>2, <2>3
  <1>4. QED
    BY <1>2, <1>3 DEF RemovedIsGone

\* What p has removed is gone, and its metadata accounted for.
LEMMA GoneOwn ==
    ASSUME ImageInv, NEW p \in Procs, StepOf(p)
    PROVE  RemovedIsGone(p)'
  <1>1. cmd[p].result = "none"
    BY JobStep DEF ImageInv, Personal, OnPath
  <1>2. Removed(p)' = {} => RemovedIsGone(p)'
    BY DEF RemovedIsGone
  <1>3. CASE \E j \in Jobs : Invoke(p, j)
    BY <1>1, <1>2, <1>3, InvokeDoes
    DEF Removed, Ends, Moves, Carries, Processes, KeepsJob
  <1>4. CASE ResolveLatest(p)
    BY <1>1, <1>2, <1>4, ResolveLatestDoes
    DEF Removed, Ends, Moves, Carries, Processes, KeepsJob
  <1>5. CASE ImageExists(p)
    BY <1>1, <1>2, <1>5, ImageExistsDoes
    DEF Removed, Ends, Moves, Carries, Processes, KeepsJob
  <1>6. CASE ReadState(p)
    BY <1>1, <1>2, <1>6, ReadStateDoes
    DEF Removed, Ends, Moves, Carries, Processes, KeepsJob
  <1>7. CASE BuildImage(p)
    BY <1>1, <1>2, <1>7, BuildImageDoes
    DEF Removed, Ends, Moves, Carries, Processes, KeepsJob
  <1>8. CASE TruncateState(p)
    BY <1>1, <1>2, <1>8, TruncateStateDoes
    DEF Removed, Ends, Moves, Carries, Processes, KeepsJob
  <1>9. CASE WriteState(p)
    BY <1>1, <1>2, <1>9, WriteStateDoes
    DEF Removed, Ends, Moves, Carries, Processes, KeepsJob, Op
  <1>10. CASE PodmanRun(p)
    BY <1>1, <1>2, <1>10, PodmanRunDoes
    DEF Removed, Ends, Moves, Carries, Processes, KeepsJob, Op
  <1>11. CASE OrphanBuild(p)
    BY <1>1, <1>2, <1>11, OrphanBuildDoes
    DEF Removed, Ends, Moves, Carries, Processes, KeepsJob
  <1>12. CASE CallFails(p) \/ Kill(p) \/ InspectAll(p) \/ Decline(p) \/ Confirm(p)
             \/ ApplyDone(p)
    <2>1. CASE At(p, "apply") /\ cmd[p].left = {} /\ ~cmd[p].failed /\ Ends(p, "ok")
      <3>1. /\ cmd'[p].plan = cmd[p].plan /\ cmd'[p].left = {}
            /\ cmd[p].pc = "apply"
        BY <2>1 DEF Ends, At
      <3>2. cmd[p].cur = None
        BY <3>1 DEF ImageInv, Personal, OnPath
      <3>3. Removed(p) = cmd[p].plan /\ Removed(p)' \subseteq cmd[p].plan
        BY <2>1, <3>1 DEF Removed, At
      <3>4. QED
        BY <3>2, <3>3, GoneKept, ImagesAssumption
    <2>2. CASE At(p, "confirm") /\ Moves(p, "apply")
      <3>1. Removed(p)' = Removed(p) /\ cmd'[p].cur = cmd[p].cur
        BY <1>1, <2>2 DEF Moves, KeepsPlan, KeepsJob, Removed, At, Op
      <3>2. QED
        BY <3>1, GoneKept
    <2>3. QED
      BY <1>1, <1>2, <1>12, <2>1, <2>2, PlainDoes DEF Removed, Ends, Moves, KeepsJob
  <1>13. CASE PsAll(p)
    BY <1>1, <1>2, <1>13, PsAllDoes
    DEF Removed, Ends, Moves, Carries, Processes, KeepsJob
  <1>14. CASE ListImages(p)
    BY <1>1, <1>2, <1>14, ListImagesDoes
    DEF Removed, Ends, Moves, Carries, Processes, KeepsJob
  <1>15. CASE ListVolumes(p)
    BY <1>1, <1>2, <1>15, ListVolumesDoes
    DEF Removed, Ends, Moves, Carries, Processes, KeepsJob
  <1>16. CASE RemoveImage(p)
    <2>1. PICK x \in cmd[p].left \cap Images :
            /\ \E i \in Tagged(x.runtime, x.context) : images' = images \ {i}
            /\ Processes(p, "state", cmd[p].left \ {x}, x, cmd[p].failed)
      BY <1>16, RemoveImageDoes
    <2>2. /\ At(p, "apply") /\ cmd[p].cur = None /\ volumes' = volumes
          /\ RemovedIsGone(p) /\ x \in cmd[p].plan
      BY <1>16, RemoveImageDoes
      DEF ImageInv, Personal, OnPath, Candidates, At
    <2>3. /\ cmd'[p].cur = x /\ Removed(p)' \subseteq Removed(p) \cup {x}
          /\ Removed(p) \subseteq cmd[p].plan
      BY <1>1, <2>1, <2>2 DEF Processes, KeepsJob, Removed, At
    <2>4. x \notin images'
      BY <2>1 DEF Tagged, ImageInv, TypeOK, Ref
    <2>5. x \notin volumes'
      BY <2>1, <2>2, NoImageIsVolume DEF ImageInv, TypeOK
    <2>6. Removed(p)' \cap (images \cup volumes)' = {}
      BY <2>2, <2>3, <2>4, <2>5, PlannedIsOld DEF RemovedIsGone
    <2>7. ASSUME NEW i \in Removed(p)' \cap Images, i # cmd'[p].cur
          PROVE  Accounted(i)'
      <3>1. i \in Removed(p) /\ i # cmd[p].cur
        BY <2>2, <2>3, <2>7, ImagesAssumption
      <3>2. Accounted(i)
        BY <2>2, <3>1 DEF RemovedIsGone
      <3>3. QED
        BY <3>2, AccountedStep
    <2>8. QED
      BY <2>6, <2>7 DEF RemovedIsGone
  <1>17. CASE RemoveVolume(p)
    <2>1. PICK x \in cmd[p].left \ Images :
            /\ \E v \in volumes : v.workspace = x.workspace /\ volumes' = volumes \ {v}
            /\ Processes(p, "apply", cmd[p].left \ {x}, cmd[p].cur, cmd[p].failed)
      BY <1>17, RemoveVolumeDoes
    <2>2. /\ At(p, "apply") /\ images' = images
          /\ RemovedIsGone(p) /\ x \in cmd[p].plan
      BY <1>17, RemoveVolumeDoes DEF ImageInv, Personal, Candidates
    <2>3. /\ cmd'[p].cur = cmd[p].cur /\ Removed(p)' \subseteq Removed(p) \cup {x}
          /\ Removed(p) \subseteq cmd[p].plan
      BY <1>1, <2>1, <2>2 DEF Processes, KeepsJob, Removed, At
    <2>4. x \notin volumes'
      BY <2>1 DEF ImageInv, TypeOK
    <2>5. x \notin images'
      BY <2>1, <2>2 DEF ImageInv, TypeOK
    <2>6. Removed(p)' \cap (images \cup volumes)' = {}
      BY <2>2, <2>3, <2>4, <2>5, PlannedIsOld DEF RemovedIsGone
    <2>7. ASSUME NEW i \in Removed(p)' \cap Images, i # cmd'[p].cur
          PROVE  Accounted(i)'
      <3>1. Accounted(i)
        BY <2>1, <2>2, <2>3, <2>7 DEF RemovedIsGone
      <3>2. QED
        BY <3>1, AccountedStep
    <2>8. QED
      BY <2>6, <2>7 DEF RemovedIsGone
  <1>18. CASE RemovalFails(p)
    BY <1>1, <1>2, <1>18, RemovalFailsDoes
    DEF Removed, Ends, Moves, Carries, Processes, KeepsJob
  <1>19. CASE ReadForRemoval(p)
    <2>1. cmd[p].pc = "state"
      BY <1>19, ReadForRemovalDoes DEF At
    <2>2. CASE Moves(p, "state_rm")
      <3>1. Removed(p)' = Removed(p) /\ cmd'[p].cur = cmd[p].cur
        BY <1>1, <2>1, <2>2 DEF Moves, KeepsPlan, KeepsJob, Removed
      <3>2. QED
        BY <3>1, GoneKept
    <2>3. CASE Processes(p, "apply", cmd[p].left, None, TRUE)
      BY <1>1, <1>2, <2>3 DEF Processes, KeepsJob, Removed
    <2>4. CASE /\ Processes(p, "apply", cmd[p].left, None, cmd[p].failed)
               /\ \/ metadata[cmd[p].cur.runtime] = None
                  \/ metadata[cmd[p].cur.runtime].context # cmd[p].cur.context
      <3>1. Removed(p)' = Removed(p)
        BY <1>1, <2>1, <2>4 DEF Processes, KeepsJob, Removed
      <3>2. metadata' = metadata
        BY <1>19, ReadForRemovalDoes DEF Podman
      <3>3. ASSUME NEW i \in Images, i = cmd[p].cur
            PROVE  Accounted(i)'
        BY <2>4, <3>2, <3>3 DEF Accounted
      <3>4. QED
        BY <3>1, <3>3, GoneKept
    <2>5. QED
      BY <1>19, <2>2, <2>3, <2>4, ReadForRemovalDoes
  <1>20. CASE RemoveState(p)
    <2>1. cmd[p].pc = "state_rm"
      BY <1>20, RemoveStateDoes DEF At
    <2>2. CASE Processes(p, "apply", cmd[p].left, None, TRUE)
      BY <1>1, <1>2, <2>2 DEF Processes, KeepsJob, Removed
    <2>3. CASE /\ Processes(p, "apply", cmd[p].left, None, cmd[p].failed)
               /\ metadata' = [metadata EXCEPT ![cmd[p].cur.runtime] = None]
      <3>1. Removed(p)' = Removed(p)
        BY <1>1, <2>1, <2>3 DEF Processes, KeepsJob, Removed
      <3>2. ASSUME NEW i \in Images, i = cmd[p].cur
            PROVE  Accounted(i)'
        <4>1. i.runtime \in Runtimes
          BY DEF Images
        <4>2. metadata'[i.runtime] = None
          BY <2>3, <3>2, <4>1 DEF ImageInv, TypeOK
        <4>3. QED
          BY <4>2 DEF Accounted
      <3>3. QED
        BY <3>1, <3>2, GoneKept
    <2>4. QED
      BY <1>20, <2>2, <2>3, RemoveStateDoes
  <1>21. QED
    BY <1>3, <1>4, <1>5, <1>6, <1>7, <1>8, <1>9, <1>10, <1>11, <1>12, <1>13,
       <1>14, <1>15, <1>16, <1>17, <1>18, <1>19, <1>20
    DEF StepOf, ImageStep, CleanStep

\* The same for every clean.
LEMMA GoneStep ==
    ASSUME ImageInv, NEW p \in Procs, StepOf(p), NEW q \in Procs
    PROVE  RemovedIsGone(q)'
  <1>1. CASE q = p
    BY <1>1, GoneOwn
  <1>2. CASE q # p
    <2>1. cmd'[q] = cmd[q]
      BY <1>2, JobStep DEF Typed
    <2>2. Removed(q)' = Removed(q)
      BY <2>1 DEF Removed, Op
    <2>3. QED
      BY <2>1, <2>2, GoneKept
  <1>3. QED
    BY <1>1, <1>2

-----------------------------------------------------------------------------
(* The invariant. *)

\* A step of a command keeps the invariant.
LEMMA StepKeeps ==
    ASSUME ImageInv, NEW p \in Procs, StepOf(p)
    PROVE  ImageInv'
  <1>1. TypeOK' /\ RecordedWasBuilt' /\ built \subseteq built'
    BY TypeStep, RecordedStep
  <1>2. ASSUME NEW q \in Procs
        PROVE  OnPath(q)' /\ StateIsBuilt(q)' /\ Candidates(q)'
    <2>1. CASE q = p
      BY <2>1, PathStep, StateStep, CandidateStep
    <2>2. CASE q # p
      <3>1. cmd'[q] = cmd[q] /\ OnPath(q) /\ StateIsBuilt(q) /\ Candidates(q)
        BY <2>2, JobStep DEF Typed, ImageInv, Personal
      <3>2. OnPath(q)'
        BY <3>1 DEF OnPath, At, Op
      <3>3. StateIsBuilt(q)'
        BY <1>1, <3>1 DEF StateIsBuilt, Context, Runtime
      <3>4. Candidates(q)'
        BY <3>1 DEF Candidates, IsImage, ImageUsed, VolumeUsed, Context
      <3>5. QED
        BY <3>2, <3>3, <3>4
    <2>3. QED
      BY <2>1, <2>2
  <1>3. \A q \in Procs : Fresh(q)' /\ LaunchAlone(q)' /\ Ensured(q)' /\ RemovedIsGone(q)'
    BY FreshStep, LaunchAloneStep, EnsuredStep, GoneStep
  <1>4. QED
    BY <1>1, <1>2, <1>3 DEF ImageInv, Personal

\* So does its environment: a container ends, or npm publishes a version.
LEMMA EnvironmentKeeps ==
    ASSUME ImageInv, Environment
    PROVE  ImageInv'
  <1>1. /\ UNCHANGED <<images, volumes, metadata, cmd, built>>
        /\ containers' \subseteq containers
    BY DEF Environment, ContainerEnds, Publish, podman
  <1>2. latest' \in [Runtimes -> Versions]
    <2>1. CASE \E r \in Runtimes : Publish(r)
      <3>1. PICK r \in Runtimes : Publish(r)
        BY <2>1
      <3>2. latest \in [Runtimes -> Versions] /\ latest[r] \in Versions
        BY DEF ImageInv, TypeOK
      <3>3. latest[r] + 1 \in Versions
        BY <3>1, <3>2, ImagesAssumption DEF Publish, Versions
      <3>4. QED
        BY <3>1, <3>2, <3>3 DEF Publish
    <2>2. CASE \E c \in containers : ContainerEnds(c)
      BY <2>2 DEF ContainerEnds, ImageInv, TypeOK
    <2>3. QED
      BY <2>1, <2>2 DEF Environment
  <1>3. TypeOK' /\ RecordedWasBuilt'
    BY <1>1, <1>2 DEF ImageInv, TypeOK, RecordedWasBuilt, Ref
  <1>4. ASSUME NEW q \in Procs
        PROVE  Personal(q)'
    <2>1. Personal(q)
      BY DEF ImageInv
    <2>2. OnPath(q)' /\ StateIsBuilt(q)' /\ Candidates(q)'
      BY <1>1, <2>1 DEF Personal, OnPath, StateIsBuilt, Candidates, At, Op, Context,
         Runtime, IsImage, ImageUsed, VolumeUsed
    <2>3. Fresh(q)'
      BY <1>1, <2>1 DEF Personal, Fresh, KnownImages, KnownVolumes, ToBuild, At
    <2>4. LaunchAlone(q)'
      BY <1>1, <2>1 DEF Personal, LaunchAlone, AtWork, Op, Mounted
    <2>5. Ensured(q)'
      BY <1>1, <2>1 DEF Personal, Ensured, AnotherCleans, Tagged, Op, Context, Runtime
    <2>6. RemovedIsGone(q)'
      BY <1>1, <2>1 DEF Personal, RemovedIsGone, Removed, Accounted, Op, Context
    <2>7. QED
      BY <2>2, <2>3, <2>4, <2>5, <2>6 DEF Personal
  <1>5. QED
    BY <1>3, <1>4 DEF ImageInv

\* The invariant holds whatever earlier commands have left.
LEMMA ImageInvInit ==
    Init => ImageInv
  <1> SUFFICES ASSUME Init PROVE ImageInv
    OBVIOUS
  <1>1. PICK l \in Leftovers : /\ images = l.images /\ metadata = l.metadata
                               /\ containers = l.containers /\ volumes = l.volumes
    BY DEF Init
  <1>2. /\ cmd = [p \in Procs |-> NewCommand]
        /\ latest = [r \in Runtimes |-> 1]
        /\ built = {<<i.runtime, i.context, i.version>> : i \in images}
                   \cup {<<r, metadata[r].context, metadata[r].version>> :
                        r \in {s \in Runtimes : metadata[s] \notin {None, Invalid}}}
    BY DEF Init
  <1>3. NewCommand \in
          [pc : {"new"}, job : {None}, todo : {<<>>}, version : {None},
           exists : {FALSE}, state : {None}, seen : {{}}, listed : {{}},
           plan : {{}}, left : {{}}, cur : {None}, failed : {FALSE},
           result : {"none"}]
    BY DEF NewCommand
  <1>4. NewCommand \in Command
    <2>1. "new" \in PCs /\ <<>> \in Seq(Runtimes)
      BY DEF PCs
    <2>2. QED
      BY <1>3, <2>1 DEF Command
  <1>5. /\ images \subseteq Images /\ volumes \subseteq Volumes
        /\ containers \subseteq Containers
        /\ metadata \in [Runtimes -> Metadata \cup {None, Invalid}]
        /\ \A i, j \in images :
              i.runtime = j.runtime /\ i.context = j.context => i = j
        /\ \A v, w \in volumes : v.workspace = w.workspace => v = w
        /\ \A c, d \in containers : c.workspace = d.workspace => c = d
        /\ \A x \in images \cup volumes : x.by = Earlier
    BY <1>1, LeftoversAssumption
  <1>6. latest \in [Runtimes -> Versions]
    BY <1>2, ImagesAssumption DEF Versions
  <1>7. cmd \in [Procs -> Command]
    BY <1>2, <1>4
  <1>8. \A i, j \in images : Ref(i) = Ref(j) => i = j
    BY <1>5 DEF Ref
  <1>9. RecordedWasBuilt
    BY <1>2 DEF RecordedWasBuilt
  <1>10. ASSUME NEW p \in Procs
         PROVE  Personal(p)
    <2>1. /\ cmd[p].pc = "new" /\ cmd[p].job = None /\ cmd[p].todo = <<>>
          /\ cmd[p].plan = {} /\ cmd[p].left = {} /\ cmd[p].cur = None
          /\ cmd[p].result = "none"
      BY <1>2, <1>3
    <2>2. OnPath(p)
      BY <2>1, EmptyOnce DEF OnPath, At, Op, ImagePCs, CleanPCs
    <2>3. Fresh(p)
      <3>1. \A q \in Procs : cmd[q].plan = {} /\ cmd[q].listed = {}
        BY <1>2, <1>3
      <3>2. KnownImages = images /\ KnownVolumes = volumes
        BY <3>1 DEF KnownImages, KnownVolumes
      <3>3. QED
        BY <1>5, <3>2, ImagesAssumption DEF Fresh
    <2>4. StateIsBuilt(p) /\ LaunchAlone(p) /\ Ensured(p) /\ Candidates(p)
      BY <2>1 DEF StateIsBuilt, LaunchAlone, AtWork, Ensured, Candidates
    <2>5. RemovedIsGone(p)
      BY <2>1 DEF RemovedIsGone, Removed
    <2>6. QED
      BY <2>2, <2>3, <2>4, <2>5 DEF Personal
  <1>11. QED
    BY <1>5, <1>6, <1>7, <1>8, <1>9, <1>10 DEF ImageInv, TypeOK

\* Every step keeps the invariant.
LEMMA ImageInvStep ==
    ImageInv /\ [Next]_vars => ImageInv'
  <1> SUFFICES ASSUME ImageInv, [Next]_vars PROVE ImageInv'
    OBVIOUS
  <1>1. CASE \E p \in Procs : StepOf(p)
    BY <1>1, StepKeeps
  <1>2. CASE Environment
    BY <1>2, EnvironmentKeeps
  <1>3. CASE UNCHANGED vars
    <2>1. UNCHANGED <<images, containers, volumes, metadata, latest, cmd, built>>
      BY <1>3 DEF vars, podman
    <2>2. TypeOK' /\ RecordedWasBuilt'
      BY <2>1 DEF ImageInv, TypeOK, RecordedWasBuilt, Ref
    <2>3. ASSUME NEW q \in Procs PROVE Personal(q)'
      <3>1. Personal(q)
        BY DEF ImageInv
      <3>2. QED
        BY <2>1, <3>1 DEF Personal, OnPath, StateIsBuilt, Candidates, At, Op, Context,
           Runtime, IsImage, ImageUsed, VolumeUsed, Fresh, KnownImages, KnownVolumes,
           ToBuild, LaunchAlone, AtWork, Mounted, Ensured, AnotherCleans, Tagged,
           RemovedIsGone, Removed, Accounted
    <2>4. QED
      BY <2>2, <2>3 DEF ImageInv
  <1>4. QED
    BY <1>1, <1>2, <1>3 DEF Next, Terminated, StepOf

\* The invariant holds, for any invocations, runtimes, binaries and workspaces.
THEOREM ImageInvCorrect ==
    Spec => []ImageInv
  BY ImageInvInit, ImageInvStep, PTL DEF Spec

\* The state is well typed, and Podman's names are unique, always.
THEOREM TypeCorrect ==
    Spec => []TypeOK
  <1>1. ImageInv => TypeOK
    BY DEF ImageInv
  <1>2. QED
    BY <1>1, ImageInvCorrect, PTL

\* Readable metadata always records a version that was really built into the
\* image it names, although no lock protects the file.
THEOREM RecordedWasBuiltCorrect ==
    Spec => []RecordedWasBuilt
  <1>1. ImageInv => RecordedWasBuilt
    BY DEF ImageInv
  <1>2. QED
    BY <1>1, ImageInvCorrect, PTL

\* A launch never loses the image it has checked for, except to a clean of
\* another binary.
THEOREM EnsuredImageStaysCorrect ==
    Spec => []EnsuredImageStays
  <1>1. ImageInv => EnsuredImageStays
    BY DEF ImageInv, Personal, Ensured, EnsuredImageStays, AnotherCleans, At
  <1>2. QED
    BY <1>1, ImageInvCorrect, PTL

\* A clean that reports success has removed all it planned to.
THEOREM CleanedIsGoneCorrect ==
    Spec => []CleanedIsGone
  <1>1. ImageInv => CleanedIsGone
    <2> SUFFICES ASSUME ImageInv, NEW p \in Procs, Op(p) = "clean",
                        cmd[p].result = "ok"
                 PROVE  cmd[p].plan \cap (images \cup volumes) = {}
      BY DEF CleanedIsGone
    <2>1. cmd[p].left = {}
      BY DEF ImageInv, Personal, OnPath, Candidates, At
    <2>2. QED
      BY <2>1 DEF ImageInv, Personal, RemovedIsGone, Removed
  <1>2. QED
    BY <1>1, ImageInvCorrect, PTL

\* Nor does the metadata name such an image any more, but for a command of
\* its own binary.
THEOREM MetadataFollowsImageCorrect ==
    Spec => []MetadataFollowsImage
  <1>1. ImageInv => MetadataFollowsImage
    <2> SUFFICES ASSUME ImageInv, NEW p \in Procs, Op(p) = "clean",
                        cmd[p].result = "ok", NEW i \in cmd[p].plan \cap Images
                 PROVE  Accounted(i)
      BY DEF MetadataFollowsImage, Accounted
    <2>1. cmd[p].left = {} /\ cmd[p].cur = None
      BY DEF ImageInv, Personal, OnPath, Candidates, At
    <2>2. i \in Removed(p) /\ i # cmd[p].cur
      BY <2>1, ImagesAssumption DEF Removed
    <2>3. QED
      BY <2>2 DEF ImageInv, Personal, RemovedIsGone
  <1>2. QED
    BY <1>1, ImageInvCorrect, PTL

\* A clean spares what a container refers to that it has seen and that is
\* still there.
THEOREM CleanSparesReferencedCorrect ==
    Spec => CleanSparesReferenced
  <1>1. ASSUME ImageInv, [Next]_vars, NEW p \in Procs,
               cmd'[p].left # cmd[p].left, At(p, "apply"),
               NEW c \in cmd[p].seen \cap containers
        PROVE  /\ \A i \in images \ images' : Ref(i) # Ref(c.image)
               /\ \A v \in volumes \ volumes' : v.workspace # c.workspace
    <2>1. StepOf(p)
      <3>1. PICK q \in Procs : StepOf(q)
        BY <1>1 DEF Next, Environment, ContainerEnds, Publish, Terminated, vars, StepOf
      <3>2. q = p
        BY <1>1, <3>1, JobStep DEF Typed
      <3>3. QED
        BY <3>1, <3>2
    <2>2. WorldStep(p) /\ Candidates(p) /\ cmd[p].pc = "apply"
      BY <1>1, <2>1, WorldEffect DEF ImageInv, Personal, At
    <2>3. ASSUME NEW i \in images \ images' PROVE Ref(i) # Ref(c.image)
      <3>1. PICK x \in cmd[p].left \cap Images : i \in Tagged(x.runtime, x.context)
        BY <2>2, <2>3 DEF WorldStep, ImagesStep
      <3>2. ~ImageUsed(p, x) /\ Ref(i) = Ref(x)
        BY <2>2, <3>1 DEF Candidates, IsImage, Tagged, Ref
      <3>3. QED
        BY <1>1, <3>2 DEF ImageUsed
    <2>4. ASSUME NEW v \in volumes \ volumes' PROVE v.workspace # c.workspace
      <3>1. PICK x \in cmd[p].left \ Images : v.workspace = x.workspace
        BY <2>2, <2>4 DEF WorldStep, VolumesStep
      <3>2. ~VolumeUsed(p, x)
        BY <2>2, <3>1 DEF Candidates, IsImage
      <3>3. QED
        BY <1>1, <3>1, <3>2 DEF VolumeUsed
    <2>5. QED
      BY <2>3, <2>4
  <1>2. ImageInv /\ [Next]_vars =>
          [\A p \in Procs : cmd'[p].left # cmd[p].left /\ At(p, "apply") =>
             \A c \in cmd[p].seen \cap containers :
                /\ \A i \in images \ images' : Ref(i) # Ref(c.image)
                /\ \A v \in volumes \ volumes' : v.workspace # c.workspace]_vars
    BY <1>1
  <1>3. QED
    BY <1>2, ImageInvCorrect, PTL DEF Spec, CleanSparesReferenced
=============================================================================
