------------------------------ MODULE Lifecycle ------------------------------
(***************************************************************************)
(* src/commands: the lifecycle commands `start`, `run`, `exec`, `restart`, *)
(* `connect` and `stop` on one workspace.                                  *)
(*                                                                         *)
(* Each invocation is an OS process that takes the workspace lock          *)
(* (WorkspaceMutex; WorkspaceLock shows how lock.rs implements it),        *)
(* looks at what Podman has, and then changes three things the processes   *)
(* share: the container that bears the workspace's name, the cache volume  *)
(* of the same name and the Codex attach token file.  Podman, the runtime  *)
(* server, the host client, SIGINT and SIGKILL are the environment: every  *)
(* Podman call may fail, a server may exit at any time.                    *)
(*                                                                         *)
(* An invocation launches at most one container, so containers, volumes    *)
(* and tokens are identified by the invocation that made them.             *)
(***************************************************************************)

CONSTANTS
    Procs,      \* the invocations
    Jobs,       \* the command lines they may have
    Killable,   \* the invocations that may be killed
    Earlier,    \* an invocation that ended before the model starts
    Foreign,    \* a container the user made with Podman itself
    None,       \* nothing there
    Empty       \* a token file that is truncated and not yet written

Runtimes == {"codex", "opencode"}
Kinds == {"managed", "run", "bare"}
Makers == Procs \cup {Earlier, Foreign}

JobType ==
    [op : {"start", "run", "exec", "restart", "connect", "stop"},
     sel : {"dir", "id", "all"}, runtime : Runtimes, connect : BOOLEAN]

ASSUME LifecycleAssumption ==
    /\ Jobs \subseteq JobType
    /\ None \notin Jobs
    /\ Killable \subseteq Procs
    /\ {None, Empty, Earlier, Foreign} \cap Procs = {}
    /\ None \notin {Empty, Earlier, Foreign}
    /\ Empty \notin {Earlier, Foreign}
    /\ Earlier # Foreign

VARIABLES
    holders,        \* the invocations that hold the workspace lock
    box,            \* the container with the workspace's name
    volume,         \* the cache volume with the workspace's name
    tokenFile,      \* codex/ws-tokens/<digest>.token
    pc, job,
    seen,           \* the container a command selected
    volumeBefore,   \* cache_volume_existed_before
    sigint,         \* the flag of CommandInterrupt
    result          \* what the command reports

shared == <<box, volume, tokenFile>>
locals == <<job, seen, volumeBefore, sigint>>
vars == <<holders, shared, pc, locals, result>>

Mutex == INSTANCE WorkspaceMutex WITH Lockers <- Procs

Box == [by : Makers, kind : Kinds, runtime : Runtimes,
        state : {"running", "exited"}]

PCs == {"new", "resolve", "waiting", "discover", "token", "token_open",
        "volume", "launch", "launched", "wait", "ready", "client", "stop",
        "verify", "volume_rm", "token_rm", "orphan", "done"}
LockedPCs == PCs \ {"new", "resolve", "waiting", "orphan", "done"}
Results == {"none", "ok", "error", "launch_failed", "leftover", "cleaned",
            "partial", "killed"}

EarlierBox(kind, runtime, state) ==
    [by |-> Earlier, kind |-> kind, runtime |-> runtime, state |-> state]

\* What earlier commands, and the user, may have left behind.
Leftovers ==
    {[box |-> None, volume |-> v, token |-> t] :
        v \in {None, Earlier}, t \in {None, Empty, Earlier}}
    \cup
    {[box |-> EarlierBox("managed", r, "running"), volume |-> Earlier,
      token |-> IF r = "codex" THEN Earlier ELSE None] : r \in Runtimes}
    \cup
    {[box |-> EarlierBox("run", "codex", s), volume |-> Earlier,
      token |-> None] : s \in {"running", "exited"}}
    \cup
    {[box |-> [EarlierBox("bare", "codex", "running") EXCEPT !.by = Foreign],
      volume |-> None, token |-> None]}

Init ==
    /\ holders = {}
    /\ \E l \in Leftovers :
          box = l.box /\ volume = l.volume /\ tokenFile = l.token
    /\ pc = [p \in Procs |-> "new"]
    /\ job = [p \in Procs |-> None]
    /\ seen = [p \in Procs |-> None]
    /\ volumeBefore = [p \in Procs |-> FALSE]
    /\ sigint = [p \in Procs |-> FALSE]
    /\ result = [p \in Procs |-> "none"]

Op(p) == IF job[p] = None THEN "none" ELSE job[p].op
Is(p, at, ops) == pc[p] = at /\ Op(p) \in ops
Goto(p, to) == pc' = [pc EXCEPT ![p] = to]

\* Mutant: an error path returns without dropping the guard.
FinishKeepsLock(p, r) ==
    /\ Goto(p, "done")
    /\ result' = [result EXCEPT ![p] = r]
    /\ IF p \in holders /\ r # "error" THEN Mutex!Release(p) ELSE UNCHANGED holders

\* The command returns: its guard is dropped and it reports r.
Finish(p, r) ==
    /\ Goto(p, "done")
    /\ result' = [result EXCEPT ![p] = r]
    /\ IF p \in holders THEN Mutex!Release(p) ELSE UNCHANGED holders

Step(p, to) == Goto(p, to) /\ UNCHANGED <<holders, result>>

\* Discovery sees containers by their labels (managed and transient-run); a
\* foreground exec container has none.
Labelled(b) == b # None /\ b.kind \in {"managed", "run"}
Managed(b) == b # None /\ b.kind = "managed"
Running(b) == b # None /\ b.state = "running"

(***************************************************************************)
(* From the command line to the lock.                                      *)
(***************************************************************************)

\* A stable id and --all are resolved against Podman before the lock.
Invoke(p, j) ==
    /\ pc[p] = "new"
    /\ job' = [job EXCEPT ![p] = j]
    /\ Step(p, IF j.sel = "dir" THEN "waiting" ELSE "resolve")
    /\ UNCHANGED <<shared, seen, volumeBefore, sigint>>

\* StopSessionTargetPlan / RestartSessionTargetPlan::resolve for a stable id:
\* restart keeps only the git root to lock, stop keeps the records.
ResolveStableId(p) ==
    /\ Is(p, "resolve", {"stop", "restart"})
    /\ job[p].sel = "id"
    /\ \/ /\ Labelled(box)
          /\ seen' = [seen EXCEPT ![p] = IF Op(p) = "stop" THEN box ELSE @]
          /\ Step(p, "waiting")
       \/ ~Labelled(box) /\ Finish(p, "error") /\ UNCHANGED seen
    /\ UNCHANGED <<shared, job, volumeBefore, sigint>>

\* stop_all_running: only groups with a running container are locked.
ResolveAll(p) ==
    /\ Is(p, "resolve", {"stop"})
    /\ job[p].sel = "all"
    /\ \/ /\ Labelled(box) /\ Running(box)
          /\ seen' = [seen EXCEPT ![p] = box]
          /\ Step(p, "waiting")
       \/ ~(Labelled(box) /\ Running(box)) /\ Finish(p, "ok") /\ UNCHANGED seen
    /\ UNCHANGED <<shared, job, volumeBefore, sigint>>

\* Mutant: stop --all, too, trusts what it saw before the lock.
SelectedBeforeLockAll(p) == Op(p) = "stop" /\ job[p].sel # "dir"

\* RootedSessionCleanupScope::Selected: no discovery under the lock.
SelectedBeforeLock(p) == Op(p) = "stop" /\ job[p].sel = "id"

\* with_locked_workspace, with_locked_git_root
AcquireLock(p) ==
    /\ pc[p] = "waiting"
    /\ Mutex!Acquire(p)
    /\ Goto(p, IF SelectedBeforeLock(p) THEN "stop" ELSE "discover")
    /\ UNCHANGED <<shared, locals, result>>

(***************************************************************************)
(* Discovery under the lock.                                               *)
(***************************************************************************)

\* Mutant: launches whatever claims the workspace.
ClaimedIgnored(p) == FALSE

\* ExistingResourceScope: AgentboxContainers for start and run,
\* ManagedSessions for exec.
Claimed(p) == IF Op(p) = "exec" THEN Managed(box) ELSE Labelled(box)

\* The runtime a command launches; restart takes it from the session.
Runtime(p) == IF Op(p) = "restart" THEN seen[p].runtime ELSE job[p].runtime

\* ensure_required_resources_absent, then prepare_runtime_launch, which
\* writes a token for managed Codex servers only.
DiscoverForLaunch(p) ==
    /\ Is(p, "discover", {"start", "run", "exec"})
    /\ \/ Claimed(p) /\ Finish(p, "error")
       \/ /\ ~Claimed(p)
          /\ Step(p, IF Op(p) # "start" THEN "launch"
                     ELSE IF Runtime(p) = "codex" THEN "token" ELSE "volume")
    /\ UNCHANGED <<shared, locals>>

\* select_session_candidate and prepare_restart_session: exactly one
\* running managed session.
DiscoverForRestart(p) ==
    /\ Is(p, "discover", {"restart"})
    /\ \/ /\ Managed(box) /\ Running(box)
          /\ seen' = [seen EXCEPT ![p] = box]
          /\ Step(p, IF box.runtime = "codex" THEN "token" ELSE "stop")
       \/ ~(Managed(box) /\ Running(box)) /\ Finish(p, "error") /\ UNCHANGED seen
    /\ UNCHANGED <<shared, job, volumeBefore, sigint>>

\* stop_exact_git_root_matches requires a match;
\* cleanup_running_exact_matches_for_locked_root filters on running.
DiscoverForStop(p) ==
    /\ Is(p, "discover", {"stop"})
    /\ LET all == job[p].sel = "all"
           matches == Labelled(box) /\ (all => Running(box))
       IN  \/ matches /\ seen' = [seen EXCEPT ![p] = box] /\ Step(p, "stop")
           \/ /\ ~matches
              /\ Finish(p, IF all THEN "ok" ELSE "error")
              /\ seen' = [seen EXCEPT ![p] = None]
    /\ UNCHANGED <<shared, job, volumeBefore, sigint>>

\* connect_directory, with load_managed for a Codex session.
DiscoverForConnect(p) ==
    /\ Is(p, "discover", {"connect"})
    /\ LET connectable ==
             /\ Managed(box) /\ Running(box)
             /\ box.runtime = "codex" => tokenFile \notin {None, Empty}
       IN  \/ connectable /\ seen' = [seen EXCEPT ![p] = box] /\ Step(p, "client")
           \/ ~connectable /\ Finish(p, "error") /\ UNCHANGED seen
    /\ UNCHANGED <<shared, job, volumeBefore, sigint>>

(***************************************************************************)
(* The attach token and the cache volume before a launch.                  *)
(***************************************************************************)

\* write_token opens the file with O_TRUNC ...
TruncateToken(p) ==
    /\ pc[p] = "token"
    /\ tokenFile' = Empty
    /\ Step(p, "token_open")
    /\ UNCHANGED <<box, volume, locals>>

\* ... and then writes it.
WriteToken(p) ==
    /\ pc[p] = "token_open"
    /\ tokenFile' = p
    /\ Step(p, IF Op(p) = "restart" THEN "stop" ELSE "volume")
    /\ UNCHANGED <<box, volume, locals>>

\* Mutant: takes an existing cache volume for a new one.
RecordVolumeForgets(p) ==
    /\ pc[p] = "volume"
    /\ Step(p, "launch")
    /\ UNCHANGED <<shared, locals>>

\* cache_volume_existed_before
RecordVolume(p) ==
    /\ pc[p] = "volume"
    /\ volumeBefore' = [volumeBefore EXCEPT ![p] = volume # None]
    /\ Step(p, "launch")
    /\ UNCHANGED <<shared, job, seen, sigint>>

\* A prerequisite, the image, a Podman query or a file operation fails with
\* `?` before anything is launched or stopped.
PreparationFails(p) ==
    /\ \/ pc[p] \in {"resolve", "discover", "token", "token_open", "volume"}
       \/ pc[p] = "launch"
       \/ Is(p, "stop", {"restart"})
    /\ ~sigint[p]
    /\ Finish(p, "error")
    /\ UNCHANGED <<shared, locals>>

(***************************************************************************)
(* Launching.                                                              *)
(***************************************************************************)

KindOf(p) == CASE Op(p) = "run" -> "run"
               [] Op(p) = "exec" -> "bare"
               [] OTHER -> "managed"

NewBox(p) == [by |-> p, kind |-> KindOf(p), runtime |-> Runtime(p),
              state |-> "running"]

\* Podman creates the named volume a container mounts.
WithVolume(p) == IF volume = None THEN p ELSE volume

PodmanCreates(p) ==
    /\ box = None
    /\ box' = NewBox(p)
    /\ volume' = WithVolume(p)
    /\ UNCHANGED tokenFile

Servers == {"start", "run", "restart"}

RunDetached(p) ==
    /\ Is(p, "launch", Servers)
    /\ PodmanCreates(p)
    /\ Step(p, "launched")
    /\ UNCHANGED locals

\* The interrupt path: start and run clean up, restart reports.
Abort(p) ==
    IF Op(p) = "restart"
    THEN Finish(p, "error")
    ELSE /\ Goto(p, "stop")
         /\ result' = [result EXCEPT
                ![p] = IF Op(p) = "start" THEN "cleaned" ELSE "error"]
         /\ UNCHANGED holders

\* run_detached fails: the name is taken, Podman has a reason of its own, or
\* the container was created and the call fails nevertheless (its podman was
\* interrupted or killed, its output cannot be read).  Only an interrupt is
\* followed by a cleanup; otherwise run_detached_error is all there is.
RunDetachedFails(p) ==
    /\ Is(p, "launch", Servers)
    /\ \/ UNCHANGED shared
       \/ volume' = WithVolume(p) /\ UNCHANGED <<box, tokenFile>>
       \/ PodmanCreates(p)
    /\ IF sigint[p] THEN Abort(p) ELSE Finish(p, "launch_failed")
    /\ UNCHANGED locals

\* check_interrupted after the launch, in the readiness loop and at its end.
AbortInterrupted(p) ==
    /\ pc[p] \in {"launched", "wait", "ready"}
    /\ sigint[p]
    /\ Abort(p)
    /\ UNCHANGED <<shared, locals>>

WaitForServer(p) ==
    /\ pc[p] = "launched"
    /\ ~sigint[p]
    /\ Step(p, "wait")
    /\ UNCHANGED <<shared, locals>>

\* The endpoint of the running container answers its probe.
ServerReady(p) ==
    /\ pc[p] = "wait"
    /\ Running(box)
    /\ Step(p, "ready")
    /\ UNCHANGED <<shared, locals>>

\* Mutant: a failed transient server is left behind.
ReadinessFailsLeaves(p) ==
    /\ pc[p] = "wait"
    /\ Finish(p, "error")
    /\ UNCHANGED <<shared, locals>>

\* The deadline passes or the container is not running.  A managed server
\* is left for inspection, a transient one is cleaned up.
ReadinessFails(p) ==
    /\ pc[p] = "wait"
    /\ IF Op(p) = "run"
       THEN /\ Goto(p, "stop")
            /\ result' = [result EXCEPT ![p] = "error"]
            /\ UNCHANGED holders
       ELSE Finish(p, "error")
    /\ UNCHANGED <<shared, locals>>

\* finish_managed_server_launch, or the client of run.
ReportReady(p) ==
    /\ pc[p] = "ready"
    /\ ~sigint[p]
    /\ IF Op(p) = "run" \/ job[p].connect
       THEN Step(p, "client")
       ELSE Finish(p, "ok")
    /\ UNCHANGED <<shared, locals>>

\* The host client returns; run stops its server whatever the status.
ClientExits(p) ==
    /\ Is(p, "client", {"start", "restart", "connect", "run"})
    /\ \E r \in {"ok", "error"} :
          IF Op(p) = "run"
          THEN /\ Goto(p, "stop")
               /\ result' = [result EXCEPT ![p] = r]
               /\ UNCHANGED holders
          ELSE Finish(p, r)
    /\ UNCHANGED <<shared, locals>>

RunForeground(p) ==
    /\ Is(p, "launch", {"exec"})
    /\ PodmanCreates(p)
    /\ Step(p, "client")
    /\ UNCHANGED locals

\* podman run --rm returns once its container is gone, or its podman is
\* killed and the container goes on.
ForegroundExits(p) ==
    /\ Is(p, "client", {"exec"})
    /\ \/ /\ box' = IF box # None /\ box.by = p THEN None ELSE box
          /\ \E r \in {"ok", "error"} : Finish(p, r)
       \/ UNCHANGED box /\ Finish(p, "error")
    /\ UNCHANGED <<volume, tokenFile, locals>>

(***************************************************************************)
(* stop_and_verify, and what each command makes of it.                     *)
(***************************************************************************)

Exited(b) == [b EXCEPT !.state = "exited"]

\* The container with the name stops; podman removes it (--rm) at once or
\* a little later.
Stops == box' \in IF box = None THEN {None} ELSE {None, Exited(box)}

\* stop_ignore; its error is kept, and only start reports it.
StopIgnore(p) ==
    /\ pc[p] = "stop"
    /\ \/ Stops /\ UNCHANGED result
       \/ /\ Stops \/ UNCHANGED box
          /\ result' = [result EXCEPT
                ![p] = IF Op(p) = "start" THEN "partial" ELSE @]
    /\ Goto(p, "verify")
    /\ UNCHANGED <<holders, volume, tokenFile, locals>>

\* container_exists is Ok(false).
ContainerRemoved(p) ==
    /\ pc[p] = "verify"
    /\ box = None
    /\ CASE Op(p) = "stop" -> Step(p, "token_rm")
         [] Op(p) = "restart" -> Step(p, "launch")
         [] Op(p) = "run" -> Finish(p, result[p])
         [] Op(p) = "start" -> IF volumeBefore[p] THEN Finish(p, result[p])
                                                  ELSE Step(p, "volume_rm")
    /\ UNCHANGED <<shared, locals>>

\* Mutant: goes on as if the container were gone.
ContainerRemainsIgnored(p) ==
    /\ pc[p] = "verify"
    /\ IF Op(p) = "stop" THEN Step(p, "token_rm") ELSE Finish(p, result[p])
    /\ UNCHANGED <<shared, locals>>

\* It is Ok(true), or the query fails whatever is there.
ContainerRemains(p) ==
    /\ pc[p] = "verify"
    /\ Finish(p, CASE Op(p) = "run" -> "leftover"
                   [] Op(p) = "start" -> "partial"
                   [] OTHER -> "error")
    /\ UNCHANGED <<shared, locals>>

\* cleanup_managed_container removes the token of a Codex session and
\* ignores a failure to do so.
RemoveToken(p) ==
    /\ pc[p] = "token_rm"
    /\ tokenFile' \in {tokenFile} \cup
                      (IF seen[p].runtime = "codex" THEN {None} ELSE {})
    /\ Finish(p, "ok")
    /\ UNCHANGED <<box, volume, locals>>

\* Mutant: a failed removal is reported as a clean one.
RemoveVolumeSilent(p) ==
    /\ pc[p] = "volume_rm"
    /\ \/ box = None /\ volume' = None
       \/ UNCHANGED volume
    /\ Finish(p, result[p])
    /\ UNCHANGED <<box, tokenFile, locals>>

\* podman volume rm: fails when there is no such volume or it is in use.
RemoveVolume(p) ==
    /\ pc[p] = "volume_rm"
    /\ \/ box = None /\ volume # None /\ volume' = None /\ Finish(p, result[p])
       \/ UNCHANGED volume /\ Finish(p, "partial")
    /\ UNCHANGED <<box, tokenFile, locals>>

(***************************************************************************)
(* The environment.                                                        *)
(***************************************************************************)

\* SIGINT once CommandInterrupt is installed.  Earlier it kills.
Interrupt(p) ==
    /\ pc[p] \in {"launch", "launched", "wait", "ready"}
    /\ Op(p) \in Servers
    /\ ~sigint[p]
    /\ sigint' = [sigint EXCEPT ![p] = TRUE]
    /\ UNCHANGED <<holders, shared, pc, job, seen, volumeBefore, result>>

\* The process is killed and the kernel drops its lock.  A podman run it
\* was waiting for goes on by itself.
Kill(p) ==
    /\ p \in Killable
    /\ pc[p] \notin {"new", "orphan", "done"}
    /\ Goto(p, IF pc[p] = "launch" THEN "orphan" ELSE "done")
    /\ result' = [result EXCEPT ![p] = "killed"]
    /\ IF p \in holders THEN Mutex!Release(p) ELSE UNCHANGED holders
    /\ UNCHANGED <<shared, locals>>

OrphanLaunch(p) ==
    /\ pc[p] = "orphan"
    /\ PodmanCreates(p) \/ UNCHANGED shared
    /\ Step(p, "done")
    /\ UNCHANGED locals

ServerExits ==
    /\ Running(box)
    /\ box' = Exited(box)
    /\ UNCHANGED <<holders, volume, tokenFile, pc, locals, result>>

\* --rm: podman's cleanup of an exited container.
Reap ==
    /\ box # None /\ ~Running(box)
    /\ box' = None
    /\ UNCHANGED <<holders, volume, tokenFile, pc, locals, result>>

\* The steps a command takes by itself.
Work(p) ==
    \/ ResolveStableId(p) \/ ResolveAll(p)
    \/ DiscoverForLaunch(p) \/ DiscoverForRestart(p)
    \/ DiscoverForStop(p) \/ DiscoverForConnect(p)
    \/ TruncateToken(p) \/ WriteToken(p) \/ RecordVolume(p)
    \/ PreparationFails(p)
    \/ RunDetached(p) \/ RunDetachedFails(p) \/ RunForeground(p)
    \/ AbortInterrupted(p) \/ WaitForServer(p)
    \/ ServerReady(p) \/ ReadinessFails(p) \/ ReportReady(p)
    \/ StopIgnore(p) \/ ContainerRemoved(p) \/ ContainerRemains(p)
    \/ RemoveToken(p) \/ RemoveVolume(p)

\* The user ends the client or the exec.
ClientEnds(p) == ClientExits(p) \/ ForegroundExits(p)

Command(p) ==
    \/ \E j \in Jobs : Invoke(p, j)
    \/ AcquireLock(p)
    \/ Work(p)
    \/ ClientEnds(p)

\* Every invocation has returned.
Terminated == (\A p \in Procs : pc[p] = "done") /\ UNCHANGED vars

Next ==
    \/ \E p \in Procs : Command(p) \/ Interrupt(p) \/ Kill(p) \/ OrphanLaunch(p)
    \/ ServerExits
    \/ Reap
    \/ Terminated

Spec == Init /\ [][Next]_vars

(***************************************************************************)
(* Fairness: a command takes its next step, its Podman calls and probes    *)
(* return (the readiness loop has a deadline), the workspace lock does not *)
(* starve a waiter (flock queues; WorkspaceLock!AcquireReturns), and the   *)
(* user ends the host client.  Servers, SIGINT and SIGKILL are not fair.   *)
(***************************************************************************)
FairSpec ==
    /\ Spec
    /\ \A p \in Procs :
          WF_vars(Work(p)) /\ SF_vars(AcquireLock(p)) /\ WF_vars(ClientEnds(p))

-----------------------------------------------------------------------------
(***************************************************************************)
(* Properties                                                              *)
(***************************************************************************)

\* The state is well typed, and a command is past its lock exactly while it
\* holds it.
TypeOK ==
    /\ holders \subseteq Procs
    /\ box \in Box \cup {None}
    /\ volume \in Procs \cup {Earlier, None}
    /\ tokenFile \in Procs \cup {Earlier, Empty, None}
    /\ pc \in [Procs -> PCs]
    /\ job \in [Procs -> Jobs \cup {None}]
    /\ seen \in [Procs -> Box \cup {None}]
    /\ volumeBefore \in [Procs -> BOOLEAN]
    /\ sigint \in [Procs -> BOOLEAN]
    /\ result \in [Procs -> Results]
    /\ \A p \in Procs :
          /\ pc[p] = "new" <=> job[p] = None
          /\ p \in holders <=> pc[p] \in LockedPCs

MadeBy(thing, p) == thing # None /\ thing.by = p

TreatedAsGone(p) ==
    \/ Op(p) = "stop" /\ pc[p] = "done" /\ result[p] = "ok"
    \/ Op(p) = "restart" /\ pc[p] \in {"launch", "launched", "wait", "ready"}

\* `stop` and `restart` treat a container as gone only after absence is
\* verified: once a stop reports success, or a restart launches, the
\* container it selected is not there, whatever Podman answered meanwhile.
VerifiedGone ==
    \A p \in Procs :
        TreatedAsGone(p) /\ seen[p] # None => ~MadeBy(box, seen[p].by)

\* An interrupted start that says it cleaned up left neither its container
\* nor a cache volume it created.
CleanedUpIsTrue ==
    \A p \in Procs : pc[p] = "done" /\ result[p] = "cleaned" =>
        ~MadeBy(box, p) /\ volume # p

\* A `run` whose launch did not fail leaves no container, unless it says so
\* or is killed: on success, client failure, failed readiness, and on an
\* interrupt even during the launch.  (A launch that fails without an
\* interrupt, "launch_failed", may leave its container: nothing looks.)
RunLeavesNothing ==
    \A p \in Procs :
        Op(p) = "run" /\ pc[p] = "done" /\ result[p] \in {"ok", "error"} =>
            ~MadeBy(box, p)

\* What a command reports is true although another one was killed at any
\* point and its podman run went on by itself: a stop that reports success,
\* a start that says it cleaned up and a run that got past its launch left
\* nothing behind.
ReportsAreTrue == VerifiedGone /\ CleanedUpIsTrue /\ RunLeavesNothing

\* Only a restart of that very session separates a managed Codex session
\* from its token file: no start, stop or failure of another command does.
TokenSettled ==
    Managed(box) /\ box.runtime = "codex" =>
        \/ tokenFile = box.by
        \/ \E q \in Procs :
              /\ Op(q) = "restart" /\ MadeBy(seen[q], box.by)
              /\ tokenFile \in {Empty, q}

\* A step of p that stops, or removes, the container.
Ends(p) == pc[p] = "stop" /\ pc'[p] = "verify" /\ box' # box

\* Only stop and restart end a managed session another command started.
SessionsAreSafe ==
    [][\A p \in Procs : Ends(p) /\ Managed(box) =>
          MadeBy(box, p) \/ Op(p) \in {"stop", "restart"}]_vars

\* "Every mutating lifecycle command must re-discover the relevant live
\* state after acquiring the lock": a restart, a stop of a directory and a
\* stop --all end the container they discovered under the lock, not one
\* that took its name.
EndsWhatItFound ==
    [][\A p \in Procs :
          Ends(p) /\ (Op(p) = "restart" \/ (Op(p) = "stop" /\ job[p].sel # "id"))
          => MadeBy(seen[p], box.by)]_vars

\* A cache volume is removed only by the invocation that created it.
VolumeIsPreserved ==
    [][volume' # volume /\ volume # None =>
          /\ volume' = None
          /\ volume \in Procs /\ pc[volume] = "volume_rm"]_vars

\* Every command returns, if the clients others hold the lock for do.
CommandsEnd ==
    \A p \in Procs : pc[p] # "new" ~> pc[p] \in {"done", "orphan"}

(***************************************************************************)
(* What the architecture notes say and the code does not do.               *)
(***************************************************************************)

\* "Explicit stable-id stops must re-discover exact live matches immediately
\* before stopping and must not broaden selection to name": when a stop by
\* id has the lock and goes on to stop the container with the name, that
\* container bears agentbox's labels, or is already gone.
StableIdStopIsExact ==
    [][\A p \in Procs :
          Op(p) = "stop" /\ pc[p] = "waiting" /\ pc'[p] = "stop" =>
              box = None \/ Labelled(box)]_vars

\* "a reported-ready Codex session has matching token state available for
\* later connect": a running session whose start reported ready has its
\* token whenever no command is at work.
ReadySessionHasToken ==
    (/\ Managed(box) /\ Running(box) /\ box.runtime = "codex"
     /\ holders = {}
     /\ box.by = Earlier \/ (box.by \in Procs /\ result[box.by] = "ok"))
    => tokenFile = box.by
=============================================================================
